--------------------------- MODULE LastUseProofs ----------------------------
(***************************************************************************)
(* Theorems about the life of an inode without names: it stays on disk as  *)
(* long as somebody uses it and is freed with its last use, and iput never *)
(* waits for the lock of an inode that only it refers to.                  *)
(***************************************************************************)
EXTENDS FileSystemProofs

-----------------------------------------------------------------------------
(* The references an inode must have, given who is seen to use it. *)

\* A finite set has at least the elements that are seen in it.
LEMMA TwoIn ==
  ASSUME NEW S, IsFiniteSet(S), NEW a, NEW b, a # b
  PROVE  /\ Cardinality(S) \in Nat /\ Cardinality(S \ {a, b}) \in Nat /\ IsFiniteSet(S \ {a, b})
         /\ Cardinality(S) = Cardinality(S \ {a, b}) + In(a, S) + In(b, S)
<1> DEFINE T == S \ {a, b}
<1>1. S \ {a, b} = T \ {a, b} /\ a \notin T /\ b \notin T  OBVIOUS
<1> HIDE DEF T
<1>2. /\ IsFiniteSet(T) /\ Cardinality(S) \in Nat /\ Cardinality(T) \in Nat
      /\ Cardinality(T) + In(a, S) + In(b, S) = Cardinality(S) + In(a, T) + In(b, T)
  BY ONLY <1>1, IsFiniteSet(S), a # b, TwoChanged
<1>3. In(a, T) = 0 /\ In(b, T) = 0  BY <1>1 DEF In
<1>4. In(a, S) \in Nat /\ In(b, S) \in Nat  BY DEF In
<1>5. /\ Cardinality(S) \in Nat /\ Cardinality(T) \in Nat /\ IsFiniteSet(T)
      /\ Cardinality(S) = Cardinality(T) + In(a, S) + In(b, S)
  BY ONLY <1>2, <1>3, <1>4
<1> QED  BY <1>5 DEF T

\* The frames of two processes, and the open files, have their references to an inode
\* counted apart.
LEMMA CountedTwice ==
  ASSUME Sane, NEW i \in Inum, NEW p \in Proc, NEW q \in Proc, p # q
  PROVE  k.ref[i] >= Cardinality(OpenFiles(k.file, i)) + Held(f[p], i) + Held(f[q], i)
<1> DEFINE C == {r \in Proc : cwd[r] = i}
           I == {r \in Proc : f[r].ip = i}
           D == {r \in Proc : f[r].dp = i}
           P == Pending(f, i)
           R == P \ {<<p, 1>>, <<p, 2>>}
           A == Cardinality(OpenFiles(k.file, i))
<1>1. k.ref[i] = A + Cardinality(C) + Cardinality(I) + Cardinality(D) + Cardinality(P)
  BY DEF Sane, CountsRight, Uses
<1>2. IsFiniteSet(I) /\ IsFiniteSet(D) /\ IsFiniteSet(C)  BY Numbers, FS_Subset
<1>3. /\ IsFiniteSet(P)
      /\ \A r \in Proc, n \in {1, 2} :
           <<r, n>> \in P <=> n \in DOMAIN f[r].puts /\ f[r].puts[n] = i
  BY PendingFinite DEF Sane, FrameInv
<1>4. A \in Nat  BY OpenFinite
<1>5. Cardinality(C) \in Nat  BY <1>2, FS_CardinalityType
<1>6. /\ In(p, I) = One(f[p].ip, i) /\ In(q, I) = One(f[q].ip, i)
      /\ In(p, D) = One(f[p].dp, i) /\ In(q, D) = One(f[q].dp, i)
  BY DEF In, One
<1>7. ASSUME NEW r \in Proc, NEW n \in {1, 2}  PROVE In(<<r, n>>, P) = One(PutAt(f[r], n), i)
  <2>1. <<r, n>> \in P <=> n \in DOMAIN f[r].puts /\ f[r].puts[n] = i  BY <1>3
  <2> QED  BY <2>1, Numbers DEF In, One, PutAt
<1>8. In(<<q, 1>>, R) = In(<<q, 1>>, P) /\ In(<<q, 2>>, R) = In(<<q, 2>>, P)  BY DEF In
<1> HIDE DEF C, I, D, P, R, A
<1>9. /\ Cardinality(I) \in Nat /\ Cardinality(I \ {p, q}) \in Nat
      /\ Cardinality(I) = Cardinality(I \ {p, q}) + In(p, I) + In(q, I)
  BY ONLY <1>2, p # q, TwoIn
<1>10. /\ Cardinality(D) \in Nat /\ Cardinality(D \ {p, q}) \in Nat
       /\ Cardinality(D) = Cardinality(D \ {p, q}) + In(p, D) + In(q, D)
  BY ONLY <1>2, p # q, TwoIn
<1>11. /\ Cardinality(P) \in Nat /\ Cardinality(R) \in Nat /\ IsFiniteSet(R)
       /\ Cardinality(P) = Cardinality(R) + In(<<p, 1>>, P) + In(<<p, 2>>, P)
  <2> DEFINE a == <<p, 1>>  b == <<p, 2>>
  <2>1. a # b /\ R = P \ {a, b}  BY DEF R
  <2> HIDE DEF a, b
  <2>2. /\ Cardinality(P) \in Nat /\ Cardinality(R) \in Nat /\ IsFiniteSet(R)
        /\ Cardinality(P) = Cardinality(R) + In(a, P) + In(b, P)
    BY ONLY <1>3, <2>1, TwoIn
  <2> QED  BY <2>2 DEF a, b
<1>12. /\ Cardinality(R) \in Nat
       /\ \E m \in Nat : Cardinality(R) = m + In(<<q, 1>>, R) + In(<<q, 2>>, R)
  <2> DEFINE a == <<q, 1>>  b == <<q, 2>>
  <2>1. a # b  OBVIOUS
  <2> HIDE DEF a, b
  <2>2. /\ Cardinality(R) \in Nat /\ Cardinality(R \ {a, b}) \in Nat
        /\ Cardinality(R) = Cardinality(R \ {a, b}) + In(a, R) + In(b, R)
    BY ONLY <1>11, <2>1, TwoIn
  <2> QED  BY <2>2 DEF a, b
<1>13. /\ In(<<p, 1>>, P) = One(PutAt(f[p], 1), i) /\ In(<<p, 2>>, P) = One(PutAt(f[p], 2), i)
       /\ In(<<q, 1>>, P) = One(PutAt(f[q], 1), i) /\ In(<<q, 2>>, P) = One(PutAt(f[q], 2), i)
  BY <1>7
<1>14. \A a, S : In(a, S) \in Nat  BY DEF In
<1>15. Held(f[p], i) = In(p, I) + In(p, D) + In(<<p, 1>>, P) + In(<<p, 2>>, P)
  BY ONLY <1>6, <1>13 DEF Held
<1>16. Held(f[q], i) = In(q, I) + In(q, D) + In(<<q, 1>>, R) + In(<<q, 2>>, R)
  BY ONLY <1>6, <1>8, <1>13 DEF Held
<1>17. PICK m \in Nat : Cardinality(R) = m + In(<<q, 1>>, R) + In(<<q, 2>>, R)  BY <1>12
<1>18. k.ref[i] >= A + Held(f[p], i) + Held(f[q], i)
  BY ONLY <1>1, <1>4, <1>5, <1>9, <1>10, <1>11, <1>14, <1>15, <1>16, <1>17, Z3
<1> QED  BY <1>18 DEF A

\* The same with one frame.
LEMMA CountedOnce ==
  ASSUME Sane, NEW i \in Inum, NEW p \in Proc
  PROVE  k.ref[i] >= Cardinality(OpenFiles(k.file, i)) + Held(f[p], i)
<1> DEFINE C == {r \in Proc : cwd[r] = i}
           I == {r \in Proc : f[r].ip = i}
           D == {r \in Proc : f[r].dp = i}
           P == Pending(f, i)
           A == Cardinality(OpenFiles(k.file, i))
<1>1. k.ref[i] = A + Cardinality(C) + Cardinality(I) + Cardinality(D) + Cardinality(P)
  BY DEF Sane, CountsRight, Uses
<1>2. IsFiniteSet(I) /\ IsFiniteSet(D) /\ IsFiniteSet(C)  BY Numbers, FS_Subset
<1>3. /\ IsFiniteSet(P)
      /\ \A r \in Proc, n \in {1, 2} :
           <<r, n>> \in P <=> n \in DOMAIN f[r].puts /\ f[r].puts[n] = i
  BY PendingFinite DEF Sane, FrameInv
<1>4. A \in Nat  BY OpenFinite
<1>5. Cardinality(C) \in Nat  BY <1>2, FS_CardinalityType
<1>6. In(p, I) = One(f[p].ip, i) /\ In(p, D) = One(f[p].dp, i)  BY DEF In, One
<1>7. ASSUME NEW n \in {1, 2}  PROVE In(<<p, n>>, P) = One(PutAt(f[p], n), i)
  <2>1. <<p, n>> \in P <=> n \in DOMAIN f[p].puts /\ f[p].puts[n] = i  BY <1>3
  <2> QED  BY <2>1, Numbers DEF In, One, PutAt
<1> HIDE DEF C, I, D, P, A
<1>8. p # 0  BY Numbers
<1>9. /\ Cardinality(I) \in Nat /\ Cardinality(I \ {p, 0}) \in Nat
      /\ Cardinality(I) = Cardinality(I \ {p, 0}) + In(p, I) + In(0, I)
  BY ONLY <1>2, <1>8, TwoIn
<1>10. /\ Cardinality(D) \in Nat /\ Cardinality(D \ {p, 0}) \in Nat
       /\ Cardinality(D) = Cardinality(D \ {p, 0}) + In(p, D) + In(0, D)
  BY ONLY <1>2, <1>8, TwoIn
<1>11. \E m \in Nat : Cardinality(P) = m + In(<<p, 1>>, P) + In(<<p, 2>>, P)
  <2> DEFINE a == <<p, 1>>  b == <<p, 2>>
  <2>1. a # b  OBVIOUS
  <2> HIDE DEF a, b
  <2>2. /\ Cardinality(P \ {a, b}) \in Nat
        /\ Cardinality(P) = Cardinality(P \ {a, b}) + In(a, P) + In(b, P)
    BY ONLY <1>3, <2>1, TwoIn
  <2> QED  BY <2>2 DEF a, b
<1>12. PICK m \in Nat : Cardinality(P) = m + In(<<p, 1>>, P) + In(<<p, 2>>, P)  BY <1>11
<1>13. \A a, S : In(a, S) \in Nat  BY DEF In
<1>14. In(<<p, 1>>, P) = One(PutAt(f[p], 1), i) /\ In(<<p, 2>>, P) = One(PutAt(f[p], 2), i)
  BY <1>7
<1>15. Held(f[p], i) = In(p, I) + In(p, D) + In(<<p, 1>>, P) + In(<<p, 2>>, P)
  BY ONLY <1>6, <1>14 DEF Held
<1>16. k.ref[i] >= A + Held(f[p], i)
  BY ONLY <1>1, <1>4, <1>5, <1>9, <1>10, <1>12, <1>13, <1>15, Z3
<1> QED  BY <1>16 DEF A
\* A call holds a reference to every inode it has locked, and a second one if it is
\* about to put that inode for another reason.
LEMMA LockHeld ==
  ASSUME NEW g, FrameOK(g), NEW i \in Inum, HasLocked(g, i)
  PROVE  /\ Held(g, i) >= 1
         /\ ~g.freeing /\ g.puts # <<>> /\ g.puts[1] = i => Held(g, i) >= 2
<1>1. /\ Held(g, i) = One(g.ip, i) + One(g.dp, i) + One(PutAt(g, 1), i) + One(PutAt(g, 2), i)
      /\ \A a : One(a, i) \in Nat
  BY HeldNat DEF Held
<1>2. ASSUME g.puts # <<>>  PROVE 1 \in DOMAIN g.puts
  <2>1. \A a : 1 \in DOMAIN <<a>>  OBVIOUS
  <2>2. \A a, b : 1 \in DOMAIN <<a, b>>  OBVIOUS
  <2> QED  BY <1>2, <2>1, <2>2 DEF FrameOK
<1>3. g.puts # <<>> /\ g.puts[1] = i => One(PutAt(g, 1), i) = 1  BY <1>2 DEF One, PutAt
<1>4. CASE g.ip = i \/ g.dp = i
  <2>1. One(g.ip, i) = 1 \/ One(g.dp, i) = 1  BY <1>4 DEF One
  <2> QED  BY ONLY <1>1, <1>3, <2>1
<1>5. CASE g.freeing /\ g.puts[1] = i
  <2>1. g.puts # <<>>  BY <1>5 DEF FrameOK
  <2> QED  BY ONLY <1>1, <1>3, <1>5, <2>1
<1> QED  BY <1>4, <1>5 DEF HasLocked

\* The first reference a frame is about to put is one it holds.
LEMMA FirstPutHeld ==
  ASSUME NEW g, FrameOK(g), NEW i \in Inum, g.puts # <<>>, g.puts[1] = i
  PROVE  Held(g, i) >= 1
<1>1. /\ Held(g, i) = One(g.ip, i) + One(g.dp, i) + One(PutAt(g, 1), i) + One(PutAt(g, 2), i)
      /\ \A a : One(a, i) \in Nat
  BY HeldNat DEF Held
<1>2. 1 \in DOMAIN g.puts
  <2>1. \A a : 1 \in DOMAIN <<a>>  OBVIOUS
  <2>2. \A a, b : 1 \in DOMAIN <<a, b>>  OBVIOUS
  <2> QED  BY <2>1, <2>2 DEF FrameOK
<1>3. One(PutAt(g, 1), i) = 1  BY <1>2 DEF One, PutAt
<1> QED  BY ONLY <1>1, <1>3

\* An inode in use by an open file is counted.
LEMMA OpenCounted ==
  ASSUME NEW file, NEW x \in 1 .. NFILE, file[x].type \in {"inode", "dev"}
  PROVE  Cardinality(OpenFiles(file, file[x].ip)) >= 1
<1> DEFINE S == OpenFiles(file, file[x].ip)
<1>1. IsFiniteSet(S) /\ Cardinality(S) \in Nat  BY OpenFinite
<1>2. S # {}  BY DEF OpenFiles
<1> HIDE DEF S
<1>3. Cardinality(S) # 0  BY <1>1, <1>2, FS_EmptySet
<1>4. Cardinality(S) >= 1  BY ONLY <1>1, <1>3
<1> QED  BY <1>4 DEF S

\* A locked inode, and the inode of an open file, have a reference.
LEMMA UsedCounted ==
  ASSUME Sane
  PROVE  /\ \A i \in Inum : k.lock[i] # 0 => k.ref[i] > 0
         /\ \A x \in 1 .. NFILE : k.file[x].type \in {"inode", "dev"} /\ k.file[x].ip \in Inum
                               => k.ref[k.file[x].ip] > 0
<1>0. FrameInv /\ LockInv /\ Good(k, Freed)  BY SaneGood DEF Sane
<1>1. ASSUME NEW i \in Inum, k.lock[i] # 0  PROVE k.ref[i] > 0
  <2>1. PICK p \in Proc : k.lock[i] = p /\ HasLocked(f[p], i)  BY <1>0, <1>1 DEF LockInv
  <2>2. FrameOK(f[p])  BY <1>0 DEF FrameInv
  <2>3. Held(f[p], i) >= 1 /\ Held(f[p], i) \in Nat  BY <2>1, <2>2, LockHeld, HeldNat
  <2>4. k.ref[i] >= Cardinality(OpenFiles(k.file, i)) + Held(f[p], i)  BY CountedOnce
  <2>5. Cardinality(OpenFiles(k.file, i)) \in Nat  BY OpenFinite
  <2>6. k.ref[i] \in Nat  BY <1>0 DEF Good
  <2> QED  BY ONLY <2>3, <2>4, <2>5, <2>6
<1>2. ASSUME NEW x \in 1 .. NFILE, k.file[x].type \in {"inode", "dev"}, k.file[x].ip \in Inum
      PROVE  k.ref[k.file[x].ip] > 0
  <2> DEFINE i == k.file[x].ip
  <2>1. Cardinality(OpenFiles(k.file, i)) >= 1  BY <1>2, OpenCounted
  <2>2. PICK p \in Proc : TRUE  BY Numbers
  <2>3. k.ref[i] >= Cardinality(OpenFiles(k.file, i)) + Held(f[p], i)  BY <1>2, CountedOnce
  <2>4. Cardinality(OpenFiles(k.file, i)) \in Nat /\ Held(f[p], i) \in Nat  BY OpenFinite, HeldNat
  <2>5. k.ref[i] \in Nat  BY <1>0, <1>2 DEF Good
  <2> QED  BY ONLY <2>1, <2>3, <2>4, <2>5
<1> QED  BY <1>1, <1>2

\* An inode with a put pending and one reference is not locked but by that put, and no
\* open file refers to it.
LEMMA LastPut ==
  ASSUME Sane, NEW p \in Proc, f[p].puts # <<>>, f[p].puts[1] \in Inum, k.ref[f[p].puts[1]] = 1
  PROVE  /\ ~f[p].freeing => k.lock[f[p].puts[1]] = 0
         /\ \A x \in 1 .. NFILE : k.file[x].type \in {"inode", "dev"} => k.file[x].ip # f[p].puts[1]
<1> DEFINE i == f[p].puts[1]
           A == Cardinality(OpenFiles(k.file, i))
<1>1. FrameInv /\ LockInv  BY DEF Sane
<1>2. FrameOK(f[p])  BY <1>1 DEF FrameInv
<1>3. A \in Nat /\ \A q \in Proc : Held(f[q], i) \in Nat  BY OpenFinite, HeldNat
<1>4. Held(f[p], i) >= 1  BY <1>2, FirstPutHeld
<1>5. k.ref[i] >= A + Held(f[p], i)  BY CountedOnce
<1>6. ASSUME ~f[p].freeing, k.lock[i] # 0  PROVE FALSE
  <2>1. PICK q \in Proc : HasLocked(f[q], i)  BY <1>1, <1>6 DEF LockInv
  <2>2. FrameOK(f[q])  BY <1>1 DEF FrameInv
  <2>3. Held(f[q], i) >= 1  BY <2>1, <2>2, LockHeld
  <2>4. CASE q = p
    <3>1. Held(f[p], i) >= 2  BY <1>2, <1>6, <2>1, <2>4, LockHeld
    <3> QED  BY ONLY <1>3, <1>5, <3>1, k.ref[i] = 1, p \in Proc
  <2>5. CASE q # p
    <3>1. k.ref[i] >= A + Held(f[p], i) + Held(f[q], i)  BY <2>5, CountedTwice
    <3> QED  BY ONLY <1>3, <1>4, <2>3, <3>1, k.ref[i] = 1, p \in Proc, q \in Proc
  <2> QED  BY <2>4, <2>5
<1>7. ASSUME NEW x \in 1 .. NFILE, k.file[x].type \in {"inode", "dev"}, k.file[x].ip = i  PROVE FALSE
  <2>1. A >= 1
    <3>1. Cardinality(OpenFiles(k.file, k.file[x].ip)) >= 1  BY <1>7, OpenCounted
    <3> QED  BY <1>7, <3>1
  <2> QED  BY ONLY <1>3, <1>4, <1>5, <2>1, k.ref[i] = 1, p \in Proc
<1> QED  BY <1>6, <1>7
-----------------------------------------------------------------------------
(* What the helpers of fs.c do to an inode on disk. *)

\* Entries that are loaded stay so, and the inodes that change on disk are loaded or,
\* in create, new.
Moved(s, t, freed, new) ==
  /\ t.lost = s.lost
  /\ \A j \in Inum :
       /\ Loaded(s, freed, j) => Loaded(t, freed, j)
       /\ t.ino[j] = s.ino[j] \/ Loaded(t, freed, j) \/ j = new

\* Two such steps in a row.
LEMMA MovedTrans ==
  ASSUME NEW r, NEW s, NEW t, NEW freed, NEW new, Moved(r, s, freed, new), Moved(s, t, freed, new)
  PROVE  Moved(r, t, freed, new)
BY DEF Moved

\* A step that leaves inodes, counts and valid flags alone.
LEMMA MovedSame ==
  ASSUME NEW s, NEW t, NEW freed, NEW new,
         t.lost = s.lost, t.ino = s.ino, t.ref = s.ref, t.valid = s.valid
  PROVE  Moved(s, t, freed, new)
BY DEF Moved, Loaded

\* Taking or giving back a lock.
LEMMA LockMoved ==
  ASSUME NEW s, NEW freed, Good(s, freed), NEW i, NEW v, NEW new
  PROVE  Moved(s, [s EXCEPT !.lock[i] = v], freed, new)
<1> DEFINE t == [s EXCEPT !.lock[i] = v]
<1>1. t.lost = s.lost /\ t.ino = s.ino /\ t.ref = s.ref /\ t.valid = s.valid
  BY Shape DEF Good, TablesOK
<1> HIDE DEF t
<1>2. Moved(s, t, freed, new)  BY <1>1, MovedSame
<1> QED  BY <1>2 DEF t

\* The same of two locks.
LEMMA LocksMoved ==
  ASSUME NEW s, NEW freed, Good(s, freed), NEW i, NEW v, NEW j, NEW w, NEW new
  PROVE  Moved(s, [s EXCEPT !.lock[i] = v, !.lock[j] = w], freed, new)
<1> DEFINE t == [s EXCEPT !.lock[i] = v, !.lock[j] = w]
<1>1. t.lost = s.lost /\ t.ino = s.ino /\ t.ref = s.ref /\ t.valid = s.valid
  BY Shape DEF Good, TablesOK
<1> HIDE DEF t
<1>2. Moved(s, t, freed, new)  BY <1>1, MovedSame
<1> QED  BY <1>2 DEF t

\* A panic.
LEMMA PanicMoved ==
  ASSUME NEW s, NEW freed, Good(s, freed), NEW msg, NEW new
  PROVE  Moved(s, Panic(s, msg), freed, new)
<1> DEFINE t == Panic(s, msg)
<1>1. t.lost = s.lost /\ t.ino = s.ino /\ t.ref = s.ref /\ t.valid = s.valid
  BY Shape DEF Good, TablesOK, Panic
<1> HIDE DEF t
<1>2. Moved(s, t, freed, new)  BY <1>1, MovedSame
<1> QED  BY <1>2 DEF t

\* ilock leaves the inode loaded unless it panics.
LEMMA IlockMoved ==
  ASSUME NEW s, NEW freed, Good(s, freed), NEW i, NEW new
  PROVE  LET t == Ilock(s, i)
         IN /\ Moved(s, t, freed, new)
            /\ t.panic = "" /\ i \in Inum \ freed => Loaded(t, freed, i)
<1> DEFINE t == [s EXCEPT !.mem[i] = s.ino[i], !.valid[i] = TRUE]
<1>1. Moved(s, s, freed, new)  BY DEF Moved
<1>2. i \in Inum => s.ref[i] \in Nat  BY DEF Good
<1>3. CASE s.ref[i] < 1
  <2>1. Ilock(s, i) = Panic(s, "ilock")  BY <1>3 DEF Ilock
  <2>2. Panic(s, "ilock").panic # ""  BY PanicKeeps
  <2>3. Moved(s, Panic(s, "ilock"), freed, new)  BY PanicMoved
  <2> QED  BY ONLY <2>1, <2>2, <2>3
<1>4. CASE ~(s.ref[i] < 1) /\ s.valid[i]
  <2>1. Ilock(s, i) = s  BY <1>4 DEF Ilock
  <2>2. i \in Inum => s.ref[i] > 0  BY ONLY <1>2, <1>4
  <2>3. i \in Inum \ freed => Loaded(s, freed, i)  BY ONLY <1>4, <2>2, Zenon DEF Loaded
  <2> QED  BY ONLY <1>1, <2>1, <2>3
<1>5. CASE ~(s.ref[i] < 1) /\ ~s.valid[i]
  <2>1. /\ DOMAIN t = DOMAIN s /\ t.lost = s.lost /\ t.ino = s.ino /\ t.ref = s.ref
        /\ \A j \in Inum : t.valid[j] = IF j = i THEN TRUE ELSE s.valid[j]
    BY Shape DEF Good, TablesOK
  <2>2. Ilock(s, i) = t \/ Ilock(s, i) = Panic(t, "ilock: no type")  BY <1>5 DEF Ilock
  <2> HIDE DEF t
  <2>3. DOMAIN s = DOMAIN Blank  BY DEF Good, TablesOK
  <2>4. LET u == Panic(t, "ilock: no type")
        IN u.lost = t.lost /\ u.ino = t.ino /\ u.ref = t.ref /\ u.valid = t.valid
    BY ONLY <2>1, <2>3, Shape DEF Panic
  <2>5. ASSUME NEW u, u.lost = t.lost, u.ino = t.ino, u.ref = t.ref, u.valid = t.valid
        PROVE  /\ Moved(s, u, freed, new)
               /\ i \in Inum \ freed => Loaded(u, freed, i)
    <3>1. i \in Inum => s.ref[i] > 0  BY ONLY <1>2, <1>5
    <3>2. i \in Inum => u.valid[i]  BY ONLY <2>1, <2>5
    <3>3. \A j \in Inum : j # i => u.valid[j] = s.valid[j]  BY ONLY <2>1, <2>5
    <3>4. u.ref = s.ref /\ u.ino = s.ino /\ u.lost = s.lost  BY ONLY <2>1, <2>5
    <3> QED  BY ONLY <3>1, <3>2, <3>3, <3>4, Zenon DEF Moved, Loaded
  <2>6. Moved(s, t, freed, new) /\ (i \in Inum \ freed => Loaded(t, freed, i))  BY ONLY <2>5
  <2>7. LET u == Panic(t, "ilock: no type")
        IN Moved(s, u, freed, new) /\ (i \in Inum \ freed => Loaded(u, freed, i))
    BY ONLY <2>4, <2>5
  <2> QED  BY ONLY <2>2, <2>6, <2>7
<1> QED  BY <1>3, <1>4, <1>5

\* iget takes a new entry only for an inode that nobody uses.
LEMMA IgetMoved ==
  ASSUME NEW s, NEW freed, Good(s, freed), NEW i, NEW new
  PROVE  Moved(s, Iget(s, i), freed, new)
<1>0. \A j \in Inum : s.ref[j] \in Nat  BY DEF Good
<1>1. CASE s.ref[i] > 0
  <2> DEFINE t == [s EXCEPT !.ref[i] = @ + 1]
  <2>1. /\ t.lost = s.lost /\ t.ino = s.ino /\ t.valid = s.valid
        /\ \A j \in Inum : t.ref[j] = IF j = i THEN s.ref[i] + 1 ELSE s.ref[j]
    BY Shape DEF Good, TablesOK
  <2>2. Iget(s, i) = t  BY <1>1 DEF Iget
  <2> HIDE DEF t
  <2>3. Moved(s, t, freed, new)  BY ONLY <1>0, <2>1 DEF Moved, Loaded
  <2> QED  BY <2>2, <2>3
<1>2. CASE ~(s.ref[i] > 0) /\ TableFull(s)
  <2>1. Iget(s, i) = Panic(s, "iget: no inodes")  BY <1>2 DEF Iget
  <2> QED  BY <2>1, PanicMoved
<1>3. CASE ~(s.ref[i] > 0) /\ ~TableFull(s)
  <2> DEFINE t == [s EXCEPT !.ref[i] = 1, !.valid[i] = FALSE]
  <2>1. /\ t.lost = s.lost /\ t.ino = s.ino
        /\ \A j \in Inum : t.ref[j] = IF j = i THEN 1 ELSE s.ref[j]
        /\ \A j \in Inum : t.valid[j] = IF j = i THEN FALSE ELSE s.valid[j]
    BY Shape DEF Good, TablesOK
  <2>2. Iget(s, i) = t  BY <1>3 DEF Iget
  <2> HIDE DEF t
  <2>3. Moved(s, t, freed, new)  BY ONLY <1>0, <1>3, <2>1 DEF Moved, Loaded
  <2> QED  BY <2>2, <2>3
<1> QED  BY <1>1, <1>2, <1>3

\* idup.
LEMMA IdupMoved ==
  ASSUME NEW s, NEW freed, Good(s, freed), NEW i, NEW new
  PROVE  Moved(s, Idup(s, i), freed, new)
<1>0. \A j \in Inum : s.ref[j] \in Nat  BY DEF Good
<1> DEFINE t == [s EXCEPT !.ref[i] = @ + 1]
<1>1. /\ t.lost = s.lost /\ t.ino = s.ino /\ t.valid = s.valid
      /\ \A j \in Inum : t.ref[j] = IF j = i THEN s.ref[i] + 1 ELSE s.ref[j]
  BY Shape DEF Good, TablesOK
<1>2. Idup(s, i) = t  BY DEF Idup
<1> HIDE DEF t
<1>3. Moved(s, t, freed, new)  BY ONLY <1>0, <1>1 DEF Moved, Loaded
<1> QED  BY <1>2, <1>3

\* ialloc changes one inode that was free on disk.
LEMMA IallocMoved ==
  ASSUME NEW s, NEW freed, Good(s, freed), NEW type
  PROVE  LET a == Ialloc(s, type) IN a.ip # 0 => Moved(s, a.s, freed, a.ip)
<1> DEFINE free == {i \in Inum : s.ino[i].type = "none"}
           m == Min(free)
           t == [s EXCEPT !.ino[m] = [None EXCEPT !.type = type]]
<1>1. CASE free = {}  BY <1>1 DEF Ialloc
<1>2. CASE free # {}
  <2>1. m \in free
    <3>1. free \in SUBSET Nat  BY DEF Inum
    <3> QED  BY ONLY <1>2, <3>1, MinIn
  <2>2. Ialloc(s, type).s = Iget(t, m) /\ Ialloc(s, type).ip = m  BY <1>2 DEF Ialloc
  <2>3. m \in Inum /\ s.ino[m].type = "none"  BY <2>1
  <2> HIDE DEF free, m
  <2>4. /\ DOMAIN t = DOMAIN s /\ t.ref = s.ref /\ t.lock = s.lock /\ t.lost = s.lost /\ t.file = s.file
        /\ t.panic = s.panic /\ t.mem = s.mem /\ t.valid = s.valid /\ DOMAIN t.ino = Inum
        /\ \A j \in Inum : t.ino[j] = IF j = m THEN [None EXCEPT !.type = type] ELSE s.ino[j]
    BY Shape DEF Good, TablesOK
  <2>5. DOMAIN [None EXCEPT !.type = type] = DOMAIN None  OBVIOUS
  <2> HIDE DEF t
  <2>6. TablesOK(t)
    <3>1. ASSUME NEW j \in Inum  PROVE DOMAIN t.ino[j] = DOMAIN None
      <4>1. t.ino[j] = [None EXCEPT !.type = type] \/ t.ino[j] = s.ino[j]  BY <2>4
      <4> QED  BY <2>5, <4>1 DEF Good, TablesOK
    <3> QED  BY <2>4, <3>1 DEF Good, TablesOK
  <2>7. CacheOK(s, freed) => CacheOK(t, freed)  BY <2>3, <2>4 DEF CacheOK
  <2>8. Good(t, freed)  BY <2>4, <2>6, <2>7 DEF Good
  <2>9. Moved(t, Iget(t, m), freed, m)  BY ONLY <2>8, IgetMoved
  <2>10. Moved(s, t, freed, m)  BY ONLY <2>4 DEF Moved, Loaded
  <2>11. Moved(s, Iget(t, m), freed, m)  BY ONLY <2>9, <2>10, MovedTrans, Zenon
  <2> QED  BY ONLY <2>2, <2>11
<1> QED  BY <1>1, <1>2

\* An inode that is loaded is changed and written through.
LEMMA UpdatedMoved ==
  ASSUME NEW s, NEW freed, Good(s, freed), NEW i, i \in Inum => Loaded(s, freed, i), NEW ip, NEW new
  PROVE  Moved(s, Updated(s, i, ip), freed, new)
<1> DEFINE t == Updated(s, i, ip)
<1>1. /\ t.lost = s.lost /\ t.ref = s.ref /\ t.valid = s.valid
      /\ t.ino = [s.ino EXCEPT ![i] = t.mem[i]]
  BY Shape DEF Good, TablesOK, Updated, Iupdate
<1>2. DOMAIN s.ino = Inum  BY DEF Good, TablesOK
<1> HIDE DEF t
<1>3. \A j \in Inum : j # i => t.ino[j] = s.ino[j]  BY <1>1, <1>2
<1>4. Moved(s, t, freed, new)  BY ONLY <1>1, <1>3, i \in Inum => Loaded(s, freed, i) DEF Moved, Loaded
<1> QED  BY <1>4 DEF t

\* itrunc.
LEMMA ItruncMoved ==
  ASSUME NEW s, NEW freed, Good(s, freed), NEW i, i \in Inum => Loaded(s, freed, i), NEW new
  PROVE  Moved(s, Itrunc(s, i), freed, new)
<1> DEFINE gone == Truncated(s, i)
           t == IF gone \subseteq s.used THEN s ELSE Panic(s, "freeing free block")
           u == [t EXCEPT !.used = @ \ gone]
           ip == [t.mem[i] EXCEPT !.addrs = None.addrs, !.size = 0]
<1>1. Itrunc(s, i) = Updated(u, i, ip)  BY DEF Itrunc
<1> HIDE DEF gone
<1>2. Good(t, freed)  BY PanicKeeps
<1>3. Moved(s, t, freed, new)
  <2>1. Moved(s, s, freed, new)  BY DEF Moved
  <2> QED  BY <2>1, PanicMoved
<1> HIDE DEF t
<1>4. /\ DOMAIN u = DOMAIN t /\ u.ref = t.ref /\ u.file = t.file /\ u.lock = t.lock /\ u.lost = t.lost
      /\ u.panic = t.panic /\ u.mem = t.mem /\ u.valid = t.valid /\ u.ino = t.ino
  BY <1>2, Shape DEF Good, TablesOK
<1> HIDE DEF u, ip
<1>5. Good(u, freed)  BY ONLY <1>2, <1>4 DEF Good, TablesOK, CacheOK
<1>6. Moved(t, u, freed, new)  BY ONLY <1>4, MovedSame
<1>7. Moved(s, u, freed, new)  BY ONLY <1>3, <1>6, MovedTrans, Zenon
<1>8. i \in Inum => Loaded(u, freed, i)  BY <1>7 DEF Moved
<1>9. Moved(u, Updated(u, i, ip), freed, new)  BY ONLY <1>5, <1>8, UpdatedMoved
<1>10. Moved(s, Updated(u, i, ip), freed, new)  BY ONLY <1>7, <1>9, MovedTrans, Zenon
<1> QED  BY <1>1, <1>10

\* writei.
LEMMA WriteiMoved ==
  ASSUME NEW s, NEW freed, Good(s, freed), NEW i, i \in Inum => Loaded(s, freed, i),
         NEW off, NEW n, NEW v, NEW bad, NEW new
  PROVE  Moved(s, Writei(s, i, off, n, v, bad).s, freed, new)
<1> DEFINE w == Writei(s, i, off, n, v, bad)
<1>1. CASE w.s = s  BY <1>1 DEF Moved
<1>2. ASSUME NEW used, NEW blk, NEW ip, w.s = Updated([s EXCEPT !.used = used, !.blk = blk], i, ip)
      PROVE  Moved(s, w.s, freed, new)
  <2> DEFINE u == [s EXCEPT !.used = used, !.blk = blk]
  <2>1. /\ DOMAIN u = DOMAIN s /\ u.ref = s.ref /\ u.file = s.file /\ u.lock = s.lock /\ u.lost = s.lost
        /\ u.panic = s.panic /\ u.mem = s.mem /\ u.valid = s.valid /\ u.ino = s.ino
    BY Shape DEF Good, TablesOK
  <2>2. w.s = Updated(u, i, ip)  BY <1>2
  <2> HIDE DEF u, w
  <2>3. Good(u, freed)  BY ONLY Good(s, freed), <2>1 DEF Good, TablesOK, CacheOK
  <2>4. Moved(s, u, freed, new)  BY ONLY <2>1, MovedSame
  <2>5. i \in Inum => Loaded(u, freed, i)  BY <2>4 DEF Moved
  <2>6. Moved(u, Updated(u, i, ip), freed, new)  BY ONLY <2>3, <2>5, UpdatedMoved
  <2>7. Moved(s, Updated(u, i, ip), freed, new)  BY ONLY <2>4, <2>6, MovedTrans, Zenon
  <2> QED  BY ONLY <2>2, <2>7
<1>3. \/ w.s = s
      \/ \E used, blk, ip : w.s = Updated([s EXCEPT !.used = used, !.blk = blk], i, ip)
  BY DEF Writei
<1> QED  BY <1>1, <1>2, <1>3

\* dirlink.
LEMMA DirlinkMoved ==
  ASSUME NEW s, NEW freed, Good(s, freed), NEW i, i \in Inum => Loaded(s, freed, i),
         NEW name, NEW inum, NEW new
  PROVE  Moved(s, Dirlink(s, i, name, inum).s, freed, new)
<1> DEFINE w == Writei(s, i, DirPlace(Entries(s, s.mem[i])), 1, <<inum, name>>, FALSE)
           d == Dirlink(s, i, name, inum)
<1>1. Moved(s, w.s, freed, new)  BY WriteiMoved
<1>2. Moved(s, s, freed, new)  BY DEF Moved
<1>3. /\ w = Writei(s, i, DirPlace(Entries(s, s.mem[i])), 1, <<inum, name>>, FALSE)
      /\ d = Dirlink(s, i, name, inum)
  OBVIOUS
<1> HIDE DEF w, d
<1>4. d = [s |-> s, ok |-> FALSE] \/ d = [s |-> w.s, ok |-> w.r = 1]
  BY ONLY <1>3, ZenonT(60) DEF Dirlink
<1>5. d.s = s \/ d.s = w.s  BY ONLY <1>4
<1>6. Moved(s, d.s, freed, new)  BY <1>1, <1>2, <1>5
<1> QED  BY <1>6 DEF d

\* create's entries.
LEMMA AddMoved ==
  ASSUME NEW r, NEW freed, Good(r.s, freed), NEW i, i \in Inum => Loaded(r.s, freed, i),
         NEW name, NEW inum, NEW new
  PROVE  LET a == IF r.ok THEN Dirlink(r.s, i, name, inum) ELSE r
         IN Moved(r.s, a.s, freed, new)
<1>1. Moved(r.s, Dirlink(r.s, i, name, inum).s, freed, new)  BY DirlinkMoved
<1>2. Moved(r.s, r.s, freed, new)  BY DEF Moved
<1> QED  BY <1>1, <1>2
-----------------------------------------------------------------------------
(* What each step has to show. *)

\* Nobody frees an inode that is not locked.
LEMMA NotFreed ==
  ASSUME Sane, NEW i \in Inum, k.lock[i] = 0
  PROVE  i \notin Freed
<1>1. \A q \in Proc : ~HasLocked(f[q], i)  BY Numbers DEF Sane, LockInv
<1> QED  BY <1>1 DEF Freed, HasLocked

\* A call at a label has loaded what it has locked.
LEMMA MineLoaded ==
  ASSUME Sane, Kept, NEW p \in Proc, f[p].puts = <<>>, NEW i \in Inum, k.lock[i] = p
  PROVE  Loaded(k, Freed, i)
<1>1. FrameOK(f[p]) /\ LockInv  BY DEF Sane, FrameInv
<1>2. ~f[p].freeing  BY <1>1 DEF FrameOK
<1>3. i \notin Freed
  <2>1. ASSUME NEW q \in Proc, f[q].freeing, f[q].puts[1] = i  PROVE FALSE
    <3>1. k.lock[i] = q  BY <1>1, <2>1 DEF LockInv, HasLocked
    <3> QED  BY <1>2, <2>1, <3>1
  <2> QED  BY <2>1 DEF Freed
<1>4. k.lock[i] # 0  BY Numbers
<1> QED  BY <1>3, <1>4 DEF Kept, LocksLoaded

\* ilock on an inode that is not locked.
LEMMA IlockFacts ==
  ASSUME Sane, NEW i, Unlocked(i), NEW new
  PROVE  LET s == Ilock(k, i)
         IN /\ Good(s, Freed) /\ Keeps(k, s) /\ Moved(k, s, Freed, new)
            /\ s.panic = "" => (i \in Inum => Loaded(s, Freed, i))
<1>1. Good(k, Freed)  BY SaneGood
<1>2. Good(Ilock(k, i), Freed) /\ Keeps(k, Ilock(k, i))  BY <1>1, IlockKeeps
<1>3. LET t == Ilock(k, i)
      IN /\ Moved(k, t, Freed, new)
         /\ t.panic = "" /\ i \in Inum \ Freed => Loaded(t, Freed, i)
  BY ONLY <1>1, IlockMoved
<1>4. i \in Inum => i \notin Freed  BY NotFreed DEF Unlocked
<1> QED  BY ONLY <1>2, <1>3, <1>4

\* The files that are open on inodes after a step were open on them before, or their
\* inodes are loaded.
FilesMoved(a, t, freed) ==
  \A x \in 1 .. NFILE : t.file[x].type \in {"inode", "dev"} /\ t.file[x].ip \in Inum =>
    \/ a[x].type \in {"inode", "dev"} /\ a[x].ip = t.file[x].ip
    \/ Loaded(t, freed, t.file[x].ip)

\* The same of the locks.
LocksTaken(a, t, freed) ==
  \A j \in Inum : t.lock[j] = 0 \/ t.lock[j] = a[j] \/ Loaded(t, freed, j)

\* A step of p that frees nothing.
LEMMA KeptStep ==
  ASSUME Kept, NEW p \in Proc, \A q \in Proc \ {p} : f'[q] = f[q], Freed' = Freed,
         NEW new, Moved(k, k', Freed, new), new = 0 \/ Making(f'[p], new),
         f[p].pc = "new" /\ f[p].ip \in Inum => Loaded(k', Freed, f[p].ip),
         LocksTaken(k.lock, k', Freed), FilesMoved(k.file, k', Freed), InOperation(f'[p])
  PROVE  Kept'
<1>0. LocksLoaded /\ FilesLoaded /\ OperationsOpen /\ OrphansKept  BY DEF Kept
<1>1. LocksLoaded'
  <2> SUFFICES ASSUME NEW j \in Inum, k'.lock[j] # 0
               PROVE  j \in Freed' \/ Loaded(k', Freed', j)
    BY DEF LocksLoaded
  <2>1. k.lock[j] # 0 \/ Loaded(k', Freed, j)  BY DEF LocksTaken
  <2> QED  BY <1>0, <2>1 DEF LocksLoaded, Moved
<1>2. FilesLoaded'
  <2> SUFFICES ASSUME NEW x \in 1 .. NFILE, k'.file[x].type \in {"inode", "dev"},
                      k'.file[x].ip \in Inum
               PROVE  Loaded(k', Freed', k'.file[x].ip)
    BY DEF FilesLoaded
  <2>1. \/ k.file[x].type \in {"inode", "dev"} /\ k.file[x].ip = k'.file[x].ip
        \/ Loaded(k', Freed, k'.file[x].ip)
    BY DEF FilesMoved
  <2>2. k.file[x].type \in {"inode", "dev"} /\ k.file[x].ip \in Inum => Loaded(k, Freed, k.file[x].ip)
    BY <1>0 DEF FilesLoaded
  <2>3. \A j \in Inum : Loaded(k, Freed, j) => Loaded(k', Freed, j)  BY DEF Moved
  <2> QED  BY ONLY <2>1, <2>2, <2>3, Freed' = Freed, k'.file[x].ip \in Inum
<1>3. OperationsOpen'  BY <1>0 DEF OperationsOpen
<1>4. OrphansKept'
  <2> SUFFICES ASSUME NEW j \in Inum, Orphan(k'.ino[j])
               PROVE  j \in k'.lost \/ Loaded(k', Freed', j) \/ \E q \in Proc : Making(f'[q], j)
    BY DEF OrphansKept
  <2>1. /\ k'.lost = k.lost
        /\ Loaded(k, Freed, j) => Loaded(k', Freed, j)
        /\ k'.ino[j] = k.ino[j] \/ Loaded(k', Freed, j) \/ j = new
    BY DEF Moved
  <2>2. CASE Loaded(k', Freed, j)  BY <2>2
  <2>3. CASE j = new
    <3>1. Making(f'[p], j)  BY <2>3, Numbers
    <3> QED  BY <3>1
  <2>4. CASE k'.ino[j] = k.ino[j]
    <3>1. j \in k.lost \/ Loaded(k, Freed, j) \/ \E q \in Proc : Making(f[q], j)
      BY <1>0, <2>4 DEF OrphansKept
    <3>2. ASSUME NEW q \in Proc, Making(f[q], j)
          PROVE  Loaded(k', Freed', j) \/ Making(f'[q], j)
      <4>1. CASE q = p  BY <3>2, <4>1 DEF Making
      <4>2. CASE q # p  BY <3>2, <4>2
      <4> QED  BY <4>1, <4>2
    <3> QED  BY <2>1, <3>1, <3>2
  <2> QED  BY <2>1, <2>2, <2>3, <2>4
<1> QED  BY <1>1, <1>2, <1>3, <1>4 DEF Kept

\* A step at a label other than create's, after which p frees nothing.
LEMMA KeptPlain ==
  ASSUME Sane, Kept, NEW p \in Proc, f[p].puts = <<>>, f[p].pc # "new", DOMAIN f = Proc,
         NEW h, f' = [f EXCEPT ![p] = h], ~h.freeing, InOperation(h),
         Moved(k, k', Freed, 0), LocksTaken(k.lock, k', Freed), FilesMoved(k.file, k', Freed)
  PROVE  Kept'
<1>1. f'[p] = h /\ \A q \in Proc \ {p} : f'[q] = f[q]  OBVIOUS
<1>2. Freed' = Freed  BY <1>1, FreedSame DEF Sane
<1> QED  BY <1>1, <1>2, KeptStep

\* Files that do not change, and locks that do not.
LEMMA NothingTaken ==
  ASSUME NEW a, NEW t, NEW freed
  PROVE  /\ t.lock = a.lock => LocksTaken(a.lock, t, freed)
         /\ t.file = a.file => FilesMoved(a.file, t, freed)
         /\ SameFiles(a.file, t.file) => FilesMoved(a.file, t, freed)
BY DEF LocksTaken, FilesMoved, SameFiles

\* One lock is given back, or taken of an inode that is loaded.
LEMMA OneTaken ==
  ASSUME NEW a, NEW s, NEW t, NEW freed, NEW i, NEW v, s.lock = a.lock, Relocks(s, t, i, v),
         v = 0 \/ (i \in Inum => Loaded(t, freed, i))
  PROVE  LocksTaken(a.lock, t, freed)
BY DEF LocksTaken, Relocks

\* The frames of calls that return are outside of create.
LEMMA RetInOperation ==
  ASSUME NEW h, Returns(h)
  PROVE  ~h.freeing /\ InOperation(h)
BY DEF Returns, InOperation
-----------------------------------------------------------------------------
(* The steps. *)

\* Inside an operation any label will do.
LEMMA TxInOperation ==
  ASSUME NEW g, NEW h, g.tx, ~g.freeing, h.tx = g.tx, h.freeing = g.freeing
  PROVE  ~h.freeing /\ InOperation(h)
BY Zenon DEF InOperation

\* One turn of the loop of namex.
LEMMA NamexKept ==
  ASSUME Sane, Kept, NEW p \in Proc, Namex(p), k'.panic = ""
  PROVE  Kept'
<1> DEFINE g == f[p]
           s == Ilock(k, g.ip)
           fails == [g EXCEPT !.pc = g.to, !.ip = 0, !.puts = <<g.ip>>]
           next == Entries(s, s.mem[g.ip])[Dirlookup(s, s.mem[g.ip], Dirsiz(Head(g.path)))][1]
           found == [g EXCEPT !.pc = g.to]
           goes == [g EXCEPT !.ip = next, !.path = Tail(@), !.puts = <<g.ip>>]
<1>1. g.puts = <<>> /\ g.pc = "walk"  BY DEF Namex, At
<1>2. AtLabelFacts(p)  BY <1>1, AtLabel
<1>0. DOMAIN g = DOMAIN Idle /\ ~g.freeing /\ DOMAIN f = Proc /\ Good(k, Freed)
  BY <1>2 DEF AtLabelFacts
<1>3. g.tx  BY <1>1 DEF Kept, OperationsOpen, InOperation
<1>4. Good(s, Freed) /\ Keeps(k, s)  BY <1>0, IlockKeeps
<1>5. Moved(k, s, Freed, 0)  BY <1>0, IlockMoved
<1>6. k' = k \/ k' = s \/ k' = Iget(s, next)  BY Zenon DEF Namex, Step
<1>7. \/ f' = [f EXCEPT ![p] = fails] \/ f' = [f EXCEPT ![p] = found]
      \/ f' = [f EXCEPT ![p] = goes]
  BY Zenon DEF Namex, Step
<1> HIDE DEF s, next
<1>8. Grows(s, Iget(s, next), next)  BY <1>4, IgetGrows
<1>9. Moved(k, Iget(s, next), Freed, 0)
  <2>1. Moved(s, Iget(s, next), Freed, 0)  BY <1>4, IgetMoved
  <2> QED  BY <1>5, <2>1, MovedTrans
<1>10. Moved(k, k, Freed, 0)  BY DEF Moved
<1>11. k'.lock = k.lock /\ k'.file = k.file  BY <1>4, <1>6, <1>8 DEF Keeps, Grows
<1>12. Moved(k, k', Freed, 0)  BY <1>5, <1>6, <1>9, <1>10
<1>13. /\ fails.tx = g.tx /\ fails.freeing = g.freeing
       /\ found.tx = g.tx /\ found.freeing = g.freeing
       /\ goes.tx = g.tx /\ goes.freeing = g.freeing
  BY ONLY <1>0, FrameShape
<1> HIDE DEF fails, found, goes
<1>14. ASSUME NEW h, f' = [f EXCEPT ![p] = h], h.tx = g.tx, h.freeing = g.freeing
       PROVE  Kept'
  <2>1. ~h.freeing /\ InOperation(h)  BY ONLY <1>0, <1>3, <1>14, TxInOperation
  <2>2. g.pc # "new"  BY <1>1
  <2> QED  BY <1>0, <1>1, <1>11, <1>12, <1>14, <2>1, <2>2, KeptPlain, NothingTaken
<1> QED  BY ONLY <1>7, <1>13, <1>14

\* What the state after a step at a label has to show, and the frame of p.
StateKept(t) ==
  Moved(k, t, Freed, 0) /\ LocksTaken(k.lock, t, Freed) /\ FilesMoved(k.file, t, Freed)
Leaves(h) == ~h.freeing /\ InOperation(h)

\* Together they keep the invariant.
LEMMA LabelKept ==
  ASSUME Sane, Kept, NEW p \in Proc, f[p].puts = <<>>, f[p].pc # "new", StateKept(k'),
         NEW h, f' = [f EXCEPT ![p] = h], Leaves(h)
  PROVE  Kept'
<1>1. DOMAIN f = Proc  BY DEF Sane, FrameInv
<1> QED  BY <1>1, KeptPlain DEF StateKept, Leaves

\* The frames of calls that return.
LEMMA RetLeaves ==
  ASSUME NEW p \in Proc, AtLabelFacts(p)
  PROVE  \A n : /\ Leaves(Ret(f[p], n))
                /\ \A a : Leaves(Puts(Ret(f[p], n), <<a>>))
                /\ \A a, b : Leaves(Puts(Ret(f[p], n), <<a, b>>))
<1>1. DOMAIN f[p] = DOMAIN Idle /\ ~f[p].freeing /\ f[p].puts = <<>>  BY DEF AtLabelFacts
<1>2. ASSUME NEW n  PROVE Leaves(Ret(f[p], n))
  <2>1. Returns(Ret(f[p], n))  BY ONLY <1>1, RetFrame
  <2> QED  BY ONLY <2>1, RetInOperation DEF Leaves
<1>3. ASSUME NEW n, NEW a  PROVE Leaves(Puts(Ret(f[p], n), <<a>>))
  <2>1. Returns(Puts(Ret(f[p], n), <<a>>))  BY ONLY <1>1, RetOne
  <2> QED  BY ONLY <2>1, RetInOperation DEF Leaves
<1>4. ASSUME NEW n, NEW a, NEW b  PROVE Leaves(Puts(Ret(f[p], n), <<a, b>>))
  <2>1. Returns(Puts(Ret(f[p], n), <<a, b>>))  BY ONLY <1>1, RetTwo
  <2> QED  BY ONLY <2>1, RetInOperation DEF Leaves
<1> QED  BY ONLY <1>2, <1>3, <1>4

\* A frame that goes on to a label where it need not be in an operation.
LEMMA GoesLeaves ==
  ASSUME NEW g, ~g.freeing, NEW h, h.freeing = g.freeing, h.pc \notin {"walk", "create", "new", "old"}
  PROVE  Leaves(h)
BY Zenon DEF Leaves, InOperation

\* The state itself, and the state after ilock.
LEMMA IlockState ==
  ASSUME Sane, NEW i
  PROVE  StateKept(k) /\ StateKept(Ilock(k, i))
<1>1. Good(k, Freed)  BY SaneGood
<1>2. Moved(k, k, Freed, 0)  BY DEF Moved
<1>3. Moved(k, Ilock(k, i), Freed, 0)  BY <1>1, IlockMoved
<1>4. Keeps(k, Ilock(k, i))  BY <1>1, IlockKeeps
<1> DEFINE s == Ilock(k, i)
<1>5. s.lock = k.lock /\ s.file = k.file  BY <1>4 DEF Keeps
<1> HIDE DEF s
<1>6. LocksTaken(k.lock, s, Freed) /\ FilesMoved(k.file, s, Freed)  BY ONLY <1>5, NothingTaken
<1>7. LocksTaken(k.lock, k, Freed) /\ FilesMoved(k.file, k, Freed)  BY ONLY NothingTaken
<1> QED  BY ONLY <1>2, <1>3, <1>6, <1>7 DEF StateKept, s

\* The state after ilock, when the lock is kept.
LEMMA TakeState ==
  ASSUME Sane, NEW i, Unlocked(i), NEW p, NEW t, t = [Ilock(k, i) EXCEPT !.lock[i] = p], t.panic = ""
  PROVE  StateKept(t)
<1> DEFINE s == Ilock(k, i)
<1>1. /\ Good(s, Freed) /\ Keeps(k, s) /\ Moved(k, s, Freed, 0)
      /\ s.panic = "" => (i \in Inum => Loaded(s, Freed, i))
  BY IlockFacts
<1>2. t = [s EXCEPT !.lock[i] = p]  OBVIOUS
<1> HIDE DEF s
<1>3. Relocks(s, t, i, p)  BY ONLY <1>1, <1>2, LockKeeps
<1>4. Moved(s, t, Freed, 0)  BY ONLY <1>1, <1>2, LockMoved
<1>5. Moved(k, t, Freed, 0)  BY ONLY <1>1, <1>4, MovedTrans, Zenon
<1>6. s.lock = k.lock /\ t.file = k.file /\ s.panic = ""
  BY ONLY <1>1, <1>3, t.panic = "" DEF Keeps, Relocks
<1>7. i \in Inum => Loaded(t, Freed, i)  BY ONLY <1>1, <1>4, <1>6 DEF Moved
<1>8. LocksTaken(k.lock, t, Freed)  BY ONLY <1>3, <1>6, <1>7, OneTaken
<1>9. FilesMoved(k.file, t, Freed)  BY ONLY <1>6, NothingTaken
<1> QED  BY ONLY <1>5, <1>8, <1>9 DEF StateKept

\* sys_open without O_CREATE, and exec, after namei.
LEMMA OpenExistingKept ==
  ASSUME Sane, Kept, NEW p \in Proc, OpenExisting(p), k'.panic = ""
  PROVE  Kept'
<1> DEFINE g == f[p]
           s == Ilock(k, g.ip)
           t == [s EXCEPT !.lock[g.ip] = p]
           h == [g EXCEPT !.pc = "opened"]
<1>1. g.puts = <<>> /\ g.pc = "open"  BY DEF OpenExisting, At
<1>2. AtLabelFacts(p)  BY <1>1, AtLabel
<1>3. k' = k \/ k' = s \/ (k' = t /\ Unlocked(g.ip))  BY Zenon DEF OpenExisting, Step
<1>4. \/ f' = [f EXCEPT ![p] = Ret(g, -1)] \/ f' = [f EXCEPT ![p] = Puts(Ret(g, -1), <<g.ip>>)]
      \/ f' = [f EXCEPT ![p] = h]
  BY Zenon DEF OpenExisting, Step
<1>5. StateKept(k')  BY <1>3, IlockState, TakeState
<1>6. Leaves(h)
  <2>1. DOMAIN g = DOMAIN Idle /\ ~g.freeing  BY <1>2 DEF AtLabelFacts
  <2>2. h.freeing = g.freeing  BY ONLY <2>1, FrameShape
  <2>3. h.pc = "opened"  BY ONLY <2>1, FrameShape
  <2> QED  BY ONLY <2>1, <2>2, <2>3, GoesLeaves
<1>7. Leaves(Ret(g, -1)) /\ Leaves(Puts(Ret(g, -1), <<g.ip>>))  BY <1>2, RetLeaves
<1>8. g.pc # "new"  BY <1>1
<1> HIDE DEF h
<1> QED  BY ONLY Sane, Kept, p \in Proc, <1>1, <1>4, <1>5, <1>6, <1>7, <1>8, LabelKept

\* create, when the file is there already.
LEMMA CreateExistsKept ==
  ASSUME Sane, Kept, NEW p \in Proc, CreateExists(p), k'.panic = ""
  PROVE  Kept'
<1> DEFINE g == f[p]
           s == Ilock(k, g.ip)
           t == [s EXCEPT !.lock[g.ip] = p]
           h == [g EXCEPT !.pc = "opened"]
<1>1. g.puts = <<>> /\ g.pc = "exists"  BY DEF CreateExists, At
<1>2. AtLabelFacts(p)  BY <1>1, AtLabel
<1>3. k' = s \/ (k' = t /\ Unlocked(g.ip))  BY Zenon DEF CreateExists, Step
<1>4. \/ f' = [f EXCEPT ![p] = Puts(Ret(g, -1), <<g.ip>>)] \/ f' = [f EXCEPT ![p] = h]
  BY Zenon DEF CreateExists, Step
<1>5. StateKept(k')  BY <1>3, IlockState, TakeState
<1>6. Leaves(h)
  <2>1. DOMAIN g = DOMAIN Idle /\ ~g.freeing  BY <1>2 DEF AtLabelFacts
  <2>2. h.freeing = g.freeing  BY ONLY <2>1, FrameShape
  <2>3. h.pc = "opened"  BY ONLY <2>1, FrameShape
  <2> QED  BY ONLY <2>1, <2>2, <2>3, GoesLeaves
<1>7. Leaves(Puts(Ret(g, -1), <<g.ip>>))  BY <1>2, RetLeaves
<1>8. g.pc # "new"  BY <1>1
<1> HIDE DEF h
<1> QED  BY ONLY Sane, Kept, p \in Proc, <1>1, <1>4, <1>5, <1>6, <1>7, <1>8, LabelKept

\* exec reads the program.
LEMMA ReadProgramKept ==
  ASSUME Sane, Kept, NEW p \in Proc, ReadProgram(p), k'.panic = ""
  PROVE  Kept'
<1> DEFINE g == f[p]
<1>1. g.puts = <<>> /\ g.pc # "new"  BY DEF ReadProgram, At
<1>2. AtLabelFacts(p)  BY <1>1, AtLabel
<1>3. k' = k \/ k' = Ilock(k, g.ip)  BY Zenon DEF ReadProgram, Step
<1>4. \/ f' = [f EXCEPT ![p] = Ret(g, -1)]
      \/ \E n : f' = [f EXCEPT ![p] = Puts(Ret(g, n), <<g.ip>>)]
  BY Zenon DEF ReadProgram, Step
<1>5. StateKept(k')  BY <1>3, IlockState
<1>6. \A n : Leaves(Ret(g, n)) /\ Leaves(Puts(Ret(g, n), <<g.ip>>))  BY <1>2, RetLeaves
<1> QED  BY ONLY Sane, Kept, p \in Proc, <1>1, <1>4, <1>5, <1>6, LabelKept

\* fileclose: an operation begins.
LEMMA FilecloseKept ==
  ASSUME Sane, Kept, NEW p \in Proc, Fileclose(p), k'.panic = ""
  PROVE  Kept'
<1> DEFINE g == f[p]
           h == [g EXCEPT !.pc = g.to, !.tx = TRUE, !.ip = 0, !.puts = <<g.ip>>]
<1>1. g.puts = <<>> /\ g.pc = "fileclose"  BY DEF Fileclose, At
<1>2. AtLabelFacts(p)  BY <1>1, AtLabel
<1>3. k' = k /\ f' = [f EXCEPT ![p] = h]  BY DEF Fileclose, Step
<1>4. StateKept(k')  BY <1>3, IlockState
<1>5. DOMAIN g = DOMAIN Idle /\ ~g.freeing  BY <1>2 DEF AtLabelFacts
<1>6. h.freeing = g.freeing /\ h.tx = TRUE  BY ONLY <1>5, FrameShape
<1>7. g.pc # "new"  BY <1>1
<1> HIDE DEF h
<1>8. Leaves(h)  BY ONLY <1>5, <1>6, Zenon DEF Leaves, InOperation
<1> QED  BY ONLY Sane, Kept, p \in Proc, <1>1, <1>3, <1>4, <1>7, <1>8, LabelKept

\* A call returns to user space.
LEMMA ReturnToUserKept ==
  ASSUME Sane, Kept, NEW p \in Proc, Return(p), k'.panic = ""
  PROVE  Kept'
<1> DEFINE h == [Idle EXCEPT !.ret = f[p].ret]
<1>1. f[p].puts = <<>> /\ f[p].pc # "new"  BY DEF Return, At
<1>2. k' = k /\ f' = [f EXCEPT ![p] = h]  BY DEF Return, Step
<1>3. StateKept(k')  BY <1>2, IlockState
<1>4. Leaves(h)  BY Shape DEF Leaves, InOperation, Idle
<1> HIDE DEF h
<1> QED  BY ONLY Sane, Kept, p \in Proc, <1>1, <1>2, <1>3, <1>4, LabelKept

\* A process is reaped.
LEMMA GoneKept ==
  ASSUME Sane, Kept, NEW p \in Proc, Gone(p), k'.panic = ""
  PROVE  Kept'
<1> DEFINE h == [Idle EXCEPT !.pc = "unused"]
<1>1. f[p].puts = <<>> /\ f[p].pc # "new"  BY DEF Gone, At
<1>2. k' = k /\ f' = [f EXCEPT ![p] = h]  BY DEF Gone, Step
<1>3. StateKept(k')  BY <1>2, IlockState
<1>4. Leaves(h)  BY Shape DEF Leaves, InOperation, Idle
<1> HIDE DEF h
<1> QED  BY ONLY Sane, Kept, p \in Proc, <1>1, <1>2, <1>3, <1>4, LabelKept

\* chdir.
LEMMA ChdirKept ==
  ASSUME Sane, Kept, NEW p \in Proc, Chdir(p), k'.panic = ""
  PROVE  Kept'
<1> DEFINE g == f[p]
<1>1. g.puts = <<>> /\ g.pc # "new"  BY DEF Chdir, At
<1>2. AtLabelFacts(p)  BY <1>1, AtLabel
<1>3. k' = k \/ k' = Ilock(k, g.ip)  BY Zenon DEF Chdir, Step
<1>4. \/ f' = [f EXCEPT ![p] = Ret(g, -1)]
      \/ \E n, a : f' = [f EXCEPT ![p] = Puts(Ret(g, n), <<a>>)]
  BY Zenon DEF Chdir, Step
<1>5. StateKept(k')  BY <1>3, IlockState
<1>6. \A n : Leaves(Ret(g, n)) /\ \A a : Leaves(Puts(Ret(g, n), <<a>>))  BY <1>2, RetLeaves
<1> QED  BY ONLY Sane, Kept, p \in Proc, <1>1, <1>4, <1>5, <1>6, LabelKept

\* A state with the files and locks of k.
LEMMA SameState ==
  ASSUME NEW t, Moved(k, t, Freed, 0), t.lock = k.lock, t.file = k.file
  PROVE  StateKept(t)
<1>1. LocksTaken(k.lock, t, Freed) /\ FilesMoved(k.file, t, Freed)  BY NothingTaken
<1> QED  BY <1>1 DEF StateKept

\* sys_link: the inode gains a link, then the walk to the new name starts.
LEMMA LinkKept ==
  ASSUME Sane, Kept, NEW p \in Proc, Link(p), k'.panic = ""
  PROVE  Kept'
<1> DEFINE g == f[p]
           s == Ilock(k, g.ip)
           t == Updated(s, g.ip, [s.mem[g.ip] EXCEPT !.nlink = @ + 1])
           c == Absolute(g.call.new)
           i == IF c THEN ROOTINO ELSE cwd[p]
           u == IF c THEN Iget(t, ROOTINO) ELSE Idup(t, cwd[p])
           h == [[g EXCEPT !.dp = g.ip]
                   EXCEPT !.pc = "walk", !.to = "link", !.ip = i,
                          !.path = IF c THEN Tail(g.call.new) ELSE g.call.new]
<1>1. g.puts = <<>> /\ g.pc = "old"  BY DEF Link, At
<1>2. AtLabelFacts(p)  BY <1>1, AtLabel
<1>0. DOMAIN g = DOMAIN Idle /\ ~g.freeing  BY <1>2 DEF AtLabelFacts
<1>3. g.tx  BY <1>1 DEF Kept, OperationsOpen, InOperation
<1>4. Good(s, Freed) /\ Keeps(k, s)  BY <1>2, IlockKeeps DEF AtLabelFacts
<1>5. Good(t, Freed) /\ Keeps(s, t)  BY <1>4, LinksKeep
<1>6. Keeps(k, t)  BY <1>4, <1>5, KeepsTrans
<1>7. /\ k' = k \/ k' = s \/ (k' = u /\ Unlocked(g.ip))
      /\ \/ f' = [f EXCEPT ![p] = Ret(g, -1)] \/ f' = [f EXCEPT ![p] = Puts(Ret(g, -1), <<g.ip>>)]
         \/ f' = [f EXCEPT ![p] = h]
  BY DEF Link, Walking, Step
<1>8. ASSUME Unlocked(g.ip), u.panic = ""  PROVE StateKept(u)
  <2>1. /\ Moved(k, s, Freed, 0)
        /\ s.panic = "" => (g.ip \in Inum => Loaded(s, Freed, g.ip))
    BY <1>8, IlockFacts
  <2> HIDE DEF s
  <2>2. s.panic = "" => Moved(s, t, Freed, 0)  BY <1>4, <2>1, UpdatedMoved
  <2> HIDE DEF t
  <2>3. Good(u, Freed) /\ Grows(t, u, i)
    <3>1. cwd[p] \in Inum => t.ref[cwd[p]] > 0  BY <1>6, CwdHeld DEF Keeps
    <3> QED  BY <1>5, <3>1, StartGrows
  <2>4. Moved(t, u, Freed, 0)
    <3>1. Moved(t, Iget(t, ROOTINO), Freed, 0)  BY <1>5, IgetMoved
    <3>2. Moved(t, Idup(t, cwd[p]), Freed, 0)  BY <1>5, IdupMoved
    <3> QED  BY <3>1, <3>2
  <2> HIDE DEF u, i, c
  <2>5. s.panic = "" /\ u.lock = k.lock /\ u.file = k.file
    BY ONLY <1>4, <1>5, <1>8, <2>3 DEF Keeps, Grows
  <2>6. Moved(k, t, Freed, 0)  BY ONLY <2>1, <2>2, <2>5, MovedTrans, Zenon
  <2>7. Moved(k, u, Freed, 0)  BY ONLY <2>4, <2>6, MovedTrans, Zenon
  <2> QED  BY ONLY <2>5, <2>7, SameState
<1>9. StateKept(k')
  <2> HIDE DEF u
  <2> QED  BY <1>7, <1>8, IlockState
<1> HIDE DEF i, c
<1>10. h.tx = g.tx  BY ONLY <1>0, FrameShape
<1>11. h.freeing = g.freeing  BY ONLY <1>0, FrameShape
<1>12. Leaves(Ret(g, -1)) /\ Leaves(Puts(Ret(g, -1), <<g.ip>>))  BY <1>2, RetLeaves
<1>13. g.pc # "new"  BY <1>1
<1> HIDE DEF h
<1>14. Leaves(h)  BY ONLY <1>0, <1>3, <1>10, <1>11, TxInOperation DEF Leaves
<1> QED  BY ONLY Sane, Kept, p \in Proc, <1>1, <1>7, <1>9, <1>12, <1>13, <1>14, LabelKept

\* sys_link: the new name is added.
LEMMA LinkNameKept ==
  ASSUME Sane, Kept, NEW p \in Proc, LinkName(p), k'.panic = ""
  PROVE  Kept'
<1> DEFINE g == f[p]
           s == Ilock(k, g.ip)
           d == Dirlink(s, g.ip, Dirsiz(Head(g.path)), g.dp)
           h == [g EXCEPT !.pc = "linkbad"]
           m == [g EXCEPT !.pc = "linkbad", !.ip = 0]
<1>1. g.puts = <<>> /\ g.pc = "link"  BY DEF LinkName, At
<1>2. AtLabelFacts(p)  BY <1>1, AtLabel
<1>0. DOMAIN g = DOMAIN Idle /\ ~g.freeing  BY <1>2 DEF AtLabelFacts
<1>3. Good(s, Freed) /\ Keeps(k, s)  BY <1>2, IlockKeeps DEF AtLabelFacts
<1>4. Good(d.s, Freed) /\ Keeps(s, d.s)  BY <1>3, DirlinkKeeps
<1>5. k' = k \/ (k' = d.s /\ Unlocked(g.ip))  BY Zenon DEF LinkName, Step
<1>6. \/ f' = [f EXCEPT ![p] = h] \/ f' = [f EXCEPT ![p] = Puts(Ret(g, 0), <<g.ip, g.dp>>)]
      \/ f' = [f EXCEPT ![p] = Puts(m, <<g.ip>>)]
  BY Zenon DEF LinkName, Step
<1>7. ASSUME Unlocked(g.ip), d.s.panic = ""  PROVE StateKept(d.s)
  <2>1. /\ Moved(k, s, Freed, 0)
        /\ s.panic = "" => (g.ip \in Inum => Loaded(s, Freed, g.ip))
    BY <1>7, IlockFacts
  <2> HIDE DEF s
  <2>2. s.panic = "" => Moved(s, d.s, Freed, 0)  BY <1>3, <2>1, DirlinkMoved
  <2> HIDE DEF d
  <2>3. s.panic = "" /\ d.s.lock = k.lock /\ d.s.file = k.file
    BY ONLY <1>3, <1>4, <1>7 DEF Keeps
  <2>4. Moved(k, d.s, Freed, 0)  BY ONLY <2>1, <2>2, <2>3, MovedTrans, Zenon
  <2> QED  BY ONLY <2>3, <2>4, SameState
<1>8. StateKept(k')
  <2> HIDE DEF d
  <2> QED  BY <1>5, <1>7, IlockState
<1>9. Leaves(h)
  <2>1. h.freeing = g.freeing  BY ONLY <1>0, FrameShape
  <2>2. h.pc = "linkbad"  BY ONLY <1>0, FrameShape
  <2> QED  BY ONLY <1>0, <2>1, <2>2, GoesLeaves
<1>10. Leaves(Puts(m, <<g.ip>>))
  <2>1. DOMAIN m = DOMAIN Idle /\ m.freeing = g.freeing  BY ONLY <1>0, FrameShape
  <2>2. m.puts = <<>>  BY ONLY <1>0, <1>1, FrameShape
  <2>3. m.pc = "linkbad"  BY ONLY <1>0, FrameShape
  <2> HIDE DEF m
  <2> DEFINE r == Puts(m, <<g.ip>>)
  <2>4. ~m.freeing  BY ONLY <1>0, <2>1, Zenon
  <2>5. ~r.freeing /\ r.pc = m.pc  BY ONLY <2>1, <2>2, <2>4, PutsOne, Zenon
  <2> HIDE DEF r
  <2>6. Leaves(r)  BY ONLY <2>3, <2>5 DEF Leaves, InOperation
  <2> QED  BY <2>6 DEF r
<1>11. Leaves(Puts(Ret(g, 0), <<g.ip, g.dp>>))  BY <1>2, RetLeaves
<1>12. g.pc # "new"  BY <1>1
<1> HIDE DEF h, m
<1> QED  BY ONLY Sane, Kept, p \in Proc, <1>1, <1>6, <1>8, <1>9, <1>10, <1>11, <1>12, LabelKept

\* sys_link takes the link back.
LEMMA LinkBadKept ==
  ASSUME Sane, Kept, NEW p \in Proc, LinkBad(p), k'.panic = ""
  PROVE  Kept'
<1> DEFINE g == f[p]
           s == Ilock(k, g.dp)
           t == Updated(s, g.dp, LinkUndone(s.mem[g.dp]))
<1>1. g.puts = <<>> /\ g.pc # "new"  BY DEF LinkBad, At
<1>2. AtLabelFacts(p)  BY <1>1, AtLabel
<1>3. Good(s, Freed) /\ Keeps(k, s)  BY <1>2, IlockKeeps DEF AtLabelFacts
<1>4. Good(t, Freed) /\ Keeps(s, t)  BY <1>3, LinksKeep DEF LinkUndone
<1>5. k' = t /\ Unlocked(g.dp) /\ f' = [f EXCEPT ![p] = Puts(Ret(g, -1), <<g.dp>>)]
  BY Zenon DEF LinkBad, Step
<1>6. /\ Moved(k, s, Freed, 0)
      /\ s.panic = "" => (g.dp \in Inum => Loaded(s, Freed, g.dp))
  BY <1>5, IlockFacts
<1> HIDE DEF s
<1>7. s.panic = "" => Moved(s, t, Freed, 0)  BY <1>3, <1>6, UpdatedMoved
<1> HIDE DEF t
<1>8. s.panic = "" /\ t.lock = k.lock /\ t.file = k.file
  BY ONLY <1>3, <1>4, <1>5, k'.panic = "" DEF Keeps
<1>9. Moved(k, t, Freed, 0)  BY ONLY <1>6, <1>7, <1>8, MovedTrans, Zenon
<1>10. StateKept(k')  BY ONLY <1>5, <1>8, <1>9, SameState
<1>11. Leaves(Puts(Ret(g, -1), <<g.dp>>))  BY <1>2, RetLeaves
<1> QED  BY ONLY Sane, Kept, p \in Proc, <1>1, <1>5, <1>10, <1>11, LabelKept

\* sys_unlink: the directory is locked and the entry found.
LEMMA UnlinkKept ==
  ASSUME Sane, Kept, NEW p \in Proc, Unlink(p), k'.panic = ""
  PROVE  Kept'
<1> DEFINE g == f[p]
           s == Ilock(k, g.ip)
           at == Dirlookup(s, s.mem[g.ip], Dirsiz(Head(g.path)))
           i == Entries(s, s.mem[g.ip])[at][1]
           u == Iget(s, i)
           t == [u EXCEPT !.lock[g.ip] = p]
           h == [g EXCEPT !.pc = "entry", !.dp = g.ip, !.ip = i, !.n = at]
<1>1. g.puts = <<>> /\ g.pc # "new"  BY DEF Unlink, At
<1>2. AtLabelFacts(p)  BY <1>1, AtLabel
<1>0. DOMAIN g = DOMAIN Idle /\ ~g.freeing  BY <1>2 DEF AtLabelFacts
<1>3. k' = k \/ k' = s \/ (k' = t /\ Unlocked(g.ip))  BY Zenon DEF Unlink, Step
<1>4. \/ f' = [f EXCEPT ![p] = Ret(g, -1)] \/ f' = [f EXCEPT ![p] = Puts(Ret(g, -1), <<g.ip>>)]
      \/ f' = [f EXCEPT ![p] = h]
  BY Zenon DEF Unlink, Step
<1> HIDE DEF at, i
<1>5. ASSUME Unlocked(g.ip), t.panic = ""  PROVE StateKept(t)
  <2>1. /\ Good(s, Freed) /\ Keeps(k, s) /\ Moved(k, s, Freed, 0)
        /\ s.panic = "" => (g.ip \in Inum => Loaded(s, Freed, g.ip))
    BY <1>5, IlockFacts
  <2> HIDE DEF s
  <2>2. Good(u, Freed) /\ Grows(s, u, i)  BY ONLY <2>1, IgetGrows
  <2>3. Moved(s, u, Freed, 0)  BY ONLY <2>1, IgetMoved
  <2> HIDE DEF u
  <2>4. Relocks(u, t, g.ip, p)  BY ONLY <2>2, LockKeeps
  <2>5. Moved(u, t, Freed, 0)  BY ONLY <2>2, LockMoved
  <2> HIDE DEF t
  <2>6. Moved(s, t, Freed, 0)  BY ONLY <2>3, <2>5, MovedTrans, Zenon
  <2>7. Moved(k, t, Freed, 0)  BY ONLY <2>1, <2>6, MovedTrans, Zenon
  <2>8. s.panic = "" /\ u.lock = k.lock /\ t.file = k.file
    BY ONLY <1>5, <2>1, <2>2, <2>4 DEF Keeps, Grows, Relocks
  <2>9. g.ip \in Inum => Loaded(t, Freed, g.ip)  BY ONLY <2>1, <2>6, <2>8 DEF Moved
  <2>10. LocksTaken(k.lock, t, Freed)  BY ONLY <2>4, <2>8, <2>9, OneTaken
  <2>11. FilesMoved(k.file, t, Freed)  BY ONLY <2>8, NothingTaken
  <2> QED  BY ONLY <2>7, <2>10, <2>11 DEF StateKept
<1>6. StateKept(k')
  <2> HIDE DEF t
  <2> QED  BY <1>3, <1>5, IlockState
<1>7. Leaves(h)
  <2>1. h.freeing = g.freeing  BY ONLY <1>0, FrameShape
  <2>2. h.pc = "entry"  BY ONLY <1>0, FrameShape
  <2> QED  BY ONLY <1>0, <2>1, <2>2, GoesLeaves
<1>8. Leaves(Ret(g, -1)) /\ Leaves(Puts(Ret(g, -1), <<g.ip>>))  BY <1>2, RetLeaves
<1> HIDE DEF h
<1> QED  BY ONLY Sane, Kept, p \in Proc, <1>1, <1>4, <1>6, <1>7, <1>8, LabelKept

\* sys_unlink: the entry is cleared; the lock passes from the directory to the inode.
LEMMA UnlinkEntryKept ==
  ASSUME Sane, Kept, NEW p \in Proc, UnlinkEntry(p), k'.panic = ""
  PROVE  Kept'
<1> DEFINE g == f[p]
           s == Ilock(k, g.ip)
           v == [s EXCEPT !.lock[g.dp] = 0]
           t == Writei(s, g.dp, g.n - 1, 1, Zero, FALSE).s
           u == IF s.mem[g.ip].type = "dir"
                THEN Updated(t, g.dp, [t.mem[g.dp] EXCEPT !.nlink = @ - 1]) ELSE t
           w == [u EXCEPT !.lock[g.dp] = 0, !.lock[g.ip] = p]
           m == [g EXCEPT !.pc = "unlinked", !.dp = 0]
<1>1. g.puts = <<>> /\ g.pc = "entry" /\ Unlocked(g.ip)  BY DEF UnlinkEntry, At
<1>2. AtLabelFacts(p)  BY <1>1, AtLabel
<1>0. DOMAIN g = DOMAIN Idle /\ ~g.freeing  BY <1>2 DEF AtLabelFacts
<1>3. /\ Good(s, Freed) /\ Keeps(k, s) /\ Moved(k, s, Freed, 0)
      /\ s.panic = "" => (g.ip \in Inum => Loaded(s, Freed, g.ip))
  BY <1>1, IlockFacts
<1>4. g.dp \in Inum => Loaded(s, Freed, g.dp)
  <2>1. g.dp \in Inum => k.lock[g.dp] = p  BY <1>1, <1>2 DEF AtLabelFacts
  <2>2. g.dp \in Inum => Loaded(k, Freed, g.dp)  BY <1>1, <2>1, MineLoaded
  <2> HIDE DEF s
  <2> QED  BY ONLY <1>3, <2>2 DEF Moved
<1>5. \/ k' = Panic(s, "unlink: nlink < 1")
      \/ k' = v /\ f' = [f EXCEPT ![p] = Puts(Ret(g, -1), <<g.ip, g.dp>>)]
      \/ k' = w /\ f' = [f EXCEPT ![p] = Puts(m, <<g.dp>>)]
  BY Zenon DEF UnlinkEntry, Step
<1>6. Panic(s, "unlink: nlink < 1").panic # ""  BY <1>3, PanicKeeps
<1> HIDE DEF s
<1>7. StateKept(v)
  <2>1. Relocks(s, v, g.dp, 0)  BY ONLY <1>3, LockKeeps
  <2>2. Moved(s, v, Freed, 0)  BY ONLY <1>3, LockMoved
  <2> HIDE DEF v
  <2>3. Moved(k, v, Freed, 0)  BY ONLY <1>3, <2>2, MovedTrans, Zenon
  <2>4. s.lock = k.lock /\ v.file = k.file  BY ONLY <1>3, <2>1 DEF Keeps, Relocks
  <2>5. LocksTaken(k.lock, v, Freed)  BY ONLY <2>1, <2>4, OneTaken
  <2>6. FilesMoved(k.file, v, Freed)  BY ONLY <2>4, NothingTaken
  <2> QED  BY ONLY <2>3, <2>5, <2>6 DEF StateKept
<1>8. ASSUME w.panic = ""  PROVE StateKept(w)
  <2>1. Good(t, Freed) /\ Keeps(s, t)  BY ONLY <1>3, WriteiKeeps
  <2>2. Moved(s, t, Freed, 0)  BY ONLY <1>3, <1>4, WriteiMoved
  <2>3. g.dp \in Inum => Loaded(t, Freed, g.dp)
    <3> HIDE DEF t
    <3> QED  BY ONLY <1>4, <2>2 DEF Moved
  <2> HIDE DEF t
  <2>4. Good(u, Freed) /\ Keeps(t, u)
    <3>1. Keeps(t, t)  BY DEF Keeps
    <3> QED  BY ONLY <2>1, <3>1, LinksKeep
  <2>5. Moved(t, u, Freed, 0)
    <3>1. Moved(t, t, Freed, 0)  BY DEF Moved
    <3>2. Moved(t, Updated(t, g.dp, [t.mem[g.dp] EXCEPT !.nlink = @ - 1]), Freed, 0)
      BY ONLY <2>1, <2>3, UpdatedMoved
    <3> QED  BY ONLY <3>1, <3>2
  <2> HIDE DEF u
  <2>6. /\ w.file = u.file /\ w.panic = u.panic
        /\ \A j \in Inum : w.lock[j] = IF j = g.ip THEN p ELSE IF j = g.dp THEN 0 ELSE u.lock[j]
    BY ONLY <2>4, Shape DEF Good, TablesOK
  <2>7. Moved(u, w, Freed, 0)  BY ONLY <2>4, LocksMoved
  <2> HIDE DEF w
  <2>8. Moved(s, u, Freed, 0)  BY ONLY <2>2, <2>5, MovedTrans, Zenon
  <2>9. Moved(s, w, Freed, 0)  BY ONLY <2>7, <2>8, MovedTrans, Zenon
  <2>10. Moved(k, w, Freed, 0)  BY ONLY <1>3, <2>9, MovedTrans, Zenon
  <2>11. s.panic = "" /\ u.lock = k.lock /\ w.file = k.file
    BY ONLY <1>3, <1>8, <2>1, <2>4, <2>6 DEF Keeps
  <2>12. g.ip \in Inum => Loaded(w, Freed, g.ip)  BY ONLY <1>3, <2>9, <2>11 DEF Moved
  <2>13. LocksTaken(k.lock, w, Freed)  BY ONLY <2>6, <2>11, <2>12 DEF LocksTaken
  <2>14. FilesMoved(k.file, w, Freed)  BY ONLY <2>11, NothingTaken
  <2> QED  BY ONLY <2>10, <2>13, <2>14 DEF StateKept
<1>9. StateKept(k')
  <2> HIDE DEF v, w
  <2> QED  BY ONLY <1>5, <1>6, <1>7, <1>8, k'.panic = ""
<1>10. Leaves(Puts(m, <<g.dp>>))
  <2>1. DOMAIN m = DOMAIN Idle /\ m.freeing = g.freeing  BY ONLY <1>0, FrameShape
  <2>2. m.puts = <<>>  BY ONLY <1>0, <1>1, FrameShape
  <2>3. m.pc = "unlinked"  BY ONLY <1>0, FrameShape
  <2> HIDE DEF m
  <2> DEFINE r == Puts(m, <<g.dp>>)
  <2>4. ~m.freeing  BY ONLY <1>0, <2>1, Zenon
  <2>5. ~r.freeing /\ r.pc = m.pc  BY ONLY <2>1, <2>2, <2>4, PutsOne, Zenon
  <2> HIDE DEF r
  <2>6. Leaves(r)  BY ONLY <2>3, <2>5 DEF Leaves, InOperation
  <2> QED  BY <2>6 DEF r
<1>11. Leaves(Puts(Ret(g, -1), <<g.ip, g.dp>>))  BY <1>2, RetLeaves
<1>12. g.pc # "new"  BY <1>1
<1>13. \/ f' = [f EXCEPT ![p] = Puts(Ret(g, -1), <<g.ip, g.dp>>)]
       \/ f' = [f EXCEPT ![p] = Puts(m, <<g.dp>>)]
  <2> HIDE DEF v, w, m
  <2> QED  BY ONLY <1>5, <1>6, k'.panic = ""
<1> HIDE DEF m
<1> QED  BY ONLY Sane, Kept, p \in Proc, <1>1, <1>9, <1>10, <1>11, <1>12, <1>13, LabelKept

\* sys_unlink: the inode loses a link.
LEMMA UnlinkedKept ==
  ASSUME Sane, Kept, NEW p \in Proc, Unlinked(p), k'.panic = ""
  PROVE  Kept'
<1> DEFINE g == f[p]
           s == Updated(k, g.ip, [k.mem[g.ip] EXCEPT !.nlink = @ - 1])
           t == [s EXCEPT !.lock[g.ip] = 0]
<1>1. g.puts = <<>> /\ g.pc = "unlinked"  BY DEF Unlinked, At
<1>2. AtLabelFacts(p)  BY <1>1, AtLabel
<1>3. Good(k, Freed)  BY <1>2 DEF AtLabelFacts
<1>4. Good(s, Freed) /\ Keeps(k, s)  BY <1>3, LinksKeep
<1>5. g.ip \in Inum => Loaded(k, Freed, g.ip)
  <2>1. g.ip \in Inum => k.lock[g.ip] = p  BY <1>1, <1>2 DEF AtLabelFacts
  <2> QED  BY <1>1, <2>1, MineLoaded
<1>6. Moved(k, s, Freed, 0)  BY <1>3, <1>5, UpdatedMoved
<1>7. k' = t /\ f' = [f EXCEPT ![p] = Puts(Ret(g, 0), <<g.ip>>)]  BY Zenon DEF Unlinked, Step
<1> HIDE DEF s
<1>8. Relocks(s, t, g.ip, 0)  BY ONLY <1>4, LockKeeps
<1>9. Moved(s, t, Freed, 0)  BY ONLY <1>4, LockMoved
<1> HIDE DEF t
<1>10. Moved(k, t, Freed, 0)  BY ONLY <1>6, <1>9, MovedTrans, Zenon
<1>11. s.lock = k.lock /\ t.file = k.file  BY ONLY <1>4, <1>8 DEF Keeps, Relocks
<1>12. LocksTaken(k.lock, t, Freed)  BY ONLY <1>8, <1>11, OneTaken
<1>13. FilesMoved(k.file, t, Freed)  BY ONLY <1>11, NothingTaken
<1>14. StateKept(k')  BY ONLY <1>7, <1>10, <1>12, <1>13 DEF StateKept
<1>15. Leaves(Puts(Ret(g, 0), <<g.ip>>))  BY <1>2, RetLeaves
<1>16. g.pc # "new"  BY <1>1
<1> QED  BY ONLY Sane, Kept, p \in Proc, <1>1, <1>7, <1>14, <1>15, <1>16, LabelKept

\* A step of read or write that moves an offset,
LEMMA OffsetState ==
  ASSUME Sane, NEW s, Good(s, Freed), Keeps(k, s), Moved(k, s, Freed, 0), NEW x, NEW v,
         k' = [s EXCEPT !.file[x].off = v]
  PROVE  StateKept(k')
<1>1. SameFiles(k.file, k'.file) /\ k'.lock = k.lock  BY OffsetStep
<1>2. k'.lost = s.lost /\ k'.ino = s.ino /\ k'.ref = s.ref /\ k'.valid = s.valid
  BY Shape DEF Good, TablesOK
<1>3. Moved(s, k', Freed, 0)  BY ONLY <1>2, MovedSame
<1>4. Moved(k, k', Freed, 0)  BY ONLY <1>3, Moved(k, s, Freed, 0), MovedTrans, Zenon
<1>5. LocksTaken(k.lock, k', Freed) /\ FilesMoved(k.file, k', Freed)  BY ONLY <1>1, NothingTaken
<1> QED  BY ONLY <1>4, <1>5 DEF StateKept

\* or the data of a pipe.
LEMMA PipeState ==
  ASSUME Sane, NEW x, NEW v, k' = [k EXCEPT !.pipe[x].data = v]
  PROVE  StateKept(k')
<1>1. SameFiles(k.file, k'.file) /\ k'.lock = k.lock  BY PipeStep
<1>2. Good(k, Freed)  BY SaneGood
<1>3. k'.lost = k.lost /\ k'.ino = k.ino /\ k'.ref = k.ref /\ k'.valid = k.valid
  BY <1>2, Shape DEF Good, TablesOK
<1>4. Moved(k, k', Freed, 0)  BY ONLY <1>3, MovedSame
<1>5. LocksTaken(k.lock, k', Freed) /\ FilesMoved(k.file, k', Freed)  BY ONLY <1>1, NothingTaken
<1> QED  BY ONLY <1>4, <1>5 DEF StateKept

\* The frame of a call that returns data.
LEMMA GotLeaves ==
  ASSUME NEW p \in Proc, AtLabelFacts(p), NEW n, NEW d
  PROVE  Leaves([Ret(f[p], n) EXCEPT !.ret.data = d])
<1>1. DOMAIN f[p] = DOMAIN Idle /\ ~f[p].freeing /\ f[p].puts = <<>>  BY DEF AtLabelFacts
<1> DEFINE r == [Ret(f[p], n) EXCEPT !.ret.data = d]
<1>2. Returns(r)  BY ONLY <1>1, GotFrame
<1> HIDE DEF r
<1>3. Leaves(r)  BY ONLY <1>2, RetInOperation DEF Leaves
<1> QED  BY <1>3 DEF r

\* fileread.
LEMMA ReadKept ==
  ASSUME Sane, Kept, NEW p \in Proc, Read(p), k'.panic = ""
  PROVE  Kept'
<1> DEFINE g == f[p]
           x == ofile[p][g.call.fd]
           i == k.file[x].ip
           s == Ilock(k, i)
           data == Readi(s, s.mem[i], k.file[x].off, g.call.n)
           queue == k.pipe[i].data
           m == Min({g.call.n, Len(queue)})
           Got(d) == [Ret(g, Len(d)) EXCEPT !.ret.data = d]
<1>1. g.puts = <<>> /\ g.pc # "new"  BY DEF Read, At
<1>2. AtLabelFacts(p)  BY <1>1, AtLabel
<1>3. \/ k' = k /\ f' = [f EXCEPT ![p] = Ret(g, -1)]
      \/ k' = s /\ f' = [f EXCEPT ![p] = Ret(g, IF data = <<>> THEN 0 ELSE -1)]
      \/ k' = [s EXCEPT !.file[x].off = @ + Len(data)] /\ f' = [f EXCEPT ![p] = Got(data)]
      \/ k' = [k EXCEPT !.pipe[i].data = SubSeq(@, 2, Len(@))] /\ f' = [f EXCEPT ![p] = Ret(g, 0)]
      \/ /\ k' = [k EXCEPT !.pipe[i].data = SubSeq(@, m + 1, Len(@))]
         /\ f' = [f EXCEPT ![p] = Got(SubSeq(queue, 1, m))]
  BY Zenon DEF Read, Step
<1>4. \/ \E n : f' = [f EXCEPT ![p] = Ret(g, n)]
      \/ \E n, d : f' = [f EXCEPT ![p] = [Ret(g, n) EXCEPT !.ret.data = d]]
  BY ONLY <1>3, Zenon
<1>5. StateKept(k')
  <2>1. Good(k, Freed)  BY SaneGood
  <2>2. Good(s, Freed) /\ Keeps(k, s) /\ Moved(k, s, Freed, 0)  BY <2>1, IlockKeeps, IlockMoved
  <2>3. CASE k' = k \/ k' = s  BY <2>3, IlockState
  <2> HIDE DEF x, i, s, data, m
  <2>4. CASE k' = [s EXCEPT !.file[x].off = @ + Len(data)]  BY <2>2, <2>4, OffsetState
  <2>5. CASE k' = [k EXCEPT !.pipe[i].data = SubSeq(@, 2, Len(@))]  BY <2>5, PipeState
  <2>6. CASE k' = [k EXCEPT !.pipe[i].data = SubSeq(@, m + 1, Len(@))]  BY <2>6, PipeState
  <2> QED  BY <1>3, <2>3, <2>4, <2>5, <2>6
<1>6. \A n : Leaves(Ret(g, n)) /\ \A d : Leaves([Ret(g, n) EXCEPT !.ret.data = d])
  BY <1>2, RetLeaves, GotLeaves
<1> QED  BY ONLY Sane, Kept, p \in Proc, <1>1, <1>4, <1>5, <1>6, LabelKept

\* filestat.
LEMMA FstatKept ==
  ASSUME Sane, Kept, NEW p \in Proc, Fstat(p), k'.panic = ""
  PROVE  Kept'
<1> DEFINE g == f[p]
           i == k.file[ofile[p][g.call.fd]].ip
<1>1. g.puts = <<>> /\ g.pc # "new"  BY DEF Fstat, At
<1>2. AtLabelFacts(p)  BY <1>1, AtLabel
<1>3. \/ \E n : f' = [f EXCEPT ![p] = Ret(g, n)]
      \/ \E n, d : f' = [f EXCEPT ![p] = [Ret(g, n) EXCEPT !.ret.data = d]]
  BY DEF Fstat, Step
<1>4. k' = k \/ k' = Ilock(k, i)  BY DEF Fstat, Step
<1> HIDE DEF i
<1>5. StateKept(k')  BY <1>4, IlockState
<1>6. \A n : Leaves(Ret(g, n)) /\ \A d : Leaves([Ret(g, n) EXCEPT !.ret.data = d])
  BY <1>2, RetLeaves, GotLeaves
<1> QED  BY ONLY Sane, Kept, p \in Proc, <1>1, <1>3, <1>5, <1>6, LabelKept

\* filewrite.
LEMMA WriteKept ==
  ASSUME Sane, Kept, NEW p \in Proc, Write(p), k'.panic = ""
  PROVE  Kept'
<1> DEFINE g == f[p]
           x == ofile[p][g.call.fd]
           i == k.file[x].ip
           s == Ilock(k, i)
           n1 == Min({g.call.n - g.n, WRITEMAX})
           w == Writei(s, i, k.file[x].off, n1, <<g.call.v, "">>, g.call.bad)
<1>1. g.puts = <<>> /\ g.pc = "write"  BY DEF Write, At
<1>2. AtLabelFacts(p)  BY <1>1, AtLabel
<1>0. DOMAIN g = DOMAIN Idle /\ ~g.freeing  BY <1>2 DEF AtLabelFacts
<1>3. (\E n : f' = [f EXCEPT ![p] = Ret(g, n)]) \/ (\E n : f' = [f EXCEPT ![p] = [g EXCEPT !.n = n]])
  BY DEF Write, Step
<1>4. \/ k' = k
      \/ Unlocked(i) /\ \E v : k' = [w.s EXCEPT !.file[x].off = v]
      \/ \E v : k' = [k EXCEPT !.pipe[i].data = v]
  BY DEF Write, Step
<1>5. Unlocked(i) => /\ Good(s, Freed) /\ Keeps(k, s) /\ Moved(k, s, Freed, 0)
                     /\ s.panic = "" => (i \in Inum => Loaded(s, Freed, i))
  BY IlockFacts
<1> HIDE DEF s, x, i, n1
<1>6. ASSUME Unlocked(i), NEW v, k' = [w.s EXCEPT !.file[x].off = v]
      PROVE  StateKept(k')
  <2>1. /\ Good(s, Freed) /\ Keeps(k, s) /\ Moved(k, s, Freed, 0)
        /\ s.panic = "" => (i \in Inum => Loaded(s, Freed, i))
    BY <1>5, <1>6
  <2>2. Good(w.s, Freed) /\ Keeps(s, w.s)  BY <2>1, WriteiKeeps
  <2>3. s.panic = "" => Moved(s, w.s, Freed, 0)  BY <2>1, WriteiMoved
  <2> HIDE DEF w
  <2>4. Keeps(k, w.s)  BY ONLY <2>1, <2>2, KeepsTrans
  <2>5. k'.panic = w.s.panic  BY ONLY <1>6, <2>2, Shape DEF Good, TablesOK
  <2>6. s.panic = ""  BY ONLY <2>2, <2>5, k'.panic = "" DEF Keeps
  <2>7. Moved(k, w.s, Freed, 0)  BY ONLY <2>1, <2>3, <2>6, MovedTrans, Zenon
  <2> QED  BY ONLY Sane, <1>6, <2>2, <2>4, <2>7, OffsetState
<1>7. StateKept(k')
  <2> HIDE DEF w
  <2>1. CASE k' = k  BY <2>1, IlockState
  <2>2. ASSUME NEW v, k' = [k EXCEPT !.pipe[i].data = v]  PROVE StateKept(k')
    BY <2>2, PipeState
  <2> QED  BY <1>4, <1>6, <2>1, <2>2
<1>8. ASSUME NEW n  PROVE Leaves([g EXCEPT !.n = n])
  <2> DEFINE h == [g EXCEPT !.n = n]
  <2>1. h.freeing = g.freeing  BY ONLY <1>0, FrameShape
  <2>2. h.pc = "write"  BY ONLY <1>0, <1>1, FrameShape
  <2> HIDE DEF h
  <2>3. Leaves(h)  BY ONLY <1>0, <2>1, <2>2, GoesLeaves
  <2> QED  BY <2>3 DEF h
<1>9. \A n : Leaves(Ret(g, n))  BY <1>2, RetLeaves
<1>10. g.pc # "new"  BY <1>1
<1> QED  BY ONLY Sane, Kept, p \in Proc, <1>1, <1>3, <1>7, <1>8, <1>9, <1>10, LabelKept

\* sys_open fills an entry of the file table for the inode it has locked.
LEMMA OpenedKept ==
  ASSUME Sane, Kept, NEW p \in Proc, Opened(p), k'.panic = ""
  PROVE  Kept'
<1> DEFINE g == f[p]
           s == [k EXCEPT !.lock[g.ip] = 0]
           x == Min(FreeFile(s))
           fd == Min(FreeFd(p))
           v == [NoFile EXCEPT !.ref = 1, !.type = IF k.mem[g.ip].type = "dev" THEN "dev" ELSE "inode",
                               !.ip = g.ip, !.readable = "WRONLY" \notin g.call.mode,
                               !.writable = g.call.mode \cap {"WRONLY", "RDWR"} # {}]
           t == [s EXCEPT !.file[x] = v]
<1>1. g.puts = <<>> /\ g.pc = "opened"  BY DEF Opened, At
<1>2. AtLabelFacts(p)  BY <1>1, AtLabel
<1>3. Good(k, Freed)  BY <1>2 DEF AtLabelFacts
<1>4. g.ip \in Inum => Loaded(k, Freed, g.ip)
  <2>1. g.ip \in Inum => k.lock[g.ip] = p  BY <1>1, <1>2 DEF AtLabelFacts
  <2> QED  BY <1>1, <2>1, MineLoaded
<1>5. Good(s, Freed) /\ Relocks(k, s, g.ip, 0) /\ Moved(k, s, Freed, 0)  BY <1>3, LockKeeps, LockMoved
<1>6. \/ k' = s /\ f' = [f EXCEPT ![p] = Puts(Ret(g, -1), <<g.ip>>)]
      \/ /\ FreeFile(s) # {} /\ f' = [f EXCEPT ![p] = Ret(g, fd)]
         /\ k' = t \/ k' = Itrunc(t, g.ip)
  BY Zenon DEF Opened, Step
<1>7. v.ip = g.ip  BY DEF NoFile
<1> HIDE DEF s
<1>8. StateKept(s)
  <2>1. s.file = k.file  BY ONLY <1>5 DEF Relocks
  <2>2. LocksTaken(k.lock, s, Freed)  BY ONLY <1>5, OneTaken
  <2>3. FilesMoved(k.file, s, Freed)  BY ONLY <2>1, NothingTaken
  <2> QED  BY ONLY <1>5, <2>2, <2>3 DEF StateKept
<1>9. ASSUME FreeFile(s) # {}, k' = t \/ k' = Itrunc(t, g.ip)
      PROVE  StateKept(k')
  <2>1. x \in 1 .. NFILE  BY ONLY <1>9, FreeFileIn
  <2> HIDE DEF x, v
  <2>2. /\ Good(t, Freed) /\ t.ref = s.ref /\ t.lock = s.lock
        /\ t.file[x] = v /\ OneEntry(s.file, t.file, x)
    BY ONLY <1>5, <2>1, EntryKeeps
  <2>3. t.lost = s.lost /\ t.ino = s.ino /\ t.ref = s.ref /\ t.valid = s.valid
    BY ONLY <1>5, Shape DEF Good, TablesOK
  <2> HIDE DEF t
  <2>4. Moved(s, t, Freed, 0)  BY ONLY <2>3, MovedSame
  <2>5. Moved(k, t, Freed, 0)  BY ONLY <1>5, <2>4, MovedTrans, Zenon
  <2>6. g.ip \in Inum => Loaded(t, Freed, g.ip)  BY ONLY <1>4, <2>5 DEF Moved
  <2>7. Keeps(t, k') /\ Moved(t, k', Freed, 0)
    <3>1. Keeps(t, Itrunc(t, g.ip))  BY ONLY <2>2, ItruncKeeps
    <3>2. Moved(t, Itrunc(t, g.ip), Freed, 0)  BY ONLY <2>2, <2>6, ItruncMoved
    <3>3. Keeps(t, t) /\ Moved(t, t, Freed, 0)  BY DEF Keeps, Moved
    <3> QED  BY ONLY <1>9, <3>1, <3>2, <3>3
  <2>8. Moved(k, k', Freed, 0)  BY ONLY <2>5, <2>7, MovedTrans, Zenon
  <2>9. g.ip \in Inum => Loaded(k', Freed, g.ip)  BY ONLY <2>6, <2>7 DEF Moved
  <2>10. /\ \A j \in Inum : k'.lock[j] = IF j = g.ip THEN 0 ELSE k.lock[j]
         /\ k'.file[x] = v /\ OneEntry(k.file, k'.file, x)
    BY ONLY <1>5, <2>2, <2>7 DEF Keeps, Relocks
  <2>11. LocksTaken(k.lock, k', Freed)  BY ONLY <2>10 DEF LocksTaken
  <2>12. FilesMoved(k.file, k', Freed)  BY ONLY <1>7, <2>9, <2>10 DEF FilesMoved, OneEntry
  <2> QED  BY ONLY <2>8, <2>11, <2>12 DEF StateKept
<1>10. StateKept(k')
  <2> HIDE DEF t, fd
  <2> QED  BY ONLY <1>6, <1>8, <1>9
<1>11. Leaves(Puts(Ret(g, -1), <<g.ip>>)) /\ \A n : Leaves(Ret(g, n))  BY <1>2, RetLeaves
<1>12. g.pc # "new"  BY <1>1
<1>13. \/ f' = [f EXCEPT ![p] = Puts(Ret(g, -1), <<g.ip>>)] \/ f' = [f EXCEPT ![p] = Ret(g, fd)]
  BY ONLY <1>6
<1> HIDE DEF fd
<1> QED  BY ONLY Sane, Kept, p \in Proc, <1>1, <1>10, <1>11, <1>12, <1>13, LabelKept

\* create takes a new inode with the directory locked: the frame answers for it.
LEMMA CreateKept ==
  ASSUME Sane, Kept, NEW p \in Proc, Create(p), k'.panic = ""
  PROVE  Kept'
<1> DEFINE g == f[p]
           s == Ilock(k, g.ip)
           old == Entries(s, s.mem[g.ip])[Dirlookup(s, s.mem[g.ip], Dirsiz(Head(g.path)))][1]
           new == Ialloc(s, CreateType(g.call))
           t == [new.s EXCEPT !.lock[g.ip] = p]
           a == [g EXCEPT !.pc = "exists", !.ip = old]
           h == [g EXCEPT !.pc = "new", !.ip = new.ip, !.dp = g.ip]
<1>1. g.puts = <<>> /\ g.pc = "create"  BY DEF Create, At
<1>2. AtLabelFacts(p)  BY <1>1, AtLabel
<1>0. DOMAIN g = DOMAIN Idle /\ ~g.freeing /\ DOMAIN f = Proc  BY <1>2 DEF AtLabelFacts
<1>3. g.tx /\ g.pc # "new"  BY <1>1 DEF Kept, OperationsOpen, InOperation
<1>4. \/ k' = k /\ f' = [f EXCEPT ![p] = Ret(g, -1)]
      \/ k' = Iget(s, old) /\ f' = [f EXCEPT ![p] = Puts(a, <<g.ip>>)]
      \/ k' = s /\ f' = [f EXCEPT ![p] = Puts(Ret(g, -1), <<g.ip>>)]
      \/ Unlocked(g.ip) /\ new.ip # 0 /\ k' = t /\ f' = [f EXCEPT ![p] = h]
  BY Zenon DEF Create, Step
<1>5. Good(s, Freed) /\ Keeps(k, s)  BY <1>2, IlockKeeps DEF AtLabelFacts
<1>6. ASSUME Unlocked(g.ip), new.ip # 0, k' = t, f' = [f EXCEPT ![p] = h]
      PROVE  Kept'
  <2>1. /\ Moved(k, s, Freed, new.ip)
        /\ s.panic = "" => (g.ip \in Inum => Loaded(s, Freed, g.ip))
    BY <1>6, IlockFacts
  <2> HIDE DEF s
  <2>2. Good(new.s, Freed) /\ Grows(s, new.s, new.ip)  BY <1>5, <1>6, IallocGrows
  <2>3. Moved(s, new.s, Freed, new.ip)  BY <1>5, <1>6, IallocMoved
  <2> HIDE DEF new
  <2>4. Relocks(new.s, t, g.ip, p)  BY ONLY <2>2, LockKeeps
  <2>5. Moved(new.s, t, Freed, new.ip)  BY ONLY <2>2, LockMoved
  <2> HIDE DEF t
  <2>6. Moved(s, t, Freed, new.ip)  BY ONLY <2>3, <2>5, MovedTrans, Zenon
  <2>7. Moved(k, t, Freed, new.ip)  BY ONLY <2>1, <2>6, MovedTrans, Zenon
  <2>8. s.panic = "" /\ new.s.lock = k.lock /\ t.file = k.file
    BY ONLY <1>5, <1>6, <2>2, <2>4, k'.panic = "" DEF Keeps, Grows, Relocks
  <2>9. g.ip \in Inum => Loaded(t, Freed, g.ip)  BY ONLY <2>1, <2>6, <2>8 DEF Moved
  <2>10. LocksTaken(k.lock, t, Freed)  BY ONLY <2>4, <2>8, <2>9, OneTaken
  <2>11. FilesMoved(k.file, t, Freed)  BY ONLY <2>8, NothingTaken
  <2>12. f'[p] = h /\ \A q \in Proc \ {p} : f'[q] = f[q]  BY ONLY <1>0, <1>6
  <2>13. h.tx = g.tx /\ h.freeing = g.freeing  BY ONLY <1>0, FrameShape
  <2>14. h.pc = "new"  BY ONLY <1>0, FrameShape
  <2>15. h.ip = new.ip  BY ONLY <1>0, FrameShape
  <2> HIDE DEF h
  <2>16. ~h.freeing /\ InOperation(h)  BY ONLY <1>0, <1>3, <2>13, TxInOperation
  <2>17. ~f'[p].freeing /\ InOperation(f'[p])  BY ONLY <2>12, <2>16, Zenon
  <2>18. Making(f'[p], new.ip)  BY ONLY <2>12, <2>14, <2>15 DEF Making
  <2>19. Freed' = Freed
    <3>1. FrameInv  BY DEF Sane
    <3> QED  BY ONLY p \in Proc, <1>1, <2>12, <2>17, <3>1, FreedSame
  <2>20. Moved(k, k', Freed, new.ip) /\ LocksTaken(k.lock, k', Freed) /\ FilesMoved(k.file, k', Freed)
    BY ONLY <1>6, <2>7, <2>10, <2>11
  <2> QED  BY ONLY Kept, p \in Proc, <1>3, <2>12, <2>17, <2>18, <2>19, <2>20, KeptStep
<1>7. k' = k \/ k' = s \/ k' = Iget(s, old) => StateKept(k')
  <2>1. StateKept(k) /\ StateKept(s)  BY IlockState
  <2>2. Moved(k, s, Freed, 0)  BY <2>1 DEF StateKept
  <2> HIDE DEF s, old
  <2> DEFINE u == Iget(s, old)
  <2>3. Grows(s, u, old) /\ Moved(s, u, Freed, 0)  BY ONLY <1>5, IgetGrows, IgetMoved
  <2> HIDE DEF u
  <2>4. Moved(k, u, Freed, 0)  BY ONLY <2>2, <2>3, MovedTrans, Zenon
  <2>5. u.lock = k.lock /\ u.file = k.file  BY ONLY <1>5, <2>3 DEF Keeps, Grows
  <2>6. StateKept(u)  BY ONLY <2>4, <2>5, SameState
  <2> QED  BY ONLY <2>1, <2>6 DEF u
<1> HIDE DEF old
<1>8. Leaves(Puts(a, <<g.ip>>))
  <2>1. DOMAIN a = DOMAIN Idle /\ a.freeing = g.freeing  BY ONLY <1>0, FrameShape
  <2>2. a.puts = <<>>  BY ONLY <1>0, <1>1, FrameShape
  <2>3. a.pc = "exists"  BY ONLY <1>0, FrameShape
  <2> HIDE DEF a
  <2> DEFINE r == Puts(a, <<g.ip>>)
  <2>4. ~a.freeing  BY ONLY <1>0, <2>1, Zenon
  <2>5. ~r.freeing /\ r.pc = a.pc  BY ONLY <2>1, <2>2, <2>4, PutsOne, Zenon
  <2> HIDE DEF r
  <2>6. Leaves(r)  BY ONLY <2>3, <2>5 DEF Leaves, InOperation
  <2> QED  BY <2>6 DEF r
<1>9. Leaves(Ret(g, -1)) /\ Leaves(Puts(Ret(g, -1), <<g.ip>>))  BY <1>2, RetLeaves
<1>10. ASSUME k' = k \/ k' = s \/ k' = Iget(s, old),
              \/ f' = [f EXCEPT ![p] = Ret(g, -1)] \/ f' = [f EXCEPT ![p] = Puts(a, <<g.ip>>)]
              \/ f' = [f EXCEPT ![p] = Puts(Ret(g, -1), <<g.ip>>)]
       PROVE  Kept'
  <2>1. StateKept(k')  BY ONLY <1>7, <1>10
  <2> HIDE DEF a
  <2> QED  BY ONLY Sane, Kept, p \in Proc, <1>1, <1>3, <1>8, <1>9, <1>10, <2>1, LabelKept
<1> QED  BY ONLY <1>4, <1>6, <1>10

\* create names the inode it has taken; from here on the inode has a valid entry.
LEMMA CreateNewKept ==
  ASSUME Sane, Kept, NEW p \in Proc, CreateNew(p), k'.panic = ""
  PROVE  Kept'
<1> DEFINE g == f[p]
           dir == CreateType(g.call) = "dir"
           Add(r, i, name, inum) == IF r.ok THEN Dirlink(r.s, i, name, inum) ELSE r
           s == Ilock(k, g.ip)
           c == Updated(s, g.ip, [s.mem[g.ip] EXCEPT !.nlink = 1, !.major = g.call.major])
           r0 == [s |-> c, ok |-> TRUE]
           r1 == Add(r0, g.ip, ".", g.ip)
           r2 == Add(r1, g.ip, "..", g.dp)
           r3 == IF dir THEN r2 ELSE r0
           made == Add(r3, g.dp, Dirsiz(Head(g.path)), g.ip)
           u == Updated(made.s, g.ip, [made.s.mem[g.ip] EXCEPT !.nlink = 0])
           w == IF dir THEN Updated(made.s, g.dp, [made.s.mem[g.dp] EXCEPT !.nlink = @ + 1]) ELSE made.s
           kf == [u EXCEPT !.lock[g.dp] = 0]
           ko == [w EXCEPT !.lock[g.dp] = 0, !.lock[g.ip] = p]
           km == [w EXCEPT !.lock[g.dp] = 0]
           m == [g EXCEPT !.pc = "opened", !.dp = 0]
           Reached(x) == Good(x, Freed) /\ Keeps(s, x) /\ (s.panic = "" => Moved(s, x, Freed, 0))
<1>1. g.puts = <<>> /\ g.pc = "new"  BY DEF CreateNew, At
<1>2. AtLabelFacts(p)  BY <1>1, AtLabel
<1>0. DOMAIN g = DOMAIN Idle /\ ~g.freeing /\ DOMAIN f = Proc  BY <1>2 DEF AtLabelFacts
<1>3. Unlocked(g.ip)  BY DEF CreateNew
<1>4. /\ Good(s, Freed) /\ Keeps(k, s) /\ Moved(k, s, Freed, 0)
      /\ s.panic = "" => (g.ip \in Inum => Loaded(s, Freed, g.ip))
  BY <1>3, IlockFacts
<1>5. g.dp \in Inum => Loaded(s, Freed, g.dp)
  <2>1. g.dp \in Inum => k.lock[g.dp] = p  BY <1>1, <1>2 DEF AtLabelFacts
  <2>2. g.dp \in Inum => Loaded(k, Freed, g.dp)  BY <1>1, <2>1, MineLoaded
  <2> HIDE DEF s
  <2> QED  BY ONLY <1>4, <2>2 DEF Moved
<1>6. \/ k' = kf /\ f' = [f EXCEPT ![p] = Puts(Ret(g, -1), <<g.ip, g.dp>>)]
      \/ k' = km /\ f' = [f EXCEPT ![p] = Puts(Ret(g, 0), <<g.dp, g.ip>>)]
      \/ k' = ko /\ f' = [f EXCEPT ![p] = Puts(m, <<g.dp>>)]
  BY Zenon DEF CreateNew, Step
<1> HIDE DEF s
<1>7. ASSUME NEW x, Reached(x), s.panic = ""
      PROVE  /\ g.ip \in Inum => Loaded(x, Freed, g.ip)
             /\ g.dp \in Inum => Loaded(x, Freed, g.dp)
  BY ONLY <1>4, <1>5, <1>7 DEF Moved
<1>8. ASSUME NEW x, NEW y, Reached(x), Good(y, Freed), Keeps(x, y),
             s.panic = "" => Moved(x, y, Freed, 0)
      PROVE  Reached(y)
  <2>1. Keeps(s, y)  BY ONLY <1>8, KeepsTrans
  <2>2. s.panic = "" => Moved(s, y, Freed, 0)  BY ONLY <1>8, MovedTrans, Zenon
  <2> QED  BY ONLY <1>8, <2>1, <2>2
<1>9. Reached(c)
  <2>1. Good(c, Freed) /\ Keeps(s, c)  BY ONLY <1>4, CountedKeeps
  <2>2. s.panic = "" => Moved(s, c, Freed, 0)  BY ONLY <1>4, UpdatedMoved
  <2> HIDE DEF c
  <2> QED  BY ONLY <2>1, <2>2
<1>10. r0.s = c  OBVIOUS
<1> HIDE DEF c, r0
<1>11. Reached(r0.s)  BY ONLY <1>9, <1>10
<1> HIDE DEF Reached
<1>12. ASSUME NEW r, Reached(r.s), NEW i \in {g.ip, g.dp}, NEW name, NEW inum
       PROVE  Reached(Add(r, i, name, inum).s)
  <2>1. Good(r.s, Freed)  BY ONLY <1>12 DEF Reached
  <2>2. s.panic = "" => (i \in Inum => Loaded(r.s, Freed, i))  BY ONLY <1>7, <1>12
  <2>3. Good(Add(r, i, name, inum).s, Freed) /\ Keeps(r.s, Add(r, i, name, inum).s)
    BY ONLY <2>1, AddKeeps
  <2>4. s.panic = "" => Moved(r.s, Add(r, i, name, inum).s, Freed, 0)  BY ONLY <2>1, <2>2, AddMoved
  <2> HIDE DEF Add
  <2> QED  BY ONLY <1>8, <1>12, <2>3, <2>4
<1> HIDE DEF Add
<1>13. Reached(r1.s)  BY ONLY <1>11, <1>12 DEF r1
<1> HIDE DEF r1
<1>14. Reached(r2.s)  BY ONLY <1>12, <1>13 DEF r2
<1> HIDE DEF r2
<1>15. Reached(r3.s)  BY ONLY <1>11, <1>14 DEF r3
<1> HIDE DEF r3
<1>16. Reached(made.s)  BY ONLY <1>12, <1>15 DEF made
<1> HIDE DEF made
<1>17. /\ Good(made.s, Freed)
       /\ s.panic = "" => (g.ip \in Inum => Loaded(made.s, Freed, g.ip))
       /\ s.panic = "" => (g.dp \in Inum => Loaded(made.s, Freed, g.dp))
  <2>1. Good(made.s, Freed)  BY ONLY <1>16 DEF Reached
  <2> QED  BY ONLY <1>7, <1>16, <2>1
<1>18. Reached(u)
  <2>1. Good(u, Freed) /\ Keeps(made.s, u)  BY ONLY <1>17, LinksKeep
  <2>2. s.panic = "" => Moved(made.s, u, Freed, 0)  BY ONLY <1>17, UpdatedMoved
  <2> HIDE DEF u
  <2> QED  BY ONLY <1>8, <1>16, <2>1, <2>2
<1>19. Reached(w)
  <2> DEFINE v == Updated(made.s, g.dp, [made.s.mem[g.dp] EXCEPT !.nlink = @ + 1])
  <2>1. Good(v, Freed) /\ Keeps(made.s, v)  BY ONLY <1>17, LinksKeep
  <2>2. s.panic = "" => Moved(made.s, v, Freed, 0)  BY ONLY <1>17, UpdatedMoved
  <2>3. w = v \/ w = made.s  OBVIOUS
  <2> HIDE DEF v, w
  <2>4. Reached(v)  BY ONLY <1>8, <1>16, <2>1, <2>2
  <2> QED  BY ONLY <1>16, <2>3, <2>4
<1> HIDE DEF u, w
<1>20. ASSUME NEW x, NEW y, Reached(x), Moved(x, y, Freed, 0), y.panic = "", y.panic = x.panic,
              y.file = x.file,
              \A j \in Inum : y.lock[j] \in {0, x.lock[j]} \/ j = g.ip
       PROVE  StateKept(y) /\ (g.ip \in Inum => Loaded(y, Freed, g.ip))
  <2>1. Keeps(s, x) /\ (s.panic = "" => Moved(s, x, Freed, 0))  BY ONLY <1>20 DEF Reached
  <2>2. s.panic = "" /\ x.lock = k.lock /\ y.file = k.file  BY ONLY <1>4, <1>20, <2>1 DEF Keeps
  <2>3. Moved(s, y, Freed, 0)  BY ONLY <1>20, <2>1, <2>2, MovedTrans, Zenon
  <2>4. Moved(k, y, Freed, 0)  BY ONLY <1>4, <2>3, MovedTrans, Zenon
  <2>5. g.ip \in Inum => Loaded(y, Freed, g.ip)  BY ONLY <1>4, <2>2, <2>3 DEF Moved
  <2>6. LocksTaken(k.lock, y, Freed)  BY ONLY <1>20, <2>2, <2>5 DEF LocksTaken
  <2>7. FilesMoved(k.file, y, Freed)  BY ONLY <2>2, NothingTaken
  <2> QED  BY ONLY <2>4, <2>5, <2>6, <2>7 DEF StateKept
<1>21. kf.panic = "" => StateKept(kf) /\ (g.ip \in Inum => Loaded(kf, Freed, g.ip))
  <2>1. Good(u, Freed)  BY ONLY <1>18 DEF Reached
  <2>2. Relocks(u, kf, g.dp, 0) /\ Moved(u, kf, Freed, 0)  BY ONLY <2>1, LockKeeps, LockMoved
  <2> HIDE DEF kf
  <2>3. /\ kf.panic = u.panic /\ kf.file = u.file
        /\ \A j \in Inum : kf.lock[j] \in {0, u.lock[j]} \/ j = g.ip
    BY ONLY <2>2 DEF Relocks
  <2> QED  BY ONLY <1>18, <1>20, <2>2, <2>3
<1>22. km.panic = "" => StateKept(km) /\ (g.ip \in Inum => Loaded(km, Freed, g.ip))
  <2>1. Good(w, Freed)  BY ONLY <1>19 DEF Reached
  <2>2. Relocks(w, km, g.dp, 0) /\ Moved(w, km, Freed, 0)  BY ONLY <2>1, LockKeeps, LockMoved
  <2> HIDE DEF km
  <2>3. /\ km.panic = w.panic /\ km.file = w.file
        /\ \A j \in Inum : km.lock[j] \in {0, w.lock[j]} \/ j = g.ip
    BY ONLY <2>2 DEF Relocks
  <2> QED  BY ONLY <1>19, <1>20, <2>2, <2>3
<1>23. ko.panic = "" => StateKept(ko) /\ (g.ip \in Inum => Loaded(ko, Freed, g.ip))
  <2>1. Good(w, Freed)  BY ONLY <1>19 DEF Reached
  <2>2. /\ ko.file = w.file /\ ko.panic = w.panic
        /\ \A j \in Inum : ko.lock[j] = IF j = g.ip THEN p ELSE IF j = g.dp THEN 0 ELSE w.lock[j]
    BY ONLY <2>1, Shape DEF Good, TablesOK
  <2>3. Moved(w, ko, Freed, 0)  BY ONLY <2>1, LocksMoved
  <2> HIDE DEF ko
  <2>4. \A j \in Inum : ko.lock[j] \in {0, w.lock[j]} \/ j = g.ip  BY ONLY <2>2
  <2> QED  BY ONLY <1>19, <1>20, <2>2, <2>3, <2>4
<1>24. Leaves(Puts(m, <<g.dp>>))
  <2>1. DOMAIN m = DOMAIN Idle /\ m.freeing = g.freeing  BY ONLY <1>0, FrameShape
  <2>2. m.puts = <<>>  BY ONLY <1>0, <1>1, FrameShape
  <2>3. m.pc = "opened"  BY ONLY <1>0, FrameShape
  <2> HIDE DEF m
  <2> DEFINE r == Puts(m, <<g.dp>>)
  <2>4. ~m.freeing  BY ONLY <1>0, <2>1, Zenon
  <2>5. ~r.freeing /\ r.pc = m.pc  BY ONLY <2>1, <2>2, <2>4, PutsOne, Zenon
  <2> HIDE DEF r
  <2>6. Leaves(r)  BY ONLY <2>3, <2>5 DEF Leaves, InOperation
  <2> QED  BY <2>6 DEF r
<1>25. Leaves(Puts(Ret(g, -1), <<g.ip, g.dp>>)) /\ Leaves(Puts(Ret(g, 0), <<g.dp, g.ip>>))
  BY <1>2, RetLeaves
<1> HIDE DEF kf, km, ko, m
<1>26. StateKept(k') /\ (g.ip \in Inum => Loaded(k', Freed, g.ip))
  BY ONLY <1>6, <1>21, <1>22, <1>23, k'.panic = ""
<1>27. PICK h : Leaves(h) /\ f' = [f EXCEPT ![p] = h]  BY ONLY <1>6, <1>24, <1>25
<1>28. f'[p] = h /\ \A q \in Proc \ {p} : f'[q] = f[q]  BY ONLY <1>0, <1>27
<1>29. ~f'[p].freeing /\ InOperation(f'[p])  BY ONLY <1>27, <1>28, Zenon DEF Leaves
<1>30. Freed' = Freed
  <2>1. FrameInv  BY DEF Sane
  <2> QED  BY ONLY p \in Proc, <1>1, <1>28, <1>29, <2>1, FreedSame
<1>31. Moved(k, k', Freed, 0) /\ LocksTaken(k.lock, k', Freed) /\ FilesMoved(k.file, k', Freed)
  BY ONLY <1>26 DEF StateKept
<1> QED  BY ONLY Kept, p \in Proc, <1>26, <1>28, <1>29, <1>30, <1>31, KeptStep

\* A step that changes one entry of the file table, or none, and opens no inode.
LEMMA EntryState ==
  ASSUME Sane, NEW x, OneEntry(k.file, k'.file, x),
         k'.lost = k.lost, k'.ino = k.ino, k'.ref = k.ref, k'.valid = k.valid, k'.lock = k.lock,
         k'.file[x].type \in {"inode", "dev"} =>
           k'.file[x].type = k.file[x].type /\ k'.file[x].ip = k.file[x].ip
  PROVE  StateKept(k')
<1>1. Moved(k, k', Freed, 0)  BY MovedSame
<1>2. LocksTaken(k.lock, k', Freed)  BY NothingTaken
<1>3. FilesMoved(k.file, k', Freed)  BY DEF FilesMoved, OneEntry
<1> QED  BY ONLY <1>1, <1>2, <1>3 DEF StateKept

\* The frames of calls that return at once.
LEMMA IdleLeaves == \A n : Leaves(Ret(Idle, n))
<1> SUFFICES ASSUME NEW n  PROVE Leaves(Ret(Idle, n))  OBVIOUS
<1>1. Returns(Ret(Idle, n))  BY RetIdle
<1> QED  BY ONLY <1>1, RetInOperation DEF Leaves

\* fileclose.
LEMMA CloseFdKept ==
  ASSUME Sane, Kept, NEW p \in Proc, f[p].puts = <<>>, f[p].pc # "new",
         NEW d \in 0 .. NOFILE - 1, ofile[p][d] # 0, NEW g, CloseFd(p, d, g), k'.panic = "",
         DOMAIN g = DOMAIN Idle, ~g.freeing, g.pc \in {"ret", "exit"}
  PROVE  Kept'
<1> DEFINE x == ofile[p][d]
           file == k.file[x]
           h == [g EXCEPT !.to = g.pc, !.pc = "fileclose", !.ip = file.ip]
<1>1. f' = [f EXCEPT ![p] = h] \/ f' = [f EXCEPT ![p] = g]  BY DEF CloseFd
<1>2. \/ k' = Panic(k, "fileclose")
      \/ k' = [k EXCEPT !.file[x].ref = @ - 1]
      \/ \E w : k' = [k EXCEPT !.file[x] = NoFile, !.pipe[file.ip] = w]
      \/ k' = [k EXCEPT !.file[x] = NoFile]
  BY Zenon DEF CloseFd
<1>3. Good(k, Freed) /\ FrameInv /\ FileOK(k)  BY SaneGood DEF Sane
<1>4. x \in 1 .. NFILE
  <2>1. x \in 0 .. NFILE /\ x # 0  BY <1>3 DEF FrameInv
  <2> QED  BY ONLY <2>1, Numbers
<1>5. h.freeing = g.freeing  BY FrameShape
<1>6. h.pc = "fileclose"  BY FrameShape
<1>7. Leaves(h) /\ Leaves(g)
  <2> HIDE DEF h
  <2> QED  BY ONLY <1>5, <1>6, ~g.freeing, g.pc \in {"ret", "exit"}, GoesLeaves
<1> HIDE DEF x, h
<1>8. DOMAIN k.file = 1 .. NFILE /\ DOMAIN k.file[x] = DOMAIN NoFile
  BY <1>3, <1>4 DEF Good, TablesOK, FileOK
<1>9. NoFile.type = "none"  BY DEF NoFile
<1>11. ASSUME k' = [k EXCEPT !.file[x].ref = @ - 1]  PROVE StateKept(k')
  <2>1. /\ k'.lost = k.lost /\ k'.ino = k.ino /\ k'.ref = k.ref /\ k'.valid = k.valid /\ k'.lock = k.lock
        /\ k'.file = [k.file EXCEPT ![x] = [k.file[x] EXCEPT !.ref = @ - 1]]
    BY ONLY <1>3, <1>11, Shape DEF Good, TablesOK
  <2>2. OneEntry(k.file, k'.file, x)  BY ONLY <1>8, <2>1 DEF OneEntry
  <2>3. k'.file[x] = [k.file[x] EXCEPT !.ref = @ - 1]  BY ONLY <1>4, <1>8, <2>1
  <2>4. k'.file[x].type = k.file[x].type /\ k'.file[x].ip = k.file[x].ip  BY ONLY <1>8, <2>3, Shape
  <2> QED  BY ONLY Sane, <2>1, <2>2, <2>4, EntryState
<1>12. ASSUME k'.lost = k.lost, k'.ino = k.ino, k'.ref = k.ref, k'.valid = k.valid, k'.lock = k.lock,
              k'.file = [k.file EXCEPT ![x] = NoFile]
       PROVE  StateKept(k')
  <2>1. OneEntry(k.file, k'.file, x)  BY ONLY <1>8, <1>12 DEF OneEntry
  <2>2. k'.file[x] = NoFile  BY ONLY <1>4, <1>8, <1>12
  <2> QED  BY ONLY Sane, <1>9, <1>12, <2>1, <2>2, EntryState
<1>13. ASSUME k' = [k EXCEPT !.file[x] = NoFile]  PROVE StateKept(k')
  <2>1. /\ k'.lost = k.lost /\ k'.ino = k.ino /\ k'.ref = k.ref /\ k'.valid = k.valid /\ k'.lock = k.lock
        /\ k'.file = [k.file EXCEPT ![x] = NoFile]
    BY ONLY <1>3, <1>13, Shape DEF Good, TablesOK
  <2> QED  BY ONLY <1>12, <2>1
<1>14. ASSUME NEW w, k' = [k EXCEPT !.file[x] = NoFile, !.pipe[file.ip] = w]  PROVE StateKept(k')
  <2>1. /\ k'.lost = k.lost /\ k'.ino = k.ino /\ k'.ref = k.ref /\ k'.valid = k.valid /\ k'.lock = k.lock
        /\ k'.file = [k.file EXCEPT ![x] = NoFile]
    <3> DEFINE z == file.ip
    <3>1. k' = [k EXCEPT !.file[x] = NoFile, !.pipe[z] = w]  BY <1>14
    <3> HIDE DEF z
    <3> QED  BY ONLY <1>3, <3>1, Shape DEF Good, TablesOK
  <2> QED  BY ONLY <1>12, <2>1
<1>15. StateKept(k')
  <2>1. CASE k' = Panic(k, "fileclose")
    <3>1. Panic(k, "fileclose").panic # ""  BY <1>3, PanicKeeps
    <3> QED  BY <2>1, <3>1
  <2> QED  BY <1>2, <1>11, <1>13, <1>14, <2>1
<1> QED  BY ONLY Sane, Kept, p \in Proc, f[p].puts = <<>>, f[p].pc # "new", <1>1, <1>7, <1>15, LabelKept

\* filedup.
LEMMA DupKept ==
  ASSUME Sane, Kept, NEW p \in Proc, f[p].puts = <<>>, f[p].pc # "new",
         NEW c, HasFd(p, c), Dup(p, c), k'.panic = ""
  PROVE  Kept'
<1> DEFINE x == ofile[p][c.fd]
<1>1. k' = k \/ k' = [k EXCEPT !.file[x].ref = @ + 1]  BY Zenon DEF Dup, Step
<1>2. \E n : f' = [f EXCEPT ![p] = Ret(Idle, n)]  BY Zenon DEF Dup, Step
<1>3. Good(k, Freed) /\ FrameInv /\ FileOK(k)  BY SaneGood DEF Sane
<1>4. x \in 1 .. NFILE
  <2>1. c.fd \in 0 .. NOFILE - 1 /\ x # 0 /\ x \in 0 .. NFILE  BY <1>3 DEF HasFd, FrameInv
  <2> QED  BY ONLY <2>1, Numbers
<1> HIDE DEF x
<1>5. DOMAIN k.file = 1 .. NFILE /\ DOMAIN k.file[x] = DOMAIN NoFile
  BY <1>3, <1>4 DEF Good, TablesOK, FileOK
<1>6. ASSUME k' = [k EXCEPT !.file[x].ref = @ + 1]  PROVE StateKept(k')
  <2>1. /\ k'.lost = k.lost /\ k'.ino = k.ino /\ k'.ref = k.ref /\ k'.valid = k.valid /\ k'.lock = k.lock
        /\ k'.file = [k.file EXCEPT ![x] = [k.file[x] EXCEPT !.ref = @ + 1]]
    BY ONLY <1>3, <1>6, Shape DEF Good, TablesOK
  <2>2. OneEntry(k.file, k'.file, x)  BY ONLY <1>5, <2>1 DEF OneEntry
  <2>3. k'.file[x] = [k.file[x] EXCEPT !.ref = @ + 1]  BY ONLY <1>4, <1>5, <2>1
  <2>4. k'.file[x].type = k.file[x].type /\ k'.file[x].ip = k.file[x].ip  BY ONLY <1>5, <2>3, Shape
  <2> QED  BY ONLY Sane, <2>1, <2>2, <2>4, EntryState
<1>7. StateKept(k')  BY <1>1, <1>6, IlockState
<1> QED
  BY ONLY Sane, Kept, p \in Proc, f[p].puts = <<>>, f[p].pc # "new", <1>2, <1>7, IdleLeaves, LabelKept

\* pipealloc.
LEMMA PipeCallKept ==
  ASSUME Sane, Kept, NEW p \in Proc, f[p].puts = <<>>, f[p].pc # "new",
         NEW c, PipeCall(p, c), k'.panic = ""
  PROVE  Kept'
<1> DEFINE x == Min(FreeFile(k))
           y == Min(FreeFile(k) \ {x})
           i == Min({j \in 1 .. NFILE : k.pipe[j] = NoPipe})
           u == [NoFile EXCEPT !.ref = 1, !.type = "pipe", !.ip = i, !.readable = ~FALSE, !.writable = FALSE]
           v == [NoFile EXCEPT !.ref = 1, !.type = "pipe", !.ip = i, !.readable = ~TRUE, !.writable = TRUE]
           w == [data |-> <<>>, readopen |-> TRUE, writeopen |-> TRUE]
           t == [k EXCEPT !.file[x] = u, !.file[y] = v, !.pipe[i] = w]
<1>1. k' = k \/ k' = t  BY Zenon DEF PipeCall, Step
<1>2. \E n : f' = [f EXCEPT ![p] = Ret(Idle, n)]  BY Zenon DEF PipeCall, Step
<1>3. Good(k, Freed)  BY SaneGood
<1>4. u.type = "pipe" /\ v.type = "pipe"  BY DEF NoFile
<1> HIDE DEF x, y, i, u, v, w
<1>5. /\ t.lost = k.lost /\ t.ref = k.ref /\ t.lock = k.lock /\ t.ino = k.ino /\ t.valid = k.valid
      /\ t.file = [k.file EXCEPT ![x] = u, ![y] = v] /\ DOMAIN k.file = 1 .. NFILE
  BY <1>3, Shape DEF Good, TablesOK
<1> HIDE DEF t
<1>6. Moved(k, t, Freed, 0)  BY ONLY <1>5, MovedSame
<1>7. LocksTaken(k.lock, t, Freed)  BY ONLY <1>5, NothingTaken
<1>8. \A z \in 1 .. NFILE : t.file[z] = u \/ t.file[z] = v \/ t.file[z] = k.file[z]  BY ONLY <1>5
<1>9. FilesMoved(k.file, t, Freed)  BY ONLY <1>4, <1>8 DEF FilesMoved
<1>10. StateKept(t)  BY ONLY <1>6, <1>7, <1>9 DEF StateKept
<1>11. StateKept(k')  BY <1>1, <1>10, IlockState
<1> QED
  BY ONLY Sane, Kept, p \in Proc, f[p].puts = <<>>, f[p].pc # "new", <1>2, <1>11, IdleLeaves, LabelKept

\* exit closes the descriptors one after the other, then leaves the directory.
LEMMA ExitKept ==
  ASSUME Sane, Kept, NEW p \in Proc, Exit(p), k'.panic = ""
  PROVE  Kept'
<1> DEFINE S == {d \in DOMAIN ofile[p] : ofile[p][d] # 0}
           g == f[p]
           h == [Idle EXCEPT !.pc = "gone", !.tx = TRUE, !.puts = <<cwd[p]>>]
<1>1. g.puts = <<>> /\ g.pc = "exit"  BY DEF Exit, At
<1>2. AtLabelFacts(p)  BY <1>1, AtLabel
<1>3. DOMAIN g = DOMAIN Idle /\ ~g.freeing /\ g.pc # "new"  BY <1>1, <1>2 DEF AtLabelFacts
<1>4. DOMAIN ofile[p] = 0 .. NOFILE - 1  BY DEF Sane, FrameInv
<1>5. CASE \E d \in DOMAIN ofile[p] : ofile[p][d] # 0
  <2>1. CloseFd(p, Min(S), g)  BY <1>5 DEF Exit
  <2>2. S \in SUBSET Nat /\ S # {}
    <3>1. 0 .. NOFILE - 1 \subseteq Nat  BY ONLY Numbers
    <3> QED  BY <1>4, <1>5, <3>1
  <2>3. Min(S) \in S  BY ONLY <2>2, MinIn
  <2>4. Min(S) \in 0 .. NOFILE - 1 /\ ofile[p][Min(S)] # 0  BY <1>4, <2>3
  <2> HIDE DEF S, g
  <2>5. g.pc \in {"ret", "exit"} /\ f[p].puts = <<>> /\ f[p].pc # "new"  BY <1>1 DEF g
  <2> QED  BY ONLY Sane, Kept, p \in Proc, k'.panic = "", <1>3, <2>1, <2>4, <2>5, CloseFdKept
<1>6. CASE ~\E d \in DOMAIN ofile[p] : ofile[p][d] # 0
  <2>1. f' = [f EXCEPT ![p] = h] /\ k' = k  BY <1>6 DEF Exit
  <2>2. StateKept(k')  BY <2>1, IlockState
  <2>3. h.freeing = FALSE /\ h.pc = "gone"  BY DEF Idle
  <2> HIDE DEF h
  <2>4. Leaves(h)  BY ONLY <2>3 DEF Leaves, InOperation
  <2> QED  BY ONLY Sane, Kept, p \in Proc, <1>1, <1>3, <2>1, <2>2, <2>4, LabelKept
<1> QED  BY <1>5, <1>6

\* The entry of a system call.
LEMMA EnterKept ==
  ASSUME Sane, Kept, NEW p \in Proc, NEW c, Enter(p, c), k'.panic = ""
  PROVE  Kept'
<1> DEFINE a == Absolute(c.path)
           i == IF a THEN ROOTINO ELSE cwd[p]
           u == IF a THEN Iget(k, ROOTINO) ELSE Idup(k, cwd[p])
           to == WalkTo(c)
           b == [Idle EXCEPT !.call = c, !.tx = TRUE]
           h == [b EXCEPT !.pc = "walk", !.to = to, !.ip = i,
                          !.path = IF a THEN Tail(c.path) ELSE c.path]
           io == [Idle EXCEPT !.pc = c.sys, !.call = c]
           ex == [Idle EXCEPT !.pc = "exit"]
<1>1. f[p].puts = <<>> /\ f[p].pc # "new"  BY DEF Enter, At
<1>2. \/ \E n : k' = k /\ f' = [f EXCEPT ![p] = Ret(Idle, n)]
      \/ k' = u /\ f' = [f EXCEPT ![p] = h]
      \/ c.sys \in {"read", "write", "fstat"} /\ k' = k /\ f' = [f EXCEPT ![p] = io]
      \/ HasFd(p, c) /\ Dup(p, c)
      \/ HasFd(p, c) /\ CloseFd(p, c.fd, Ret(Idle, 0))
      \/ PipeCall(p, c)
      \/ k' = k /\ f' = [f EXCEPT ![p] = ex]
  BY Zenon DEF Enter, Walking, Step
<1>3. DOMAIN b = DOMAIN Idle /\ b.freeing = FALSE /\ b.tx = TRUE  BY DEF Idle
<1>4. Good(k, Freed)  BY SaneGood
<1>5. StateKept(k)  BY IlockState
<1>6. StateKept(u)
  <2>1. Moved(k, Iget(k, ROOTINO), Freed, 0) /\ Moved(k, Idup(k, cwd[p]), Freed, 0)
    BY ONLY <1>4, IgetMoved, IdupMoved
  <2>2. Grows(k, u, i)
    <3>1. cwd[p] \in Inum => k.ref[cwd[p]] > 0  BY CwdHeld
    <3> QED  BY <1>4, <3>1, StartGrows
  <2>3. Moved(k, u, Freed, 0)  BY <2>1
  <2> HIDE DEF u
  <2>4. u.lock = k.lock /\ u.file = k.file  BY ONLY <2>2 DEF Grows
  <2> QED  BY ONLY <2>3, <2>4, SameState
<1> HIDE DEF a, i, u, to, b
<1>7. Leaves(h)
  <2>1. h.freeing = b.freeing  BY ONLY <1>3, FrameShape
  <2>2. h.tx = b.tx  BY ONLY <1>3, FrameShape
  <2> HIDE DEF h
  <2> QED  BY ONLY <1>3, <2>1, <2>2, Zenon DEF Leaves, InOperation
<1>8. c.sys \in {"read", "write", "fstat"} => Leaves(io)
  <2>1. io.freeing = FALSE /\ io.pc = c.sys  BY DEF Idle
  <2> HIDE DEF io
  <2> QED  BY ONLY <2>1 DEF Leaves, InOperation
<1>9. Leaves(ex)
  <2>1. ex.freeing = FALSE /\ ex.pc = "exit"  BY DEF Idle
  <2> HIDE DEF ex
  <2> QED  BY ONLY <2>1 DEF Leaves, InOperation
<1>10. ASSUME HasFd(p, c), CloseFd(p, c.fd, Ret(Idle, 0))  PROVE Kept'
  <2> DEFINE r == Ret(Idle, 0)
  <2>1. Returns(r)  BY ONLY IdleFacts, RetFrame
  <2>2. c.fd \in 0 .. NOFILE - 1 /\ ofile[p][c.fd] # 0  BY <1>10 DEF HasFd
  <2>3. CloseFd(p, c.fd, r)  BY <1>10
  <2> HIDE DEF r
  <2>4. DOMAIN r = DOMAIN Idle /\ ~r.freeing /\ r.pc \in {"ret", "exit"}  BY <2>1 DEF Returns
  <2> QED  BY ONLY Sane, Kept, p \in Proc, k'.panic = "", <1>1, <2>2, <2>3, <2>4, CloseFdKept
<1>11. ASSUME NEW g, Leaves(g), k' = k \/ k' = u, f' = [f EXCEPT ![p] = g]  PROVE Kept'
  <2>1. StateKept(k')  BY ONLY <1>5, <1>6, <1>11
  <2> QED  BY ONLY Sane, Kept, p \in Proc, <1>1, <1>11, <2>1, LabelKept
<1>12. HasFd(p, c) /\ Dup(p, c) => Kept'
  BY ONLY Sane, Kept, p \in Proc, k'.panic = "", <1>1, DupKept
<1>13. PipeCall(p, c) => Kept'
  BY ONLY Sane, Kept, p \in Proc, k'.panic = "", <1>1, PipeCallKept
<1> HIDE DEF h, io, ex
<1> QED  BY ONLY <1>2, <1>7, <1>8, <1>9, <1>10, <1>11, <1>12, <1>13, IdleLeaves, Zenon

\* fork gives the child the files and the directory of its parent.
LEMMA ForkKept ==
  ASSUME Sane, Kept, NEW p \in Proc, NEW q \in Proc, Fork(p, q), k'.panic = ""
  PROVE  Kept'
<1> DEFINE Refs(x) == Cardinality({d \in DOMAIN ofile[p] : ofile[p][d] = x})
           file2 == [x \in DOMAIN k.file |-> [k.file[x] EXCEPT !.ref = @ + Refs(x)]]
           s == [k EXCEPT !.file = file2, !.killed = @ \ {q}]
           i == cwd[p]
           t == Idup(s, i)
<1>1. k' = t /\ f' = [f EXCEPT ![q] = Idle] /\ f[q].pc = "unused"  BY Zenon DEF Fork
<1>2. Good(k, Freed) /\ FileOK(k)  BY SaneGood DEF Sane
<1>3. f[q].puts = <<>>
  <2>1. PlacedOK(f[q])  BY DEF Sane, FrameInv, FrameOK
  <2> QED  BY <1>1, <2>1 DEF PlacedOK
<1>4. /\ DOMAIN s = DOMAIN k /\ s.ref = k.ref /\ s.lock = k.lock /\ s.panic = k.panic /\ s.lost = k.lost
      /\ s.ino = k.ino /\ s.mem = k.mem /\ s.valid = k.valid /\ s.file = file2
  BY <1>2, Shape DEF Good, TablesOK
<1>5. DOMAIN k.file = 1 .. NFILE /\ \A x \in 1 .. NFILE : DOMAIN k.file[x] = DOMAIN NoFile
  BY <1>2 DEF Good, TablesOK, FileOK
<1>6. ASSUME NEW x \in 1 .. NFILE
      PROVE  file2[x].type = k.file[x].type /\ file2[x].ip = k.file[x].ip
  BY <1>5, Shape
<1>7. DOMAIN file2 = 1 .. NFILE  BY <1>5
<1> HIDE DEF s, file2, i
<1>8. Good(s, Freed)  BY <1>2, <1>4, <1>7 DEF Good, TablesOK, CacheOK
<1>9. Moved(k, s, Freed, 0)  BY ONLY <1>4, MovedSame
<1>10. Moved(s, t, Freed, 0)  BY ONLY <1>8, IdupMoved
<1>11. t.lock = s.lock /\ t.file = s.file  BY <1>8, Shape DEF Good, TablesOK, Idup
<1> HIDE DEF t
<1>12. Moved(k, t, Freed, 0)  BY ONLY <1>9, <1>10, MovedTrans, Zenon
<1>13. LocksTaken(k.lock, t, Freed)
  <2>1. t.lock = k.lock  BY ONLY <1>4, <1>11
  <2> QED  BY ONLY <2>1, NothingTaken
<1>14. FilesMoved(k.file, t, Freed)
  <2>1. \A x \in 1 .. NFILE : t.file[x].type = k.file[x].type /\ t.file[x].ip = k.file[x].ip
    BY ONLY <1>4, <1>6, <1>11
  <2> QED  BY ONLY <2>1 DEF FilesMoved
<1>15. StateKept(k')  BY ONLY <1>1, <1>12, <1>13, <1>14 DEF StateKept
<1>16. Leaves(Idle)  BY DEF Leaves, InOperation, Idle
<1>17. f[q].pc # "new"  BY <1>1
<1> QED  BY ONLY Sane, Kept, q \in Proc, <1>1, <1>3, <1>15, <1>16, <1>17, LabelKept
-----------------------------------------------------------------------------
(* iput. *)

\* A change of one inode.
Touches(s, t, i) ==
  /\ t.lost = s.lost /\ t.ref = s.ref /\ t.valid = s.valid
  /\ \A j \in Inum : j # i => t.ino[j] = s.ino[j]

\* iupdate.
LEMMA UpdatedTouches ==
  ASSUME NEW s, NEW freed, Good(s, freed), NEW i, NEW ip
  PROVE  /\ Touches(s, Updated(s, i, ip), i)
         /\ i \in Inum => Updated(s, i, ip).ino[i] = ip
<1> DEFINE t == Updated(s, i, ip)
<1>1. /\ t.lost = s.lost /\ t.ref = s.ref /\ t.valid = s.valid
      /\ t.mem = [s.mem EXCEPT ![i] = ip]
      /\ t.ino = [s.ino EXCEPT ![i] = t.mem[i]]
  BY Shape DEF Good, TablesOK, Updated, Iupdate
<1>2. DOMAIN s.ino = Inum /\ DOMAIN s.mem = Inum  BY DEF Good, TablesOK
<1> HIDE DEF t
<1>3. \A j \in Inum : j # i => t.ino[j] = s.ino[j]  BY ONLY <1>1, <1>2
<1>4. i \in Inum => t.ino[i] = ip  BY ONLY <1>1, <1>2
<1>5. Touches(s, t, i)  BY ONLY <1>1, <1>3 DEF Touches
<1> QED  BY ONLY <1>4, <1>5 DEF t

\* itrunc.
LEMMA ItruncTouches ==
  ASSUME NEW s, NEW freed, Good(s, freed), NEW i
  PROVE  Touches(s, Itrunc(s, i), i)
<1> DEFINE gone == Truncated(s, i)
           t == IF gone \subseteq s.used THEN s ELSE Panic(s, "freeing free block")
           u == [t EXCEPT !.used = @ \ gone]
           ip == [t.mem[i] EXCEPT !.addrs = None.addrs, !.size = 0]
<1>1. Itrunc(s, i) = Updated(u, i, ip)  BY DEF Itrunc
<1> HIDE DEF gone
<1>2. Good(t, freed)  BY PanicKeeps
<1>3. t.lost = s.lost /\ t.ref = s.ref /\ t.valid = s.valid /\ t.ino = s.ino
  <2> DEFINE v == Panic(s, "freeing free block")
  <2>1. v.lost = s.lost /\ v.ref = s.ref /\ v.valid = s.valid /\ v.ino = s.ino
    BY Shape DEF Good, TablesOK, Panic
  <2>2. t = s \/ t = v  OBVIOUS
  <2> HIDE DEF t, v
  <2> QED  BY ONLY <2>1, <2>2
<1> HIDE DEF t
<1>4. /\ DOMAIN u = DOMAIN t /\ u.ref = t.ref /\ u.file = t.file /\ u.lock = t.lock /\ u.lost = t.lost
      /\ u.panic = t.panic /\ u.mem = t.mem /\ u.valid = t.valid /\ u.ino = t.ino
  BY <1>2, Shape DEF Good, TablesOK
<1> HIDE DEF u, ip
<1>5. Good(u, freed)  BY ONLY <1>2, <1>4 DEF Good, TablesOK, CacheOK
<1>6. Touches(u, Updated(u, i, ip), i)  BY ONLY <1>5, UpdatedTouches
<1>7. Touches(s, Updated(u, i, ip), i)  BY ONLY <1>3, <1>4, <1>6 DEF Touches
<1> QED  BY ONLY <1>1, <1>7

\* A step of iput on inode i.
LEMMA PutKept ==
  ASSUME Kept, NEW i,
         \A q \in Proc : f'[q].pc = f[q].pc /\ f'[q].ip = f[q].ip /\ InOperation(f'[q]),
         k'.lost = k.lost, k'.file = k.file,
         \A j \in Inum : j # i => /\ Loaded(k, Freed, j) => Loaded(k', Freed', j)
                                  /\ j \in Freed => j \in Freed'
                                  /\ k'.ino[j] = k.ino[j] /\ k'.lock[j] = k.lock[j],
         i \in Inum =>
           /\ k'.lock[i] # 0 => i \in Freed' \/ Loaded(k', Freed', i)
           /\ Orphan(k'.ino[i]) =>
                i \in k.lost \/ Loaded(k', Freed', i) \/ \E q \in Proc : Making(f[q], i)
           /\ \/ Loaded(k', Freed', i)
              \/ \A x \in 1 .. NFILE : k.file[x].type \in {"inode", "dev"} => k.file[x].ip # i
  PROVE  Kept'
<1>0. LocksLoaded /\ FilesLoaded /\ OrphansKept  BY DEF Kept
<1>1. LocksLoaded'
  <2> SUFFICES ASSUME NEW j \in Inum, k'.lock[j] # 0
               PROVE  j \in Freed' \/ Loaded(k', Freed', j)
    BY DEF LocksLoaded
  <2>1. CASE j = i  BY <2>1
  <2>2. CASE j # i
    <3>1. j \in Freed \/ Loaded(k, Freed, j)  BY <1>0, <2>2 DEF LocksLoaded
    <3> QED  BY <2>2, <3>1
  <2> QED  BY <2>1, <2>2
<1>2. FilesLoaded'
  <2> SUFFICES ASSUME NEW x \in 1 .. NFILE, k'.file[x].type \in {"inode", "dev"},
                      k'.file[x].ip \in Inum
               PROVE  Loaded(k', Freed', k'.file[x].ip)
    BY DEF FilesLoaded
  <2> DEFINE j == k.file[x].ip
  <2>1. k.file[x].type \in {"inode", "dev"} /\ j \in Inum /\ k'.file[x].ip = j  OBVIOUS
  <2>2. Loaded(k, Freed, j)  BY <1>0, <2>1 DEF FilesLoaded
  <2>3. Loaded(k', Freed', j)
    <3>1. CASE j = i  BY <2>1, <3>1
    <3>2. CASE j # i  BY <2>1, <2>2, <3>2
    <3> QED  BY <3>1, <3>2
  <2> QED  BY <2>1, <2>3
<1>3. OperationsOpen'  BY DEF OperationsOpen
<1>4. OrphansKept'
  <2> SUFFICES ASSUME NEW j \in Inum, Orphan(k'.ino[j])
               PROVE  j \in k'.lost \/ Loaded(k', Freed', j) \/ \E q \in Proc : Making(f'[q], j)
    BY DEF OrphansKept
  <2>1. \A q \in Proc : Making(f[q], j) => Making(f'[q], j)  BY DEF Making
  <2>2. CASE j = i  BY <2>1, <2>2
  <2>3. CASE j # i
    <3>1. j \in k.lost \/ Loaded(k, Freed, j) \/ \E q \in Proc : Making(f[q], j)
      BY <1>0, <2>3 DEF OrphansKept
    <3> QED  BY <2>1, <2>3, <3>1
  <2> QED  BY <2>2, <2>3
<1> QED  BY <1>1, <1>2, <1>3, <1>4 DEF Kept

\* The first half of the last put: nobody else uses the inode, and no file is open on it.
LEMMA IputFreeKept ==
  ASSUME Sane, Kept, NEW p \in Proc, IputFree(p), k'.panic = ""
  PROVE  Kept'
<1> DEFINE g == f[p]
           i == Head(g.puts)
           t == Itrunc(k, i)
           u == [t EXCEPT !.lock[i] = p]
           ip == [t.mem[i] EXCEPT !.type = "none"]
           h == [g EXCEPT !.freeing = TRUE]
<1>1. g.puts # <<>> /\ ~g.freeing /\ k.ref[i] = 1  BY DEF IputFree, LastUse
<1>2. Good(k, Freed) /\ FrameOK(g) /\ DOMAIN f = Proc  BY SaneGood DEF Sane, FrameInv
<1>3. i = g.puts[1]  BY <1>1, <1>2, PutsForms
<1>4. \/ k' = Updated(u, i, ip) /\ f' = [f EXCEPT ![p] = h]
      \/ k' = Panic(k, "sched locks")
  BY Zenon DEF IputFree, Step
<1>5. CASE k' = Panic(k, "sched locks")
  <2>1. Panic(k, "sched locks").panic # ""  BY <1>2, PanicKeeps
  <2> QED  BY <1>5, <2>1
<1>6. CASE k' = Updated(u, i, ip) /\ f' = [f EXCEPT ![p] = h]
  <2>1. f'[p] = h /\ \A q \in Proc \ {p} : f'[q] = f[q]  BY <1>2, <1>6
  <2>2. h.freeing = TRUE /\ h.pc = g.pc /\ h.ip = g.ip  BY <1>2, Shape DEF FrameOK
  <2>3. h.puts = g.puts  BY <1>2, Shape DEF FrameOK
  <2>4. h.tx = g.tx  BY <1>2, Shape DEF FrameOK
  <2> HIDE DEF h
  <2>5. \A j \in Inum : j # i => (j \in Freed' <=> j \in Freed)
    <3> SUFFICES ASSUME NEW j \in Inum, j # i
                 PROVE  \A q \in Proc : (f'[q].freeing /\ f'[q].puts[1] = j) <=> (f[q].freeing /\ f[q].puts[1] = j)
      BY DEF Freed
    <3> SUFFICES ASSUME NEW q \in Proc
                 PROVE  (f'[q].freeing /\ f'[q].puts[1] = j) <=> (f[q].freeing /\ f[q].puts[1] = j)
      OBVIOUS
    <3>1. CASE q = p
      <4>1. f'[q].puts[1] = i  BY <1>3, <2>1, <2>3, <3>1
      <4> QED  BY <1>3, <3>1, <4>1
    <3>2. CASE q # p  BY <2>1, <3>2
    <3> QED  BY <3>1, <3>2
  <2>6. i \in Inum => i \in Freed'
    <3>1. f'[p].freeing /\ f'[p].puts[1] = i  BY <1>3, <2>1, <2>2, <2>3
    <3> QED  BY <3>1 DEF Freed
  <2>7. Good(t, Freed) /\ Keeps(k, t) /\ Touches(k, t, i)  BY <1>2, ItruncKeeps, ItruncTouches
  <2>8. i \in Inum => DOMAIN t.mem[i] = DOMAIN None  BY <2>7 DEF Good, TablesOK
  <2>9. i \in Inum => ip.type = "none"  BY ONLY <2>8, Shape
  <2>10. \A x \in 1 .. NFILE : k.file[x].type \in {"inode", "dev"} /\ i \in Inum => k.file[x].ip # i
    BY <1>1, <1>3, LastPut
  <2> HIDE DEF t, i, ip
  <2>11. Good(u, Freed) /\ Relocks(t, u, i, p)  BY ONLY <2>7, LockKeeps
  <2>12. u.lost = t.lost /\ u.ref = t.ref /\ u.valid = t.valid /\ u.ino = t.ino
    BY <2>7, Shape DEF Good, TablesOK
  <2> HIDE DEF u
  <2>13. Touches(u, k', i) /\ (i \in Inum => k'.ino[i] = ip)  BY ONLY <1>6, <2>11, UpdatedTouches
  <2>14. k'.file = u.file /\ k'.lock = u.lock
    <3>1. DOMAIN u = DOMAIN Blank  BY <2>11 DEF Good, TablesOK
    <3> QED  BY ONLY <1>6, <3>1, Shape DEF Updated, Iupdate
  <2>15. /\ k'.lost = k.lost /\ k'.file = k.file /\ k'.ref = k.ref /\ k'.valid = k.valid
         /\ \A j \in Inum : j # i => k'.ino[j] = k.ino[j] /\ k'.lock[j] = k.lock[j]
    BY ONLY <2>7, <2>11, <2>12, <2>13, <2>14 DEF Touches, Keeps, Relocks
  <2>16. \A j \in Inum : j # i => (Loaded(k, Freed, j) => Loaded(k', Freed', j))
    BY ONLY <2>5, <2>15, Zenon DEF Loaded
  <2>17. i \in Inum => ~Orphan(k'.ino[i])  BY <2>9, <2>13 DEF Orphan
  <2>18. \A q \in Proc : f'[q].pc = f[q].pc /\ f'[q].ip = f[q].ip /\ f'[q].tx = f[q].tx
    BY <2>1, <2>2, <2>4
  <2>19. \A q \in Proc : InOperation(f[q])  BY DEF Kept, OperationsOpen
  <2>20. \A q \in Proc : InOperation(f'[q])  BY ONLY <2>18, <2>19, Zenon DEF InOperation
  <2> QED
    BY ONLY Kept, <2>5, <2>6, <2>10, <2>15, <2>16, <2>17, <2>18, <2>20, PutKept
<1> QED  BY <1>4, <1>5, <1>6

\* A put, or the second half of the last one.  A put that drops the count to 0 without
\* freeing the inode leaves one with a link.
LEMMA IputDoneKept ==
  ASSUME Sane, Kept, NEW p \in Proc, IputDone(p), k'.panic = ""
  PROVE  Kept'
<1> DEFINE g == f[p]
           i == Head(g.puts)
           s == IF g.freeing THEN IputFreed(k, i) ELSE k
           t == [s EXCEPT !.ref[i] = @ - 1]
           h == [g EXCEPT !.puts = Tail(@), !.freeing = FALSE, !.tx = @ /\ g.pc # "exit"]
<1>1. /\ g.puts # <<>> /\ k' = t /\ f' = [f EXCEPT ![p] = h]
      /\ g.freeing \/ ~LastUse(k, i)
  BY Zenon DEF IputDone, Step
<1>2. /\ Good(k, Freed) /\ FrameOK(g) /\ DOMAIN f = Proc
      /\ \A j \in Inum \ Freed : k.ref[j] > 0 /\ k.valid[j] => k.mem[j] = k.ino[j]
  BY SaneGood DEF Sane, FrameInv, CacheOK
<1>3. i = g.puts[1]  BY <1>1, <1>2, PutsForms
<1>4. i \in Inum => k.ref[i] > 0  BY <1>1, <1>3, PutHeld
<1>5. f'[p] = h /\ \A q \in Proc \ {p} : f'[q] = f[q]  BY <1>1, <1>2
<1>6. h.freeing = FALSE /\ h.pc = g.pc /\ h.ip = g.ip  BY <1>2, Shape DEF FrameOK
<1>7. h.tx = (g.tx /\ g.pc # "exit")  BY <1>2, Shape DEF FrameOK
<1>8. ~g.freeing /\ i \in Inum /\ k.ref[i] = 1 =>
        /\ k.lock[i] = 0
        /\ \A x \in 1 .. NFILE : k.file[x].type \in {"inode", "dev"} => k.file[x].ip # i
  BY <1>1, <1>3, LastPut
<1>9. /\ DOMAIN k = DOMAIN Blank /\ DOMAIN k.ref = Inum /\ DOMAIN k.valid = Inum /\ DOMAIN k.lock = Inum
      /\ \A j \in Inum : k.ref[j] \in Nat
  BY <1>2 DEF Good, TablesOK
<1>10. g.freeing /\ i \in Inum => i \in Freed  BY <1>3 DEF Freed
<1> HIDE DEF h, i
<1>11. \A j \in Inum : j \in Freed' => j \in Freed
  <2> SUFFICES ASSUME NEW j \in Inum, NEW q \in Proc, f'[q].freeing, f'[q].puts[1] = j
               PROVE  j \in Freed
    BY DEF Freed
  <2>1. q # p  BY <1>5, <1>6
  <2>2. f'[q] = f[q]  BY <1>5, <2>1
  <2> QED  BY <2>2 DEF Freed
<1>12. \A j \in Inum : j \in Freed /\ (g.freeing => j # i) => j \in Freed'
  <2> SUFFICES ASSUME NEW j \in Inum, NEW q \in Proc, f[q].freeing, f[q].puts[1] = j, g.freeing => j # i
               PROVE  j \in Freed'
    BY DEF Freed
  <2>1. q # p  BY <1>3
  <2>2. f'[q] = f[q]  BY <1>5, <2>1
  <2> QED  BY <2>2 DEF Freed
<1>13. \A q \in Proc : f'[q].pc = f[q].pc /\ f'[q].ip = f[q].ip  BY <1>5, <1>6
<1>14. \A q \in Proc : InOperation(f'[q])
  <2> SUFFICES ASSUME NEW q \in Proc  PROVE InOperation(f'[q])  OBVIOUS
  <2>1. InOperation(f[q])  BY DEF Kept, OperationsOpen
  <2>2. CASE q = p
    <3>1. InOperation(g)  BY <2>1, <2>2
    <3>2. g.tx /\ g.pc # "exit" => h.tx  BY ONLY <1>7, Zenon
    <3>3. g.pc = "exit" => g.pc \notin {"walk", "create", "new", "old"}  OBVIOUS
    <3>4. InOperation(h)  BY ONLY <1>6, <3>1, <3>2, <3>3 DEF InOperation
    <3> QED  BY <1>5, <2>2, <3>4
  <2>3. CASE q # p  BY <1>5, <2>1, <2>3
  <2> QED  BY <2>2, <2>3
<1>15. /\ DOMAIN s = DOMAIN k /\ s.lost = k.lost /\ s.file = k.file /\ s.ino = k.ino /\ s.ref = k.ref
       /\ \A j \in Inum : j # i \/ ~g.freeing => s.valid[j] = k.valid[j] /\ s.lock[j] = k.lock[j]
       /\ g.freeing /\ i \in Inum => s.lock[i] = 0
  <2>1. CASE g.freeing
    <3> DEFINE v == [k EXCEPT !.valid[i] = FALSE, !.lock[i] = 0]
    <3>1. s = v  BY <2>1 DEF IputFreed
    <3>2. /\ DOMAIN v = DOMAIN k /\ v.lost = k.lost /\ v.file = k.file /\ v.ino = k.ino /\ v.ref = k.ref
          /\ v.valid = [k.valid EXCEPT ![i] = FALSE] /\ v.lock = [k.lock EXCEPT ![i] = 0]
      BY ONLY <1>9, Shape
    <3> HIDE DEF s, v
    <3>3. /\ \A j \in Inum : j # i => v.valid[j] = k.valid[j] /\ v.lock[j] = k.lock[j]
          /\ i \in Inum => v.lock[i] = 0
      BY ONLY <1>9, <3>2
    <3> QED  BY ONLY <2>1, <3>1, <3>2, <3>3
  <2>2. CASE ~g.freeing
    <3>1. s = k  BY <2>2
    <3> QED  BY ONLY <2>2, <3>1
  <2> QED  BY <2>1, <2>2
<1> HIDE DEF s
<1>16. /\ t.lost = s.lost /\ t.file = s.file /\ t.ino = s.ino /\ t.valid = s.valid /\ t.lock = s.lock
       /\ t.ref = [s.ref EXCEPT ![i] = s.ref[i] - 1]
  BY ONLY <1>9, <1>15, Shape
<1> HIDE DEF t
<1>17. /\ k'.lost = k.lost /\ k'.file = k.file /\ k'.ino = k.ino
       /\ \A j \in Inum : j # i => k'.ref[j] = k.ref[j]
       /\ i \in Inum => k'.ref[i] = k.ref[i] - 1
       /\ \A j \in Inum : j # i \/ ~g.freeing => k'.valid[j] = k.valid[j] /\ k'.lock[j] = k.lock[j]
       /\ g.freeing /\ i \in Inum => k'.lock[i] = 0
  BY ONLY <1>1, <1>9, <1>15, <1>16
<1>18. \A j \in Inum : j # i => (Loaded(k, Freed, j) => Loaded(k', Freed', j))
  <2>1. \A j \in Inum : j # i => k'.ref[j] = k.ref[j] /\ k'.valid[j] = k.valid[j]  BY ONLY <1>17
  <2> QED  BY ONLY <1>11, <2>1, Zenon DEF Loaded
<1>19. /\ LocksLoaded /\ FilesLoaded /\ OrphansKept  BY DEF Kept
<1>20. \A j \in Inum : j # i => (j \in Freed => j \in Freed') /\ k'.ino[j] = k.ino[j] /\ k'.lock[j] = k.lock[j]
  BY ONLY <1>12, <1>17
<1>21. CASE g.freeing
  <2>1. i \in Inum => ~Loaded(k, Freed, i)  BY <1>10, <1>21 DEF Loaded
  <2>2. i \in Inum => /\ k'.lock[i] = 0
                      /\ Orphan(k'.ino[i]) => i \in k.lost \/ \E q \in Proc : Making(f[q], i)
    BY <1>17, <1>19, <1>21, <2>1 DEF OrphansKept
  <2>3. i \in Inum => \A x \in 1 .. NFILE : k.file[x].type \in {"inode", "dev"} => k.file[x].ip # i
    BY <1>19, <2>1 DEF FilesLoaded
  <2> QED  BY ONLY Kept, <1>13, <1>14, <1>17, <1>18, <1>20, <2>2, <2>3, PutKept
<1>22. CASE ~g.freeing /\ (i \in Inum => k.ref[i] # 1)
  <2>1. i \in Inum => k'.ref[i] > 0  BY ONLY <1>4, <1>9, <1>17, <1>22
  <2>2. i \in Inum => k'.valid[i] = k.valid[i] /\ k'.lock[i] = k.lock[i] /\ k'.ino[i] = k.ino[i]
    BY ONLY <1>17, <1>22
  <2>3. i \in Inum => (Loaded(k, Freed, i) => Loaded(k', Freed', i))
    BY ONLY <1>11, <2>1, <2>2, Zenon DEF Loaded
  <2>4. i \in Inum /\ i \in Freed => i \in Freed'  BY <1>12, <1>22
  <2>5. i \in Inum /\ k'.lock[i] # 0 => i \in Freed' \/ Loaded(k', Freed', i)
    BY <1>19, <2>2, <2>3, <2>4 DEF LocksLoaded
  <2>6. i \in Inum /\ Orphan(k'.ino[i]) =>
          i \in k.lost \/ Loaded(k', Freed', i) \/ \E q \in Proc : Making(f[q], i)
    BY <1>19, <2>2, <2>3 DEF OrphansKept
  <2>7. i \in Inum =>
          \/ Loaded(k', Freed', i)
          \/ \A x \in 1 .. NFILE : k.file[x].type \in {"inode", "dev"} => k.file[x].ip # i
    BY <1>19, <2>3 DEF FilesLoaded
  <2> QED  BY ONLY Kept, <1>13, <1>14, <1>17, <1>18, <1>20, <2>5, <2>6, <2>7, PutKept
<1>23. CASE ~g.freeing /\ i \in Inum /\ k.ref[i] = 1
  <2>1. /\ k'.lock[i] = 0
        /\ \A x \in 1 .. NFILE : k.file[x].type \in {"inode", "dev"} => k.file[x].ip # i
    BY <1>8, <1>17, <1>23
  <2>2. ~(k.valid[i] /\ k.mem[i].nlink = 0)  BY <1>1, <1>23 DEF LastUse
  <2>3. Loaded(k, Freed, i) => k.mem[i] = k.ino[i]  BY <1>2, <1>23 DEF Loaded
  <2>4. Loaded(k, Freed, i) => k.valid[i]  BY DEF Loaded
  <2>5. Orphan(k.ino[i]) => k.ino[i].nlink = 0  BY DEF Orphan
  <2>6. Orphan(k'.ino[i]) => i \in k.lost \/ \E q \in Proc : Making(f[q], i)
    BY <1>17, <1>19, <1>23, <2>2, <2>3, <2>4, <2>5 DEF OrphansKept
  <2> QED  BY ONLY Kept, <1>13, <1>14, <1>17, <1>18, <1>20, <1>23, <2>1, <2>6, PutKept
<1> QED  BY <1>21, <1>22, <1>23

-----------------------------------------------------------------------------
(* A kernel that has just booted. *)

\* Nothing is open and nothing is locked; inodes without links were there before.
LEMMA FreshKept ==
  ASSUME NEW p \in Proc, Fresh(p), \A i \in Inum : Orphan(k.ino[i]) => i \in k.lost
  PROVE  Kept
<1> DEFINE h == [Idle EXCEPT !.pc = "unused"]
<1>1. h.pc = "unused" /\ Idle.pc = "idle"  BY DEF Idle
<1>2. \A q \in Proc : f[q] = IF q = p THEN Idle ELSE h  BY DEF Fresh
<1> HIDE DEF h
<1>3. \A q \in Proc : f[q].pc \in {"idle", "unused"}  BY ONLY <1>1, <1>2
<1>4. LocksLoaded  BY DEF LocksLoaded, Fresh
<1>5. NoFile.type = "none"  BY DEF NoFile
<1>6. FilesLoaded  BY <1>5 DEF FilesLoaded, Fresh
<1>7. OperationsOpen  BY ONLY <1>3 DEF OperationsOpen, InOperation
<1>8. OrphansKept  BY DEF OrphansKept
<1> QED  BY <1>4, <1>6, <1>7, <1>8 DEF Kept

\* The same of the state after a power failure.
LEMMA FreshKeptLater ==
  \A p \in Proc : (Fresh(p) /\ \A i \in Inum : Orphan(k.ino[i]) => i \in k.lost)' => Kept'
<1>1. \A p \in Proc : Fresh(p) /\ (\A i \in Inum : Orphan(k.ino[i]) => i \in k.lost) => Kept
  BY FreshKept
<1>2. (\A p \in Proc : Fresh(p) /\ (\A i \in Inum : Orphan(k.ino[i]) => i \in k.lost) => Kept)'
  BY <1>1, PTL
<1> QED  BY <1>2

\* The system starts on the disk that mkfs made, where every inode in use has a link.
LEMMA BootKept ==
  ASSUME Init
  PROVE  Kept
<1> DEFINE p == CHOOSE q \in Proc : TRUE
           ino == Mkfs.ino
           s == [Blank EXCEPT !.ino = ino, !.used = Mkfs.used, !.blk = Mkfs.blk, !.ref[ROOTINO] = 1]
<1>1. p \in Proc  BY Numbers
<1>2. /\ DOMAIN ino = Inum /\ \A i \in Inum : DOMAIN ino[i] = DOMAIN None
      /\ \A i \in Inum : ~Orphan(ino[i])
  BY MkfsAssumption DEF Orphan
<1>3. /\ k = s /\ ofile = [q \in Proc |-> [d \in 0 .. NOFILE - 1 |-> 0]]
      /\ cwd = [q \in Proc |-> IF q = p THEN ROOTINO ELSE 0]
      /\ f = [q \in Proc |-> IF q = p THEN Idle ELSE [Idle EXCEPT !.pc = "unused"]]
  BY DEF Init, Booted
<1> HIDE DEF p, ino
<1>4. /\ DOMAIN s = DOMAIN Blank /\ s.ino = ino /\ s.ref = [Blank.ref EXCEPT ![ROOTINO] = 1]
      /\ s.valid = Blank.valid /\ s.lock = Blank.lock /\ s.mem = Blank.mem /\ s.file = Blank.file
  BY Shape
<1> HIDE DEF s
<1>5. DOMAIN s.ref = Inum /\ \A i \in Inum : s.ref[i] = IF i = ROOTINO THEN 1 ELSE 0
  BY ONLY <1>4, BlankFields
<1>6. \A i \in Inum : s.ref[i] = One(ROOTINO, i)  BY <1>5 DEF One
<1>7. Fresh(p)  BY ONLY <1>2, <1>3, <1>4, <1>5, <1>6, BlankFields DEF Fresh
<1>8. \A i \in Inum : Orphan(k.ino[i]) => i \in k.lost  BY ONLY <1>2, <1>3, <1>4
<1> QED  BY ONLY <1>1, <1>7, <1>8, FreshKept

\* A power failure: what has no link then is lost.
LEMMA CrashKept ==
  ASSUME Sane, NEW p \in Proc, Crash(p)
  PROVE  Kept'
<1> DEFINE lost == {i \in Inum : k.ino[i].type # "none" /\ k.ino[i].nlink = 0}
<1>1. /\ k' = [Blank EXCEPT !.ino = k.ino, !.used = k.used, !.blk = k.blk, !.ref[ROOTINO] = 1,
                            !.lost = lost]
      /\ ofile' = [q \in Proc |-> [d \in 0 .. NOFILE - 1 |-> 0]]
      /\ cwd' = [q \in Proc |-> IF q = p THEN ROOTINO ELSE 0]
      /\ f' = [q \in Proc |-> IF q = p THEN Idle ELSE [Idle EXCEPT !.pc = "unused"]]
  BY DEF Crash
<1>2. DOMAIN k.ino = Inum /\ \A i \in Inum : DOMAIN k.ino[i] = DOMAIN None  BY DEF Sane, TablesOK
<1>3. \A i \in Inum : Orphan(k.ino[i]) => i \in lost  BY DEF Orphan
<1> HIDE DEF lost
<1>4. /\ DOMAIN k' = DOMAIN Blank /\ k'.ino = k.ino /\ k'.ref = [Blank.ref EXCEPT ![ROOTINO] = 1]
      /\ k'.valid = Blank.valid /\ k'.lock = Blank.lock /\ k'.mem = Blank.mem /\ k'.file = Blank.file
      /\ k'.lost = lost
  BY <1>1, Shape
<1>5. DOMAIN k'.ref = Inum /\ \A i \in Inum : k'.ref[i] = IF i = ROOTINO THEN 1 ELSE 0
  BY ONLY <1>4, BlankFields
<1>6. \A i \in Inum : k'.ref[i] = One(ROOTINO, i)  BY <1>5 DEF One
<1>7. Fresh(p)'  BY ONLY <1>1, <1>2, <1>4, <1>5, <1>6, BlankFields DEF Fresh
<1>8. \A i \in Inum : Orphan(k'.ino[i]) => i \in k'.lost  BY ONLY <1>3, <1>4
<1> QED  BY ONLY p \in Proc, <1>7, <1>8, FreshKeptLater
-----------------------------------------------------------------------------
(* The invariant. *)

\* Every step of the kernel, a fork, a call and a power failure keeps the invariant
\* unless it panics.
LEMMA NextKept ==
  ASSUME KeptInv, Next, k'.panic = ""
  PROVE  Kept'
<1> PICK p \in Proc :
      \/ Inside(p) \/ Return(p) \/ Gone(p)
      \/ \E c : Enter(p, c)
      \/ \E q \in Proc : Fork(p, q)
      \/ Crash(p)
  BY Zenon DEF Next, UserCall
<1>1. ASSUME Up  PROVE Sane /\ Kept  BY <1>1 DEF KeptInv, NoPanic, Up
<1>2. CASE Namex(p)
  <2>1. Up  BY <1>2 DEF Namex, At
  <2> QED  BY ONLY <1>1, <1>2, <2>1, p \in Proc, k'.panic = "", NamexKept
<1>3. CASE IputFree(p)
  <2>1. Up  BY <1>3 DEF IputFree, At
  <2> QED  BY ONLY <1>1, <1>3, <2>1, p \in Proc, k'.panic = "", IputFreeKept
<1>4. CASE IputDone(p)
  <2>1. Up  BY <1>4 DEF IputDone, At
  <2> QED  BY ONLY <1>1, <1>4, <2>1, p \in Proc, k'.panic = "", IputDoneKept
<1>5. CASE OpenExisting(p)
  <2>1. Up  BY <1>5 DEF OpenExisting, At
  <2> QED  BY ONLY <1>1, <1>5, <2>1, p \in Proc, k'.panic = "", OpenExistingKept
<1>6. CASE Opened(p)
  <2>1. Up  BY <1>6 DEF Opened, At
  <2> QED  BY ONLY <1>1, <1>6, <2>1, p \in Proc, k'.panic = "", OpenedKept
<1>7. CASE Create(p)
  <2>1. Up  BY <1>7 DEF Create, At
  <2> QED  BY ONLY <1>1, <1>7, <2>1, p \in Proc, k'.panic = "", CreateKept
<1>8. CASE CreateExists(p)
  <2>1. Up  BY <1>8 DEF CreateExists, At
  <2> QED  BY ONLY <1>1, <1>8, <2>1, p \in Proc, k'.panic = "", CreateExistsKept
<1>9. CASE CreateNew(p)
  <2>1. Up  BY <1>9 DEF CreateNew, At
  <2> QED  BY ONLY <1>1, <1>9, <2>1, p \in Proc, k'.panic = "", CreateNewKept
<1>10. CASE Link(p)
  <2>1. Up  BY <1>10 DEF Link, At
  <2> QED  BY ONLY <1>1, <1>10, <2>1, p \in Proc, k'.panic = "", LinkKept
<1>11. CASE LinkName(p)
  <2>1. Up  BY <1>11 DEF LinkName, At
  <2> QED  BY ONLY <1>1, <1>11, <2>1, p \in Proc, k'.panic = "", LinkNameKept
<1>12. CASE LinkBad(p)
  <2>1. Up  BY <1>12 DEF LinkBad, At
  <2> QED  BY ONLY <1>1, <1>12, <2>1, p \in Proc, k'.panic = "", LinkBadKept
<1>13. CASE Unlink(p)
  <2>1. Up  BY <1>13 DEF Unlink, At
  <2> QED  BY ONLY <1>1, <1>13, <2>1, p \in Proc, k'.panic = "", UnlinkKept
<1>14. CASE UnlinkEntry(p)
  <2>1. Up  BY <1>14 DEF UnlinkEntry, At
  <2> QED  BY ONLY <1>1, <1>14, <2>1, p \in Proc, k'.panic = "", UnlinkEntryKept
<1>15. CASE Unlinked(p)
  <2>1. Up  BY <1>15 DEF Unlinked, At
  <2> QED  BY ONLY <1>1, <1>15, <2>1, p \in Proc, k'.panic = "", UnlinkedKept
<1>16. CASE Chdir(p)
  <2>1. Up  BY <1>16 DEF Chdir, At
  <2> QED  BY ONLY <1>1, <1>16, <2>1, p \in Proc, k'.panic = "", ChdirKept
<1>17. CASE ReadProgram(p)
  <2>1. Up  BY <1>17 DEF ReadProgram, At
  <2> QED  BY ONLY <1>1, <1>17, <2>1, p \in Proc, k'.panic = "", ReadProgramKept
<1>18. CASE Fileclose(p)
  <2>1. Up  BY <1>18 DEF Fileclose, At
  <2> QED  BY ONLY <1>1, <1>18, <2>1, p \in Proc, k'.panic = "", FilecloseKept
<1>19. CASE Read(p)
  <2>1. Up  BY <1>19 DEF Read, At
  <2> QED  BY ONLY <1>1, <1>19, <2>1, p \in Proc, k'.panic = "", ReadKept
<1>20. CASE Write(p)
  <2>1. Up  BY <1>20 DEF Write, At
  <2> QED  BY ONLY <1>1, <1>20, <2>1, p \in Proc, k'.panic = "", WriteKept
<1>21. CASE Fstat(p)
  <2>1. Up  BY <1>21 DEF Fstat, At
  <2> QED  BY ONLY <1>1, <1>21, <2>1, p \in Proc, k'.panic = "", FstatKept
<1>22. CASE Exit(p)
  <2>1. Up  BY <1>22 DEF Exit, At
  <2> QED  BY ONLY <1>1, <1>22, <2>1, p \in Proc, k'.panic = "", ExitKept
<1>23. CASE Return(p)
  <2>1. Up  BY <1>23 DEF Return, At
  <2> QED  BY ONLY <1>1, <1>23, <2>1, p \in Proc, k'.panic = "", ReturnToUserKept
<1>24. CASE Gone(p)
  <2>1. Up  BY <1>24 DEF Gone, At
  <2> QED  BY ONLY <1>1, <1>24, <2>1, p \in Proc, k'.panic = "", GoneKept
<1>25. ASSUME NEW c, Enter(p, c)  PROVE Kept'
  <2>1. Up  BY <1>25 DEF Enter, At
  <2> QED  BY ONLY <1>1, <1>25, <2>1, p \in Proc, k'.panic = "", EnterKept
<1>26. ASSUME NEW q \in Proc, Fork(p, q)  PROVE Kept'
  <2>1. Up  BY <1>26 DEF Fork, At
  <2> QED  BY ONLY <1>1, <1>26, <2>1, p \in Proc, k'.panic = "", ForkKept
<1>27. CASE Crash(p)
  <2>1. Up  BY <1>27 DEF Crash
  <2> QED  BY ONLY <1>1, <1>27, <2>1, p \in Proc, CrashKept
<1> QED
  BY Zenon, <1>2, <1>3, <1>4, <1>5, <1>6, <1>7, <1>8, <1>9, <1>10, <1>11, <1>12, <1>13, <1>14,
     <1>15, <1>16, <1>17, <1>18, <1>19, <1>20, <1>21, <1>22, <1>23, <1>24, <1>25, <1>26, <1>27
     DEF Inside

\* The inductive invariant: until a panic, and with the tables sane, every lock and every
\* open file is on an inode that was read from disk and that no put is freeing, and every
\* inode without a link is answered for.
THEOREM KeptUntilPanic == Spec => []KeptInv
<1>1. Init => KeptInv  BY BootSane, BootKept DEF KeptInv
<1>2. KeptInv /\ [Next]_<<vars, left>> => KeptInv'
  <2> SUFFICES ASSUME KeptInv, [Next]_<<vars, left>>, NoPanic'  PROVE Sane' /\ Kept'  BY DEF KeptInv
  <2>1. k'.panic = ""  BY DEF NoPanic
  <2>2. CASE Next
    <3>1. IInv  BY DEF KeptInv, IInv
    <3>2. Sane'  BY <2>1, <2>2, <3>1, NextSane
    <3>3. Kept'  BY <2>1, <2>2, NextKept
    <3> QED  BY <3>2, <3>3
  <2>3. CASE UNCHANGED <<vars, left>>
    <3>1. Sane /\ Kept  BY <2>1, <2>3 DEF KeptInv, NoPanic, vars
    <3>2. UNCHANGED <<k, ofile, cwd, f>>  BY <2>3 DEF vars
    <3>3. Sane'  BY <3>1, <3>2 DEF Sane, FrameInv, CountsRight, Uses, LockInv, Freed
    <3>4. Kept'
      BY <3>1, <3>2 DEF Kept, LocksLoaded, FilesLoaded, OperationsOpen, OrphansKept, Freed
    <3> QED  BY <3>3, <3>4
  <2> QED  BY <2>2, <2>3
<1> QED  BY <1>1, <1>2, PTL DEF Spec

\* Until a panic, a file without names keeps its inode as long as somebody uses it, and no
\* longer: between operations an inode in use on disk that has no link is referred to, or
\* was left behind by a power failure, and no open file has lost its inode, whatever other
\* processes unlink, close or create (sys_unlink, iput, ialloc).
THEOREM UnlinkedFileKept == Spec => [](NoPanic => FreedWithLastUse)
<1>1. KeptInv => (NoPanic => FreedWithLastUse)
  <2> SUFFICES ASSUME Sane, Kept, NEW i \in Inum
               PROVE  /\ (\A p \in Proc : ~f[p].tx) /\ k.ino[i].type # "none" /\ k.ino[i].nlink = 0
                           => k.ref[i] > 0 \/ i \in k.lost
                      /\ \A x \in 1 .. NFILE : k.file[x].type = "inode" /\ k.file[x].ip = i
                                              => k.ino[i].type # "none"
    BY DEF KeptInv, FreedWithLastUse
  <2>1. ASSUME \A p \in Proc : ~f[p].tx, Orphan(k.ino[i])  PROVE k.ref[i] > 0 \/ i \in k.lost
    <3>1. i \in k.lost \/ Loaded(k, Freed, i) \/ \E p \in Proc : Making(f[p], i)
      BY <2>1 DEF Kept, OrphansKept
    <3>2. \A p \in Proc : ~Making(f[p], i)  BY <2>1 DEF Kept, OperationsOpen, InOperation, Making
    <3>3. Loaded(k, Freed, i) => k.ref[i] > 0  BY DEF Loaded
    <3> QED  BY ONLY <3>1, <3>2, <3>3
  <2>2. ASSUME NEW x \in 1 .. NFILE, k.file[x].type = "inode", k.file[x].ip = i
        PROVE  k.ino[i].type # "none"
    <3>1. Loaded(k, Freed, i)  BY <2>2 DEF Kept, FilesLoaded
    <3> QED  BY <3>1 DEF Sane, CacheOK, Loaded
  <2> QED  BY <2>1, <2>2 DEF Orphan
<1> QED  BY <1>1, KeptUntilPanic, PTL

\* iput finds the inode it is about to free unlocked ("this acquiresleep() won't block").
PutNeverWaits ==
  \A p \in Proc :
    f[p].puts # <<>> /\ ~f[p].freeing /\ f[p].puts[1] \in Inum /\ LastUse(k, f[p].puts[1])
      => k.lock[f[p].puts[1]] = 0

\* Until a panic, nobody has locked an inode whose only reference is the one iput is about
\* to give up: a lock is held with a reference of its own.  iput can therefore take the
\* sleep-lock while it holds itable.lock without going to sleep (iput, acquiresleep).
THEOREM PutNeverWaitsForLock == Spec => [](NoPanic => PutNeverWaits)
<1>1. IInv => (NoPanic => PutNeverWaits)  BY LastPut DEF IInv, PutNeverWaits, LastUse
<1> QED  BY <1>1, SaneUntilPanic, PTL

-----------------------------------------------------------------------------
(* A panic that never happens. *)

\* fileclose has not found a file without references.
Calm(s) == DOMAIN s = DOMAIN Blank /\ s.panic # "fileclose"

\* The panics of other functions have other messages.
LEMMA PanicCalm ==
  ASSUME NEW s, Calm(s), NEW msg, msg # "fileclose"
  PROVE  Calm(Panic(s, msg))
BY Shape DEF Calm, Panic

\* iupdate.
LEMMA UpdatedCalm ==
  ASSUME NEW s, Calm(s), NEW i, NEW v
  PROVE  Calm(Updated(s, i, v))
BY Shape DEF Calm, Updated, Iupdate

\* idup.
LEMMA IdupCalm ==
  ASSUME NEW s, Calm(s), NEW i
  PROVE  Calm(Idup(s, i))
BY Shape DEF Calm, Idup

\* The lock of an inode.
LEMMA LockCalm ==
  ASSUME NEW s, Calm(s), NEW i, NEW v
  PROVE  Calm([s EXCEPT !.lock[i] = v])
BY Shape DEF Calm

\* Two locks.
LEMMA LocksCalm ==
  ASSUME NEW s, Calm(s), NEW i, NEW v, NEW j, NEW w
  PROVE  Calm([s EXCEPT !.lock[i] = v, !.lock[j] = w])
BY Shape DEF Calm

\* ilock.
LEMMA IlockCalm ==
  ASSUME NEW s, Calm(s), NEW i
  PROVE  Calm(Ilock(s, i))
<1> DEFINE t == [s EXCEPT !.mem[i] = s.ino[i], !.valid[i] = TRUE]
<1>1. Calm(t)  BY Shape DEF Calm
<1>2. \/ Ilock(s, i) = Panic(s, "ilock") \/ Ilock(s, i) = s
      \/ Ilock(s, i) = t \/ Ilock(s, i) = Panic(t, "ilock: no type")
  BY DEF Ilock
<1> HIDE DEF t
<1>3. Calm(Panic(s, "ilock")) /\ Calm(Panic(t, "ilock: no type"))  BY <1>1, PanicCalm
<1> QED  BY ONLY Calm(s), <1>1, <1>2, <1>3

\* iget.
LEMMA IgetCalm ==
  ASSUME NEW s, Calm(s), NEW i
  PROVE  Calm(Iget(s, i))
<1> DEFINE t == [s EXCEPT !.ref[i] = @ + 1]
           u == [s EXCEPT !.ref[i] = 1, !.valid[i] = FALSE]
<1>1. Calm(t) /\ Calm(u)
  <2>1. Calm(t)  BY Shape DEF Calm
  <2>2. Calm(u)  BY Shape DEF Calm
  <2> QED  BY ONLY <2>1, <2>2
<1>2. Iget(s, i) = t \/ Iget(s, i) = Panic(s, "iget: no inodes") \/ Iget(s, i) = u  BY DEF Iget
<1> HIDE DEF t, u
<1>3. Calm(Panic(s, "iget: no inodes"))  BY PanicCalm
<1> QED  BY ONLY <1>1, <1>2, <1>3

\* ialloc.
LEMMA IallocCalm ==
  ASSUME NEW s, Calm(s), NEW type
  PROVE  Calm(Ialloc(s, type).s)
<1> DEFINE m == Min({i \in Inum : s.ino[i].type = "none"})
           t == [s EXCEPT !.ino[m] = [None EXCEPT !.type = type]]
<1>1. Ialloc(s, type).s = s \/ Ialloc(s, type).s = Iget(t, m)  BY DEF Ialloc
<1> HIDE DEF m
<1>2. Calm(t)  BY Shape DEF Calm
<1> HIDE DEF t
<1>3. Calm(Iget(t, m))  BY ONLY <1>2, IgetCalm
<1> QED  BY ONLY Calm(s), <1>1, <1>3

\* itrunc.
LEMMA ItruncCalm ==
  ASSUME NEW s, Calm(s), NEW i
  PROVE  Calm(Itrunc(s, i))
<1> DEFINE gone == Truncated(s, i)
           t == IF gone \subseteq s.used THEN s ELSE Panic(s, "freeing free block")
           u == [t EXCEPT !.used = @ \ gone]
           ip == [t.mem[i] EXCEPT !.addrs = None.addrs, !.size = 0]
<1>1. Itrunc(s, i) = Updated(u, i, ip)  BY DEF Itrunc
<1> HIDE DEF gone
<1>2. Calm(t)  BY PanicCalm
<1> HIDE DEF t
<1>3. Calm(u)  BY ONLY <1>2, Shape DEF Calm
<1> HIDE DEF u, ip
<1> QED  BY ONLY <1>1, <1>3, UpdatedCalm

\* writei.
LEMMA WriteiCalm ==
  ASSUME NEW s, Calm(s), NEW i, NEW off, NEW n, NEW v, NEW bad
  PROVE  Calm(Writei(s, i, off, n, v, bad).s)
<1> DEFINE w == Writei(s, i, off, n, v, bad)
<1>1. \/ w.s = s
      \/ \E used, blk, ip : w.s = Updated([s EXCEPT !.used = used, !.blk = blk], i, ip)
  BY DEF Writei
<1> HIDE DEF w
<1>2. ASSUME NEW used, NEW blk, NEW ip, w.s = Updated([s EXCEPT !.used = used, !.blk = blk], i, ip)
      PROVE  Calm(w.s)
  <2> DEFINE u == [s EXCEPT !.used = used, !.blk = blk]
  <2>1. Calm(u)  BY ONLY Calm(s), Shape DEF Calm
  <2>2. w.s = Updated(u, i, ip)  BY <1>2
  <2> HIDE DEF u
  <2> QED  BY ONLY <2>1, <2>2, UpdatedCalm
<1>3. Calm(w.s)  BY ONLY Calm(s), <1>1, <1>2
<1> QED  BY ONLY <1>3 DEF w

\* dirlink.
LEMMA DirlinkCalm ==
  ASSUME NEW s, Calm(s), NEW i, NEW name, NEW inum
  PROVE  Calm(Dirlink(s, i, name, inum).s)
<1> DEFINE w == Writei(s, i, DirPlace(Entries(s, s.mem[i])), 1, <<inum, name>>, FALSE)
           d == Dirlink(s, i, name, inum)
<1>1. Calm(w.s)  BY WriteiCalm
<1>2. /\ w = Writei(s, i, DirPlace(Entries(s, s.mem[i])), 1, <<inum, name>>, FALSE)
      /\ d = Dirlink(s, i, name, inum)
  OBVIOUS
<1> HIDE DEF w, d
<1>3. d = [s |-> s, ok |-> FALSE] \/ d = [s |-> w.s, ok |-> w.r = 1]
  BY ONLY <1>2, ZenonT(60) DEF Dirlink
<1>4. d.s = s \/ d.s = w.s  BY ONLY <1>3
<1>5. Calm(d.s)  BY ONLY Calm(s), <1>1, <1>4
<1> QED  BY ONLY <1>5 DEF d

\* fileclose finds a reference to give up, since a descriptor refers to the file.
LEMMA CloseFdCalm ==
  ASSUME Sane, Calm(k), NEW p \in Proc, NEW d \in 0 .. NOFILE - 1, ofile[p][d] # 0,
         NEW g, CloseFd(p, d, g)
  PROVE  Calm(k')
<1> DEFINE x == ofile[p][d]
           i == k.file[x].ip
<1>1. FrameInv /\ FileOK(k) /\ CountsRight  BY DEF Sane
<1>2. ofile \in [Proc -> [0 .. NOFILE - 1 -> 0 .. NFILE]]  BY <1>1 DEF FrameInv
<1>3. x \in 1 .. NFILE
  <2>1. x \in 0 .. NFILE /\ x # 0  BY <1>2
  <2> QED  BY ONLY <2>1, Numbers
<1>4. k.file[x].ref = Cardinality(Descriptors(ofile, x))  BY <1>1, <1>3 DEF CountsRight
<1>5. ~(k.file[x].ref < 1)
  <2> DEFINE S == Descriptors(ofile, x)
             N == 0 .. NOFILE - 1
  <2>1. <<p, d>> \in S  BY DEF Descriptors
  <2>2. IsFiniteSet(S)
    <3>1. IsFiniteSet(N)  BY ONLY Numbers, FS_Interval
    <3>2. IsFiniteSet(Proc \X N)  BY ONLY <3>1, Numbers, FS_Product
    <3>3. S \subseteq Proc \X N  BY DEF Descriptors
    <3> QED  BY ONLY <3>2, <3>3, FS_Subset
  <2> HIDE DEF S
  <2>3. Cardinality(S) \in Nat /\ Cardinality(S) # 0
    BY ONLY <2>1, <2>2, FS_CardinalityType, FS_EmptySet
  <2>4. k.file[x].ref = Cardinality(S)  BY <1>4 DEF S
  <2> QED  BY ONLY <2>3, <2>4
<1>6. \/ \E v : k' = [k EXCEPT !.file[x].ref = v]
      \/ \E w : k' = [k EXCEPT !.file[x] = NoFile, !.pipe[i] = w]
      \/ k' = [k EXCEPT !.file[x] = NoFile]
  BY <1>5 DEF CloseFd
<1> HIDE DEF x, i
<1>7. ASSUME NEW v, k' = [k EXCEPT !.file[x].ref = v]  PROVE Calm(k')
  BY ONLY Calm(k), <1>7, Shape DEF Calm
<1>8. ASSUME NEW w, k' = [k EXCEPT !.file[x] = NoFile, !.pipe[i] = w]  PROVE Calm(k')
  BY ONLY Calm(k), <1>8, Shape DEF Calm
<1>9. CASE k' = [k EXCEPT !.file[x] = NoFile]  BY ONLY Calm(k), <1>9, Shape DEF Calm
<1> QED  BY ONLY <1>6, <1>7, <1>8, <1>9

\* The steps that do no more than lock, look up and take references.
LEMMA LookCalm ==
  ASSUME Calm(k), NEW p \in Proc,
         \/ Namex(p) \/ OpenExisting(p) \/ CreateExists(p) \/ Unlink(p) \/ Chdir(p) \/ ReadProgram(p)
         \/ Fstat(p) \/ Fileclose(p) \/ Return(p) \/ Gone(p)
  PROVE  Calm(k')
<1> DEFINE g == f[p]
           s == Ilock(k, g.ip)
           at == Dirlookup(s, s.mem[g.ip], Dirsiz(Head(g.path)))
           next == Entries(s, s.mem[g.ip])[at][1]
           u == Iget(s, next)
           i == k.file[ofile[p][g.call.fd]].ip
<1>1. CASE Namex(p)
  <2>1. k' = k \/ k' = s \/ k' = u  BY <1>1, Zenon DEF Namex, Step
  <2> QED  BY <2>1, IlockCalm, IgetCalm
<1>2. CASE OpenExisting(p)
  <2>1. k' = k \/ k' = s \/ k' = [s EXCEPT !.lock[g.ip] = p]  BY <1>2, Zenon DEF OpenExisting, Step
  <2>2. Calm(s)  BY IlockCalm
  <2> HIDE DEF s
  <2>3. Calm([s EXCEPT !.lock[g.ip] = p])  BY ONLY <2>2, LockCalm
  <2> QED  BY ONLY Calm(k), <2>1, <2>2, <2>3
<1>3. CASE CreateExists(p)
  <2>1. k' = s \/ k' = [s EXCEPT !.lock[g.ip] = p]  BY <1>3, Zenon DEF CreateExists, Step
  <2>2. Calm(s)  BY IlockCalm
  <2> HIDE DEF s
  <2>3. Calm([s EXCEPT !.lock[g.ip] = p])  BY ONLY <2>2, LockCalm
  <2> QED  BY ONLY <2>1, <2>2, <2>3
<1>4. CASE Unlink(p)
  <2>1. k' = k \/ k' = s \/ k' = [u EXCEPT !.lock[g.ip] = p]  BY <1>4, Zenon DEF Unlink, Step
  <2>2. Calm(s)  BY IlockCalm
  <2> HIDE DEF s, next
  <2>3. Calm(u)  BY ONLY <2>2, IgetCalm
  <2> HIDE DEF u
  <2>4. Calm([u EXCEPT !.lock[g.ip] = p])  BY ONLY <2>3, LockCalm
  <2> QED  BY ONLY Calm(k), <2>1, <2>2, <2>4
<1>5. CASE Chdir(p)
  <2>1. k' = k \/ k' = s  BY <1>5, Zenon DEF Chdir, Step
  <2> QED  BY <2>1, IlockCalm
<1>6. CASE ReadProgram(p)
  <2>1. k' = k \/ k' = s  BY <1>6, Zenon DEF ReadProgram, Step
  <2> QED  BY <2>1, IlockCalm
<1>7. CASE Fstat(p)
  <2>1. k' = k \/ k' = Ilock(k, i)  BY <1>7 DEF Fstat, Step
  <2> QED  BY <2>1, IlockCalm
<1>8. CASE Fileclose(p) \/ Return(p) \/ Gone(p)
  <2>1. k' = k  BY <1>8, Zenon DEF Fileclose, Return, Gone, Step
  <2> QED  BY <2>1
<1> QED  BY <1>1, <1>2, <1>3, <1>4, <1>5, <1>6, <1>7, <1>8

\* create.
LEMMA CreateCalm ==
  ASSUME Calm(k), NEW p \in Proc, Create(p) \/ CreateNew(p)
  PROVE  Calm(k')
<1> DEFINE g == f[p]
           s == Ilock(k, g.ip)
<1>1. Calm(s)  BY IlockCalm
<1>2. CASE Create(p)
  <2> DEFINE old == Entries(s, s.mem[g.ip])[Dirlookup(s, s.mem[g.ip], Dirsiz(Head(g.path)))][1]
             new == Ialloc(s, CreateType(g.call))
             t == [new.s EXCEPT !.lock[g.ip] = p]
  <2>1. k' = k \/ k' = Iget(s, old) \/ k' = s \/ k' = t  BY <1>2, Zenon DEF Create, Step
  <2> HIDE DEF s, old
  <2>2. Calm(Iget(s, old)) /\ Calm(new.s)  BY ONLY <1>1, IgetCalm, IallocCalm
  <2> HIDE DEF new
  <2>3. Calm(t)  BY ONLY <2>2, LockCalm
  <2> QED  BY ONLY Calm(k), <1>1, <2>1, <2>2, <2>3
<1>3. CASE CreateNew(p)
  <2> DEFINE dir == CreateType(g.call) = "dir"
             Add(r, i, name, inum) == IF r.ok THEN Dirlink(r.s, i, name, inum) ELSE r
             c == Updated(s, g.ip, [s.mem[g.ip] EXCEPT !.nlink = 1, !.major = g.call.major])
             r0 == [s |-> c, ok |-> TRUE]
             r1 == Add(r0, g.ip, ".", g.ip)
             r2 == Add(r1, g.ip, "..", g.dp)
             r3 == IF dir THEN r2 ELSE r0
             made == Add(r3, g.dp, Dirsiz(Head(g.path)), g.ip)
             u == Updated(made.s, g.ip, [made.s.mem[g.ip] EXCEPT !.nlink = 0])
             v == Updated(made.s, g.dp, [made.s.mem[g.dp] EXCEPT !.nlink = @ + 1])
             w == IF dir THEN v ELSE made.s
  <2>1. \/ k' = [u EXCEPT !.lock[g.dp] = 0] \/ k' = [w EXCEPT !.lock[g.dp] = 0]
        \/ k' = [w EXCEPT !.lock[g.dp] = 0, !.lock[g.ip] = p]
    BY <1>3, Zenon DEF CreateNew, Step
  <2> HIDE DEF s
  <2>2. Calm(c)  BY ONLY <1>1, UpdatedCalm
  <2>3. r0.s = c  OBVIOUS
  <2> HIDE DEF c, r0
  <2>4. ASSUME NEW r, Calm(r.s), NEW i, NEW name, NEW inum  PROVE Calm(Add(r, i, name, inum).s)
    <3>1. Calm(Dirlink(r.s, i, name, inum).s)  BY ONLY <2>4, DirlinkCalm
    <3> QED  BY <2>4, <3>1
  <2> HIDE DEF Add
  <2>5. Calm(r0.s)  BY ONLY <2>2, <2>3
  <2>6. Calm(r1.s)  BY ONLY <2>4, <2>5 DEF r1
  <2> HIDE DEF r1
  <2>7. Calm(r2.s)  BY ONLY <2>4, <2>6 DEF r2
  <2> HIDE DEF r2
  <2>8. Calm(r3.s)  BY ONLY <2>5, <2>7 DEF r3
  <2> HIDE DEF r3
  <2>9. Calm(made.s)  BY ONLY <2>4, <2>8 DEF made
  <2> HIDE DEF made
  <2>10. Calm(u) /\ Calm(v)  BY ONLY <2>9, UpdatedCalm
  <2> HIDE DEF u, v
  <2>11. Calm(w)  BY <2>9, <2>10
  <2> HIDE DEF w
  <2>12. Calm([u EXCEPT !.lock[g.dp] = 0]) /\ Calm([w EXCEPT !.lock[g.dp] = 0])
    BY ONLY <2>10, <2>11, LockCalm
  <2>13. Calm([w EXCEPT !.lock[g.dp] = 0, !.lock[g.ip] = p])  BY ONLY <2>11, LocksCalm
  <2> QED  BY ONLY <2>1, <2>12, <2>13
<1> QED  BY <1>2, <1>3

\* open, once it has the inode; link and unlink.
LEMMA LinksCalm ==
  ASSUME Calm(k), NEW p \in Proc,
         Opened(p) \/ Link(p) \/ LinkName(p) \/ LinkBad(p) \/ UnlinkEntry(p) \/ Unlinked(p)
  PROVE  Calm(k')
<1> DEFINE g == f[p]
           s == Ilock(k, g.ip)
<1>1. Calm(s)  BY IlockCalm
<1>2. CASE Opened(p)
  <2> DEFINE r == [k EXCEPT !.lock[g.ip] = 0]
             x == Min(FreeFile(r))
             v == [NoFile EXCEPT !.ref = 1, !.type = IF k.mem[g.ip].type = "dev" THEN "dev" ELSE "inode",
                                 !.ip = g.ip, !.readable = "WRONLY" \notin g.call.mode,
                                 !.writable = g.call.mode \cap {"WRONLY", "RDWR"} # {}]
             t == [r EXCEPT !.file[x] = v]
  <2>1. k' = r \/ k' = t \/ k' = Itrunc(t, g.ip)  BY <1>2, Zenon DEF Opened, Step
  <2>2. Calm(r)  BY ONLY Calm(k), LockCalm
  <2> HIDE DEF r, x, v
  <2>3. Calm(t)  BY ONLY <2>2, Shape DEF Calm
  <2> HIDE DEF t
  <2> QED  BY ONLY <2>1, <2>2, <2>3, ItruncCalm
<1>3. CASE Link(p)
  <2> DEFINE t == Updated(s, g.ip, [s.mem[g.ip] EXCEPT !.nlink = @ + 1])
  <2>1. k' = k \/ k' = s \/ k' = Iget(t, ROOTINO) \/ k' = Idup(t, cwd[p])
    BY <1>3 DEF Link, Walking, Step
  <2> HIDE DEF s
  <2>2. Calm(t)  BY ONLY <1>1, UpdatedCalm
  <2> HIDE DEF t
  <2>3. Calm(Iget(t, ROOTINO)) /\ Calm(Idup(t, cwd[p]))  BY ONLY <2>2, IgetCalm, IdupCalm
  <2> QED  BY ONLY Calm(k), <1>1, <2>1, <2>3
<1>4. CASE LinkName(p)
  <2> DEFINE d == Dirlink(s, g.ip, Dirsiz(Head(g.path)), g.dp)
  <2>1. k' = k \/ k' = d.s  BY <1>4, Zenon DEF LinkName, Step
  <2> HIDE DEF s
  <2>2. Calm(d.s)  BY ONLY <1>1, DirlinkCalm
  <2> QED  BY ONLY Calm(k), <2>1, <2>2
<1>5. CASE LinkBad(p)
  <2> DEFINE r == Ilock(k, g.dp)
             t == Updated(r, g.dp, LinkUndone(r.mem[g.dp]))
  <2>1. k' = t  BY <1>5, Zenon DEF LinkBad, Step
  <2>2. Calm(r)  BY IlockCalm
  <2> HIDE DEF r
  <2> QED  BY ONLY <2>1, <2>2, UpdatedCalm
<1>6. CASE UnlinkEntry(p)
  <2> DEFINE t == Writei(s, g.dp, g.n - 1, 1, Zero, FALSE).s
             v == Updated(t, g.dp, [t.mem[g.dp] EXCEPT !.nlink = @ - 1])
             u == IF s.mem[g.ip].type = "dir" THEN v ELSE t
             w == [u EXCEPT !.lock[g.dp] = 0, !.lock[g.ip] = p]
  <2>1. k' = Panic(s, "unlink: nlink < 1") \/ k' = [s EXCEPT !.lock[g.dp] = 0] \/ k' = w
    BY <1>6, Zenon DEF UnlinkEntry, Step
  <2>2. Calm(Panic(s, "unlink: nlink < 1"))  BY <1>1, PanicCalm
  <2>3. Calm(t)  BY <1>1, WriteiCalm
  <2> HIDE DEF t
  <2>4. Calm(v)  BY ONLY <2>3, UpdatedCalm
  <2> HIDE DEF v
  <2>5. Calm(u)  BY <2>3, <2>4
  <2> HIDE DEF u, s
  <2>6. Calm(w)  BY ONLY <2>5, LocksCalm
  <2>7. Calm([s EXCEPT !.lock[g.dp] = 0])  BY ONLY <1>1, LockCalm
  <2> QED  BY ONLY <2>1, <2>2, <2>6, <2>7
<1>7. CASE Unlinked(p)
  <2> DEFINE r == Updated(k, g.ip, [k.mem[g.ip] EXCEPT !.nlink = @ - 1])
  <2>1. k' = [r EXCEPT !.lock[g.ip] = 0]  BY <1>7, Zenon DEF Unlinked, Step
  <2>2. Calm(r)  BY ONLY Calm(k), UpdatedCalm
  <2> HIDE DEF r
  <2> QED  BY ONLY <2>1, <2>2, LockCalm
<1> QED  BY <1>2, <1>3, <1>4, <1>5, <1>6, <1>7

\* read and write.
LEMMA DataCalm ==
  ASSUME Calm(k), NEW p \in Proc, Read(p) \/ Write(p)
  PROVE  Calm(k')
<1> DEFINE g == f[p]
           x == ofile[p][g.call.fd]
           i == k.file[x].ip
           s == Ilock(k, i)
           w == Writei(s, i, k.file[x].off, Min({g.call.n - g.n, WRITEMAX}), <<g.call.v, "">>, g.call.bad)
<1>1. \/ k' = k \/ k' = s
      \/ \E v : k' = [s EXCEPT !.file[x].off = v]
      \/ \E v : k' = [w.s EXCEPT !.file[x].off = v]
      \/ \E v : k' = [k EXCEPT !.pipe[i].data = v]
  <2>1. CASE Read(p)
    <3> DEFINE data == Readi(s, s.mem[i], k.file[x].off, g.call.n)
               m == Min({g.call.n, Len(k.pipe[i].data)})
    <3>1. \/ k' = k \/ k' = s \/ k' = [s EXCEPT !.file[x].off = @ + Len(data)]
          \/ k' = [k EXCEPT !.pipe[i].data = SubSeq(@, 2, Len(@))]
          \/ k' = [k EXCEPT !.pipe[i].data = SubSeq(@, m + 1, Len(@))]
      BY <2>1, Zenon DEF Read, Step
    <3> HIDE DEF s, i, x, data, m, w
    <3> QED  BY ONLY <3>1
  <2>2. CASE Write(p)
    <3>1. \/ k' = k \/ (\E v : k' = [w.s EXCEPT !.file[x].off = v])
          \/ \E v : k' = [k EXCEPT !.pipe[i].data = v]
      BY <2>2 DEF Write, Step
    <3> HIDE DEF s, i, x, w
    <3> QED  BY ONLY <3>1
  <2> QED  BY <2>1, <2>2
<1>2. Calm(s)  BY IlockCalm
<1> HIDE DEF s, i, x
<1>3. Calm(w.s)  BY ONLY <1>2, WriteiCalm
<1> HIDE DEF w
<1>4. ASSUME NEW t, Calm(t), NEW v, k' = [t EXCEPT !.file[x].off = v]  PROVE Calm(k')
  BY ONLY <1>4, Shape DEF Calm
<1>5. ASSUME NEW v, k' = [k EXCEPT !.pipe[i].data = v]  PROVE Calm(k')
  BY ONLY Calm(k), <1>5, Shape DEF Calm
<1> QED  BY ONLY Calm(k), <1>1, <1>2, <1>3, <1>4, <1>5

\* iput.
LEMMA IputCalm ==
  ASSUME Calm(k), NEW p \in Proc, IputFree(p) \/ IputDone(p)
  PROVE  Calm(k')
<1> DEFINE g == f[p]
           i == Head(g.puts)
<1>1. CASE IputFree(p)
  <2> DEFINE t == Itrunc(k, i)
             u == [t EXCEPT !.lock[i] = p]
             ip == [t.mem[i] EXCEPT !.type = "none"]
  <2>1. k' = Updated(u, i, ip) \/ k' = Panic(k, "sched locks")  BY <1>1, Zenon DEF IputFree, Step
  <2>2. Calm(Panic(k, "sched locks"))  BY PanicCalm
  <2>3. Calm(t)  BY ItruncCalm
  <2> HIDE DEF t, ip, i
  <2>4. Calm(u)  BY ONLY <2>3, LockCalm
  <2> HIDE DEF u
  <2>5. Calm(Updated(u, i, ip))  BY ONLY <2>4, UpdatedCalm
  <2> QED  BY ONLY <2>1, <2>2, <2>5
<1>2. CASE IputDone(p)
  <2> DEFINE v == IputFreed(k, i)
             s == IF g.freeing THEN v ELSE k
  <2>1. k' = [s EXCEPT !.ref[i] = @ - 1]  BY <1>2, Zenon DEF IputDone, Step
  <2> HIDE DEF i
  <2>2. Calm(v)  BY Shape DEF Calm, IputFreed
  <2> HIDE DEF v
  <2>3. Calm(s)  BY <2>2
  <2> HIDE DEF s
  <2> QED  BY ONLY <2>1, <2>3, Shape DEF Calm
<1> QED  BY <1>1, <1>2

\* The calls that work on descriptors, fork and the entry of a call.
LEMMA EnterCalm ==
  ASSUME Sane, Calm(k), NEW p \in Proc,
         \/ Exit(p) \/ (\E c : Enter(p, c)) \/ (\E q \in Proc : Fork(p, q))
  PROVE  Calm(k')
<1>1. CASE Exit(p)
  <2> DEFINE S == {d \in DOMAIN ofile[p] : ofile[p][d] # 0}
  <2>1. DOMAIN ofile[p] = 0 .. NOFILE - 1  BY DEF Sane, FrameInv
  <2>2. CASE S # {}
    <3>1. CloseFd(p, Min(S), f[p])  BY <1>1, <2>2 DEF Exit
    <3>2. S \in SUBSET Nat
      <4>1. 0 .. NOFILE - 1 \subseteq Nat  BY ONLY Numbers
      <4> QED  BY <2>1, <4>1
    <3>3. Min(S) \in S  BY ONLY <2>2, <3>2, MinIn
    <3>4. Min(S) \in 0 .. NOFILE - 1 /\ ofile[p][Min(S)] # 0  BY <2>1, <3>3
    <3> HIDE DEF S
    <3> QED  BY ONLY Sane, Calm(k), p \in Proc, <3>1, <3>4, CloseFdCalm
  <2>3. CASE S = {}
    <3>1. k' = k  BY <1>1, <2>3 DEF Exit
    <3> QED  BY <3>1
  <2> QED  BY <2>2, <2>3
<1>2. ASSUME NEW c, Enter(p, c)  PROVE Calm(k')
  <2>1. \/ k' = k \/ k' = Iget(k, ROOTINO) \/ k' = Idup(k, cwd[p])
        \/ Dup(p, c) \/ PipeCall(p, c)
        \/ HasFd(p, c) /\ CloseFd(p, c.fd, Ret(Idle, 0))
    BY <1>2 DEF Enter, Walking, Step
  <2>2. Calm(Iget(k, ROOTINO)) /\ Calm(Idup(k, cwd[p]))  BY IgetCalm, IdupCalm
  <2>3. CASE Dup(p, c)
    <3> DEFINE x == ofile[p][c.fd]
    <3>1. k' = k \/ k' = [k EXCEPT !.file[x].ref = @ + 1]  BY <2>3, Zenon DEF Dup, Step
    <3> HIDE DEF x
    <3>2. CASE k' = k  BY <3>2
    <3>3. CASE k' = [k EXCEPT !.file[x].ref = @ + 1]  BY ONLY Calm(k), <3>3, Shape DEF Calm
    <3> QED  BY <3>1, <3>2, <3>3
  <2>4. CASE PipeCall(p, c)
    <3> DEFINE x == Min(FreeFile(k))
               y == Min(FreeFile(k) \ {x})
               i == Min({j \in 1 .. NFILE : k.pipe[j] = NoPipe})
               u == [NoFile EXCEPT !.ref = 1, !.type = "pipe", !.ip = i, !.readable = ~FALSE,
                                   !.writable = FALSE]
               v == [NoFile EXCEPT !.ref = 1, !.type = "pipe", !.ip = i, !.readable = ~TRUE,
                                   !.writable = TRUE]
               w == [data |-> <<>>, readopen |-> TRUE, writeopen |-> TRUE]
               t == [k EXCEPT !.file[x] = u, !.file[y] = v, !.pipe[i] = w]
    <3>1. k' = k \/ k' = t  BY <2>4, Zenon DEF PipeCall, Step
    <3> HIDE DEF x, y, i, u, v, w
    <3>2. DOMAIN k = DOMAIN Blank  BY DEF Calm
    <3>3. DOMAIN t = DOMAIN k  BY ONLY <3>2, Shape
    <3>4. t.panic = k.panic  BY ONLY <3>2, Shape
    <3> HIDE DEF t
    <3>5. Calm(t)  BY ONLY Calm(k), <3>3, <3>4 DEF Calm
    <3> QED  BY ONLY Calm(k), <3>1, <3>5
  <2>5. CASE HasFd(p, c) /\ CloseFd(p, c.fd, Ret(Idle, 0))
    <3>1. c.fd \in 0 .. NOFILE - 1 /\ ofile[p][c.fd] # 0  BY <2>5 DEF HasFd
    <3> QED  BY ONLY Sane, Calm(k), p \in Proc, <2>5, <3>1, CloseFdCalm
  <2> QED  BY ONLY Calm(k), <2>1, <2>2, <2>3, <2>4, <2>5
<1>3. ASSUME NEW q \in Proc, Fork(p, q)  PROVE Calm(k')
  <2> DEFINE Refs(x) == Cardinality({d \in DOMAIN ofile[p] : ofile[p][d] = x})
             file2 == [x \in DOMAIN k.file |-> [k.file[x] EXCEPT !.ref = @ + Refs(x)]]
             s == [k EXCEPT !.file = file2, !.killed = @ \ {q}]
  <2>1. k' = Idup(s, cwd[p])  BY <1>3, Zenon DEF Fork
  <2> HIDE DEF file2
  <2>2. Calm(s)  BY ONLY Calm(k), Shape DEF Calm
  <2> HIDE DEF s
  <2> QED  BY ONLY <2>1, <2>2, IdupCalm
<1> QED  BY <1>1, <1>2, <1>3

\* No descriptor has led fileclose to a file without references.
DescriptorsLive == k.panic # "fileclose"

\* fileclose never panics: no process has a descriptor whose file has no reference left,
\* however dup, pipe, fork, close and exit of several processes interleave (filedup,
\* fileclose).
THEOREM FilecloseNeverPanics == Spec => []DescriptorsLive
<1>1. Init => DescriptorsLive
  <2> SUFFICES ASSUME Init  PROVE k.panic # "fileclose"  BY DEF DescriptorsLive
  <2> DEFINE ino == Mkfs.ino
             used == Mkfs.used
             blk == Mkfs.blk
  <2>1. k = [Blank EXCEPT !.ino = ino, !.used = used, !.blk = blk, !.ref[ROOTINO] = 1]
    BY DEF Init, Booted
  <2> HIDE DEF ino, used, blk
  <2>2. k.panic = Blank.panic  BY ONLY <2>1, Shape
  <2>3. Blank.panic = ""  BY DEF Blank
  <2> QED  BY ONLY <2>2, <2>3
<1>2. IInv /\ DescriptorsLive /\ [Next]_<<vars, left>> => DescriptorsLive'
  <2> SUFFICES ASSUME IInv, k.panic # "fileclose", Next  PROVE k'.panic # "fileclose"
    BY DEF DescriptorsLive, vars
  <2>1. PICK p \in Proc :
          \/ Inside(p) \/ Return(p) \/ Gone(p)
          \/ \E c : Enter(p, c)
          \/ \E q \in Proc : Fork(p, q)
          \/ Crash(p)
    BY Zenon DEF Next, UserCall
  <2>2. ASSUME Up  PROVE Sane /\ Calm(k)
    <3>1. Sane  BY <2>2 DEF IInv, NoPanic, Up
    <3> QED  BY <3>1 DEF Sane, TablesOK, Calm
  <2>3. Up
    BY <2>1, Zenon DEF Inside, Namex, IputFree, IputDone, OpenExisting, Opened, Create, CreateExists,
       CreateNew, Link, LinkName, LinkBad, Unlink, UnlinkEntry, Unlinked, Chdir, ReadProgram, Fileclose,
       Read, Write, Fstat, Exit, Return, Gone, Enter, Fork, Crash, At
  <2>4. CASE Crash(p)
    <3> DEFINE lost == {i \in Inum : k.ino[i].type # "none" /\ k.ino[i].nlink = 0}
    <3>1. k' = [Blank EXCEPT !.ino = k.ino, !.used = k.used, !.blk = k.blk, !.ref[ROOTINO] = 1,
                             !.lost = lost]
      BY <2>4 DEF Crash
    <3> HIDE DEF lost
    <3>2. k'.panic = Blank.panic  BY ONLY <3>1, Shape
    <3>3. Blank.panic = ""  BY DEF Blank
    <3> QED  BY ONLY <3>2, <3>3
  <2>5. CASE ~Crash(p)
    <3>1. Sane /\ Calm(k)  BY <2>2, <2>3
    <3>2. \/ \/ Namex(p) \/ OpenExisting(p) \/ CreateExists(p) \/ Unlink(p) \/ Chdir(p) \/ ReadProgram(p)
             \/ Fstat(p) \/ Fileclose(p) \/ Return(p) \/ Gone(p)
          \/ Create(p) \/ CreateNew(p)
          \/ Opened(p) \/ Link(p) \/ LinkName(p) \/ LinkBad(p) \/ UnlinkEntry(p) \/ Unlinked(p)
          \/ Read(p) \/ Write(p)
          \/ IputFree(p) \/ IputDone(p)
          \/ Exit(p) \/ (\E c : Enter(p, c)) \/ (\E q \in Proc : Fork(p, q))
      BY ONLY <2>1, <2>5, Zenon DEF Inside
    <3>3. Calm(k')
      BY ONLY p \in Proc, <3>1, <3>2, LookCalm, CreateCalm, LinksCalm, DataCalm, IputCalm, EnterCalm, Zenon
    <3> QED  BY ONLY <3>3 DEF Calm
  <2> QED  BY <2>4, <2>5
<1> QED  BY <1>1, <1>2, SaneUntilPanic, PTL DEF Spec
=============================================================================
