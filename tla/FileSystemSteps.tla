-------------------------- MODULE FileSystemSteps ---------------------------
(***************************************************************************)
(* The accounting behind the theorems about the inode table: what the      *)
(* operations on inodes keep, how many references a call may move between its *)
(* frame and the table, and that the steps of path lookup and of the calls on *)
(* names (open, create, link, unlink, exec) keep the account.              *)
(***************************************************************************)
EXTENDS FileCalls, FiniteSetTheorems, WellFoundedInduction, TLAPS

-----------------------------------------------------------------------------
(* Counting. *)

\* 1 if a is in S, 0 if not.
In(a, S) == IF a \in S THEN 1 ELSE 0

\* Two sets that differ in one element at most.
LEMMA OneChanged ==
  ASSUME NEW S, NEW T, NEW a, IsFiniteSet(S), S \ {a} = T \ {a}
  PROVE  /\ IsFiniteSet(T)
         /\ Cardinality(S) \in Nat /\ Cardinality(T) \in Nat
         /\ Cardinality(T) + In(a, S) = Cardinality(S) + In(a, T)
<1> DEFINE C == S \ {a}
<1>1. IsFiniteSet(C)  BY FS_Subset
<1>2. Cardinality(C) \in Nat  BY <1>1, FS_CardinalityType
<1>3. IsFiniteSet(C \cup {a}) /\ Cardinality(C \cup {a}) = Cardinality(C) + 1
  BY <1>1, FS_AddElement
<1>4. S = IF a \in S THEN C \cup {a} ELSE C  OBVIOUS
<1>5. T = IF a \in T THEN C \cup {a} ELSE C
  <2>1. T \ {a} = C  OBVIOUS
  <2>2. ASSUME NEW D, T \ {a} = D  PROVE T = IF a \in T THEN D \cup {a} ELSE D  BY ONLY <2>2
  <2> QED  BY ONLY <2>1, <2>2
<1> HIDE DEF C
<1> QED  BY <1>1, <1>2, <1>3, <1>4, <1>5 DEF In

\* Two sets that differ in two elements at most.
LEMMA TwoChanged ==
  ASSUME NEW S, NEW T, NEW a, NEW b, a # b, IsFiniteSet(S), S \ {a, b} = T \ {a, b}
  PROVE  /\ IsFiniteSet(T)
         /\ Cardinality(S) \in Nat /\ Cardinality(T) \in Nat
         /\ Cardinality(T) + In(a, S) + In(b, S) = Cardinality(S) + In(a, T) + In(b, T)
<1> DEFINE M == IF a \in T THEN S \cup {a} ELSE S \ {a}
<1>1. S \ {a} = M \ {a} /\ (a \in M <=> a \in T) /\ (b \in M <=> b \in S)  OBVIOUS
<1>2. M \ {b} = T \ {b}  OBVIOUS
<1> HIDE DEF M
<1>3. /\ IsFiniteSet(M) /\ Cardinality(S) \in Nat /\ Cardinality(M) \in Nat
      /\ Cardinality(M) + In(a, S) = Cardinality(S) + In(a, M)
  BY <1>1, OneChanged
<1>4. /\ IsFiniteSet(T) /\ Cardinality(T) \in Nat
      /\ Cardinality(T) + In(b, M) = Cardinality(M) + In(b, T)
  BY <1>2, <1>3, OneChanged
<1> QED  BY <1>1, <1>3, <1>4 DEF In

\* Min chooses an element of the set.
LEMMA MinIn ==
  ASSUME NEW S \in SUBSET Nat, S # {}
  PROVE  Min(S) \in S
<1> DEFINE R == {ss \in Nat \X Nat : ss[1] < ss[2]}
<1>1. IsWellFoundedOn(R, Nat)  BY ONLY NatLessThanWellFounded DEF OpToRel
<1> HIDE DEF R
<1>2. PICK x \in S : \A y \in S : ~(<<y, x>> \in R)  BY ONLY <1>1, S \in SUBSET Nat, S # {}, WFMin, Zenon
<1>3. ASSUME NEW y \in S  PROVE x <= y
  <2>1. x \in Nat /\ y \in Nat /\ ~(<<y, x>> \in R)  BY <1>2
  <2>2. y < x => <<y, x>> \in R  BY <2>1 DEF R
  <2> QED  BY <2>1, <2>2
<1> QED  BY <1>3 DEF Min
-----------------------------------------------------------------------------
(* What the helpers of fs.c do to the tables.  freed: inodes being freed. *)

\* The fields of the kernel's tables, of an inode, of a file and of a frame.
LEMMA Shape ==
  /\ DOMAIN Blank = {"ino", "used", "blk", "ref", "valid", "lock", "mem", "file", "pipe",
                     "killed", "lost", "panic"}
  /\ DOMAIN None = {"type", "major", "nlink", "size", "addrs"}
  /\ DOMAIN NoFile = {"ref", "type", "ip", "off", "readable", "writable"}
  /\ DOMAIN Idle = {"pc", "call", "path", "to", "ip", "dp", "puts", "tx", "freeing", "n", "ret"}
BY DEF Blank, None, NoFile, Idle

\* The fields of a frame.
LEMMA FrameShape ==
  DOMAIN Idle = {"pc", "call", "path", "to", "ip", "dp", "puts", "tx", "freeing", "n", "ret"}
BY Shape

Good(s, freed) ==
  /\ TablesOK(s)
  /\ \A i \in Inum : s.ref[i] \in Nat
  /\ s.panic = "" => CacheOK(s, freed)

\* The step from s to t changes no count, no file and no lock.
Keeps(s, t) ==
  /\ t.ref = s.ref /\ t.file = s.file /\ t.lock = s.lock
  /\ t.panic = "" => s.panic = ""

\* It takes a reference to inode i.
One(i, j) == IF i = j THEN 1 ELSE 0
Grows(s, t, i) ==
  /\ t.file = s.file /\ t.lock = s.lock
  /\ t.panic = "" => s.panic = "" /\ \A j \in Inum : t.ref[j] = s.ref[j] + One(i, j)

\* Two such steps in a row.
LEMMA KeepsTrans ==
  ASSUME NEW r, NEW s, NEW t, Keeps(r, s), Keeps(s, t)
  PROVE  Keeps(r, t)
BY DEF Keeps

\* A panic changes nothing else.
LEMMA PanicKeeps ==
  ASSUME NEW s, NEW freed, Good(s, freed), NEW msg, msg # ""
  PROVE  /\ Panic(s, msg).panic # "" /\ Good(Panic(s, msg), freed) /\ Keeps(s, Panic(s, msg))
BY Shape DEF Good, Keeps, Panic, TablesOK

\* An inode that its owner changes and writes through (iupdate) stays equal to the
\* disk; its type changes only while it is being freed.
LEMMA UpdatedKeeps ==
  ASSUME NEW s, NEW freed, Good(s, freed), NEW i, NEW ip,
         i \in Inum => DOMAIN ip = DOMAIN None /\ (ip.type = s.mem[i].type \/ i \in freed)
  PROVE  Good(Updated(s, i, ip), freed) /\ Keeps(s, Updated(s, i, ip))
<1> DEFINE t == Updated(s, i, ip)
<1>1. /\ DOMAIN t = DOMAIN s /\ t.ref = s.ref /\ t.file = s.file /\ t.lock = s.lock
      /\ t.panic = s.panic /\ t.valid = s.valid
      /\ t.mem = [s.mem EXCEPT ![i] = ip]
      /\ t.ino = [s.ino EXCEPT ![i] = t.mem[i]]
  BY Shape DEF Good, TablesOK, Updated, Iupdate
<1>2. \A j \in Inum : /\ t.mem[j] = IF j = i THEN ip ELSE s.mem[j]
                      /\ t.ino[j] = IF j = i THEN ip ELSE s.ino[j]
  BY <1>1 DEF Good, TablesOK
<1> HIDE DEF t
<1>3. TablesOK(t)  BY <1>1, <1>2 DEF Good, TablesOK
<1>4. CacheOK(s, freed) => CacheOK(t, freed)  BY <1>1, <1>2 DEF CacheOK
<1>5. Good(t, freed) /\ Keeps(s, t)  BY <1>1, <1>3, <1>4 DEF Good, Keeps
<1> QED  BY <1>5 DEF t

\* It sets the lock of inode i to v.
Relocks(s, t, i, v) ==
  /\ t.ref = s.ref /\ t.file = s.file /\ t.panic = s.panic
  /\ \A j \in Inum : t.lock[j] = IF j = i THEN v ELSE s.lock[j]

\* Taking or giving back a lock changes nothing else.
LEMMA LockKeeps ==
  ASSUME NEW s, NEW freed, Good(s, freed), NEW i, NEW v
  PROVE  Good([s EXCEPT !.lock[i] = v], freed) /\ Relocks(s, [s EXCEPT !.lock[i] = v], i, v)
BY Shape DEF Good, TablesOK, CacheOK, Relocks

\* ilock reads the inode from disk if its entry is not valid, and changes no count.
LEMMA IlockKeeps ==
  ASSUME NEW s, NEW freed, Good(s, freed), NEW i
  PROVE  Good(Ilock(s, i), freed) /\ Keeps(s, Ilock(s, i))
<1> DEFINE t == [s EXCEPT !.mem[i] = s.ino[i], !.valid[i] = TRUE]
<1>1. CASE s.ref[i] < 1  BY <1>1, PanicKeeps DEF Ilock
<1>2. CASE ~(s.ref[i] < 1) /\ s.valid[i]  BY <1>2 DEF Ilock, Keeps
<1>3. CASE ~(s.ref[i] < 1) /\ ~s.valid[i]
  <2>1. /\ DOMAIN t = DOMAIN s /\ t.ref = s.ref /\ t.file = s.file /\ t.lock = s.lock
        /\ t.panic = s.panic /\ t.ino = s.ino
        /\ DOMAIN t.mem = Inum /\ DOMAIN t.valid = Inum
        /\ \A j \in Inum : /\ t.mem[j] = IF j = i THEN s.ino[i] ELSE s.mem[j]
                           /\ t.valid[j] = IF j = i THEN TRUE ELSE s.valid[j]
    BY Shape DEF Good, TablesOK
  <2> HIDE DEF t
  <2>2. TablesOK(t) /\ Keeps(s, t) /\ \A j \in Inum : t.ref[j] \in Nat
    <3>1. ASSUME NEW j \in Inum  PROVE DOMAIN t.mem[j] = DOMAIN None
      <4>1. t.mem[j] = s.ino[j] \/ t.mem[j] = s.mem[j]  BY <2>1
      <4>2. DOMAIN s.mem[j] = DOMAIN None /\ DOMAIN s.ino[j] = DOMAIN None  BY DEF Good, TablesOK
      <4> QED  BY <4>1, <4>2
    <3>2. TablesOK(t)  BY <2>1, <3>1 DEF Good, TablesOK
    <3> QED  BY <2>1, <3>2 DEF Good, Keeps
  <2>3. CASE t.mem[i].type = "none"
    <3>1. Ilock(s, i) = Panic(t, "ilock: no type")  BY <1>3, <2>3 DEF Ilock, t
    <3> DEFINE u == Panic(t, "ilock: no type")
    <3>2. u.panic # "" /\ TablesOK(u) /\ Keeps(t, u)
      BY <2>2, Shape DEF TablesOK, Panic, Keeps
    <3> HIDE DEF u
    <3>3. Good(u, freed) /\ Keeps(s, u)  BY <2>2, <3>2 DEF Good, Keeps
    <3> QED  BY <3>1, <3>3 DEF u
  <2>4. CASE t.mem[i].type # "none"
    <3>1. Ilock(s, i) = t  BY <1>3, <2>4 DEF Ilock, t
    <3>2. CacheOK(s, freed) => CacheOK(t, freed)  BY <2>1, <2>4 DEF CacheOK
    <3> QED  BY <2>1, <2>2, <3>1, <3>2 DEF Good
  <2> QED  BY <2>3, <2>4
<1> QED  BY <1>1, <1>2, <1>3

\* iget takes one reference, in a new entry if need be; a new entry is not valid.
LEMMA IgetGrows ==
  ASSUME NEW s, NEW freed, Good(s, freed), NEW i
  PROVE  Good(Iget(s, i), freed) /\ Grows(s, Iget(s, i), i)
<1>1. CASE s.ref[i] > 0
  <2> DEFINE t == [s EXCEPT !.ref[i] = @ + 1]
  <2>1. /\ DOMAIN t = DOMAIN s /\ t.file = s.file /\ t.lock = s.lock /\ t.panic = s.panic
        /\ t.ino = s.ino /\ t.mem = s.mem /\ t.valid = s.valid /\ DOMAIN t.ref = Inum
        /\ \A j \in Inum : t.ref[j] = IF j = i THEN s.ref[i] + 1 ELSE s.ref[j]
    BY Shape DEF Good, TablesOK
  <2>2. Iget(s, i) = t  BY <1>1 DEF Iget
  <2> HIDE DEF t
  <2>3. Grows(s, t, i) /\ \A j \in Inum : t.ref[j] \in Nat
    <3>1. \A j \in Inum : s.ref[j] \in Nat  BY DEF Good
    <3>2. \A j \in Inum : t.ref[j] = s.ref[j] + One(i, j)  BY <2>1, <3>1 DEF One
    <3>3. \A j \in Inum : t.ref[j] \in Nat  BY <2>1, <3>1
    <3> QED  BY <2>1, <3>2, <3>3 DEF Grows
  <2>4. TablesOK(t)  BY <2>1 DEF Good, TablesOK
  <2>5. CacheOK(s, freed) => CacheOK(t, freed)  BY <1>1, <2>1 DEF CacheOK
  <2> QED  BY <2>1, <2>2, <2>3, <2>4, <2>5 DEF Good
<1>2. CASE ~(s.ref[i] > 0) /\ TableFull(s)
  <2>1. Iget(s, i) = Panic(s, "iget: no inodes")  BY <1>2 DEF Iget
  <2>2. /\ Panic(s, "iget: no inodes").panic # "" /\ Good(Panic(s, "iget: no inodes"), freed)
        /\ Keeps(s, Panic(s, "iget: no inodes"))
    BY PanicKeeps
  <2> QED  BY <2>1, <2>2 DEF Keeps, Grows
<1>3. CASE ~(s.ref[i] > 0) /\ ~TableFull(s)
  <2> DEFINE t == [s EXCEPT !.ref[i] = 1, !.valid[i] = FALSE]
  <2>1. /\ DOMAIN t = DOMAIN s /\ t.file = s.file /\ t.lock = s.lock /\ t.panic = s.panic
        /\ t.ino = s.ino /\ t.mem = s.mem /\ DOMAIN t.valid = Inum /\ DOMAIN t.ref = Inum
        /\ \A j \in Inum : t.ref[j] = IF j = i THEN 1 ELSE s.ref[j]
        /\ \A j \in Inum : t.valid[j] = IF j = i THEN FALSE ELSE s.valid[j]
    BY Shape DEF Good, TablesOK
  <2>2. Iget(s, i) = t  BY <1>3 DEF Iget
  <2> HIDE DEF t
  <2>3. Grows(s, t, i) /\ \A j \in Inum : t.ref[j] \in Nat
    <3>1. \A j \in Inum : s.ref[j] \in Nat  BY DEF Good
    <3>2. \A j \in Inum : t.ref[j] = s.ref[j] + One(i, j)  BY <1>3, <2>1, <3>1 DEF One
    <3>3. \A j \in Inum : t.ref[j] \in Nat  BY <1>3, <2>1, <3>1
    <3> QED  BY <2>1, <3>2, <3>3 DEF Grows
  <2>4. TablesOK(t)  BY <2>1 DEF Good, TablesOK
  <2>5. CacheOK(s, freed) => CacheOK(t, freed)  BY <2>1 DEF CacheOK
  <2> QED  BY <2>1, <2>2, <2>3, <2>4, <2>5 DEF Good
<1> QED  BY <1>1, <1>2, <1>3

\* idup takes one reference to an inode that has one.
LEMMA IdupGrows ==
  ASSUME NEW s, NEW freed, Good(s, freed), NEW i, i \in Inum => s.ref[i] > 0
  PROVE  Good(Idup(s, i), freed) /\ Grows(s, Idup(s, i), i)
<1> DEFINE t == [s EXCEPT !.ref[i] = @ + 1]
<1>1. /\ DOMAIN t = DOMAIN s /\ t.file = s.file /\ t.lock = s.lock /\ t.panic = s.panic
      /\ t.ino = s.ino /\ t.mem = s.mem /\ t.valid = s.valid /\ DOMAIN t.ref = Inum
      /\ \A j \in Inum : t.ref[j] = IF j = i THEN s.ref[i] + 1 ELSE s.ref[j]
  BY Shape DEF Good, TablesOK
<1>2. Idup(s, i) = t  BY DEF Idup
<1> HIDE DEF t
<1>3. Grows(s, t, i) /\ \A j \in Inum : t.ref[j] \in Nat
  <2>1. \A j \in Inum : s.ref[j] \in Nat  BY DEF Good
  <2>2. \A j \in Inum : t.ref[j] = s.ref[j] + One(i, j)  BY <1>1, <2>1 DEF One
  <2>3. \A j \in Inum : t.ref[j] \in Nat  BY <1>1, <2>1
  <2> QED  BY <1>1, <2>2, <2>3 DEF Grows
<1>4. TablesOK(t)  BY <1>1 DEF Good, TablesOK
<1>5. CacheOK(s, freed) => CacheOK(t, freed)  BY <1>1 DEF CacheOK
<1> QED  BY <1>1, <1>2, <1>3, <1>4, <1>5 DEF Good

\* namex takes a reference to the directory it starts from.
LEMMA StartGrows ==
  ASSUME NEW s, NEW freed, Good(s, freed), NEW i, i \in Inum => s.ref[i] > 0, NEW path
  PROVE  LET t == IF Absolute(path) THEN Iget(s, ROOTINO) ELSE Idup(s, i)
             j == IF Absolute(path) THEN ROOTINO ELSE i
         IN Good(t, freed) /\ Grows(s, t, j)
<1>1. Good(Iget(s, ROOTINO), freed) /\ Grows(s, Iget(s, ROOTINO), ROOTINO)  BY IgetGrows
<1>2. Good(Idup(s, i), freed) /\ Grows(s, Idup(s, i), i)  BY IdupGrows
<1> QED  BY <1>1, <1>2

\* ialloc takes an inode that is free on disk: its entry, if it has one, is not valid
\* or is being freed.
LEMMA IallocGrows ==
  ASSUME NEW s, NEW freed, Good(s, freed), NEW type
  PROVE  LET a == Ialloc(s, type)
         IN /\ a.ip = 0 => a.s = s
            /\ a.ip # 0 => Good(a.s, freed) /\ Grows(s, a.s, a.ip)
<1> DEFINE free == {i \in Inum : s.ino[i].type = "none"}
           m == Min(free)
           t == [s EXCEPT !.ino[m] = [None EXCEPT !.type = type]]
<1>1. CASE free = {}  BY <1>1 DEF Ialloc
<1>2. CASE free # {}
  <2>1. m \in free
    <3>1. free \in SUBSET Nat  BY DEF Inum
    <3> QED  BY ONLY <1>2, <3>1, MinIn
  <2>2. Ialloc(s, type).s = Iget(t, m) /\ Ialloc(s, type).ip = m  BY <1>2 DEF Ialloc
  <2>3. m \in Inum /\ s.ino[m].type = "none"  BY <2>1
  <2> HIDE DEF free, m
  <2>4. /\ DOMAIN t = DOMAIN s /\ t.ref = s.ref /\ t.file = s.file /\ t.lock = s.lock
        /\ t.panic = s.panic /\ t.mem = s.mem /\ t.valid = s.valid /\ DOMAIN t.ino = Inum
        /\ \A j \in Inum : t.ino[j] = IF j = m THEN [None EXCEPT !.type = type] ELSE s.ino[j]
    BY Shape DEF Good, TablesOK
  <2>5. DOMAIN [None EXCEPT !.type = type] = DOMAIN None  OBVIOUS
  <2> HIDE DEF t
  <2>6. TablesOK(t)
    <3>1. ASSUME NEW j \in Inum  PROVE DOMAIN t.ino[j] = DOMAIN None
      <4>1. t.ino[j] = [None EXCEPT !.type = type] \/ t.ino[j] = s.ino[j]  BY <2>4
      <4> QED  BY <2>5, <4>1 DEF Good, TablesOK
    <3> QED  BY <2>4, <3>1 DEF Good, TablesOK
  <2>7. CacheOK(s, freed) => CacheOK(t, freed)  BY <2>3, <2>4 DEF CacheOK
  <2>8. Good(t, freed)  BY <2>4, <2>6, <2>7 DEF Good
  <2>9. Good(Iget(t, m), freed) /\ Grows(t, Iget(t, m), m)  BY ONLY <2>8, IgetGrows, Zenon
  <2>10. Grows(s, Iget(t, m), m)  BY <2>4, <2>9 DEF Grows
  <2>11. m # 0  BY <2>3, FileSystemAssumption DEF Inum
  <2> QED  BY <2>2, <2>9, <2>10, <2>11
<1> QED  BY <1>1, <1>2

\* The callers that change the number of links, and create, write the inode through.
LEMMA LinksKeep ==
  ASSUME NEW s, NEW freed, Good(s, freed), NEW i, NEW n
  PROVE  LET t == Updated(s, i, [s.mem[i] EXCEPT !.nlink = n]) IN Good(t, freed) /\ Keeps(s, t)
<1> DEFINE ip == [s.mem[i] EXCEPT !.nlink = n]
<1>1. i \in Inum => DOMAIN ip = DOMAIN None /\ ip.type = s.mem[i].type
  BY Shape DEF Good, TablesOK
<1> HIDE DEF ip
<1>2. Good(Updated(s, i, ip), freed) /\ Keeps(s, Updated(s, i, ip))  BY <1>1, UpdatedKeeps
<1> QED  BY <1>2 DEF ip

\* The same with the major number, for create.
LEMMA CountedKeeps ==
  ASSUME NEW s, NEW freed, Good(s, freed), NEW i, NEW n, NEW m
  PROVE  LET t == Updated(s, i, [s.mem[i] EXCEPT !.nlink = n, !.major = m])
         IN Good(t, freed) /\ Keeps(s, t)
<1> DEFINE ip == [s.mem[i] EXCEPT !.nlink = n, !.major = m]
<1>1. i \in Inum => DOMAIN ip = DOMAIN None /\ ip.type = s.mem[i].type
  BY Shape DEF Good, TablesOK
<1> HIDE DEF ip
<1>2. Good(Updated(s, i, ip), freed) /\ Keeps(s, Updated(s, i, ip))  BY <1>1, UpdatedKeeps
<1> QED  BY <1>2 DEF ip

\* itrunc writes the emptied inode through.
LEMMA ItruncKeeps ==
  ASSUME NEW s, NEW freed, Good(s, freed), NEW i
  PROVE  Good(Itrunc(s, i), freed) /\ Keeps(s, Itrunc(s, i))
<1> DEFINE gone == Truncated(s, i)
           t == IF gone \subseteq s.used THEN s ELSE Panic(s, "freeing free block")
           u == [t EXCEPT !.used = @ \ gone]
           ip == [t.mem[i] EXCEPT !.addrs = None.addrs, !.size = 0]
<1>1. Itrunc(s, i) = Updated(u, i, ip)  BY DEF Itrunc
<1> HIDE DEF gone
<1>2. Good(t, freed) /\ Keeps(s, t)
  <2>1. Keeps(s, s)  BY DEF Keeps
  <2> QED  BY <2>1, PanicKeeps
<1> HIDE DEF t
<1>3. /\ DOMAIN u = DOMAIN t /\ u.ref = t.ref /\ u.file = t.file /\ u.lock = t.lock
      /\ u.panic = t.panic /\ u.mem = t.mem /\ u.valid = t.valid /\ u.ino = t.ino
  BY <1>2, Shape DEF Good, TablesOK
<1>4. i \in Inum => DOMAIN ip = DOMAIN None /\ ip.type = t.mem[i].type
  BY <1>2, Shape DEF Good, TablesOK
<1> HIDE DEF u, ip
<1>5. Good(u, freed)  BY <1>2, <1>3 DEF Good, TablesOK, CacheOK
<1>6. Good(Updated(u, i, ip), freed) /\ Keeps(u, Updated(u, i, ip))
  BY <1>3, <1>4, <1>5, UpdatedKeeps
<1> QED  BY <1>1, <1>2, <1>3, <1>6 DEF Keeps

\* writei writes the inode through, whatever bmap allocated.
LEMMA WriteiKeeps ==
  ASSUME NEW s, NEW freed, Good(s, freed), NEW i, NEW off, NEW n, NEW v, NEW bad
  PROVE  LET w == Writei(s, i, off, n, v, bad) IN Good(w.s, freed) /\ Keeps(s, w.s)
<1> DEFINE w == Writei(s, i, off, n, v, bad)
<1>1. CASE w.s = s  BY <1>1 DEF Keeps
<1>2. ASSUME NEW used, NEW blk, NEW addrs, NEW end,
             w.s = Updated([s EXCEPT !.used = used, !.blk = blk], i,
                           WrittenSize([s.mem[i] EXCEPT !.addrs = addrs], end))
      PROVE  Good(w.s, freed) /\ Keeps(s, w.s)
  <2> DEFINE u == [s EXCEPT !.used = used, !.blk = blk]
             ip == WrittenSize([s.mem[i] EXCEPT !.addrs = addrs], end)
  <2>1. /\ DOMAIN u = DOMAIN s /\ u.ref = s.ref /\ u.file = s.file /\ u.lock = s.lock
        /\ u.panic = s.panic /\ u.mem = s.mem /\ u.valid = s.valid /\ u.ino = s.ino
    BY Shape DEF Good, TablesOK
  <2>2. i \in Inum => DOMAIN ip = DOMAIN None /\ ip.type = s.mem[i].type
    BY Shape DEF Good, TablesOK, WrittenSize
  <2>3. w.s = Updated(u, i, ip)  BY <1>2
  <2> HIDE DEF u, ip, w
  <2>4. Good(u, freed)  BY <2>1 DEF Good, TablesOK, CacheOK
  <2>5. Good(Updated(u, i, ip), freed) /\ Keeps(u, Updated(u, i, ip))
    BY <2>1, <2>2, <2>4, UpdatedKeeps
  <2> QED  BY <2>1, <2>3, <2>5 DEF Keeps
<1>3. \/ w.s = s
      \/ \E used, blk, addrs, end :
           w.s = Updated([s EXCEPT !.used = used, !.blk = blk], i,
                         WrittenSize([s.mem[i] EXCEPT !.addrs = addrs], end))
  BY DEF Writei
<1> QED  BY <1>1, <1>2, <1>3

\* dirlink changes a directory by writei only.
LEMMA DirlinkKeeps ==
  ASSUME NEW s, NEW freed, Good(s, freed), NEW i, NEW name, NEW inum
  PROVE  LET d == Dirlink(s, i, name, inum) IN Good(d.s, freed) /\ Keeps(s, d.s)
<1> DEFINE w == Writei(s, i, DirPlace(Entries(s, s.mem[i])), 1, <<inum, name>>, FALSE)
           d == Dirlink(s, i, name, inum)
<1>1. Good(w.s, freed) /\ Keeps(s, w.s)  BY WriteiKeeps
<1>2. Keeps(s, s)  BY DEF Keeps
<1>3. /\ w = Writei(s, i, DirPlace(Entries(s, s.mem[i])), 1, <<inum, name>>, FALSE)
      /\ d = Dirlink(s, i, name, inum)
  OBVIOUS
<1> HIDE DEF w, d
<1>4. d = [s |-> s, ok |-> FALSE] \/ d = [s |-> w.s, ok |-> w.r = 1]
  BY ONLY <1>3, Zenon DEF Dirlink
<1>5. d.s = s \/ d.s = w.s  BY ONLY <1>4
<1>6. Good(d.s, freed) /\ Keeps(s, d.s)  BY <1>1, <1>2, <1>5
<1> QED  BY <1>6 DEF d

\* create stops adding entries after one that failed.
LEMMA AddKeeps ==
  ASSUME NEW r, NEW freed, Good(r.s, freed), NEW i, NEW name, NEW inum
  PROVE  LET a == IF r.ok THEN Dirlink(r.s, i, name, inum) ELSE r
         IN Good(a.s, freed) /\ Keeps(r.s, a.s)
<1>1. Good(Dirlink(r.s, i, name, inum).s, freed) /\ Keeps(r.s, Dirlink(r.s, i, name, inum).s)
  BY DirlinkKeeps
<1>2. Keeps(r.s, r.s)  BY DEF Keeps
<1> QED  BY <1>1, <1>2
-----------------------------------------------------------------------------
(* A step of one process moves references between its frame, its directory  *)
(* and the open files.                                                      *)

PutAt(g, n) == IF n \in DOMAIN g.puts THEN g.puts[n] ELSE 0
Held(g, j) == One(g.ip, j) + One(g.dp, j) + One(PutAt(g, 1), j) + One(PutAt(g, 2), j)

\* What a frame holds is a number.
LEMMA HeldNat == \A g, i, j : One(i, j) \in Nat /\ Held(g, j) \in Nat
<1>1. \A i, j : One(i, j) \in Nat  BY DEF One
<1> QED  BY <1>1 DEF Held

\* The facts about the constants that the proofs below use.
LEMMA Numbers ==
  /\ NFILE \in Nat /\ NOFILE \in Nat /\ NINODES \in Nat
  /\ IsFiniteSet(Proc) /\ Proc # {} /\ 0 \notin Proc
  /\ \A i \in Inum : i \in Nat /\ i # 0
BY FileSystemAssumption DEF Inum

\* At most two references are pending in a frame.
LEMMA PutsDomain ==
  ASSUME NEW g, FrameOK(g)
  PROVE  DOMAIN g.puts \subseteq {1, 2}
<1>1. DOMAIN <<>> \subseteq {1, 2}  OBVIOUS
<1>2. \A a : DOMAIN <<a>> \subseteq {1, 2}  OBVIOUS
<1>3. \A a, b : DOMAIN <<a, b>> \subseteq {1, 2}  OBVIOUS
<1> QED  BY <1>1, <1>2, <1>3 DEF FrameOK

\* The references that frames are about to put: a finite set, by process and place.
LEMMA PendingFinite ==
  ASSUME NEW fr, \A q \in Proc : FrameOK(fr[q]), NEW i
  PROVE  /\ IsFiniteSet(Pending(fr, i))
         /\ \A q \in Proc, n \in {1, 2} :
              <<q, n>> \in Pending(fr, i) <=> n \in DOMAIN fr[q].puts /\ fr[q].puts[n] = i
         /\ \A x \in Pending(fr, i) : x \in Proc \X {1, 2}
<1>1. ASSUME NEW x \in Pending(fr, i)  PROVE x \in Proc \X {1, 2}
  <2>1. PICK q \in Proc : x \in {q} \X DOMAIN fr[q].puts  BY DEF Pending
  <2>2. DOMAIN fr[q].puts \subseteq {1, 2}  BY PutsDomain
  <2> QED  BY <2>1, <2>2
<1>2. IsFiniteSet({1, 2})
  <2>1. IsFiniteSet({1}) /\ IsFiniteSet({2})  BY FS_Singleton
  <2>2. IsFiniteSet({1} \cup {2})  BY <2>1, FS_Union
  <2>3. {1, 2} = {1} \cup {2}  OBVIOUS
  <2> QED  BY <2>2, <2>3
<1>3. IsFiniteSet(Proc \X {1, 2})  BY <1>2, Numbers, FS_Product
<1>4. IsFiniteSet(Pending(fr, i))
  <2>1. Pending(fr, i) \subseteq Proc \X {1, 2}  BY <1>1
  <2> QED  BY ONLY <1>3, <2>1, FS_Subset
<1>5. ASSUME NEW q \in Proc, NEW n \in {1, 2}
      PROVE  <<q, n>> \in Pending(fr, i) <=> n \in DOMAIN fr[q].puts /\ fr[q].puts[n] = i
  <2>1. <<q, n>> \in UNION {{r} \X DOMAIN fr[r].puts : r \in Proc} <=> n \in DOMAIN fr[q].puts
    <3>1. ASSUME <<q, n>> \in UNION {{r} \X DOMAIN fr[r].puts : r \in Proc}
          PROVE  n \in DOMAIN fr[q].puts
      <4>1. PICK r \in Proc : <<q, n>> \in {r} \X DOMAIN fr[r].puts  BY <3>1
      <4> QED  BY <4>1
    <3>2. ASSUME n \in DOMAIN fr[q].puts
          PROVE  <<q, n>> \in UNION {{r} \X DOMAIN fr[r].puts : r \in Proc}
      <4>1. <<q, n>> \in {q} \X DOMAIN fr[q].puts  BY <3>2
      <4> QED  BY <4>1
    <3> QED  BY <3>1, <3>2
  <2> QED  BY <2>1 DEF Pending
<1> QED  BY <1>1, <1>4, <1>5

\* The files open on an inode are finitely many.
LEMMA OpenFinite ==
  \A file, i : IsFiniteSet(OpenFiles(file, i)) /\ Cardinality(OpenFiles(file, i)) \in Nat
<1>1. IsFiniteSet(1 .. NFILE)  BY Numbers, FS_Interval
<1> SUFFICES ASSUME NEW file, NEW i
             PROVE  IsFiniteSet(OpenFiles(file, i)) /\ Cardinality(OpenFiles(file, i)) \in Nat
  OBVIOUS
<1>2. OpenFiles(file, i) \subseteq 1 .. NFILE  BY DEF OpenFiles
<1>3. IsFiniteSet(OpenFiles(file, i))  BY ONLY <1>1, <1>2, FS_Subset
<1> QED  BY <1>3, FS_CardinalityType

\* The uses of inode i change by what p's frame, p's directory and the open files do.
LEMMA UsesMove ==
  ASSUME FrameInv, FrameInv', NEW p \in Proc, NEW i \in Inum,
         \A q \in Proc \ {p} : f'[q] = f[q] /\ cwd'[q] = cwd[q]
  PROVE  /\ Uses(i) \in Nat /\ Uses(i)' \in Nat
         /\ Uses(i)' + Held(f[p], i) + One(cwd[p], i) + Cardinality(OpenFiles(k.file, i))
            = Uses(i) + Held(f'[p], i) + One(cwd'[p], i) + Cardinality(OpenFiles(k'.file, i))
<1> DEFINE C == {q \in Proc : cwd[q] = i}       C1 == {q \in Proc : cwd'[q] = i}
           I == {q \in Proc : f[q].ip = i}      I1 == {q \in Proc : f'[q].ip = i}
           D == {q \in Proc : f[q].dp = i}      D1 == {q \in Proc : f'[q].dp = i}
           P == Pending(f, i)                      P1 == Pending(f', i)
<1>0. IsFiniteSet(C) /\ IsFiniteSet(I) /\ IsFiniteSet(D)  BY Numbers, FS_Subset
<1>1. /\ Cardinality(C) \in Nat /\ Cardinality(C1) \in Nat
      /\ Cardinality(C1) + In(p, C) = Cardinality(C) + In(p, C1)
  <2>1. C \ {p} = C1 \ {p}  OBVIOUS
  <2> HIDE DEF C, C1
  <2> QED  BY ONLY <1>0, <2>1, OneChanged
<1>2. /\ Cardinality(I) \in Nat /\ Cardinality(I1) \in Nat
      /\ Cardinality(I1) + In(p, I) = Cardinality(I) + In(p, I1)
  <2>1. I \ {p} = I1 \ {p}  OBVIOUS
  <2> HIDE DEF I, I1
  <2> QED  BY ONLY <1>0, <2>1, OneChanged
<1>3. /\ Cardinality(D) \in Nat /\ Cardinality(D1) \in Nat
      /\ Cardinality(D1) + In(p, D) = Cardinality(D) + In(p, D1)
  <2>1. D \ {p} = D1 \ {p}  OBVIOUS
  <2> HIDE DEF D, D1
  <2> QED  BY ONLY <1>0, <2>1, OneChanged
<1>4. /\ IsFiniteSet(P)
      /\ \A q \in Proc, n \in {1, 2} :
           <<q, n>> \in P <=> n \in DOMAIN f[q].puts /\ f[q].puts[n] = i
      /\ \A x \in P : x \in Proc \X {1, 2}
  BY PendingFinite DEF FrameInv
<1>5. /\ \A q \in Proc, n \in {1, 2} :
           <<q, n>> \in P1 <=> n \in DOMAIN f'[q].puts /\ f'[q].puts[n] = i
      /\ \A x \in P1 : x \in Proc \X {1, 2}
  BY PendingFinite DEF FrameInv
<1> HIDE DEF P, P1
<1>6. /\ Cardinality(P) \in Nat /\ Cardinality(P1) \in Nat
      /\ Cardinality(P1) + In(<<p, 1>>, P) + In(<<p, 2>>, P)
         = Cardinality(P) + In(<<p, 1>>, P1) + In(<<p, 2>>, P1)
  <2> DEFINE a == <<p, 1>>  b == <<p, 2>>
  <2>1. a # b  OBVIOUS
  <2>2. ASSUME NEW x \in Proc \X {1, 2}, x # a, x # b  PROVE x \in P <=> x \in P1
    <3>1. PICK q \in Proc, n \in {1, 2} : x = <<q, n>>  OBVIOUS
    <3>2. q # p  BY <2>2, <3>1
    <3>3. f'[q].puts = f[q].puts  BY <3>2
    <3>4. <<q, n>> \in P <=> n \in DOMAIN f[q].puts /\ f[q].puts[n] = i  BY <1>4
    <3>5. <<q, n>> \in P1 <=> n \in DOMAIN f'[q].puts /\ f'[q].puts[n] = i  BY <1>5
    <3> QED  BY <3>1, <3>3, <3>4, <3>5
  <2>3. P \ {a, b} = P1 \ {a, b}  BY <1>4, <1>5, <2>2
  <2> HIDE DEF a, b
  <2>4. /\ Cardinality(P) \in Nat /\ Cardinality(P1) \in Nat
        /\ Cardinality(P1) + In(a, P) + In(b, P) = Cardinality(P) + In(a, P1) + In(b, P1)
    BY ONLY <1>4, <2>1, <2>3, TwoChanged
  <2> QED  BY ONLY <2>4 DEF a, b
<1>7. /\ In(p, C) = One(cwd[p], i) /\ In(p, C1) = One(cwd'[p], i)
      /\ In(p, I) = One(f[p].ip, i) /\ In(p, I1) = One(f'[p].ip, i)
      /\ In(p, D) = One(f[p].dp, i) /\ In(p, D1) = One(f'[p].dp, i)
  BY DEF In, One
<1>8. ASSUME NEW n \in {1, 2}  PROVE In(<<p, n>>, P) = One(PutAt(f[p], n), i)
  <2>1. <<p, n>> \in P <=> n \in DOMAIN f[p].puts /\ f[p].puts[n] = i  BY <1>4
  <2> QED  BY <2>1, Numbers DEF In, One, PutAt
<1>9. ASSUME NEW n \in {1, 2}  PROVE In(<<p, n>>, P1) = One(PutAt(f'[p], n), i)
  <2>1. <<p, n>> \in P1 <=> n \in DOMAIN f'[p].puts /\ f'[p].puts[n] = i  BY <1>5
  <2> QED  BY <2>1, Numbers DEF In, One, PutAt
<1>10. Cardinality(OpenFiles(k.file, i)) \in Nat  BY OpenFinite
<1>11. Cardinality(OpenFiles(k'.file, i)) \in Nat  BY OpenFinite
<1>13. Uses(i) = Cardinality(OpenFiles(k.file, i)) + Cardinality(C) + Cardinality(I) + Cardinality(D)
                 + Cardinality(P)
  BY DEF Uses, P
<1>14. Uses(i)' = Cardinality(OpenFiles(k'.file, i)) + Cardinality(C1) + Cardinality(I1) + Cardinality(D1)
                  + Cardinality(P1)
  BY DEF Uses, P1
<1> HIDE DEF C, C1, I, I1, D, D1
<1>15. /\ In(<<p, 1>>, P) = One(PutAt(f[p], 1), i) /\ In(<<p, 2>>, P) = One(PutAt(f[p], 2), i)
       /\ In(<<p, 1>>, P1) = One(PutAt(f'[p], 1), i) /\ In(<<p, 2>>, P1) = One(PutAt(f'[p], 2), i)
  BY <1>8, <1>9
<1>16. Held(f[p], i) = In(p, I) + In(p, D) + In(<<p, 1>>, P) + In(<<p, 2>>, P)
  BY ONLY <1>7, <1>15 DEF Held
<1>17. Held(f'[p], i) = In(p, I1) + In(p, D1) + In(<<p, 1>>, P1) + In(<<p, 2>>, P1)
  BY ONLY <1>7, <1>15 DEF Held
<1>18. \A a, S : In(a, S) \in Nat  BY DEF In
<1>19. One(cwd[p], i) = In(p, C) /\ One(cwd'[p], i) = In(p, C1)  BY <1>7
<1> QED
  BY ONLY <1>1, <1>2, <1>3, <1>6, <1>10, <1>11, <1>13, <1>14, <1>16, <1>17, <1>18, <1>19, Z3
-----------------------------------------------------------------------------
(* What each step has to show. *)

SameFiles(a, b) ==
  /\ DOMAIN b = 1 .. NFILE
  /\ \A x \in 1 .. NFILE : /\ DOMAIN b[x] = DOMAIN NoFile
                           /\ b[x].ref = a[x].ref /\ b[x].type = a[x].type /\ b[x].ip = a[x].ip

\* p, now in frame g, has taken the locks it wants and given the others back.
LocksMove(p, g, a, b) ==
  \A j \in Inum :
    /\ HasLocked(g, j) => b[j] = p /\ a[j] \in {0, p}
    /\ ~HasLocked(g, j) => b[j] = IF a[j] = p THEN 0 ELSE a[j]

Outside == {"gone", "unused"}

\* Frames after a step of p that leaves descriptors and directories alone.
LEMMA FrameStep ==
  ASSUME FrameInv, NEW p \in Proc, DOMAIN f' = Proc, \A q \in Proc \ {p} : f'[q] = f[q],
         FrameOK(f'[p]), UNCHANGED <<ofile, cwd>>, f'[p].pc \in Outside => f[p].pc \in Outside
  PROVE  FrameInv'
<1>2. \A q \in Proc : FrameOK(f'[q])  BY DEF FrameInv
<1>3. ASSUME NEW q \in Proc, f'[q].pc \in Outside  PROVE f[q].pc \in Outside  BY <1>3
<1> QED  BY <1>2, <1>3 DEF FrameInv, Outside

\* Locks after a step of p alone.
LEMMA LockStep ==
  ASSUME LockInv, NEW p \in Proc, \A q \in Proc \ {p} : f'[q] = f[q],
         LocksMove(p, f'[p], k.lock, k'.lock)
  PROVE  LockInv'
<1> SUFFICES ASSUME NEW i \in Inum
             PROVE  /\ k'.lock[i] \in Proc \cup {0}
                    /\ \A q \in Proc : k'.lock[i] = q <=> HasLocked(f'[q], i)
  BY DEF LockInv
<1>2. k.lock[i] \in Proc \cup {0} /\ \A q \in Proc : k.lock[i] = q <=> HasLocked(f[q], i)
  BY DEF LockInv
<1>3. CASE HasLocked(f'[p], i)
  <2>1. k'.lock[i] = p /\ k.lock[i] \in {0, p}  BY <1>3 DEF LocksMove
  <2> QED  BY <1>2, <1>3, <2>1, Numbers
<1>4. CASE ~HasLocked(f'[p], i)
  <2>1. k'.lock[i] = IF k.lock[i] = p THEN 0 ELSE k.lock[i]  BY <1>4 DEF LocksMove
  <2> QED  BY <1>2, <1>4, <2>1, Numbers
<1> QED  BY <1>3, <1>4

\* A step of p after which the tables and the frames are in order keeps Sane if it
\* takes or gives back as many references as it adds to or removes from the counts.
LEMMA Accounts ==
  ASSUME Sane, NEW p \in Proc, \A q \in Proc \ {p} : f'[q] = f[q] /\ cwd'[q] = cwd[q],
         FrameInv', Good(k', Freed'), k'.panic = "", FileOK(k'),
         LocksMove(p, f'[p], k.lock, k'.lock),
         \A x \in 1 .. NFILE : k'.file[x].ref = Cardinality(Descriptors(ofile', x)),
         \A j \in Inum : k'.ref[j] + Held(f[p], j) + One(cwd[p], j) + Cardinality(OpenFiles(k.file, j))
                         = k.ref[j] + Held(f'[p], j) + One(cwd'[p], j)
                           + Cardinality(OpenFiles(k'.file, j))
  PROVE  Sane'
<1>2. FrameInv /\ LockInv /\ FileOK(k) /\ CountsRight  BY DEF Sane
<1>4. LockInv'  BY <1>2, LockStep
<1>5. TablesOK(k') /\ CacheOK(k', Freed')  BY DEF Good
<1>8. ASSUME NEW i \in Inum  PROVE k'.ref[i] = Uses(i)'
  <2>1. /\ Uses(i) \in Nat /\ Uses(i)' \in Nat
        /\ Uses(i)' + Held(f[p], i) + One(cwd[p], i) + Cardinality(OpenFiles(k.file, i))
           = Uses(i) + Held(f'[p], i) + One(cwd'[p], i) + Cardinality(OpenFiles(k'.file, i))
    BY ONLY <1>2, FrameInv', \A q \in Proc \ {p} : f'[q] = f[q] /\ cwd'[q] = cwd[q],
            p \in Proc, i \in Inum, UsesMove
  <2>2. Cardinality(OpenFiles(k.file, i)) \in Nat  BY OpenFinite
  <2>3. Cardinality(OpenFiles(k'.file, i)) \in Nat  BY OpenFinite
  <2>5. /\ One(cwd[p], i) \in Nat /\ One(cwd'[p], i) \in Nat
        /\ Held(f'[p], i) \in Nat /\ Held(f[p], i) \in Nat
    BY HeldNat
  <2>6. /\ k'.ref[i] \in Nat
        /\ k'.ref[i] + Held(f[p], i) + One(cwd[p], i) + Cardinality(OpenFiles(k.file, i))
           = k.ref[i] + Held(f'[p], i) + One(cwd'[p], i) + Cardinality(OpenFiles(k'.file, i))
    BY DEF Good
  <2>7. k.ref[i] = Uses(i)  BY <1>2 DEF CountsRight
  <2> QED  BY ONLY <2>1, <2>2, <2>3, <2>5, <2>6, <2>7
<1> QED  BY <1>4, <1>5, <1>8 DEF Sane, CountsRight

\* The case of a step that leaves descriptors, directories and open files alone.
LEMMA StepSane ==
  ASSUME Sane, NEW p \in Proc, DOMAIN f' = Proc, \A q \in Proc \ {p} : f'[q] = f[q],
         UNCHANGED <<ofile, cwd>>, k'.panic = "",
         Good(k', Freed'), SameFiles(k.file, k'.file), LocksMove(p, f'[p], k.lock, k'.lock),
         FrameOK(f'[p]), f'[p].pc \in Outside => f[p].pc \in Outside,
         \A j \in Inum : k'.ref[j] + Held(f[p], j) = k.ref[j] + Held(f'[p], j)
  PROVE  Sane'
<1>2. FrameInv /\ FileOK(k) /\ CountsRight  BY DEF Sane
<1>3. FrameInv'  BY <1>2, FrameStep
<1>6. FileOK(k')  BY <1>2 DEF FileOK, SameFiles
<1>7. \A x \in 1 .. NFILE : k'.file[x].ref = Cardinality(Descriptors(ofile', x))
  BY <1>2 DEF CountsRight, SameFiles
<1>8. ASSUME NEW j \in Inum
      PROVE  k'.ref[j] + Held(f[p], j) + One(cwd[p], j) + Cardinality(OpenFiles(k.file, j))
             = k.ref[j] + Held(f'[p], j) + One(cwd'[p], j) + Cardinality(OpenFiles(k'.file, j))
  <2>1. OpenFiles(k'.file, j) = OpenFiles(k.file, j)  BY DEF OpenFiles, SameFiles
  <2>2. k'.ref[j] + Held(f[p], j) = k.ref[j] + Held(f'[p], j)  OBVIOUS
  <2>3. cwd'[p] = cwd[p]  OBVIOUS
  <2> QED  BY ONLY <2>1, <2>2, <2>3
<1>9. \A q \in Proc \ {p} : f'[q] = f[q] /\ cwd'[q] = cwd[q]  OBVIOUS
<1> QED  BY <1>3, <1>6, <1>7, <1>8, <1>9, Accounts

\* The uses of an inode are a number.
LEMMA UsesNat ==
  ASSUME FrameInv, NEW i
  PROVE  Uses(i) \in Nat
<1>1. ASSUME NEW S, S \subseteq Proc  PROVE Cardinality(S) \in Nat
  BY <1>1, Numbers, FS_Subset, FS_CardinalityType
<1>2. /\ Cardinality({p \in Proc : cwd[p] = i}) \in Nat
      /\ Cardinality({p \in Proc : f[p].ip = i}) \in Nat
      /\ Cardinality({p \in Proc : f[p].dp = i}) \in Nat
  BY <1>1
<1>3. Cardinality(OpenFiles(k.file, i)) \in Nat  BY OpenFinite
<1>4. Cardinality(Pending(f, i)) \in Nat  BY PendingFinite, FS_CardinalityType DEF FrameInv
<1> QED  BY <1>2, <1>3, <1>4 DEF Uses

\* In a sane state the tables are as the helpers of fs.c expect them.
LEMMA SaneGood ==
  ASSUME Sane
  PROVE  Good(k, Freed)
BY UsesNat DEF Sane, CountsRight, Good

\* The current directory of a process is in the inode table.
LEMMA CwdHeld ==
  ASSUME Sane, NEW p \in Proc, cwd[p] \in Inum
  PROVE  k.ref[cwd[p]] > 0
<1> DEFINE i == cwd[p]
           C == {q \in Proc : cwd[q] = i}
           A == Cardinality(OpenFiles(k.file, i))
           B == Cardinality({q \in Proc : f[q].ip = i})
           D == Cardinality({q \in Proc : f[q].dp = i})
           E == Cardinality(Pending(f, i))
<1>1. k.ref[i] = A + Cardinality(C) + B + D + E  BY DEF Sane, CountsRight, Uses
<1>2. ASSUME NEW S, S \subseteq Proc  PROVE IsFiniteSet(S) /\ Cardinality(S) \in Nat
  BY <1>2, Numbers, FS_Subset, FS_CardinalityType
<1>3. B \in Nat /\ D \in Nat  BY <1>2
<1>4. A \in Nat  BY OpenFinite
<1>5. E \in Nat  BY PendingFinite, FS_CardinalityType DEF Sane, FrameInv
<1>6. IsFiniteSet(C) /\ Cardinality(C) \in Nat  BY <1>2
<1>7. C # {}  OBVIOUS
<1> HIDE DEF A, B, C, D, E
<1>8. Cardinality(C) # 0  BY <1>6, <1>7, FS_EmptySet
<1> QED  BY ONLY <1>1, <1>3, <1>4, <1>5, <1>6, <1>8

\* Frames without a put in progress.
LEMMA HeldBy ==
  ASSUME NEW g, NEW j \in Inum
  PROVE  /\ g.puts = <<>> => Held(g, j) = One(g.ip, j) + One(g.dp, j)
         /\ \A a : g.puts = <<a>> => Held(g, j) = One(g.ip, j) + One(g.dp, j) + One(a, j)
         /\ \A a, b : g.puts = <<a, b>> =>
              Held(g, j) = One(g.ip, j) + One(g.dp, j) + One(a, j) + One(b, j)
<1>1. One(0, j) = 0  BY Numbers DEF One
<1>2. \A a : One(a, j) \in Nat  BY HeldNat
<1>3. ASSUME g.puts = <<>>  PROVE PutAt(g, 1) = 0 /\ PutAt(g, 2) = 0  BY <1>3 DEF PutAt
<1>4. ASSUME NEW a, g.puts = <<a>>  PROVE PutAt(g, 1) = a /\ PutAt(g, 2) = 0  BY <1>4 DEF PutAt
<1>5. ASSUME NEW a, NEW b, g.puts = <<a, b>>  PROVE PutAt(g, 1) = a /\ PutAt(g, 2) = b
  BY <1>5 DEF PutAt
<1> QED  BY <1>1, <1>2, <1>3, <1>4, <1>5 DEF Held

\* A frame that frees nothing, with up to two references to put.
LEMMA FrameForms ==
  ASSUME NEW g, DOMAIN g = DOMAIN Idle, ~g.freeing, PlacedOK(g)
  PROVE  /\ g.puts = <<>> => FrameOK(g)
         /\ \A a : g.puts = <<a>> => FrameOK(g)
         /\ \A a, b : g.puts = <<a, b>> => FrameOK(g)
<1>1. \A a : <<a>>[1] = a  OBVIOUS
<1>2. \A a, b : <<a, b>>[1] = a /\ <<a, b>>[2] = b  OBVIOUS
<1> QED  BY <1>1, <1>2 DEF FrameOK

\* p, which has nothing to put before the step and frees nothing after it, does not
\* change what is being freed.
LEMMA FreedSame ==
  ASSUME FrameInv, NEW p \in Proc, f[p].puts = <<>>, ~f'[p].freeing,
         \A q \in Proc \ {p} : f'[q] = f[q]
  PROVE  Freed' = Freed
<1>1. FrameOK(f[p])  BY DEF FrameInv
<1>2. ~f[p].freeing  BY <1>1 DEF FrameOK
<1>3. \A q \in Proc, i \in Inum : f'[q].freeing /\ f'[q].puts[1] = i
                                 <=> f[q].freeing /\ f[q].puts[1] = i
  BY <1>2
<1> QED  BY <1>3 DEF Freed

\* A step at a label: nothing is being freed by p.
LEMMA PlainStep ==
  ASSUME Sane, NEW p \in Proc, f[p].puts = <<>>,
         DOMAIN f' = Proc, \A q \in Proc \ {p} : f'[q] = f[q],
         UNCHANGED <<ofile, cwd>>, k'.panic = "",
         Good(k', Freed), SameFiles(k.file, k'.file), LocksMove(p, f'[p], k.lock, k'.lock),
         FrameOK(f'[p]), ~f'[p].freeing, f'[p].pc \in Outside => f[p].pc \in Outside,
         \A j \in Inum : k'.ref[j] + Held(f[p], j) = k.ref[j] + Held(f'[p], j)
  PROVE  Sane'
<1>1. FrameInv  BY DEF Sane
<1>5. Freed' = Freed  BY <1>1, FreedSame
<1>6. Good(k', Freed')  BY <1>5
<1> QED  BY <1>6, StepSane

\* At a label: what a step may rely on.
AtLabelFacts(p) ==
  /\ Good(k, Freed) /\ Keeps(k, k) /\ SameFiles(k.file, k.file)
  /\ DOMAIN f[p] = DOMAIN Idle /\ ~f[p].freeing /\ f[p].puts = <<>>
  /\ PlacedOK(f[p]) /\ DOMAIN f = Proc
  /\ \A j \in Inum : k.lock[j] = p <=> \/ f[p].pc \in {"opened", "unlinked"} /\ f[p].ip = j
                                       \/ f[p].pc \in {"new", "entry"} /\ f[p].dp = j

\* They hold in a sane state.
LEMMA AtLabel ==
  ASSUME Sane, NEW p \in Proc, f[p].puts = <<>>
  PROVE  AtLabelFacts(p)
<1>1. FrameOK(f[p]) /\ DOMAIN f = Proc /\ LockInv /\ FileOK(k) /\ TablesOK(k)
  BY DEF Sane, FrameInv
<1>2. SameFiles(k.file, k.file)  BY <1>1 DEF SameFiles, FileOK, TablesOK
<1>3. Keeps(k, k)  BY DEF Keeps
<1>4. \A j \in Inum : ~(f[p].freeing /\ f[p].puts[1] = j)  BY <1>1 DEF FrameOK
<1>5. \A j \in Inum : k.lock[j] = p <=> \/ f[p].pc \in {"opened", "unlinked"} /\ f[p].ip = j
                                        \/ f[p].pc \in {"new", "entry"} /\ f[p].dp = j
  BY <1>1, <1>4 DEF LockInv, HasLocked
<1> QED  BY <1>1, <1>2, <1>3, <1>5, SaneGood DEF FrameOK, AtLabelFacts

\* The frames of calls that are about to return.
Returns(h) == DOMAIN h = DOMAIN Idle /\ ~h.freeing /\ h.pc = "ret" /\ h.ip = 0 /\ h.dp = 0

\* The frame Ret makes.
LEMMA RetFrame ==
  ASSUME NEW g, NEW n, DOMAIN g = DOMAIN Idle, ~g.freeing, g.puts = <<>>
  PROVE  Returns(Ret(g, n)) /\ Ret(g, n).puts = <<>>
<1>1. DOMAIN Ret(g, n) = DOMAIN Idle /\ ~Ret(g, n).freeing  BY Shape DEF Ret
<1>2. Ret(g, n).puts = <<>>  BY Shape DEF Ret
<1>3. Ret(g, n).pc = "ret" /\ Ret(g, n).ip = 0 /\ Ret(g, n).dp = 0  BY Shape DEF Ret
<1> QED  BY <1>1, <1>2, <1>3 DEF Returns

\* Puts on a frame with nothing to put.
LEMMA PutsFrame ==
  ASSUME NEW h, NEW s, DOMAIN h = DOMAIN Idle, h.puts = <<>>, ~h.freeing, <<>> \o s = s
  PROVE  LET r == Puts(h, s)
         IN /\ DOMAIN r = DOMAIN Idle /\ ~r.freeing /\ r.puts = s
            /\ r.pc = h.pc /\ r.to = h.to /\ r.ip = h.ip /\ r.dp = h.dp
<1>1. Puts(h, s) = [h EXCEPT !.puts = s]  BY Shape DEF Puts
<1>2. [h EXCEPT !.puts = s].puts = s  BY Shape
<1>3. LET r == [h EXCEPT !.puts = s]
      IN /\ DOMAIN r = DOMAIN Idle /\ ~r.freeing
         /\ r.pc = h.pc /\ r.to = h.to /\ r.ip = h.ip /\ r.dp = h.dp
  BY Shape
<1> QED  BY <1>1, <1>2, <1>3

\* Puts with one reference.
LEMMA PutsOne ==
  ASSUME NEW h, NEW a, DOMAIN h = DOMAIN Idle, h.puts = <<>>, ~h.freeing
  PROVE  LET r == Puts(h, <<a>>)
         IN /\ DOMAIN r = DOMAIN Idle /\ ~r.freeing /\ r.puts = <<a>>
            /\ r.pc = h.pc /\ r.to = h.to /\ r.ip = h.ip /\ r.dp = h.dp
<1>1. <<>> \o <<a>> = <<a>>  OBVIOUS
<1> QED  BY ONLY <1>1, DOMAIN h = DOMAIN Idle, h.puts = <<>>, ~h.freeing, PutsFrame, Zenon

\* Puts with two references.
LEMMA PutsTwo ==
  ASSUME NEW h, NEW a, NEW b, DOMAIN h = DOMAIN Idle, h.puts = <<>>, ~h.freeing
  PROVE  LET r == Puts(h, <<a, b>>)
         IN /\ DOMAIN r = DOMAIN Idle /\ ~r.freeing /\ r.puts = <<a, b>>
            /\ r.pc = h.pc /\ r.to = h.to /\ r.ip = h.ip /\ r.dp = h.dp
<1>1. <<>> \o <<a, b>> = <<a, b>>  OBVIOUS
<1> QED  BY ONLY <1>1, DOMAIN h = DOMAIN Idle, h.puts = <<>>, ~h.freeing, PutsFrame, Zenon

\* A call that returns with one or two references to put.
LEMMA RetOne ==
  ASSUME NEW g, NEW n, NEW a, DOMAIN g = DOMAIN Idle, ~g.freeing, g.puts = <<>>
  PROVE  Returns(Puts(Ret(g, n), <<a>>)) /\ Puts(Ret(g, n), <<a>>).puts = <<a>>
<1> DEFINE h == Ret(g, n)
<1>1. Returns(h) /\ h.puts = <<>>  BY RetFrame
<1> HIDE DEF h
<1>2. LET r == Puts(h, <<a>>)
      IN /\ DOMAIN r = DOMAIN Idle /\ ~r.freeing /\ r.puts = <<a>>
         /\ r.pc = h.pc /\ r.to = h.to /\ r.ip = h.ip /\ r.dp = h.dp
  BY ONLY <1>1, PutsOne, Zenon DEF Returns
<1>3. Returns(Puts(h, <<a>>)) /\ Puts(h, <<a>>).puts = <<a>>  BY ONLY <1>1, <1>2, Zenon DEF Returns
<1> QED  BY <1>3 DEF h

\* The same with two references.
LEMMA RetTwo ==
  ASSUME NEW g, NEW n, NEW a, NEW b, DOMAIN g = DOMAIN Idle, ~g.freeing, g.puts = <<>>
  PROVE  Returns(Puts(Ret(g, n), <<a, b>>)) /\ Puts(Ret(g, n), <<a, b>>).puts = <<a, b>>
<1> DEFINE h == Ret(g, n)
<1>1. Returns(h) /\ h.puts = <<>>  BY RetFrame
<1> HIDE DEF h
<1>2. LET r == Puts(h, <<a, b>>)
      IN /\ DOMAIN r = DOMAIN Idle /\ ~r.freeing /\ r.puts = <<a, b>>
         /\ r.pc = h.pc /\ r.to = h.to /\ r.ip = h.ip /\ r.dp = h.dp
  BY ONLY <1>1, PutsTwo, ZenonT(30) DEF Returns
<1>3. Returns(Puts(h, <<a, b>>)) /\ Puts(h, <<a, b>>).puts = <<a, b>>
  BY ONLY <1>1, <1>2, Zenon DEF Returns
<1> QED  BY <1>3 DEF h

\* What a frame with one reference to put holds.
LEMMA HeldOne ==
  ASSUME NEW g, NEW a, NEW j \in Inum, g.puts = <<a>>
  PROVE  Held(g, j) = One(g.ip, j) + One(g.dp, j) + One(a, j)
BY HeldBy

\* What a frame with two references to put holds.
LEMMA HeldTwo ==
  ASSUME NEW g, NEW a, NEW b, NEW j \in Inum, g.puts = <<a, b>>
  PROVE  Held(g, j) = One(g.ip, j) + One(g.dp, j) + One(a, j) + One(b, j)
BY HeldBy

\* 0 is no inode.
LEMMA OneZero == \A j \in Inum : One(0, j) = 0  BY Numbers DEF One

\* A call that returns: it gives its locks back, and puts what it holds.
LEMMA ReturnSane ==
  ASSUME Sane, NEW p \in Proc, f[p].puts = <<>>,
         DOMAIN f' = Proc, \A q \in Proc \ {p} : f'[q] = f[q], Returns(f'[p]),
         \/ f'[p].puts = <<>> /\ f[p].ip = 0 /\ f[p].dp = 0
         \/ f'[p].puts = <<f[p].ip>> /\ f[p].dp = 0
         \/ f'[p].puts = <<f[p].dp>> /\ f[p].ip = 0
         \/ f'[p].puts = <<f[p].ip, f[p].dp>>
         \/ f'[p].puts = <<f[p].dp, f[p].ip>>,
         UNCHANGED <<ofile, cwd>>, k'.panic = "", Good(k', Freed), k'.ref = k.ref,
         SameFiles(k.file, k'.file),
         \A j \in Inum : k'.lock[j] = IF k.lock[j] = p THEN 0 ELSE k.lock[j]
  PROVE  Sane'
<1>1. PlacedOK(f'[p]) /\ f'[p].pc \notin Outside  BY DEF Returns, PlacedOK, Outside
<1>2. FrameOK(f'[p])
  <2>1. DOMAIN f'[p] = DOMAIN Idle /\ ~f'[p].freeing  BY DEF Returns
  <2> QED  BY <1>1, <2>1, FrameForms
<1>3. ASSUME NEW j \in Inum  PROVE k'.ref[j] + Held(f[p], j) = k.ref[j] + Held(f'[p], j)
  <2> DEFINE g == f[p]  h == f'[p]
  <2>1. Held(g, j) = One(g.ip, j) + One(g.dp, j)  BY HeldBy
  <2>2. One(h.ip, j) = 0 /\ One(h.dp, j) = 0 /\ One(0, j) = 0  BY OneZero DEF Returns
  <2>3. \A a : One(a, j) \in Nat  BY HeldNat
  <2>4. /\ h.puts = <<>> => Held(h, j) = One(h.ip, j) + One(h.dp, j)
        /\ \A a : h.puts = <<a>> => Held(h, j) = One(h.ip, j) + One(h.dp, j) + One(a, j)
        /\ \A a, b : h.puts = <<a, b>> =>
             Held(h, j) = One(h.ip, j) + One(h.dp, j) + One(a, j) + One(b, j)
    BY ONLY j \in Inum, HeldBy, Zenon
  <2>5. k.ref[j] \in Nat /\ k'.ref[j] = k.ref[j]  BY SaneGood DEF Good
  <2>6. \/ g.ip = 0 /\ g.dp = 0 /\ Held(h, j) = One(h.ip, j) + One(h.dp, j)
        \/ g.dp = 0 /\ Held(h, j) = One(h.ip, j) + One(h.dp, j) + One(g.ip, j)
        \/ g.ip = 0 /\ Held(h, j) = One(h.ip, j) + One(h.dp, j) + One(g.dp, j)
        \/ Held(h, j) = One(h.ip, j) + One(h.dp, j) + One(g.ip, j) + One(g.dp, j)
        \/ Held(h, j) = One(h.ip, j) + One(h.dp, j) + One(g.dp, j) + One(g.ip, j)
    BY <2>4, Zenon
  <2>7. /\ g.ip = 0 => One(g.ip, j) = 0
        /\ g.dp = 0 => One(g.dp, j) = 0
    BY OneZero
  <2> HIDE DEF g, h
  <2>8. k'.ref[j] + Held(g, j) = k.ref[j] + Held(h, j)
    BY ONLY <2>1, <2>2, <2>3, <2>5, <2>6, <2>7
  <2> QED  BY <2>8 DEF g, h
<1>4. LocksMove(p, f'[p], k.lock, k'.lock)  BY DEF LocksMove, HasLocked, Returns
<1>5. ~f'[p].freeing  BY DEF Returns
<1> QED  BY <1>1, <1>2, <1>3, <1>4, <1>5, PlainStep

\* One turn of the loop of namex.
LEMMA NamexSane ==
  ASSUME Sane, NEW p \in Proc, Namex(p), k'.panic = ""
  PROVE  Sane'
<1> DEFINE g == f[p]
           s == Ilock(k, g.ip)
           fails == [g EXCEPT !.pc = g.to, !.ip = 0, !.puts = <<g.ip>>]
           next == Entries(s, s.mem[g.ip])[Dirlookup(s, s.mem[g.ip], Dirsiz(Head(g.path)))][1]
           goes == [g EXCEPT !.ip = next, !.path = Tail(@), !.puts = <<g.ip>>]
<1>1. g.puts = <<>> /\ g.pc = "walk"  BY DEF Namex, At
<1>2. AtLabelFacts(p)  BY <1>1, AtLabel
<1>0. DOMAIN g = DOMAIN Idle /\ ~g.freeing  BY <1>2 DEF AtLabelFacts
<1>3. Good(s, Freed) /\ Keeps(k, s)  BY <1>2, IlockKeeps DEF AtLabelFacts
<1>4. Good(Iget(s, next), Freed) /\ Grows(s, Iget(s, next), next)  BY <1>3, IgetGrows
<1> HIDE DEF s, next
<1>5. g.to \in {"open", "create", "old", "link", "unlink", "chdir", "exec"}
  BY <1>1, <1>2 DEF AtLabelFacts, PlacedOK
<1>6. ASSUME k' = k \/ k' = s,
             f' = [f EXCEPT ![p] = fails],
             UNCHANGED <<ofile, cwd>>
      PROVE  Sane'
  <2>1. DOMAIN f' = Proc /\ f'[p] = fails /\ \A q \in Proc \ {p} : f'[q] = f[q]
    BY <1>2, <1>6 DEF AtLabelFacts
  <2>2. Good(k', Freed) /\ k'.ref = k.ref /\ SameFiles(k.file, k'.file)
    BY <1>2, <1>6, <1>3 DEF AtLabelFacts, Keeps
  <2>3. \A j \in Inum : k'.lock[j] = k.lock[j]
    BY <1>2, <1>6, <1>3 DEF AtLabelFacts, Keeps
  <2>4. /\ DOMAIN f'[p] = DOMAIN Idle /\ ~f'[p].freeing /\ f'[p].puts = <<g.ip>>
        /\ f'[p].pc = g.to /\ f'[p].to = g.to /\ f'[p].ip = 0 /\ f'[p].dp = g.dp
    <3>1. DOMAIN f'[p] = DOMAIN Idle /\ ~f'[p].freeing  BY <1>0, <1>1, <2>1, Shape
    <3>2. f'[p].puts = <<g.ip>>  BY <1>0, <1>1, <2>1, Shape
    <3>3. f'[p].pc = g.to /\ f'[p].to = g.to /\ f'[p].ip = 0 /\ f'[p].dp = g.dp
      <4>1. f'[p].pc = g.to  BY ONLY <1>0, <2>1, FrameShape
      <4>2. f'[p].to = g.to  BY ONLY <1>0, <2>1, FrameShape
      <4>3. f'[p].ip = 0  BY ONLY <1>0, <2>1, FrameShape
      <4>4. f'[p].dp = g.dp  BY ONLY <1>0, <2>1, FrameShape
      <4> QED  BY <4>1, <4>2, <4>3, <4>4
    <3> QED  BY <3>1, <3>2, <3>3
  <2>5. PlacedOK(f'[p]) /\ f'[p].pc \notin Outside
    BY <1>1, <1>2, <1>6, <2>4, <1>5 DEF AtLabelFacts, PlacedOK, Outside
  <2>6. FrameOK(f'[p])  BY <2>4, <2>5, FrameForms
  <2>7. ASSUME NEW j \in Inum  PROVE k'.ref[j] + Held(f[p], j) = k.ref[j] + Held(f'[p], j)
    <3>1. Held(f[p], j) = One(g.ip, j) + One(g.dp, j)  BY <1>1, HeldBy
    <3>2. Held(f'[p], j) = One(f'[p].ip, j) + One(f'[p].dp, j) + One(g.ip, j)
      BY ONLY <2>4, j \in Inum, HeldOne, Zenon
    <3>3. k.ref[j] \in Nat  BY <1>2 DEF AtLabelFacts, Good
    <3>4. One(0, j) = 0 /\ One(g.ip, j) \in Nat /\ One(g.dp, j) \in Nat
      BY OneZero, HeldNat
    <3>5. One(f'[p].ip, j) = One(0, j) /\ One(f'[p].dp, j) = One(g.dp, j)
      BY <2>4
    <3>6. k'.ref[j] = k.ref[j]  BY <2>2
    <3> QED  BY ONLY <3>1, <3>2, <3>3, <3>4, <3>5, <3>6
  <2>8. LocksMove(p, f'[p], k.lock, k'.lock)
    BY <1>1, <1>2, <1>6, <2>3, <2>4, <2>5, <1>5 DEF AtLabelFacts, LocksMove, HasLocked
  <2> QED  BY <1>1, <1>6, <2>1, <2>2, <2>4, <2>5, <2>6, <2>7, <2>8, PlainStep
<1>7. ASSUME k' = k \/ k' = s,
             f' = [f EXCEPT ![p] = [g EXCEPT !.pc = g.to]],
             Parent(g.to) \/ g.to # "link",
             UNCHANGED <<ofile, cwd>>
      PROVE  Sane'
  <2>1. DOMAIN f' = Proc /\ f'[p] = [g EXCEPT !.pc = g.to] /\ \A q \in Proc \ {p} : f'[q] = f[q]
    BY <1>2, <1>7 DEF AtLabelFacts
  <2>2. Good(k', Freed) /\ k'.ref = k.ref /\ SameFiles(k.file, k'.file)
    BY <1>2, <1>7, <1>3 DEF AtLabelFacts, Keeps
  <2>3. \A j \in Inum : k'.lock[j] = k.lock[j]
    BY <1>2, <1>7, <1>3 DEF AtLabelFacts, Keeps
  <2>4. /\ DOMAIN f'[p] = DOMAIN Idle /\ ~f'[p].freeing /\ f'[p].puts = <<>>
        /\ f'[p].pc = g.to /\ f'[p].to = g.to /\ f'[p].ip = g.ip /\ f'[p].dp = g.dp
    <3>1. DOMAIN f'[p] = DOMAIN Idle /\ ~f'[p].freeing  BY <1>0, <1>1, <2>1, Shape
    <3>2. f'[p].puts = <<>>  BY <1>0, <1>1, <2>1, Shape
    <3>3. f'[p].pc = g.to /\ f'[p].to = g.to /\ f'[p].ip = g.ip /\ f'[p].dp = g.dp
      <4>1. f'[p].pc = g.to  BY ONLY <1>0, <2>1, FrameShape
      <4>2. f'[p].to = g.to  BY ONLY <1>0, <2>1, FrameShape
      <4>3. f'[p].ip = g.ip  BY ONLY <1>0, <2>1, FrameShape
      <4>4. f'[p].dp = g.dp  BY ONLY <1>0, <2>1, FrameShape
      <4> QED  BY <4>1, <4>2, <4>3, <4>4
    <3> QED  BY <3>1, <3>2, <3>3
  <2>5. PlacedOK(f'[p]) /\ f'[p].pc \notin Outside
    BY <1>1, <1>2, <1>7, <2>4, <1>5 DEF AtLabelFacts, PlacedOK, Outside, Parent
  <2>6. FrameOK(f'[p])  BY <2>4, <2>5, FrameForms
  <2>7. ASSUME NEW j \in Inum  PROVE k'.ref[j] + Held(f[p], j) = k.ref[j] + Held(f'[p], j)
    <3>1. Held(f[p], j) = One(g.ip, j) + One(g.dp, j)  BY <1>1, HeldBy
    <3>2. Held(f'[p], j) = One(f'[p].ip, j) + One(f'[p].dp, j)
      BY <2>4, HeldBy
    <3>3. k.ref[j] \in Nat  BY <1>2 DEF AtLabelFacts, Good
    <3>4. One(0, j) = 0 /\ One(g.ip, j) \in Nat /\ One(g.dp, j) \in Nat
      BY OneZero, HeldNat
    <3>5. One(f'[p].ip, j) = One(g.ip, j) /\ One(f'[p].dp, j) = One(g.dp, j)
      BY <2>4
    <3>6. k'.ref[j] = k.ref[j]  BY <2>2
    <3> QED  BY ONLY <3>1, <3>2, <3>3, <3>4, <3>5, <3>6
  <2>8. LocksMove(p, f'[p], k.lock, k'.lock)
    BY <1>1, <1>2, <1>7, <2>3, <2>4, <2>5, <1>5 DEF AtLabelFacts, LocksMove, HasLocked
  <2> QED  BY <1>1, <1>7, <2>1, <2>2, <2>4, <2>5, <2>6, <2>7, <2>8, PlainStep
<1>8. ASSUME k' = Iget(s, next),
             f' = [f EXCEPT ![p] = goes],
             UNCHANGED <<ofile, cwd>>
      PROVE  Sane'
  <2>1. DOMAIN f' = Proc /\ f'[p] = goes /\ \A q \in Proc \ {p} : f'[q] = f[q]
    BY <1>2, <1>8 DEF AtLabelFacts
  <2>2. /\ Good(k', Freed) /\ SameFiles(k.file, k'.file)
        /\ \A j \in Inum : k'.ref[j] = k.ref[j] + One(next, j)
    BY <1>2, <1>8, <1>3, <1>4 DEF AtLabelFacts, Keeps, Grows
  <2>3. \A j \in Inum : k'.lock[j] = k.lock[j]
    BY <1>2, <1>8, <1>3, <1>4 DEF AtLabelFacts, Keeps, Grows
  <2>4. /\ DOMAIN f'[p] = DOMAIN Idle /\ ~f'[p].freeing /\ f'[p].puts = <<g.ip>>
        /\ f'[p].pc = "walk" /\ f'[p].to = g.to /\ f'[p].ip = next /\ f'[p].dp = g.dp
    <3>1. DOMAIN f'[p] = DOMAIN Idle /\ ~f'[p].freeing  BY <1>0, <1>1, <2>1, Shape
    <3>2. f'[p].puts = <<g.ip>>  BY <1>0, <1>1, <2>1, Shape
    <3>3. f'[p].pc = "walk" /\ f'[p].to = g.to /\ f'[p].ip = next /\ f'[p].dp = g.dp
      <4>1. f'[p].pc = "walk"  BY ONLY <1>0, <1>1, <2>1, FrameShape
      <4>2. f'[p].to = g.to  BY ONLY <1>0, <2>1, FrameShape
      <4>3. f'[p].ip = next  BY ONLY <1>0, <2>1, FrameShape
      <4>4. f'[p].dp = g.dp  BY ONLY <1>0, <2>1, FrameShape
      <4> QED  BY <4>1, <4>2, <4>3, <4>4
    <3> QED  BY <3>1, <3>2, <3>3
  <2>5. PlacedOK(f'[p]) /\ f'[p].pc \notin Outside
    BY <1>1, <1>2, <1>8, <2>4, <1>5 DEF AtLabelFacts, PlacedOK, Outside
  <2>6. FrameOK(f'[p])  BY <2>4, <2>5, FrameForms
  <2>7. ASSUME NEW j \in Inum  PROVE k'.ref[j] + Held(f[p], j) = k.ref[j] + Held(f'[p], j)
    <3>1. Held(f[p], j) = One(g.ip, j) + One(g.dp, j)  BY <1>1, HeldBy
    <3>2. Held(f'[p], j) = One(f'[p].ip, j) + One(f'[p].dp, j) + One(g.ip, j)
      BY ONLY <2>4, j \in Inum, HeldOne, Zenon
    <3>3. k.ref[j] \in Nat  BY <1>2 DEF AtLabelFacts, Good
    <3>4. One(0, j) = 0 /\ One(g.ip, j) \in Nat /\ One(g.dp, j) \in Nat /\ One(next, j) \in Nat
      BY OneZero, HeldNat
    <3>5. One(f'[p].ip, j) = One(next, j) /\ One(f'[p].dp, j) = One(g.dp, j)
      BY <2>4
    <3>6. k'.ref[j] = k.ref[j] + One(next, j)  BY <2>2
    <3> QED  BY ONLY <3>1, <3>2, <3>3, <3>4, <3>5, <3>6
  <2>8. LocksMove(p, f'[p], k.lock, k'.lock)
    BY <1>1, <1>2, <1>8, <2>3, <2>4, <2>5, <1>5 DEF AtLabelFacts, LocksMove, HasLocked
  <2> QED  BY <1>1, <1>8, <2>1, <2>2, <2>4, <2>5, <2>6, <2>7, <2>8, PlainStep
<1> QED  BY <1>6, <1>7, <1>8 DEF Namex, Step, s, next, Parent

\* sys_open without O_CREATE, and exec, after namei.
LEMMA OpenExistingSane ==
  ASSUME Sane, NEW p \in Proc, OpenExisting(p), k'.panic = ""
  PROVE  Sane'
<1> DEFINE g == f[p]
           s == Ilock(k, g.ip)
           t == [s EXCEPT !.lock[g.ip] = p]
<1>1. g.puts = <<>> /\ g.pc = "open"  BY DEF OpenExisting, At
<1>2. AtLabelFacts(p)  BY <1>1, AtLabel
<1>0. DOMAIN g = DOMAIN Idle /\ ~g.freeing  BY <1>2 DEF AtLabelFacts
<1>3. g.dp = 0  BY <1>1, <1>2 DEF AtLabelFacts, PlacedOK
<1>4. Good(s, Freed) /\ Keeps(k, s)  BY <1>2, IlockKeeps DEF AtLabelFacts
<1>5. Good(t, Freed) /\ Relocks(s, t, g.ip, p)  BY <1>4, LockKeeps
<1> HIDE DEF s, t
<1>6. ASSUME k' = k,
             f' = [f EXCEPT ![p] = Ret(g, -1)],
             g.ip = 0,
             UNCHANGED <<ofile, cwd>>
      PROVE  Sane'
  <2>1. DOMAIN f' = Proc /\ f'[p] = Ret(g, -1) /\ \A q \in Proc \ {p} : f'[q] = f[q]
    BY <1>2, <1>6 DEF AtLabelFacts
  <2>2. Returns(Ret(g, -1)) /\ Ret(g, -1).puts = <<>>
    BY ONLY <1>0, <1>1, RetFrame
  <2>3. /\ Good(k', Freed) /\ k'.ref = k.ref /\ SameFiles(k.file, k'.file)
        /\ \A j \in Inum : k'.lock[j] = IF k.lock[j] = p THEN 0 ELSE k.lock[j]
    BY <1>1, <1>2, <1>6, <1>4 DEF AtLabelFacts, Keeps, Relocks
  <2> QED  BY <1>1, <1>6, <2>1, <2>2, <2>3, <1>3, ReturnSane
<1>7. ASSUME k' = s,
             f' = [f EXCEPT ![p] = Puts(Ret(g, -1), <<g.ip>>)],
             UNCHANGED <<ofile, cwd>>
      PROVE  Sane'
  <2>1. DOMAIN f' = Proc /\ f'[p] = Puts(Ret(g, -1), <<g.ip>>) /\ \A q \in Proc \ {p} : f'[q] = f[q]
    BY <1>2, <1>7 DEF AtLabelFacts
  <2>2. Returns(Puts(Ret(g, -1), <<g.ip>>)) /\ Puts(Ret(g, -1), <<g.ip>>).puts = <<g.ip>>
    BY ONLY <1>0, <1>1, RetOne
  <2>3. /\ Good(k', Freed) /\ k'.ref = k.ref /\ SameFiles(k.file, k'.file)
        /\ \A j \in Inum : k'.lock[j] = IF k.lock[j] = p THEN 0 ELSE k.lock[j]
    BY <1>1, <1>2, <1>7, <1>4 DEF AtLabelFacts, Keeps, Relocks
  <2> QED  BY <1>1, <1>7, <2>1, <2>2, <2>3, <1>3, ReturnSane
<1>8. ASSUME k' = t,
             f' = [f EXCEPT ![p] = [g EXCEPT !.pc = "opened"]],
             Unlocked(g.ip),
             UNCHANGED <<ofile, cwd>>
      PROVE  Sane'
  <2>1. DOMAIN f' = Proc /\ f'[p] = [g EXCEPT !.pc = "opened"] /\ \A q \in Proc \ {p} : f'[q] = f[q]
    BY <1>2, <1>8 DEF AtLabelFacts
  <2>2. Good(k', Freed) /\ k'.ref = k.ref /\ SameFiles(k.file, k'.file)
    BY <1>2, <1>8, <1>4, <1>5 DEF AtLabelFacts, Keeps, Relocks
  <2>3. \A j \in Inum : k'.lock[j] = IF j = g.ip THEN p ELSE k.lock[j]
    BY <1>2, <1>8, <1>4, <1>5 DEF AtLabelFacts, Keeps, Relocks
  <2>4. /\ DOMAIN f'[p] = DOMAIN Idle /\ ~f'[p].freeing /\ f'[p].puts = <<>>
        /\ f'[p].pc = "opened" /\ f'[p].to = g.to /\ f'[p].ip = g.ip /\ f'[p].dp = g.dp
    <3>1. DOMAIN f'[p] = DOMAIN Idle /\ ~f'[p].freeing  BY <1>0, <1>1, <2>1, Shape
    <3>2. f'[p].puts = <<>>  BY <1>0, <1>1, <2>1, Shape
    <3>3. f'[p].pc = "opened" /\ f'[p].to = g.to /\ f'[p].ip = g.ip /\ f'[p].dp = g.dp
      <4>1. f'[p].pc = "opened"  BY ONLY <1>0, <2>1, FrameShape
      <4>2. f'[p].to = g.to  BY ONLY <1>0, <2>1, FrameShape
      <4>3. f'[p].ip = g.ip  BY ONLY <1>0, <2>1, FrameShape
      <4>4. f'[p].dp = g.dp  BY ONLY <1>0, <2>1, FrameShape
      <4> QED  BY <4>1, <4>2, <4>3, <4>4
    <3> QED  BY <3>1, <3>2, <3>3
  <2>5. PlacedOK(f'[p]) /\ f'[p].pc \notin Outside
    BY <1>1, <1>2, <1>8, <2>4 DEF AtLabelFacts, PlacedOK, Outside
  <2>6. FrameOK(f'[p])  BY <2>4, <2>5, FrameForms
  <2>7. ASSUME NEW j \in Inum  PROVE k'.ref[j] + Held(f[p], j) = k.ref[j] + Held(f'[p], j)
    <3>1. Held(f[p], j) = One(g.ip, j) + One(g.dp, j)  BY <1>1, HeldBy
    <3>2. Held(f'[p], j) = One(f'[p].ip, j) + One(f'[p].dp, j)
      BY <2>4, HeldBy
    <3>3. k.ref[j] \in Nat  BY <1>2 DEF AtLabelFacts, Good
    <3>4. One(0, j) = 0 /\ One(g.ip, j) \in Nat /\ One(g.dp, j) \in Nat
      BY OneZero, HeldNat
    <3>5. One(f'[p].ip, j) = One(g.ip, j) /\ One(f'[p].dp, j) = One(g.dp, j)
      BY <2>4
    <3>6. k'.ref[j] = k.ref[j]  BY <2>2
    <3> QED  BY ONLY <3>1, <3>2, <3>3, <3>4, <3>5, <3>6
  <2>8. LocksMove(p, f'[p], k.lock, k'.lock)
    BY <1>1, <1>2, <1>8, <2>3, <2>4, <2>5 DEF AtLabelFacts, LocksMove, HasLocked, Unlocked
  <2> QED  BY <1>1, <1>8, <2>1, <2>2, <2>4, <2>5, <2>6, <2>7, <2>8, PlainStep
<1> QED  BY <1>6, <1>7, <1>8 DEF OpenExisting, Step, s, t

\* create after nameiparent.
LEMMA CreateSane ==
  ASSUME Sane, NEW p \in Proc, Create(p), k'.panic = ""
  PROVE  Sane'
<1> DEFINE g == f[p]
           s == Ilock(k, g.ip)
           old == Entries(s, s.mem[g.ip])[Dirlookup(s, s.mem[g.ip], Dirsiz(Head(g.path)))][1]
           new == Ialloc(s, CreateType(g.call))
           t == [new.s EXCEPT !.lock[g.ip] = p]
<1>1. g.puts = <<>> /\ g.pc = "create"  BY DEF Create, At
<1>2. AtLabelFacts(p)  BY <1>1, AtLabel
<1>0. DOMAIN g = DOMAIN Idle /\ ~g.freeing  BY <1>2 DEF AtLabelFacts
<1>3. g.dp = 0  BY <1>1, <1>2 DEF AtLabelFacts, PlacedOK
<1>4. Good(s, Freed) /\ Keeps(k, s)  BY <1>2, IlockKeeps DEF AtLabelFacts
<1>5. Good(Iget(s, old), Freed) /\ Grows(s, Iget(s, old), old)  BY <1>4, IgetGrows
<1>6. new.ip # 0 => Good(new.s, Freed) /\ Grows(s, new.s, new.ip)  BY <1>4, IallocGrows
<1> HIDE DEF s, old, new
<1>7. new.ip # 0 => Good(t, Freed) /\ Relocks(new.s, t, g.ip, p)  BY <1>6, LockKeeps
<1> HIDE DEF t
<1>8. ASSUME k' = k,
             f' = [f EXCEPT ![p] = Ret(g, -1)],
             g.ip = 0,
             UNCHANGED <<ofile, cwd>>
      PROVE  Sane'
  <2>1. DOMAIN f' = Proc /\ f'[p] = Ret(g, -1) /\ \A q \in Proc \ {p} : f'[q] = f[q]
    BY <1>2, <1>8 DEF AtLabelFacts
  <2>2. Returns(Ret(g, -1)) /\ Ret(g, -1).puts = <<>>
    BY ONLY <1>0, <1>1, RetFrame
  <2>3. /\ Good(k', Freed) /\ k'.ref = k.ref /\ SameFiles(k.file, k'.file)
        /\ \A j \in Inum : k'.lock[j] = IF k.lock[j] = p THEN 0 ELSE k.lock[j]
    BY <1>1, <1>2, <1>8, <1>4 DEF AtLabelFacts, Keeps, Relocks
  <2> QED  BY <1>1, <1>8, <2>1, <2>2, <2>3, <1>3, ReturnSane
<1>9. ASSUME k' = s,
             f' = [f EXCEPT ![p] = Puts(Ret(g, -1), <<g.ip>>)],
             UNCHANGED <<ofile, cwd>>
      PROVE  Sane'
  <2>1. DOMAIN f' = Proc /\ f'[p] = Puts(Ret(g, -1), <<g.ip>>) /\ \A q \in Proc \ {p} : f'[q] = f[q]
    BY <1>2, <1>9 DEF AtLabelFacts
  <2>2. Returns(Puts(Ret(g, -1), <<g.ip>>)) /\ Puts(Ret(g, -1), <<g.ip>>).puts = <<g.ip>>
    BY ONLY <1>0, <1>1, RetOne
  <2>3. /\ Good(k', Freed) /\ k'.ref = k.ref /\ SameFiles(k.file, k'.file)
        /\ \A j \in Inum : k'.lock[j] = IF k.lock[j] = p THEN 0 ELSE k.lock[j]
    BY <1>1, <1>2, <1>9, <1>4 DEF AtLabelFacts, Keeps, Relocks
  <2> QED  BY <1>1, <1>9, <2>1, <2>2, <2>3, <1>3, ReturnSane
<1>10. ASSUME k' = Iget(s, old),
             f' = [f EXCEPT ![p] = Puts([g EXCEPT !.pc = "exists", !.ip = old], <<g.ip>>)],
             UNCHANGED <<ofile, cwd>>
      PROVE  Sane'
  <2>1. DOMAIN f' = Proc /\ f'[p] = Puts([g EXCEPT !.pc = "exists", !.ip = old], <<g.ip>>) /\ \A q \in Proc \ {p} : f'[q] = f[q]
    BY <1>2, <1>10 DEF AtLabelFacts
  <2>2. /\ Good(k', Freed) /\ SameFiles(k.file, k'.file)
        /\ \A j \in Inum : k'.ref[j] = k.ref[j] + One(old, j)
    BY <1>2, <1>10, <1>4, <1>5 DEF AtLabelFacts, Keeps, Relocks, Grows
  <2>3. \A j \in Inum : k'.lock[j] = k.lock[j]
    BY <1>2, <1>10, <1>4, <1>5 DEF AtLabelFacts, Keeps, Relocks, Grows
  <2>4. /\ DOMAIN f'[p] = DOMAIN Idle /\ ~f'[p].freeing /\ f'[p].puts = <<g.ip>>
        /\ f'[p].pc = "exists" /\ f'[p].to = g.to /\ f'[p].ip = old /\ f'[p].dp = g.dp
    <3> DEFINE h == [g EXCEPT !.pc = "exists", !.ip = old]
    <3>1. DOMAIN h = DOMAIN Idle /\ ~h.freeing  BY <1>0, <1>1, Shape
    <3>2. h.puts = <<>>  BY <1>0, <1>1, Shape
    <3>3. h.pc = "exists" /\ h.to = g.to /\ h.ip = old /\ h.dp = g.dp  BY <1>0, <1>1, Shape
    <3>4. f'[p] = Puts(h, <<g.ip>>)  BY <2>1
    <3> HIDE DEF h
    <3>5. LET r == Puts(h, <<g.ip>>)
          IN /\ DOMAIN r = DOMAIN Idle /\ ~r.freeing /\ r.puts = <<g.ip>>
             /\ r.pc = h.pc /\ r.to = h.to /\ r.ip = h.ip /\ r.dp = h.dp
      BY ONLY <3>1, <3>2, PutsOne, Zenon
    <3> QED  BY ONLY <3>3, <3>4, <3>5, Zenon
  <2>5. PlacedOK(f'[p]) /\ f'[p].pc \notin Outside
    BY <1>1, <1>2, <1>10, <2>4, <1>3 DEF AtLabelFacts, PlacedOK, Outside
  <2>6. FrameOK(f'[p])  BY <2>4, <2>5, FrameForms
  <2>7. ASSUME NEW j \in Inum  PROVE k'.ref[j] + Held(f[p], j) = k.ref[j] + Held(f'[p], j)
    <3>1. Held(f[p], j) = One(g.ip, j) + One(g.dp, j)  BY <1>1, HeldBy
    <3>2. Held(f'[p], j) = One(f'[p].ip, j) + One(f'[p].dp, j) + One(g.ip, j)
      BY ONLY <2>4, j \in Inum, HeldOne, Zenon
    <3>3. k.ref[j] \in Nat  BY <1>2 DEF AtLabelFacts, Good
    <3>4. One(0, j) = 0 /\ One(g.ip, j) \in Nat /\ One(g.dp, j) \in Nat /\ One(old, j) \in Nat
      BY OneZero, HeldNat
    <3>5. One(f'[p].ip, j) = One(old, j) /\ One(f'[p].dp, j) = One(g.dp, j)
      BY <2>4
    <3>6. k'.ref[j] = k.ref[j] + One(old, j)  BY <2>2
    <3> QED  BY ONLY <3>1, <3>2, <3>3, <3>4, <3>5, <3>6
  <2>8. LocksMove(p, f'[p], k.lock, k'.lock)
    BY <1>1, <1>2, <1>10, <2>3, <2>4, <2>5, <1>3 DEF AtLabelFacts, LocksMove, HasLocked
  <2> QED  BY <1>1, <1>10, <2>1, <2>2, <2>4, <2>5, <2>6, <2>7, <2>8, PlainStep
<1>11. ASSUME k' = t,
             f' = [f EXCEPT ![p] = [g EXCEPT !.pc = "new", !.ip = new.ip, !.dp = g.ip]],
             new.ip # 0,
             Unlocked(g.ip),
             UNCHANGED <<ofile, cwd>>
      PROVE  Sane'
  <2>1. DOMAIN f' = Proc /\ f'[p] = [g EXCEPT !.pc = "new", !.ip = new.ip, !.dp = g.ip] /\ \A q \in Proc \ {p} : f'[q] = f[q]
    BY <1>2, <1>11 DEF AtLabelFacts
  <2>2. /\ Good(k', Freed) /\ SameFiles(k.file, k'.file)
        /\ \A j \in Inum : k'.ref[j] = k.ref[j] + One(new.ip, j)
    BY <1>2, <1>11, <1>4, <1>6, <1>7 DEF AtLabelFacts, Keeps, Relocks, Grows
  <2>3. \A j \in Inum : k'.lock[j] = IF j = g.ip THEN p ELSE k.lock[j]
    BY ONLY <1>11, <1>4, <1>6, <1>7 DEF Keeps, Relocks, Grows
  <2>4. /\ DOMAIN f'[p] = DOMAIN Idle /\ ~f'[p].freeing /\ f'[p].puts = <<>>
        /\ f'[p].pc = "new" /\ f'[p].to = g.to /\ f'[p].ip = new.ip /\ f'[p].dp = g.ip
    <3>1. DOMAIN f'[p] = DOMAIN Idle /\ ~f'[p].freeing  BY <1>0, <1>1, <2>1, Shape
    <3>2. f'[p].puts = <<>>  BY <1>0, <1>1, <2>1, Shape
    <3>3. f'[p].pc = "new" /\ f'[p].to = g.to /\ f'[p].ip = new.ip /\ f'[p].dp = g.ip
      <4>1. f'[p].pc = "new"  BY ONLY <1>0, <2>1, FrameShape
      <4>2. f'[p].to = g.to  BY ONLY <1>0, <2>1, FrameShape
      <4>3. f'[p].ip = new.ip  BY ONLY <1>0, <2>1, FrameShape
      <4>4. f'[p].dp = g.ip  BY ONLY <1>0, <2>1, FrameShape
      <4> QED  BY <4>1, <4>2, <4>3, <4>4
    <3> QED  BY <3>1, <3>2, <3>3
  <2>5. PlacedOK(f'[p]) /\ f'[p].pc \notin Outside
    BY <1>1, <1>2, <1>11, <2>4 DEF AtLabelFacts, PlacedOK, Outside
  <2>6. FrameOK(f'[p])  BY <2>4, <2>5, FrameForms
  <2>7. ASSUME NEW j \in Inum  PROVE k'.ref[j] + Held(f[p], j) = k.ref[j] + Held(f'[p], j)
    <3>1. Held(f[p], j) = One(g.ip, j) + One(g.dp, j)  BY <1>1, HeldBy
    <3>2. Held(f'[p], j) = One(f'[p].ip, j) + One(f'[p].dp, j)
      BY <2>4, HeldBy
    <3>3. k.ref[j] \in Nat  BY <1>2 DEF AtLabelFacts, Good
    <3>4. One(0, j) = 0 /\ One(g.ip, j) \in Nat /\ One(g.dp, j) \in Nat /\ One(new.ip, j) \in Nat
      BY OneZero, HeldNat
    <3>5. One(f'[p].ip, j) = One(new.ip, j) /\ One(f'[p].dp, j) = One(g.ip, j)
      BY <2>4
    <3>6. k'.ref[j] = k.ref[j] + One(new.ip, j)  BY <2>2
    <3>7. One(g.dp, j) = 0  BY <1>3, OneZero
    <3> QED  BY ONLY <3>1, <3>2, <3>3, <3>4, <3>5, <3>6, <3>7
  <2>8. LocksMove(p, f'[p], k.lock, k'.lock)
    BY <1>1, <1>2, <1>11, <2>3, <2>4, <2>5 DEF AtLabelFacts, LocksMove, HasLocked, Unlocked
  <2> QED  BY <1>1, <1>11, <2>1, <2>2, <2>4, <2>5, <2>6, <2>7, <2>8, PlainStep
<1> QED  BY <1>8, <1>9, <1>10, <1>11 DEF Create, Step, s, t, old, new

\* create, when the file is there already.
LEMMA CreateExistsSane ==
  ASSUME Sane, NEW p \in Proc, CreateExists(p), k'.panic = ""
  PROVE  Sane'
<1> DEFINE g == f[p]
           s == Ilock(k, g.ip)
           t == [s EXCEPT !.lock[g.ip] = p]
<1>1. g.puts = <<>> /\ g.pc = "exists"  BY DEF CreateExists, At
<1>2. AtLabelFacts(p)  BY <1>1, AtLabel
<1>0. DOMAIN g = DOMAIN Idle /\ ~g.freeing  BY <1>2 DEF AtLabelFacts
<1>3. g.dp = 0  BY <1>1, <1>2 DEF AtLabelFacts, PlacedOK
<1>4. Good(s, Freed) /\ Keeps(k, s)  BY <1>2, IlockKeeps DEF AtLabelFacts
<1>5. Good(t, Freed) /\ Relocks(s, t, g.ip, p)  BY <1>4, LockKeeps
<1> HIDE DEF s, t
<1>6. ASSUME k' = s,
             f' = [f EXCEPT ![p] = Puts(Ret(g, -1), <<g.ip>>)],
             UNCHANGED <<ofile, cwd>>
      PROVE  Sane'
  <2>1. DOMAIN f' = Proc /\ f'[p] = Puts(Ret(g, -1), <<g.ip>>) /\ \A q \in Proc \ {p} : f'[q] = f[q]
    BY <1>2, <1>6 DEF AtLabelFacts
  <2>2. Returns(Puts(Ret(g, -1), <<g.ip>>)) /\ Puts(Ret(g, -1), <<g.ip>>).puts = <<g.ip>>
    BY ONLY <1>0, <1>1, RetOne
  <2>3. /\ Good(k', Freed) /\ k'.ref = k.ref /\ SameFiles(k.file, k'.file)
        /\ \A j \in Inum : k'.lock[j] = IF k.lock[j] = p THEN 0 ELSE k.lock[j]
    BY <1>1, <1>2, <1>6, <1>4 DEF AtLabelFacts, Keeps, Relocks
  <2> QED  BY <1>1, <1>6, <2>1, <2>2, <2>3, <1>3, ReturnSane
<1>7. ASSUME k' = t,
             f' = [f EXCEPT ![p] = [g EXCEPT !.pc = "opened"]],
             Unlocked(g.ip),
             UNCHANGED <<ofile, cwd>>
      PROVE  Sane'
  <2>1. DOMAIN f' = Proc /\ f'[p] = [g EXCEPT !.pc = "opened"] /\ \A q \in Proc \ {p} : f'[q] = f[q]
    BY <1>2, <1>7 DEF AtLabelFacts
  <2>2. Good(k', Freed) /\ k'.ref = k.ref /\ SameFiles(k.file, k'.file)
    BY <1>2, <1>7, <1>4, <1>5 DEF AtLabelFacts, Keeps, Relocks, Grows
  <2>3. \A j \in Inum : k'.lock[j] = IF j = g.ip THEN p ELSE k.lock[j]
    BY <1>2, <1>7, <1>4, <1>5 DEF AtLabelFacts, Keeps, Relocks, Grows
  <2>4. /\ DOMAIN f'[p] = DOMAIN Idle /\ ~f'[p].freeing /\ f'[p].puts = <<>>
        /\ f'[p].pc = "opened" /\ f'[p].to = g.to /\ f'[p].ip = g.ip /\ f'[p].dp = g.dp
    <3>1. DOMAIN f'[p] = DOMAIN Idle /\ ~f'[p].freeing  BY <1>0, <1>1, <2>1, Shape
    <3>2. f'[p].puts = <<>>  BY <1>0, <1>1, <2>1, Shape
    <3>3. f'[p].pc = "opened" /\ f'[p].to = g.to /\ f'[p].ip = g.ip /\ f'[p].dp = g.dp
      <4>1. f'[p].pc = "opened"  BY ONLY <1>0, <2>1, FrameShape
      <4>2. f'[p].to = g.to  BY ONLY <1>0, <2>1, FrameShape
      <4>3. f'[p].ip = g.ip  BY ONLY <1>0, <2>1, FrameShape
      <4>4. f'[p].dp = g.dp  BY ONLY <1>0, <2>1, FrameShape
      <4> QED  BY <4>1, <4>2, <4>3, <4>4
    <3> QED  BY <3>1, <3>2, <3>3
  <2>5. PlacedOK(f'[p]) /\ f'[p].pc \notin Outside
    BY <1>1, <1>2, <1>7, <2>4 DEF AtLabelFacts, PlacedOK, Outside
  <2>6. FrameOK(f'[p])  BY <2>4, <2>5, FrameForms
  <2>7. ASSUME NEW j \in Inum  PROVE k'.ref[j] + Held(f[p], j) = k.ref[j] + Held(f'[p], j)
    <3>1. Held(f[p], j) = One(g.ip, j) + One(g.dp, j)  BY <1>1, HeldBy
    <3>2. Held(f'[p], j) = One(f'[p].ip, j) + One(f'[p].dp, j)
      BY <2>4, HeldBy
    <3>3. k.ref[j] \in Nat  BY <1>2 DEF AtLabelFacts, Good
    <3>4. One(0, j) = 0 /\ One(g.ip, j) \in Nat /\ One(g.dp, j) \in Nat
      BY OneZero, HeldNat
    <3>5. One(f'[p].ip, j) = One(g.ip, j) /\ One(f'[p].dp, j) = One(g.dp, j)
      BY <2>4
    <3>6. k'.ref[j] = k.ref[j]  BY <2>2
    <3> QED  BY ONLY <3>1, <3>2, <3>3, <3>4, <3>5, <3>6
  <2>8. LocksMove(p, f'[p], k.lock, k'.lock)
    BY <1>1, <1>2, <1>7, <2>3, <2>4, <2>5 DEF AtLabelFacts, LocksMove, HasLocked, Unlocked
  <2> QED  BY <1>1, <1>7, <2>1, <2>2, <2>4, <2>5, <2>6, <2>7, <2>8, PlainStep
<1> QED  BY <1>6, <1>7 DEF CreateExists, Step, s, t

\* sys_link: the new name.
LEMMA LinkNameSane ==
  ASSUME Sane, NEW p \in Proc, LinkName(p), k'.panic = ""
  PROVE  Sane'
<1> DEFINE g == f[p]
           s == Ilock(k, g.ip)
           d == Dirlink(s, g.ip, Dirsiz(Head(g.path)), g.dp)
<1>1. g.puts = <<>> /\ g.pc = "link"  BY DEF LinkName, At
<1>2. AtLabelFacts(p)  BY <1>1, AtLabel
<1>0. DOMAIN g = DOMAIN Idle /\ ~g.freeing  BY <1>2 DEF AtLabelFacts
<1>4. Good(s, Freed) /\ Keeps(k, s)  BY <1>2, IlockKeeps DEF AtLabelFacts
<1>5. Good(d.s, Freed) /\ Keeps(s, d.s)  BY <1>4, DirlinkKeeps
<1>6. Keeps(k, d.s)  BY <1>4, <1>5, KeepsTrans
<1> HIDE DEF s, d
<1>7. ASSUME k' = d.s,
             f' = [f EXCEPT ![p] = Puts(Ret(g, 0), <<g.ip, g.dp>>)],
             UNCHANGED <<ofile, cwd>>
      PROVE  Sane'
  <2>1. DOMAIN f' = Proc /\ f'[p] = Puts(Ret(g, 0), <<g.ip, g.dp>>) /\ \A q \in Proc \ {p} : f'[q] = f[q]
    BY <1>2, <1>7 DEF AtLabelFacts
  <2>2. Returns(Puts(Ret(g, 0), <<g.ip, g.dp>>)) /\ Puts(Ret(g, 0), <<g.ip, g.dp>>).puts = <<g.ip, g.dp>>
    BY ONLY <1>0, <1>1, RetTwo
  <2>3. /\ Good(k', Freed) /\ k'.ref = k.ref /\ SameFiles(k.file, k'.file)
        /\ \A j \in Inum : k'.lock[j] = IF k.lock[j] = p THEN 0 ELSE k.lock[j]
    BY <1>1, <1>2, <1>7, <1>5, <1>6 DEF AtLabelFacts, Keeps, Relocks
  <2> QED  BY <1>1, <1>7, <2>1, <2>2, <2>3, ReturnSane
<1>8. ASSUME k' = k,
             f' = [f EXCEPT ![p] = [g EXCEPT !.pc = "linkbad"]],
             g.ip = 0,
             UNCHANGED <<ofile, cwd>>
      PROVE  Sane'
  <2>1. DOMAIN f' = Proc /\ f'[p] = [g EXCEPT !.pc = "linkbad"] /\ \A q \in Proc \ {p} : f'[q] = f[q]
    BY <1>2, <1>8 DEF AtLabelFacts
  <2>2. Good(k', Freed) /\ k'.ref = k.ref /\ SameFiles(k.file, k'.file)
    BY <1>2, <1>8, <1>2 DEF AtLabelFacts, Keeps, Relocks, Grows
  <2>3. \A j \in Inum : k'.lock[j] = k.lock[j]
    BY <1>2, <1>8, <1>2 DEF AtLabelFacts, Keeps, Relocks, Grows
  <2>4. /\ DOMAIN f'[p] = DOMAIN Idle /\ ~f'[p].freeing /\ f'[p].puts = <<>>
        /\ f'[p].pc = "linkbad" /\ f'[p].to = g.to /\ f'[p].ip = g.ip /\ f'[p].dp = g.dp
    <3>1. DOMAIN f'[p] = DOMAIN Idle /\ ~f'[p].freeing  BY <1>0, <1>1, <2>1, Shape
    <3>2. f'[p].puts = <<>>  BY <1>0, <1>1, <2>1, Shape
    <3>3. f'[p].pc = "linkbad" /\ f'[p].to = g.to /\ f'[p].ip = g.ip /\ f'[p].dp = g.dp
      <4>1. f'[p].pc = "linkbad"  BY ONLY <1>0, <2>1, FrameShape
      <4>2. f'[p].to = g.to  BY ONLY <1>0, <2>1, FrameShape
      <4>3. f'[p].ip = g.ip  BY ONLY <1>0, <2>1, FrameShape
      <4>4. f'[p].dp = g.dp  BY ONLY <1>0, <2>1, FrameShape
      <4> QED  BY <4>1, <4>2, <4>3, <4>4
    <3> QED  BY <3>1, <3>2, <3>3
  <2>5. PlacedOK(f'[p]) /\ f'[p].pc \notin Outside
    BY <1>1, <1>2, <1>8, <2>4 DEF AtLabelFacts, PlacedOK, Outside
  <2>6. FrameOK(f'[p])  BY <2>4, <2>5, FrameForms
  <2>7. ASSUME NEW j \in Inum  PROVE k'.ref[j] + Held(f[p], j) = k.ref[j] + Held(f'[p], j)
    <3>1. Held(f[p], j) = One(g.ip, j) + One(g.dp, j)  BY <1>1, HeldBy
    <3>2. Held(f'[p], j) = One(f'[p].ip, j) + One(f'[p].dp, j)
      BY <2>4, HeldBy
    <3>3. k.ref[j] \in Nat  BY <1>2 DEF AtLabelFacts, Good
    <3>4. One(0, j) = 0 /\ One(g.ip, j) \in Nat /\ One(g.dp, j) \in Nat
      BY OneZero, HeldNat
    <3>5. One(f'[p].ip, j) = One(g.ip, j) /\ One(f'[p].dp, j) = One(g.dp, j)
      BY <2>4
    <3>6. k'.ref[j] = k.ref[j]  BY <2>2
    <3> QED  BY ONLY <3>1, <3>2, <3>3, <3>4, <3>5, <3>6
  <2>8. LocksMove(p, f'[p], k.lock, k'.lock)
    BY <1>1, <1>2, <1>8, <2>3, <2>4, <2>5 DEF AtLabelFacts, LocksMove, HasLocked
  <2> QED  BY <1>1, <1>8, <2>1, <2>2, <2>4, <2>5, <2>6, <2>7, <2>8, PlainStep
<1>9. ASSUME k' = d.s,
             f' = [f EXCEPT ![p] = Puts([g EXCEPT !.pc = "linkbad", !.ip = 0], <<g.ip>>)],
             UNCHANGED <<ofile, cwd>>
      PROVE  Sane'
  <2>1. DOMAIN f' = Proc /\ f'[p] = Puts([g EXCEPT !.pc = "linkbad", !.ip = 0], <<g.ip>>) /\ \A q \in Proc \ {p} : f'[q] = f[q]
    BY <1>2, <1>9 DEF AtLabelFacts
  <2>2. Good(k', Freed) /\ k'.ref = k.ref /\ SameFiles(k.file, k'.file)
    BY <1>2, <1>9, <1>5, <1>6 DEF AtLabelFacts, Keeps, Relocks, Grows
  <2>3. \A j \in Inum : k'.lock[j] = k.lock[j]
    BY <1>2, <1>9, <1>5, <1>6 DEF AtLabelFacts, Keeps, Relocks, Grows
  <2>4. /\ DOMAIN f'[p] = DOMAIN Idle /\ ~f'[p].freeing /\ f'[p].puts = <<g.ip>>
        /\ f'[p].pc = "linkbad" /\ f'[p].to = g.to /\ f'[p].ip = 0 /\ f'[p].dp = g.dp
    <3> DEFINE h == [g EXCEPT !.pc = "linkbad", !.ip = 0]
    <3>1. DOMAIN h = DOMAIN Idle /\ ~h.freeing  BY <1>0, <1>1, Shape
    <3>2. h.puts = <<>>  BY <1>0, <1>1, Shape
    <3>3. h.pc = "linkbad" /\ h.to = g.to /\ h.ip = 0 /\ h.dp = g.dp  BY <1>0, <1>1, Shape
    <3>4. f'[p] = Puts(h, <<g.ip>>)  BY <2>1
    <3> HIDE DEF h
    <3>5. LET r == Puts(h, <<g.ip>>)
          IN /\ DOMAIN r = DOMAIN Idle /\ ~r.freeing /\ r.puts = <<g.ip>>
             /\ r.pc = h.pc /\ r.to = h.to /\ r.ip = h.ip /\ r.dp = h.dp
      BY ONLY <3>1, <3>2, PutsOne, Zenon
    <3> QED  BY ONLY <3>3, <3>4, <3>5, Zenon
  <2>5. PlacedOK(f'[p]) /\ f'[p].pc \notin Outside
    BY <1>1, <1>2, <1>9, <2>4 DEF AtLabelFacts, PlacedOK, Outside
  <2>6. FrameOK(f'[p])  BY <2>4, <2>5, FrameForms
  <2>7. ASSUME NEW j \in Inum  PROVE k'.ref[j] + Held(f[p], j) = k.ref[j] + Held(f'[p], j)
    <3>1. Held(f[p], j) = One(g.ip, j) + One(g.dp, j)  BY <1>1, HeldBy
    <3>2. Held(f'[p], j) = One(f'[p].ip, j) + One(f'[p].dp, j) + One(g.ip, j)
      BY ONLY <2>4, j \in Inum, HeldOne, Zenon
    <3>3. k.ref[j] \in Nat  BY <1>2 DEF AtLabelFacts, Good
    <3>4. One(0, j) = 0 /\ One(g.ip, j) \in Nat /\ One(g.dp, j) \in Nat
      BY OneZero, HeldNat
    <3>5. One(f'[p].ip, j) = One(0, j) /\ One(f'[p].dp, j) = One(g.dp, j)
      BY <2>4
    <3>6. k'.ref[j] = k.ref[j]  BY <2>2
    <3> QED  BY ONLY <3>1, <3>2, <3>3, <3>4, <3>5, <3>6
  <2>8. LocksMove(p, f'[p], k.lock, k'.lock)
    BY <1>1, <1>2, <1>9, <2>3, <2>4, <2>5 DEF AtLabelFacts, LocksMove, HasLocked
  <2> QED  BY <1>1, <1>9, <2>1, <2>2, <2>4, <2>5, <2>6, <2>7, <2>8, PlainStep
<1> QED  BY <1>7, <1>8, <1>9 DEF LinkName, Step, s, d

\* sys_link: the link that is undone.
LEMMA LinkBadSane ==
  ASSUME Sane, NEW p \in Proc, LinkBad(p), k'.panic = ""
  PROVE  Sane'
<1> DEFINE g == f[p]
           s == Ilock(k, g.dp)
           t == Updated(s, g.dp, LinkUndone(s.mem[g.dp]))
<1>1. g.puts = <<>> /\ g.pc = "linkbad"  BY DEF LinkBad, At
<1>2. AtLabelFacts(p)  BY <1>1, AtLabel
<1>0. DOMAIN g = DOMAIN Idle /\ ~g.freeing  BY <1>2 DEF AtLabelFacts
<1>3. g.ip = 0  BY <1>1, <1>2 DEF AtLabelFacts, PlacedOK
<1>4. Good(s, Freed) /\ Keeps(k, s)  BY <1>2, IlockKeeps DEF AtLabelFacts
<1>5. Good(t, Freed) /\ Keeps(s, t)  BY <1>4, LinksKeep DEF LinkUndone
<1>6. Keeps(k, t)  BY <1>4, <1>5, KeepsTrans
<1> HIDE DEF s, t
<1>7. ASSUME k' = t,
             f' = [f EXCEPT ![p] = Puts(Ret(g, -1), <<g.dp>>)],
             UNCHANGED <<ofile, cwd>>
      PROVE  Sane'
  <2>1. DOMAIN f' = Proc /\ f'[p] = Puts(Ret(g, -1), <<g.dp>>) /\ \A q \in Proc \ {p} : f'[q] = f[q]
    BY <1>2, <1>7 DEF AtLabelFacts
  <2>2. Returns(Puts(Ret(g, -1), <<g.dp>>)) /\ Puts(Ret(g, -1), <<g.dp>>).puts = <<g.dp>>
    BY ONLY <1>0, <1>1, RetOne
  <2>3. /\ Good(k', Freed) /\ k'.ref = k.ref /\ SameFiles(k.file, k'.file)
        /\ \A j \in Inum : k'.lock[j] = IF k.lock[j] = p THEN 0 ELSE k.lock[j]
    BY <1>1, <1>2, <1>7, <1>5, <1>6 DEF AtLabelFacts, Keeps, Relocks
  <2> QED  BY <1>1, <1>7, <2>1, <2>2, <2>3, <1>3, ReturnSane
<1> QED  BY <1>7 DEF LinkBad, Step, s, t

\* sys_unlink: the directory is locked and the entry found.
LEMMA UnlinkSane ==
  ASSUME Sane, NEW p \in Proc, Unlink(p), k'.panic = ""
  PROVE  Sane'
<1> DEFINE g == f[p]
           s == Ilock(k, g.ip)
           at == Dirlookup(s, s.mem[g.ip], Dirsiz(Head(g.path)))
           i == Entries(s, s.mem[g.ip])[at][1]
           t == [Iget(s, i) EXCEPT !.lock[g.ip] = p]
           h == [g EXCEPT !.pc = "entry", !.dp = g.ip, !.ip = i, !.n = at]
<1>1. g.puts = <<>> /\ g.pc = "unlink"  BY DEF Unlink, At
<1>2. AtLabelFacts(p)  BY <1>1, AtLabel
<1>0. DOMAIN g = DOMAIN Idle /\ ~g.freeing  BY <1>2 DEF AtLabelFacts
<1>3. g.dp = 0  BY <1>1, <1>2 DEF AtLabelFacts, PlacedOK
<1>4. Good(s, Freed) /\ Keeps(k, s)  BY <1>2, IlockKeeps DEF AtLabelFacts
<1>5. Good(Iget(s, i), Freed) /\ Grows(s, Iget(s, i), i)  BY <1>4, IgetGrows
<1> HIDE DEF s, at, i
<1>6. Good(t, Freed) /\ Relocks(Iget(s, i), t, g.ip, p)  BY <1>5, LockKeeps
<1> HIDE DEF t
<1>7. ASSUME k' = k,
             f' = [f EXCEPT ![p] = Ret(g, -1)],
             g.ip = 0,
             UNCHANGED <<ofile, cwd>>
      PROVE  Sane'
  <2>1. DOMAIN f' = Proc /\ f'[p] = Ret(g, -1) /\ \A q \in Proc \ {p} : f'[q] = f[q]
    BY <1>2, <1>7 DEF AtLabelFacts
  <2>2. Returns(Ret(g, -1)) /\ Ret(g, -1).puts = <<>>
    BY ONLY <1>0, <1>1, RetFrame
  <2>3. /\ Good(k', Freed) /\ k'.ref = k.ref /\ SameFiles(k.file, k'.file)
        /\ \A j \in Inum : k'.lock[j] = IF k.lock[j] = p THEN 0 ELSE k.lock[j]
    BY <1>1, <1>2, <1>7, <1>4 DEF AtLabelFacts, Keeps, Relocks
  <2> QED  BY <1>1, <1>7, <2>1, <2>2, <2>3, <1>3, ReturnSane
<1>8. ASSUME k' = s,
             f' = [f EXCEPT ![p] = Puts(Ret(g, -1), <<g.ip>>)],
             UNCHANGED <<ofile, cwd>>
      PROVE  Sane'
  <2>1. DOMAIN f' = Proc /\ f'[p] = Puts(Ret(g, -1), <<g.ip>>) /\ \A q \in Proc \ {p} : f'[q] = f[q]
    BY <1>2, <1>8 DEF AtLabelFacts
  <2>2. Returns(Puts(Ret(g, -1), <<g.ip>>)) /\ Puts(Ret(g, -1), <<g.ip>>).puts = <<g.ip>>
    BY ONLY <1>0, <1>1, RetOne
  <2>3. /\ Good(k', Freed) /\ k'.ref = k.ref /\ SameFiles(k.file, k'.file)
        /\ \A j \in Inum : k'.lock[j] = IF k.lock[j] = p THEN 0 ELSE k.lock[j]
    BY <1>1, <1>2, <1>8, <1>4 DEF AtLabelFacts, Keeps, Relocks
  <2> QED  BY <1>1, <1>8, <2>1, <2>2, <2>3, <1>3, ReturnSane
<1>9. ASSUME k' = t,
             f' = [f EXCEPT ![p] = h],
             Unlocked(g.ip),
             UNCHANGED <<ofile, cwd>>
      PROVE  Sane'
  <2>1. DOMAIN f' = Proc /\ f'[p] = h /\ \A q \in Proc \ {p} : f'[q] = f[q]
    BY <1>2, <1>9 DEF AtLabelFacts
  <2>2. /\ Good(k', Freed) /\ SameFiles(k.file, k'.file)
        /\ \A j \in Inum : k'.ref[j] = k.ref[j] + One(i, j)
    BY <1>2, <1>9, <1>4, <1>5, <1>6 DEF AtLabelFacts, Keeps, Relocks, Grows
  <2>3. \A j \in Inum : k'.lock[j] = IF j = g.ip THEN p ELSE k.lock[j]
    BY ONLY <1>9, <1>4, <1>5, <1>6 DEF Keeps, Relocks, Grows
  <2>4. /\ DOMAIN f'[p] = DOMAIN Idle /\ ~f'[p].freeing /\ f'[p].puts = <<>>
        /\ f'[p].pc = "entry" /\ f'[p].to = g.to /\ f'[p].ip = i /\ f'[p].dp = g.ip
    <3>1. DOMAIN f'[p] = DOMAIN Idle /\ ~f'[p].freeing  BY <1>0, <1>1, <2>1, Shape
    <3>2. f'[p].puts = <<>>  BY <1>0, <1>1, <2>1, Shape
    <3>3. f'[p].pc = "entry" /\ f'[p].to = g.to /\ f'[p].ip = i /\ f'[p].dp = g.ip
      <4>1. f'[p].pc = "entry"  BY ONLY <1>0, <2>1, FrameShape
      <4>2. f'[p].to = g.to  BY ONLY <1>0, <2>1, FrameShape
      <4>3. f'[p].ip = i  BY ONLY <1>0, <2>1, FrameShape
      <4>4. f'[p].dp = g.ip  BY ONLY <1>0, <2>1, FrameShape
      <4> QED  BY <4>1, <4>2, <4>3, <4>4
    <3> QED  BY <3>1, <3>2, <3>3
  <2>5. PlacedOK(f'[p]) /\ f'[p].pc \notin Outside
    BY <1>1, <1>2, <1>9, <2>4 DEF AtLabelFacts, PlacedOK, Outside
  <2>6. FrameOK(f'[p])  BY <2>4, <2>5, FrameForms
  <2>7. ASSUME NEW j \in Inum  PROVE k'.ref[j] + Held(f[p], j) = k.ref[j] + Held(f'[p], j)
    <3>1. Held(f[p], j) = One(g.ip, j) + One(g.dp, j)  BY <1>1, HeldBy
    <3>2. Held(f'[p], j) = One(f'[p].ip, j) + One(f'[p].dp, j)
      BY <2>4, HeldBy
    <3>3. k.ref[j] \in Nat  BY <1>2 DEF AtLabelFacts, Good
    <3>4. One(0, j) = 0 /\ One(g.ip, j) \in Nat /\ One(g.dp, j) \in Nat /\ One(i, j) \in Nat
      BY OneZero, HeldNat
    <3>5. One(f'[p].ip, j) = One(i, j) /\ One(f'[p].dp, j) = One(g.ip, j)
      BY <2>4
    <3>6. k'.ref[j] = k.ref[j] + One(i, j)  BY <2>2
    <3>7. One(g.dp, j) = 0  BY <1>3, OneZero
    <3> QED  BY ONLY <3>1, <3>2, <3>3, <3>4, <3>5, <3>6, <3>7
  <2>8. LocksMove(p, f'[p], k.lock, k'.lock)
    BY <1>1, <1>2, <1>9, <2>3, <2>4, <2>5 DEF AtLabelFacts, LocksMove, HasLocked, Unlocked
  <2> QED  BY <1>1, <1>9, <2>1, <2>2, <2>4, <2>5, <2>6, <2>7, <2>8, PlainStep
<1> QED  BY <1>7, <1>8, <1>9 DEF Unlink, Step, s, t, at, i

\* sys_unlink: the entry is cleared.
LEMMA UnlinkEntrySane ==
  ASSUME Sane, NEW p \in Proc, UnlinkEntry(p), k'.panic = ""
  PROVE  Sane'
<1> DEFINE g == f[p]
           s == Ilock(k, g.ip)
           v == [s EXCEPT !.lock[g.dp] = 0]
           t == Writei(s, g.dp, g.n - 1, 1, Zero, FALSE).s
           u == IF s.mem[g.ip].type = "dir"
                THEN Updated(t, g.dp, [t.mem[g.dp] EXCEPT !.nlink = @ - 1]) ELSE t
           w == [u EXCEPT !.lock[g.dp] = 0, !.lock[g.ip] = p]
           m == [g EXCEPT !.pc = "unlinked", !.dp = 0]
<1>1. g.puts = <<>> /\ g.pc = "entry"  BY DEF UnlinkEntry, At
<1>2. AtLabelFacts(p)  BY <1>1, AtLabel
<1>0. DOMAIN g = DOMAIN Idle /\ ~g.freeing  BY <1>2 DEF AtLabelFacts
<1>4. Good(s, Freed) /\ Keeps(k, s)  BY <1>2, IlockKeeps DEF AtLabelFacts
<1>5. Good(v, Freed) /\ Relocks(s, v, g.dp, 0)  BY <1>4, LockKeeps
<1>6. Good(t, Freed) /\ Keeps(s, t)  BY <1>4, WriteiKeeps
<1>7. Good(u, Freed) /\ Keeps(t, u)
  <2>1. Keeps(t, t)  BY DEF Keeps
  <2> HIDE DEF t
  <2> QED  BY <1>6, <2>1, LinksKeep
<1>8. Keeps(k, u)  BY <1>4, <1>6, <1>7, KeepsTrans
<1> HIDE DEF s, t, u, v
<1>9. /\ Good(w, Freed) /\ w.ref = u.ref /\ w.file = u.file /\ w.panic = u.panic
      /\ \A j \in Inum : w.lock[j] = IF j = g.ip THEN p ELSE IF j = g.dp THEN 0 ELSE u.lock[j]
  BY <1>7, Shape DEF Good, TablesOK, CacheOK
<1> HIDE DEF w
<1>10. Unlocked(g.ip)  BY DEF UnlinkEntry
<1>11. ASSUME k' = v,
             f' = [f EXCEPT ![p] = Puts(Ret(g, -1), <<g.ip, g.dp>>)],
             UNCHANGED <<ofile, cwd>>
      PROVE  Sane'
  <2>1. DOMAIN f' = Proc /\ f'[p] = Puts(Ret(g, -1), <<g.ip, g.dp>>) /\ \A q \in Proc \ {p} : f'[q] = f[q]
    BY <1>2, <1>11 DEF AtLabelFacts
  <2>2. Returns(Puts(Ret(g, -1), <<g.ip, g.dp>>)) /\ Puts(Ret(g, -1), <<g.ip, g.dp>>).puts = <<g.ip, g.dp>>
    BY ONLY <1>0, <1>1, RetTwo
  <2>3. /\ Good(k', Freed) /\ k'.ref = k.ref /\ SameFiles(k.file, k'.file)
        /\ \A j \in Inum : k'.lock[j] = IF k.lock[j] = p THEN 0 ELSE k.lock[j]
    BY <1>1, <1>2, <1>11, <1>4, <1>5 DEF AtLabelFacts, Keeps, Relocks
  <2> QED  BY <1>1, <1>11, <2>1, <2>2, <2>3, ReturnSane
<1>12. ASSUME k' = w,
             f' = [f EXCEPT ![p] = Puts(m, <<g.dp>>)],
             UNCHANGED <<ofile, cwd>>
      PROVE  Sane'
  <2>1. DOMAIN f' = Proc /\ f'[p] = Puts(m, <<g.dp>>) /\ \A q \in Proc \ {p} : f'[q] = f[q]
    BY <1>2, <1>12 DEF AtLabelFacts
  <2>2. Good(k', Freed) /\ k'.ref = k.ref /\ SameFiles(k.file, k'.file)
    BY <1>2, <1>12, <1>8, <1>9 DEF AtLabelFacts, Keeps, Relocks, Grows
  <2>3. \A j \in Inum : k'.lock[j] = IF j = g.ip THEN p ELSE IF j = g.dp THEN 0 ELSE k.lock[j]
    BY <1>2, <1>12, <1>8, <1>9 DEF AtLabelFacts, Keeps, Relocks, Grows
  <2>4. /\ DOMAIN f'[p] = DOMAIN Idle /\ ~f'[p].freeing /\ f'[p].puts = <<g.dp>>
        /\ f'[p].pc = "unlinked" /\ f'[p].to = g.to /\ f'[p].ip = g.ip /\ f'[p].dp = 0
    <3> DEFINE h == m
    <3>1. DOMAIN h = DOMAIN Idle /\ ~h.freeing  BY <1>0, <1>1, Shape
    <3>2. h.puts = <<>>  BY <1>0, <1>1, Shape
    <3>3. h.pc = "unlinked" /\ h.to = g.to /\ h.ip = g.ip /\ h.dp = 0  BY <1>0, <1>1, Shape
    <3>4. f'[p] = Puts(h, <<g.dp>>)  BY <2>1
    <3> HIDE DEF h
    <3>5. LET r == Puts(h, <<g.dp>>)
          IN /\ DOMAIN r = DOMAIN Idle /\ ~r.freeing /\ r.puts = <<g.dp>>
             /\ r.pc = h.pc /\ r.to = h.to /\ r.ip = h.ip /\ r.dp = h.dp
      BY ONLY <3>1, <3>2, PutsOne, Zenon
    <3> QED  BY ONLY <3>3, <3>4, <3>5, Zenon
  <2>5. PlacedOK(f'[p]) /\ f'[p].pc \notin Outside
    BY <1>1, <1>2, <1>12, <2>4, <1>10 DEF AtLabelFacts, PlacedOK, Outside
  <2>6. FrameOK(f'[p])  BY <2>4, <2>5, FrameForms
  <2>7. ASSUME NEW j \in Inum  PROVE k'.ref[j] + Held(f[p], j) = k.ref[j] + Held(f'[p], j)
    <3>1. Held(f[p], j) = One(g.ip, j) + One(g.dp, j)  BY <1>1, HeldBy
    <3>2. Held(f'[p], j) = One(f'[p].ip, j) + One(f'[p].dp, j) + One(g.dp, j)
      BY ONLY <2>4, j \in Inum, HeldOne, Zenon
    <3>3. k.ref[j] \in Nat  BY <1>2 DEF AtLabelFacts, Good
    <3>4. One(0, j) = 0 /\ One(g.ip, j) \in Nat /\ One(g.dp, j) \in Nat
      BY OneZero, HeldNat
    <3>5. One(f'[p].ip, j) = One(g.ip, j) /\ One(f'[p].dp, j) = One(0, j)
      BY <2>4
    <3>6. k'.ref[j] = k.ref[j]  BY <2>2
    <3> QED  BY ONLY <3>1, <3>2, <3>3, <3>4, <3>5, <3>6
  <2>8. LocksMove(p, f'[p], k.lock, k'.lock)
    BY <1>1, <1>2, <1>12, <2>3, <2>4, <2>5, <1>10 DEF AtLabelFacts, LocksMove, HasLocked, Unlocked
  <2> QED  BY <1>1, <1>12, <2>1, <2>2, <2>4, <2>5, <2>6, <2>7, <2>8, PlainStep
<1>13. ASSUME k' = Panic(s, "unlink: nlink < 1")  PROVE FALSE
  <2>1. Panic(s, "unlink: nlink < 1").panic # ""  BY <1>4, PanicKeeps
  <2> QED  BY <1>13, <2>1
<1> QED  BY <1>11, <1>12, <1>13 DEF UnlinkEntry, Step, s, t, u, v, w

\* sys_unlink: the inode loses a link.
LEMMA UnlinkedSane ==
  ASSUME Sane, NEW p \in Proc, Unlinked(p), k'.panic = ""
  PROVE  Sane'
<1> DEFINE g == f[p]
           s == Updated(k, g.ip, [k.mem[g.ip] EXCEPT !.nlink = @ - 1])
           t == [s EXCEPT !.lock[g.ip] = 0]
<1>1. g.puts = <<>> /\ g.pc = "unlinked"  BY DEF Unlinked, At
<1>2. AtLabelFacts(p)  BY <1>1, AtLabel
<1>0. DOMAIN g = DOMAIN Idle /\ ~g.freeing  BY <1>2 DEF AtLabelFacts
<1>3. g.dp = 0  BY <1>1, <1>2 DEF AtLabelFacts, PlacedOK
<1>4. Good(s, Freed) /\ Keeps(k, s)  BY <1>2, LinksKeep DEF AtLabelFacts
<1>5. Good(t, Freed) /\ Relocks(s, t, g.ip, 0)  BY <1>4, LockKeeps
<1> HIDE DEF s, t
<1>6. ASSUME k' = t,
             f' = [f EXCEPT ![p] = Puts(Ret(g, 0), <<g.ip>>)],
             UNCHANGED <<ofile, cwd>>
      PROVE  Sane'
  <2>1. DOMAIN f' = Proc /\ f'[p] = Puts(Ret(g, 0), <<g.ip>>) /\ \A q \in Proc \ {p} : f'[q] = f[q]
    BY <1>2, <1>6 DEF AtLabelFacts
  <2>2. Returns(Puts(Ret(g, 0), <<g.ip>>)) /\ Puts(Ret(g, 0), <<g.ip>>).puts = <<g.ip>>
    BY ONLY <1>0, <1>1, RetOne
  <2>3. /\ Good(k', Freed) /\ k'.ref = k.ref /\ SameFiles(k.file, k'.file)
        /\ \A j \in Inum : k'.lock[j] = IF k.lock[j] = p THEN 0 ELSE k.lock[j]
    BY <1>1, <1>2, <1>6, <1>4, <1>5 DEF AtLabelFacts, Keeps, Relocks
  <2> QED  BY <1>1, <1>6, <2>1, <2>2, <2>3, <1>3, ReturnSane
<1> QED  BY <1>6 DEF Unlinked, Step, s, t

\* exec reads the program and puts the inode.
LEMMA ReadProgramSane ==
  ASSUME Sane, NEW p \in Proc, ReadProgram(p), k'.panic = ""
  PROVE  Sane'
<1> DEFINE g == f[p]
           s == Ilock(k, g.ip)
<1>1. g.puts = <<>> /\ g.pc = "exec"  BY DEF ReadProgram, At
<1>2. AtLabelFacts(p)  BY <1>1, AtLabel
<1>0. DOMAIN g = DOMAIN Idle /\ ~g.freeing  BY <1>2 DEF AtLabelFacts
<1>3. g.dp = 0  BY <1>1, <1>2 DEF AtLabelFacts, PlacedOK
<1>4. Good(s, Freed) /\ Keeps(k, s)  BY <1>2, IlockKeeps DEF AtLabelFacts
<1> HIDE DEF s
<1>5. ASSUME k' = k,
             f' = [f EXCEPT ![p] = Ret(g, -1)],
             g.ip = 0,
             UNCHANGED <<ofile, cwd>>
      PROVE  Sane'
  <2>1. DOMAIN f' = Proc /\ f'[p] = Ret(g, -1) /\ \A q \in Proc \ {p} : f'[q] = f[q]
    BY <1>2, <1>5 DEF AtLabelFacts
  <2>2. Returns(Ret(g, -1)) /\ Ret(g, -1).puts = <<>>
    BY ONLY <1>0, <1>1, RetFrame
  <2>3. /\ Good(k', Freed) /\ k'.ref = k.ref /\ SameFiles(k.file, k'.file)
        /\ \A j \in Inum : k'.lock[j] = IF k.lock[j] = p THEN 0 ELSE k.lock[j]
    BY <1>1, <1>2, <1>5, <1>4 DEF AtLabelFacts, Keeps, Relocks
  <2> QED  BY <1>1, <1>5, <2>1, <2>2, <2>3, <1>3, ReturnSane
<1>6. ASSUME NEW n,
             k' = s,
             f' = [f EXCEPT ![p] = Puts(Ret(g, n), <<g.ip>>)],
             UNCHANGED <<ofile, cwd>>
      PROVE  Sane'
  <2>1. DOMAIN f' = Proc /\ f'[p] = Puts(Ret(g, n), <<g.ip>>) /\ \A q \in Proc \ {p} : f'[q] = f[q]
    BY <1>2, <1>6 DEF AtLabelFacts
  <2>2. Returns(Puts(Ret(g, n), <<g.ip>>)) /\ Puts(Ret(g, n), <<g.ip>>).puts = <<g.ip>>
    BY ONLY <1>0, <1>1, RetOne
  <2>3. /\ Good(k', Freed) /\ k'.ref = k.ref /\ SameFiles(k.file, k'.file)
        /\ \A j \in Inum : k'.lock[j] = IF k.lock[j] = p THEN 0 ELSE k.lock[j]
    BY <1>1, <1>2, <1>6, <1>4 DEF AtLabelFacts, Keeps, Relocks
  <2> QED  BY <1>1, <1>6, <2>1, <2>2, <2>3, <1>3, ReturnSane
<1> QED  BY <1>5, <1>6 DEF ReadProgram, Step, s

\* fileclose: the inode of a file that was closed is put in an operation of its own.
LEMMA FilecloseSane ==
  ASSUME Sane, NEW p \in Proc, Fileclose(p), k'.panic = ""
  PROVE  Sane'
<1> DEFINE g == f[p]
           h == [g EXCEPT !.pc = g.to, !.tx = TRUE, !.ip = 0, !.puts = <<g.ip>>]
<1>1. g.puts = <<>> /\ g.pc = "fileclose"  BY DEF Fileclose, At
<1>2. AtLabelFacts(p)  BY <1>1, AtLabel
<1>0. DOMAIN g = DOMAIN Idle /\ ~g.freeing  BY <1>2 DEF AtLabelFacts
<1>3. g.dp = 0  BY <1>1, <1>2 DEF AtLabelFacts, PlacedOK
<1>4. g.to \in {"ret", "exit"}  BY <1>1, <1>2 DEF AtLabelFacts, PlacedOK
<1>5. ASSUME k' = k,
             f' = [f EXCEPT ![p] = h],
             UNCHANGED <<ofile, cwd>>
      PROVE  Sane'
  <2>1. DOMAIN f' = Proc /\ f'[p] = h /\ \A q \in Proc \ {p} : f'[q] = f[q]
    BY <1>2, <1>5 DEF AtLabelFacts
  <2>2. Good(k', Freed) /\ k'.ref = k.ref /\ SameFiles(k.file, k'.file)
    BY <1>2, <1>5, <1>2 DEF AtLabelFacts, Keeps, Relocks, Grows
  <2>3. \A j \in Inum : k'.lock[j] = k.lock[j]
    BY <1>2, <1>5, <1>2 DEF AtLabelFacts, Keeps, Relocks, Grows
  <2>4. /\ DOMAIN f'[p] = DOMAIN Idle /\ ~f'[p].freeing /\ f'[p].puts = <<g.ip>>
        /\ f'[p].pc = g.to /\ f'[p].to = g.to /\ f'[p].ip = 0 /\ f'[p].dp = g.dp
    <3>1. DOMAIN f'[p] = DOMAIN Idle /\ ~f'[p].freeing  BY <1>0, <1>1, <2>1, Shape
    <3>2. f'[p].puts = <<g.ip>>  BY <1>0, <1>1, <2>1, Shape
    <3>3. f'[p].pc = g.to /\ f'[p].to = g.to /\ f'[p].ip = 0 /\ f'[p].dp = g.dp
      <4>1. f'[p].pc = g.to  BY ONLY <1>0, <2>1, FrameShape
      <4>2. f'[p].to = g.to  BY ONLY <1>0, <2>1, FrameShape
      <4>3. f'[p].ip = 0  BY ONLY <1>0, <2>1, FrameShape
      <4>4. f'[p].dp = g.dp  BY ONLY <1>0, <2>1, FrameShape
      <4> QED  BY <4>1, <4>2, <4>3, <4>4
    <3> QED  BY <3>1, <3>2, <3>3
  <2>5. PlacedOK(f'[p]) /\ f'[p].pc \notin Outside
    BY <1>1, <1>2, <1>5, <2>4, <1>3, <1>4 DEF AtLabelFacts, PlacedOK, Outside
  <2>6. FrameOK(f'[p])  BY <2>4, <2>5, FrameForms
  <2>7. ASSUME NEW j \in Inum  PROVE k'.ref[j] + Held(f[p], j) = k.ref[j] + Held(f'[p], j)
    <3>1. Held(f[p], j) = One(g.ip, j) + One(g.dp, j)  BY <1>1, HeldBy
    <3>2. Held(f'[p], j) = One(f'[p].ip, j) + One(f'[p].dp, j) + One(g.ip, j)
      BY ONLY <2>4, j \in Inum, HeldOne, Zenon
    <3>3. k.ref[j] \in Nat  BY <1>2 DEF AtLabelFacts, Good
    <3>4. One(0, j) = 0 /\ One(g.ip, j) \in Nat /\ One(g.dp, j) \in Nat
      BY OneZero, HeldNat
    <3>5. One(f'[p].ip, j) = One(0, j) /\ One(f'[p].dp, j) = One(g.dp, j)
      BY <2>4
    <3>6. k'.ref[j] = k.ref[j]  BY <2>2
    <3> QED  BY ONLY <3>1, <3>2, <3>3, <3>4, <3>5, <3>6
  <2>8. LocksMove(p, f'[p], k.lock, k'.lock)
    BY <1>1, <1>2, <1>5, <2>3, <2>4, <2>5, <1>3, <1>4 DEF AtLabelFacts, LocksMove, HasLocked
  <2> QED  BY <1>1, <1>5, <2>1, <2>2, <2>4, <2>5, <2>6, <2>7, <2>8, PlainStep
<1> QED  BY <1>5 DEF Fileclose, Step

\* A call returns.
LEMMA ReturnToUserSane ==
  ASSUME Sane, NEW p \in Proc, Return(p), k'.panic = ""
  PROVE  Sane'
<1> DEFINE g == f[p]
           h == [Idle EXCEPT !.ret = f[p].ret]
<1>1. g.puts = <<>> /\ g.pc = "ret"  BY DEF Return, At
<1>2. AtLabelFacts(p)  BY <1>1, AtLabel
<1>0. DOMAIN g = DOMAIN Idle /\ ~g.freeing  BY <1>2 DEF AtLabelFacts
<1>3. g.dp = 0  BY <1>1, <1>2 DEF AtLabelFacts, PlacedOK
<1>4. g.ip = 0  BY <1>1, <1>2 DEF AtLabelFacts, PlacedOK
<1>5. ASSUME k' = k,
             f' = [f EXCEPT ![p] = h],
             UNCHANGED <<ofile, cwd>>
      PROVE  Sane'
  <2>1. DOMAIN f' = Proc /\ f'[p] = h /\ \A q \in Proc \ {p} : f'[q] = f[q]
    BY <1>2, <1>5 DEF AtLabelFacts
  <2>2. Good(k', Freed) /\ k'.ref = k.ref /\ SameFiles(k.file, k'.file)
    BY <1>2, <1>5, <1>2 DEF AtLabelFacts, Keeps, Relocks, Grows
  <2>3. \A j \in Inum : k'.lock[j] = k.lock[j]
    BY <1>2, <1>5, <1>2 DEF AtLabelFacts, Keeps, Relocks, Grows
  <2>4. /\ DOMAIN f'[p] = DOMAIN Idle /\ ~f'[p].freeing /\ f'[p].puts = <<>>
        /\ f'[p].pc = "idle" /\ f'[p].ip = 0 /\ f'[p].dp = 0
    <3>1. DOMAIN f'[p] = DOMAIN Idle /\ ~f'[p].freeing  BY <1>0, <1>1, <2>1, Shape DEF Idle
    <3>2. f'[p].puts = <<>>  BY <1>0, <1>1, <2>1, Shape DEF Idle
    <3>3. f'[p].pc = "idle" /\ f'[p].ip = 0 /\ f'[p].dp = 0
      BY <1>0, <1>1, <2>1, Shape DEF Idle
    <3> QED  BY <3>1, <3>2, <3>3
  <2>5. PlacedOK(f'[p]) /\ f'[p].pc \notin Outside
    BY <1>1, <1>2, <1>5, <2>4 DEF AtLabelFacts, PlacedOK, Outside
  <2>6. FrameOK(f'[p])  BY <2>4, <2>5, FrameForms
  <2>7. ASSUME NEW j \in Inum  PROVE k'.ref[j] + Held(f[p], j) = k.ref[j] + Held(f'[p], j)
    <3>1. Held(f[p], j) = One(g.ip, j) + One(g.dp, j)  BY <1>1, HeldBy
    <3>2. Held(f'[p], j) = One(f'[p].ip, j) + One(f'[p].dp, j)
      BY <2>4, HeldBy
    <3>3. k.ref[j] \in Nat  BY <1>2 DEF AtLabelFacts, Good
    <3>4. One(0, j) = 0 /\ One(g.ip, j) \in Nat /\ One(g.dp, j) \in Nat
      BY OneZero, HeldNat
    <3>5. One(f'[p].ip, j) = One(0, j) /\ One(f'[p].dp, j) = One(0, j)
      BY <2>4
    <3>6. k'.ref[j] = k.ref[j]  BY <2>2
    <3>7. One(g.dp, j) = 0  BY <1>3, OneZero
    <3>8. One(g.ip, j) = 0  BY <1>4, OneZero
    <3> QED  BY ONLY <3>1, <3>2, <3>3, <3>4, <3>5, <3>6, <3>7, <3>8
  <2>8. LocksMove(p, f'[p], k.lock, k'.lock)
    BY <1>1, <1>2, <1>5, <2>3, <2>4, <2>5 DEF AtLabelFacts, LocksMove, HasLocked
  <2> QED  BY <1>1, <1>5, <2>1, <2>2, <2>4, <2>5, <2>6, <2>7, <2>8, PlainStep
<1> QED  BY <1>5 DEF Return, Step

\* create, when the inode is new.
LEMMA CreateNewSane ==
  ASSUME Sane, NEW p \in Proc, CreateNew(p), k'.panic = ""
  PROVE  Sane'
<1> DEFINE g == f[p]
           dir == CreateType(g.call) = "dir"
           Add(r, i, name, inum) == IF r.ok THEN Dirlink(r.s, i, name, inum) ELSE r
           s == Ilock(k, g.ip)
           c == Updated(s, g.ip, [s.mem[g.ip] EXCEPT !.nlink = 1, !.major = g.call.major])
           r0 == [s |-> c, ok |-> TRUE]
           r1 == Add(r0, g.ip, ".", g.ip)
           r2 == Add(r1, g.ip, "..", g.dp)
           r3 == IF dir THEN r2 ELSE r0
           made == Add(r3, g.dp, Dirsiz(Head(g.path)), g.ip)
           u == Updated(made.s, g.ip, [made.s.mem[g.ip] EXCEPT !.nlink = 0])
           w == IF dir THEN Updated(made.s, g.dp, [made.s.mem[g.dp] EXCEPT !.nlink = @ + 1]) ELSE made.s
           kf == [u EXCEPT !.lock[g.dp] = 0]
           ko == [w EXCEPT !.lock[g.dp] = 0, !.lock[g.ip] = p]
           km == [w EXCEPT !.lock[g.dp] = 0]
           m == [g EXCEPT !.pc = "opened", !.dp = 0]
<1>1. g.puts = <<>> /\ g.pc = "new"  BY DEF CreateNew, At
<1>2. AtLabelFacts(p)  BY <1>1, AtLabel
<1>0. DOMAIN g = DOMAIN Idle /\ ~g.freeing  BY <1>2 DEF AtLabelFacts
<1>3. Unlocked(g.ip)  BY DEF CreateNew
<1>4. Good(s, Freed) /\ Keeps(k, s)  BY <1>2, IlockKeeps DEF AtLabelFacts
<1>5. Good(c, Freed) /\ Keeps(s, c)  BY <1>4, CountedKeeps
<1>6. r0.s = c  OBVIOUS
<1> HIDE DEF s, c, r0
<1>7. Good(r0.s, Freed) /\ Keeps(k, r0.s)  BY <1>4, <1>5, <1>6, KeepsTrans
<1>8. Good(r1.s, Freed) /\ Keeps(r0.s, r1.s)  BY <1>7, AddKeeps
<1>9. Keeps(k, r1.s)  BY <1>7, <1>8, KeepsTrans
<1> HIDE DEF r1
<1>10. Good(r2.s, Freed) /\ Keeps(r1.s, r2.s)  BY <1>8, AddKeeps
<1>11. Keeps(k, r2.s)  BY <1>9, <1>10, KeepsTrans
<1> HIDE DEF r2
<1>12. Good(r3.s, Freed) /\ Keeps(k, r3.s)  BY <1>7, <1>10, <1>11
<1> HIDE DEF r3
<1>13. Good(made.s, Freed) /\ Keeps(r3.s, made.s)  BY <1>12, AddKeeps
<1>14. Keeps(k, made.s)  BY <1>12, <1>13, KeepsTrans
<1> HIDE DEF made
<1>15. Good(u, Freed) /\ Keeps(made.s, u)  BY <1>13, LinksKeep
<1>16. Good(w, Freed) /\ Keeps(made.s, w)
  <2>1. Keeps(made.s, made.s)  BY DEF Keeps
  <2> QED  BY <1>13, <2>1, LinksKeep
<1>17. Keeps(k, u) /\ Keeps(k, w)  BY <1>14, <1>15, <1>16, KeepsTrans
<1> HIDE DEF u, w
<1>18. Good(kf, Freed) /\ Relocks(u, kf, g.dp, 0)  BY <1>15, LockKeeps
<1>19. Good(km, Freed) /\ Relocks(w, km, g.dp, 0)  BY <1>16, LockKeeps
<1>20. /\ Good(ko, Freed) /\ ko.ref = w.ref /\ ko.file = w.file /\ ko.panic = w.panic
       /\ \A j \in Inum : ko.lock[j] = IF j = g.ip THEN p ELSE IF j = g.dp THEN 0 ELSE w.lock[j]
  BY <1>16, Shape DEF Good, TablesOK, CacheOK
<1> HIDE DEF kf, km, ko
<1>21. ASSUME k' = kf,
             f' = [f EXCEPT ![p] = Puts(Ret(g, -1), <<g.ip, g.dp>>)],
             UNCHANGED <<ofile, cwd>>
      PROVE  Sane'
  <2>1. DOMAIN f' = Proc /\ f'[p] = Puts(Ret(g, -1), <<g.ip, g.dp>>) /\ \A q \in Proc \ {p} : f'[q] = f[q]
    BY <1>2, <1>21 DEF AtLabelFacts
  <2>2. Returns(Puts(Ret(g, -1), <<g.ip, g.dp>>)) /\ Puts(Ret(g, -1), <<g.ip, g.dp>>).puts = <<g.ip, g.dp>>
    BY ONLY <1>0, <1>1, RetTwo
  <2>3. /\ Good(k', Freed) /\ k'.ref = k.ref /\ SameFiles(k.file, k'.file)
        /\ \A j \in Inum : k'.lock[j] = IF k.lock[j] = p THEN 0 ELSE k.lock[j]
    BY <1>1, <1>2, <1>21, <1>17, <1>18 DEF AtLabelFacts, Keeps, Relocks
  <2> QED  BY <1>1, <1>21, <2>1, <2>2, <2>3, ReturnSane
<1>22. ASSUME k' = km,
             f' = [f EXCEPT ![p] = Puts(Ret(g, 0), <<g.dp, g.ip>>)],
             UNCHANGED <<ofile, cwd>>
      PROVE  Sane'
  <2>1. DOMAIN f' = Proc /\ f'[p] = Puts(Ret(g, 0), <<g.dp, g.ip>>) /\ \A q \in Proc \ {p} : f'[q] = f[q]
    BY <1>2, <1>22 DEF AtLabelFacts
  <2>2. Returns(Puts(Ret(g, 0), <<g.dp, g.ip>>)) /\ Puts(Ret(g, 0), <<g.dp, g.ip>>).puts = <<g.dp, g.ip>>
    BY ONLY <1>0, <1>1, RetTwo
  <2>3. /\ Good(k', Freed) /\ k'.ref = k.ref /\ SameFiles(k.file, k'.file)
        /\ \A j \in Inum : k'.lock[j] = IF k.lock[j] = p THEN 0 ELSE k.lock[j]
    BY <1>1, <1>2, <1>22, <1>17, <1>19 DEF AtLabelFacts, Keeps, Relocks
  <2> QED  BY <1>1, <1>22, <2>1, <2>2, <2>3, ReturnSane
<1>23. ASSUME k' = ko,
             f' = [f EXCEPT ![p] = Puts(m, <<g.dp>>)],
             UNCHANGED <<ofile, cwd>>
      PROVE  Sane'
  <2>1. DOMAIN f' = Proc /\ f'[p] = Puts(m, <<g.dp>>) /\ \A q \in Proc \ {p} : f'[q] = f[q]
    BY <1>2, <1>23 DEF AtLabelFacts
  <2>2. Good(k', Freed) /\ k'.ref = k.ref /\ SameFiles(k.file, k'.file)
    BY <1>2, <1>23, <1>17, <1>20 DEF AtLabelFacts, Keeps, Relocks, Grows
  <2>3. \A j \in Inum : k'.lock[j] = IF j = g.ip THEN p ELSE IF j = g.dp THEN 0 ELSE k.lock[j]
    BY <1>2, <1>23, <1>17, <1>20 DEF AtLabelFacts, Keeps, Relocks, Grows
  <2>4. /\ DOMAIN f'[p] = DOMAIN Idle /\ ~f'[p].freeing /\ f'[p].puts = <<g.dp>>
        /\ f'[p].pc = "opened" /\ f'[p].to = g.to /\ f'[p].ip = g.ip /\ f'[p].dp = 0
    <3> DEFINE h == m
    <3>1. DOMAIN h = DOMAIN Idle /\ ~h.freeing  BY <1>0, <1>1, Shape
    <3>2. h.puts = <<>>  BY <1>0, <1>1, Shape
    <3>3. h.pc = "opened" /\ h.to = g.to /\ h.ip = g.ip /\ h.dp = 0  BY <1>0, <1>1, Shape
    <3>4. f'[p] = Puts(h, <<g.dp>>)  BY <2>1
    <3> HIDE DEF h
    <3>5. LET r == Puts(h, <<g.dp>>)
          IN /\ DOMAIN r = DOMAIN Idle /\ ~r.freeing /\ r.puts = <<g.dp>>
             /\ r.pc = h.pc /\ r.to = h.to /\ r.ip = h.ip /\ r.dp = h.dp
      BY ONLY <3>1, <3>2, PutsOne, Zenon
    <3> QED  BY ONLY <3>3, <3>4, <3>5, Zenon
  <2>5. PlacedOK(f'[p]) /\ f'[p].pc \notin Outside
    BY <1>1, <1>2, <1>23, <2>4, <1>3 DEF AtLabelFacts, PlacedOK, Outside
  <2>6. FrameOK(f'[p])  BY <2>4, <2>5, FrameForms
  <2>7. ASSUME NEW j \in Inum  PROVE k'.ref[j] + Held(f[p], j) = k.ref[j] + Held(f'[p], j)
    <3>1. Held(f[p], j) = One(g.ip, j) + One(g.dp, j)  BY <1>1, HeldBy
    <3>2. Held(f'[p], j) = One(f'[p].ip, j) + One(f'[p].dp, j) + One(g.dp, j)
      BY ONLY <2>4, j \in Inum, HeldOne, Zenon
    <3>3. k.ref[j] \in Nat  BY <1>2 DEF AtLabelFacts, Good
    <3>4. One(0, j) = 0 /\ One(g.ip, j) \in Nat /\ One(g.dp, j) \in Nat
      BY OneZero, HeldNat
    <3>5. One(f'[p].ip, j) = One(g.ip, j) /\ One(f'[p].dp, j) = One(0, j)
      BY <2>4
    <3>6. k'.ref[j] = k.ref[j]  BY <2>2
    <3> QED  BY ONLY <3>1, <3>2, <3>3, <3>4, <3>5, <3>6
  <2>8. LocksMove(p, f'[p], k.lock, k'.lock)
    BY <1>1, <1>2, <1>23, <2>3, <2>4, <2>5, <1>3 DEF AtLabelFacts, LocksMove, HasLocked, Unlocked
  <2> QED  BY <1>1, <1>23, <2>1, <2>2, <2>4, <2>5, <2>6, <2>7, <2>8, PlainStep
<1>24. \/ k' = kf /\ f' = [f EXCEPT ![p] = Puts(Ret(g, -1), <<g.ip, g.dp>>)]
       \/ k' = km /\ f' = [f EXCEPT ![p] = Puts(Ret(g, 0), <<g.dp, g.ip>>)]
       \/ k' = ko /\ f' = [f EXCEPT ![p] = Puts(m, <<g.dp>>)]
  BY Zenon DEF CreateNew, Step, s, c, r0, r1, r2, r3, made, u, w, kf, km, ko
<1>25. UNCHANGED <<ofile, cwd>>  BY DEF CreateNew, Step
<1> QED  BY <1>21, <1>22, <1>23, <1>24, <1>25

\* sys_link: the inode gains a link, then the walk to the new name starts.
LEMMA LinkSane ==
  ASSUME Sane, NEW p \in Proc, Link(p), k'.panic = ""
  PROVE  Sane'
<1> DEFINE g == f[p]
           s == Ilock(k, g.ip)
           t == Updated(s, g.ip, [s.mem[g.ip] EXCEPT !.nlink = @ + 1])
           c == Absolute(g.call.new)
           i == IF c THEN ROOTINO ELSE cwd[p]
           u == IF c THEN Iget(t, ROOTINO) ELSE Idup(t, cwd[p])
           h == [[g EXCEPT !.dp = g.ip]
                   EXCEPT !.pc = "walk", !.to = "link", !.ip = i,
                          !.path = IF c THEN Tail(g.call.new) ELSE g.call.new]
<1>1. g.puts = <<>> /\ g.pc = "old"  BY DEF Link, At
<1>2. AtLabelFacts(p)  BY <1>1, AtLabel
<1>0. DOMAIN g = DOMAIN Idle /\ ~g.freeing  BY <1>2 DEF AtLabelFacts
<1>3. g.dp = 0  BY <1>1, <1>2 DEF AtLabelFacts, PlacedOK
<1>4. Good(s, Freed) /\ Keeps(k, s)  BY <1>2, IlockKeeps DEF AtLabelFacts
<1>5. Good(t, Freed) /\ Keeps(s, t)  BY <1>4, LinksKeep
<1>6. Keeps(k, t)  BY <1>4, <1>5, KeepsTrans
<1> HIDE DEF s, t
<1>7. Good(u, Freed) /\ Grows(t, u, i)
  <2>1. cwd[p] \in Inum => t.ref[cwd[p]] > 0  BY <1>6, CwdHeld DEF Keeps
  <2> QED  BY <1>5, <2>1, StartGrows
<1> HIDE DEF u, i, c
<1>8. ASSUME k' = k,
             f' = [f EXCEPT ![p] = Ret(g, -1)],
             g.ip = 0,
             UNCHANGED <<ofile, cwd>>
      PROVE  Sane'
  <2>1. DOMAIN f' = Proc /\ f'[p] = Ret(g, -1) /\ \A q \in Proc \ {p} : f'[q] = f[q]
    BY <1>2, <1>8 DEF AtLabelFacts
  <2>2. Returns(Ret(g, -1)) /\ Ret(g, -1).puts = <<>>
    BY ONLY <1>0, <1>1, RetFrame
  <2>3. /\ Good(k', Freed) /\ k'.ref = k.ref /\ SameFiles(k.file, k'.file)
        /\ \A j \in Inum : k'.lock[j] = IF k.lock[j] = p THEN 0 ELSE k.lock[j]
    BY <1>1, <1>2, <1>8, <1>4 DEF AtLabelFacts, Keeps, Relocks
  <2> QED  BY <1>1, <1>8, <2>1, <2>2, <2>3, <1>3, ReturnSane
<1>9. ASSUME k' = s,
             f' = [f EXCEPT ![p] = Puts(Ret(g, -1), <<g.ip>>)],
             UNCHANGED <<ofile, cwd>>
      PROVE  Sane'
  <2>1. DOMAIN f' = Proc /\ f'[p] = Puts(Ret(g, -1), <<g.ip>>) /\ \A q \in Proc \ {p} : f'[q] = f[q]
    BY <1>2, <1>9 DEF AtLabelFacts
  <2>2. Returns(Puts(Ret(g, -1), <<g.ip>>)) /\ Puts(Ret(g, -1), <<g.ip>>).puts = <<g.ip>>
    BY ONLY <1>0, <1>1, RetOne
  <2>3. /\ Good(k', Freed) /\ k'.ref = k.ref /\ SameFiles(k.file, k'.file)
        /\ \A j \in Inum : k'.lock[j] = IF k.lock[j] = p THEN 0 ELSE k.lock[j]
    BY <1>1, <1>2, <1>9, <1>4 DEF AtLabelFacts, Keeps, Relocks
  <2> QED  BY <1>1, <1>9, <2>1, <2>2, <2>3, <1>3, ReturnSane
<1>10. ASSUME k' = u,
             f' = [f EXCEPT ![p] = h],
             UNCHANGED <<ofile, cwd>>
      PROVE  Sane'
  <2>1. DOMAIN f' = Proc /\ f'[p] = h /\ \A q \in Proc \ {p} : f'[q] = f[q]
    BY <1>2, <1>10 DEF AtLabelFacts
  <2>2. /\ Good(k', Freed) /\ SameFiles(k.file, k'.file)
        /\ \A j \in Inum : k'.ref[j] = k.ref[j] + One(i, j)
    BY <1>2, <1>10, <1>6, <1>7 DEF AtLabelFacts, Keeps, Relocks, Grows
  <2>3. \A j \in Inum : k'.lock[j] = k.lock[j]
    BY <1>2, <1>10, <1>6, <1>7 DEF AtLabelFacts, Keeps, Relocks, Grows
  <2>4. /\ DOMAIN f'[p] = DOMAIN Idle /\ ~f'[p].freeing /\ f'[p].puts = <<>>
        /\ f'[p].pc = "walk" /\ f'[p].to = "link" /\ f'[p].ip = i /\ f'[p].dp = g.ip
    <3>1. DOMAIN f'[p] = DOMAIN Idle /\ ~f'[p].freeing  BY <1>0, <1>1, <2>1, Shape
    <3>2. f'[p].puts = <<>>  BY ONLY <1>0, <1>1, <2>1, FrameShape
    <3>3. f'[p].pc = "walk" /\ f'[p].to = "link" /\ f'[p].ip = i /\ f'[p].dp = g.ip
      <4>1. f'[p].pc = "walk"  BY ONLY <1>0, <2>1, FrameShape
      <4>2. f'[p].to = "link"  BY ONLY <1>0, <2>1, FrameShape
      <4>3. f'[p].ip = i  BY ONLY <1>0, <2>1, FrameShape
      <4>4. f'[p].dp = g.ip  BY ONLY <1>0, <2>1, FrameShape
      <4> QED  BY <4>1, <4>2, <4>3, <4>4
    <3> QED  BY <3>1, <3>2, <3>3
  <2>5. PlacedOK(f'[p]) /\ f'[p].pc \notin Outside
    BY <1>1, <1>2, <1>10, <2>4 DEF AtLabelFacts, PlacedOK, Outside
  <2>6. FrameOK(f'[p])  BY <2>4, <2>5, FrameForms
  <2>7. ASSUME NEW j \in Inum  PROVE k'.ref[j] + Held(f[p], j) = k.ref[j] + Held(f'[p], j)
    <3>1. Held(f[p], j) = One(g.ip, j) + One(g.dp, j)  BY <1>1, HeldBy
    <3>2. Held(f'[p], j) = One(f'[p].ip, j) + One(f'[p].dp, j)
      BY <2>4, HeldBy
    <3>3. k.ref[j] \in Nat  BY <1>2 DEF AtLabelFacts, Good
    <3>4. One(0, j) = 0 /\ One(g.ip, j) \in Nat /\ One(g.dp, j) \in Nat /\ One(i, j) \in Nat
      BY OneZero, HeldNat
    <3>5. One(f'[p].ip, j) = One(i, j) /\ One(f'[p].dp, j) = One(g.ip, j)
      BY <2>4
    <3>6. k'.ref[j] = k.ref[j] + One(i, j)  BY <2>2
    <3>7. One(g.dp, j) = 0  BY <1>3, OneZero
    <3> QED  BY ONLY <3>1, <3>2, <3>3, <3>4, <3>5, <3>6, <3>7
  <2>8. LocksMove(p, f'[p], k.lock, k'.lock)
    BY <1>1, <1>2, <1>10, <2>3, <2>4, <2>5 DEF AtLabelFacts, LocksMove, HasLocked
  <2> QED  BY <1>1, <1>10, <2>1, <2>2, <2>4, <2>5, <2>6, <2>7, <2>8, PlainStep
<1> QED  BY <1>8, <1>9, <1>10 DEF Link, Walking, Step, s, t, u, i, c

\* A process is reaped.
LEMMA GoneSane ==
  ASSUME Sane, NEW p \in Proc, Gone(p), k'.panic = ""
  PROVE  Sane'
<1> DEFINE g == f[p]
           h == [Idle EXCEPT !.pc = "unused"]
<1>1. g.puts = <<>> /\ g.pc = "gone"  BY DEF Gone, At
<1>2. AtLabelFacts(p)  BY <1>1, AtLabel
<1>0. DOMAIN g = DOMAIN Idle /\ ~g.freeing  BY <1>2 DEF AtLabelFacts
<1>3. g.dp = 0  BY <1>1, <1>2 DEF AtLabelFacts, PlacedOK
<1>4. g.ip = 0  BY <1>1, <1>2 DEF AtLabelFacts, PlacedOK
<1>5. ASSUME k' = k,
             f' = [f EXCEPT ![p] = h],
             UNCHANGED <<ofile, cwd>>
      PROVE  Sane'
  <2>1. DOMAIN f' = Proc /\ f'[p] = h /\ \A q \in Proc \ {p} : f'[q] = f[q]
    BY <1>2, <1>5 DEF AtLabelFacts
  <2>2. Good(k', Freed) /\ k'.ref = k.ref /\ SameFiles(k.file, k'.file)
    BY <1>2, <1>5, <1>2 DEF AtLabelFacts, Keeps, Relocks, Grows
  <2>3. \A j \in Inum : k'.lock[j] = k.lock[j]
    BY <1>2, <1>5, <1>2 DEF AtLabelFacts, Keeps, Relocks, Grows
  <2>4. /\ DOMAIN f'[p] = DOMAIN Idle /\ ~f'[p].freeing /\ f'[p].puts = <<>>
        /\ f'[p].pc = "unused" /\ f'[p].ip = 0 /\ f'[p].dp = 0
    <3>1. DOMAIN f'[p] = DOMAIN Idle /\ ~f'[p].freeing  BY <1>0, <1>1, <2>1, Shape DEF Idle
    <3>2. f'[p].puts = <<>>  BY <1>0, <1>1, <2>1, Shape DEF Idle
    <3>3. f'[p].pc = "unused" /\ f'[p].ip = 0 /\ f'[p].dp = 0
      BY <1>0, <1>1, <2>1, Shape DEF Idle
    <3> QED  BY <3>1, <3>2, <3>3
  <2>5. PlacedOK(f'[p]) /\ f[p].pc \in Outside
    BY <1>1, <1>2, <1>5, <2>4 DEF AtLabelFacts, PlacedOK, Outside
  <2>6. FrameOK(f'[p])  BY <2>4, <2>5, FrameForms
  <2>7. ASSUME NEW j \in Inum  PROVE k'.ref[j] + Held(f[p], j) = k.ref[j] + Held(f'[p], j)
    <3>1. Held(f[p], j) = One(g.ip, j) + One(g.dp, j)  BY <1>1, HeldBy
    <3>2. Held(f'[p], j) = One(f'[p].ip, j) + One(f'[p].dp, j)
      BY <2>4, HeldBy
    <3>3. k.ref[j] \in Nat  BY <1>2 DEF AtLabelFacts, Good
    <3>4. One(0, j) = 0 /\ One(g.ip, j) \in Nat /\ One(g.dp, j) \in Nat
      BY OneZero, HeldNat
    <3>5. One(f'[p].ip, j) = One(0, j) /\ One(f'[p].dp, j) = One(0, j)
      BY <2>4
    <3>6. k'.ref[j] = k.ref[j]  BY <2>2
    <3>7. One(g.dp, j) = 0  BY <1>3, OneZero
    <3>8. One(g.ip, j) = 0  BY <1>4, OneZero
    <3> QED  BY ONLY <3>1, <3>2, <3>3, <3>4, <3>5, <3>6, <3>7, <3>8
  <2>8. LocksMove(p, f'[p], k.lock, k'.lock)
    BY <1>1, <1>2, <1>5, <2>3, <2>4, <2>5 DEF AtLabelFacts, LocksMove, HasLocked
  <2> QED  BY <1>1, <1>5, <2>1, <2>2, <2>4, <2>5, <2>6, <2>7, <2>8, PlainStep
<1> QED  BY <1>5 DEF Gone, Step

=============================================================================
