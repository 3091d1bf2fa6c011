-------------------------- MODULE FileSystemProofs --------------------------
(***************************************************************************)
(* Theorems about the inode table and the file table: reference counts are *)
(* exact, and entries of the inode table agree with the disk, until the    *)
(* kernel panics.                                                          *)
(***************************************************************************)
EXTENDS FileSystemSteps

-----------------------------------------------------------------------------
(* The calls on open files, descriptors and directories. *)

\* Reading and writing move the offset of a file.
LEMMA OffsetKeeps ==
  ASSUME NEW s, NEW freed, Good(s, freed), SameFiles(s.file, s.file), NEW x, NEW v
  PROVE  LET t == [s EXCEPT !.file[x].off = v]
         IN /\ Good(t, freed) /\ t.ref = s.ref /\ t.lock = s.lock /\ t.panic = s.panic
            /\ SameFiles(s.file, t.file)
<1> DEFINE t == [s EXCEPT !.file[x].off = v]
<1>1. /\ DOMAIN t = DOMAIN s /\ t.ref = s.ref /\ t.lock = s.lock /\ t.panic = s.panic
      /\ t.ino = s.ino /\ t.mem = s.mem /\ t.valid = s.valid
      /\ t.file = [s.file EXCEPT ![x] = [s.file[x] EXCEPT !.off = v]]
  BY Shape DEF Good, TablesOK
<1>2. DOMAIN s.file = 1 .. NFILE /\ \A z \in 1 .. NFILE : DOMAIN s.file[z] = DOMAIN NoFile
  BY DEF SameFiles
<1> HIDE DEF t
<1>3. DOMAIN t.file = 1 .. NFILE  BY <1>1, <1>2
<1>4. ASSUME NEW z \in 1 .. NFILE
      PROVE  /\ DOMAIN t.file[z] = DOMAIN NoFile /\ t.file[z].ref = s.file[z].ref
             /\ t.file[z].type = s.file[z].type /\ t.file[z].ip = s.file[z].ip
  <2>1. t.file[z] = s.file[z] \/ t.file[z] = [s.file[z] EXCEPT !.off = v]  BY <1>1, <1>2
  <2> QED  BY <1>2, <2>1, Shape
<1>5. SameFiles(s.file, t.file)  BY <1>3, <1>4 DEF SameFiles
<1>6. Good(t, freed)
  <2>1. TablesOK(t)  BY <1>1, <1>3 DEF Good, TablesOK
  <2>2. CacheOK(s, freed) => CacheOK(t, freed)  BY <1>1 DEF CacheOK
  <2> QED  BY <1>1, <2>1, <2>2 DEF Good
<1>7. /\ Good(t, freed) /\ t.ref = s.ref /\ t.lock = s.lock /\ t.panic = s.panic
      /\ SameFiles(s.file, t.file)
  BY <1>1, <1>5, <1>6
<1> QED  BY <1>7 DEF t

\* The data of a pipe.
LEMMA PipeKeeps ==
  ASSUME NEW s, NEW freed, Good(s, freed), NEW i, NEW v
  PROVE  LET t == [s EXCEPT !.pipe[i].data = v] IN Good(t, freed) /\ Keeps(s, t)
BY Shape DEF Good, TablesOK, CacheOK, Keeps

\* The frame of a call that returns data.
LEMMA GotFrame ==
  ASSUME NEW g, NEW n, NEW d, DOMAIN g = DOMAIN Idle, ~g.freeing, g.puts = <<>>
  PROVE  LET r == [Ret(g, n) EXCEPT !.ret.data = d] IN Returns(r) /\ r.puts = <<>>
<1> DEFINE h == Ret(g, n)
           r == [h EXCEPT !.ret.data = d]
<1>1. Returns(h) /\ h.puts = <<>>  BY RetFrame
<1> HIDE DEF h
<1>2. r.puts = <<>>  BY <1>1, Shape DEF Returns
<1>3. Returns(r)  BY <1>1, Shape DEF Returns
<1> QED  BY <1>2, <1>3 DEF h

\* A step of read, write or fstat leaves counts and locks alone: it moves an offset,
LEMMA OffsetStep ==
  ASSUME Sane, NEW s, Good(s, Freed), Keeps(k, s), NEW x, NEW v, k' = [s EXCEPT !.file[x].off = v]
  PROVE  Good(k', Freed) /\ k'.ref = k.ref /\ SameFiles(k.file, k'.file) /\ k'.lock = k.lock
<1>1. SameFiles(k.file, k.file)  BY DEF Sane, SameFiles, FileOK, TablesOK
<1>2. SameFiles(s.file, s.file) /\ s.file = k.file  BY <1>1 DEF Keeps
<1>3. LET t == [s EXCEPT !.file[x].off = v]
      IN /\ Good(t, Freed) /\ t.ref = s.ref /\ t.lock = s.lock /\ t.panic = s.panic
         /\ SameFiles(s.file, t.file)
  BY ONLY <1>2, Good(s, Freed), OffsetKeeps, Zenon
<1> QED  BY ONLY <1>2, <1>3, Keeps(k, s), k' = [s EXCEPT !.file[x].off = v] DEF Keeps

\* moves the data of a pipe,
LEMMA PipeStep ==
  ASSUME Sane, NEW x, NEW v, k' = [k EXCEPT !.pipe[x].data = v]
  PROVE  Good(k', Freed) /\ k'.ref = k.ref /\ SameFiles(k.file, k'.file) /\ k'.lock = k.lock
<1>1. SameFiles(k.file, k.file)  BY DEF Sane, SameFiles, FileOK, TablesOK
<1>2. Good(k', Freed) /\ Keeps(k, k')  BY SaneGood, PipeKeeps
<1> QED  BY <1>1, <1>2 DEF Keeps

\* or does neither.
LEMMA IlockStep ==
  ASSUME Sane, NEW i, k' = k \/ k' = Ilock(k, i)
  PROVE  Good(k', Freed) /\ k'.ref = k.ref /\ SameFiles(k.file, k'.file) /\ k'.lock = k.lock
<1>1. SameFiles(k.file, k.file)  BY DEF Sane, SameFiles, FileOK, TablesOK
<1>2. Good(Ilock(k, i), Freed) /\ Keeps(k, Ilock(k, i))  BY SaneGood, IlockKeeps
<1>3. CASE k' = k  BY <1>1, <1>3, SaneGood
<1>4. CASE k' = Ilock(k, i)
  <2> HIDE DEF Ilock
  <2> QED  BY <1>1, <1>2, <1>4 DEF Keeps
<1> QED  BY <1>3, <1>4

\* The frame of a call that returns from read, write or fstat.
LEMMA FileReturn ==
  ASSUME Sane, NEW p \in Proc, f[p].puts = <<>>, f[p].pc \in {"read", "write", "fstat"},
         Good(k', Freed) /\ k'.ref = k.ref /\ SameFiles(k.file, k'.file) /\ k'.lock = k.lock,
         UNCHANGED <<ofile, cwd>>, k'.panic = "",
         \/ \E n : f' = [f EXCEPT ![p] = Ret(f[p], n)]
         \/ \E n, d : f' = [f EXCEPT ![p] = [Ret(f[p], n) EXCEPT !.ret.data = d]]
  PROVE  Sane'
<1> DEFINE g == f[p]
<1>2. AtLabelFacts(p)  BY AtLabel
<1>3. DOMAIN g = DOMAIN Idle /\ ~g.freeing /\ g.puts = <<>> /\ DOMAIN f = Proc  BY <1>2 DEF AtLabelFacts
<1>4. g.ip = 0 /\ g.dp = 0  BY <1>2 DEF AtLabelFacts, PlacedOK
<1>5. ASSUME NEW h, f' = [f EXCEPT ![p] = h], Returns(h), h.puts = <<>>
      PROVE  Sane'
  <2>1. DOMAIN f' = Proc /\ f'[p] = h /\ \A q \in Proc \ {p} : f'[q] = f[q]  BY <1>3, <1>5
  <2>2. \A j \in Inum : k'.lock[j] = IF k.lock[j] = p THEN 0 ELSE k.lock[j]
    BY <1>2 DEF AtLabelFacts
  <2> QED  BY <1>4, <1>5, <2>1, <2>2, ReturnSane
<1>6. ASSUME NEW n, f' = [f EXCEPT ![p] = Ret(f[p], n)]  PROVE Sane'
  <2>1. Returns(Ret(f[p], n)) /\ Ret(f[p], n).puts = <<>>  BY ONLY <1>3, RetFrame
  <2> QED  BY ONLY <1>5, <1>6, <2>1
<1>7. ASSUME NEW n, NEW d, f' = [f EXCEPT ![p] = [Ret(f[p], n) EXCEPT !.ret.data = d]]  PROVE Sane'
  <2>1. LET r == [Ret(g, n) EXCEPT !.ret.data = d] IN Returns(r) /\ r.puts = <<>>
    BY ONLY <1>3, GotFrame
  <2> QED  BY ONLY <1>5, <1>7, <2>1
<1> QED  BY <1>6, <1>7

\* fileread.
LEMMA ReadSane ==
  ASSUME Sane, NEW p \in Proc, Read(p), k'.panic = ""
  PROVE  Sane'
<1> DEFINE g == f[p]
           x == ofile[p][g.call.fd]
           i == k.file[x].ip
           s == Ilock(k, i)
           data == Readi(s, s.mem[i], k.file[x].off, g.call.n)
           queue == k.pipe[i].data
           m == Min({g.call.n, Len(queue)})
           Got(d) == [Ret(g, Len(d)) EXCEPT !.ret.data = d]
<1>1. f[p].puts = <<>> /\ f[p].pc \in {"read", "write", "fstat"}  BY DEF Read, At
<1>2. UNCHANGED <<ofile, cwd>>  BY DEF Read, Step
<1>3. \/ k' = k /\ f' = [f EXCEPT ![p] = Ret(g, -1)]
      \/ k' = s /\ f' = [f EXCEPT ![p] = Ret(g, IF data = <<>> THEN 0 ELSE -1)]
      \/ k' = [s EXCEPT !.file[x].off = @ + Len(data)] /\ f' = [f EXCEPT ![p] = Got(data)]
      \/ k' = [k EXCEPT !.pipe[i].data = SubSeq(@, 2, Len(@))] /\ f' = [f EXCEPT ![p] = Ret(g, 0)]
      \/ /\ k' = [k EXCEPT !.pipe[i].data = SubSeq(@, m + 1, Len(@))]
         /\ f' = [f EXCEPT ![p] = Got(SubSeq(queue, 1, m))]
  BY Zenon DEF Read, Step
<1>4. \/ \E n : f' = [f EXCEPT ![p] = Ret(g, n)]
      \/ \E n, d : f' = [f EXCEPT ![p] = [Ret(g, n) EXCEPT !.ret.data = d]]
  BY ONLY <1>3, Zenon
<1>5. Good(k', Freed) /\ k'.ref = k.ref /\ SameFiles(k.file, k'.file) /\ k'.lock = k.lock
  <2>1. Good(s, Freed) /\ Keeps(k, s)  BY SaneGood, IlockKeeps
  <2>2. CASE k' = k \/ k' = s  BY <2>2, IlockStep
  <2> HIDE DEF x, i, s, data, m
  <2>3. CASE k' = [s EXCEPT !.file[x].off = @ + Len(data)]  BY <2>1, <2>3, OffsetStep
  <2>4. CASE k' = [k EXCEPT !.pipe[i].data = SubSeq(@, 2, Len(@))]  BY <2>4, PipeStep
  <2>5. CASE k' = [k EXCEPT !.pipe[i].data = SubSeq(@, m + 1, Len(@))]  BY <2>5, PipeStep
  <2> QED  BY <1>3, <2>2, <2>3, <2>4, <2>5
<1> QED  BY <1>1, <1>2, <1>4, <1>5, FileReturn

\* filestat.
LEMMA FstatSane ==
  ASSUME Sane, NEW p \in Proc, Fstat(p), k'.panic = ""
  PROVE  Sane'
<1> DEFINE g == f[p]
           i == k.file[ofile[p][g.call.fd]].ip
<1>1. f[p].puts = <<>> /\ f[p].pc \in {"read", "write", "fstat"}  BY DEF Fstat, At
<1>2. \/ \E n : f' = [f EXCEPT ![p] = Ret(g, n)]
      \/ \E n, d : f' = [f EXCEPT ![p] = [Ret(g, n) EXCEPT !.ret.data = d]]
  BY DEF Fstat, Step
<1>3. UNCHANGED <<ofile, cwd>>  BY DEF Fstat, Step
<1>4. k' = k \/ k' = Ilock(k, i)  BY DEF Fstat, Step
<1> HIDE DEF i
<1>5. Good(k', Freed) /\ k'.ref = k.ref /\ SameFiles(k.file, k'.file) /\ k'.lock = k.lock
  BY <1>4, IlockStep
<1> QED  BY <1>1, <1>2, <1>3, <1>5, FileReturn

\* filewrite.
LEMMA WriteSane ==
  ASSUME Sane, NEW p \in Proc, Write(p), k'.panic = ""
  PROVE  Sane'
<1> DEFINE g == f[p]
           x == ofile[p][g.call.fd]
           i == k.file[x].ip
           s == Ilock(k, i)
           n1 == Min({g.call.n - g.n, WRITEMAX})
           w == Writei(s, i, k.file[x].off, n1, <<g.call.v, "">>, g.call.bad)
<1>1. g.puts = <<>> /\ g.pc = "write"  BY DEF Write, At
<1>2. AtLabelFacts(p)  BY <1>1, AtLabel
<1>0. DOMAIN g = DOMAIN Idle /\ ~g.freeing  BY <1>2 DEF AtLabelFacts
<1>3. UNCHANGED <<ofile, cwd>>  BY DEF Write, Step
<1>4. (\E n : f' = [f EXCEPT ![p] = Ret(g, n)]) \/ (\E n : f' = [f EXCEPT ![p] = [g EXCEPT !.n = n]])
  BY DEF Write, Step
<1>5. \/ k' = k
      \/ \E v : k' = [w.s EXCEPT !.file[x].off = v]
      \/ \E v : k' = [k EXCEPT !.pipe[i].data = v]
  BY DEF Write, Step
<1>6. Good(s, Freed) /\ Keeps(k, s)  BY SaneGood, IlockKeeps
<1> HIDE DEF s
<1>7. Good(w.s, Freed) /\ Keeps(k, w.s)
  <2>1. Good(w.s, Freed) /\ Keeps(s, w.s)  BY <1>6, WriteiKeeps
  <2> QED  BY <1>6, <2>1, KeepsTrans
<1> HIDE DEF x, i, w
<1>8. Good(k', Freed) /\ k'.ref = k.ref /\ SameFiles(k.file, k'.file) /\ k'.lock = k.lock
  <2>1. CASE k' = k  BY <2>1, IlockStep
  <2>2. ASSUME NEW v, k' = [w.s EXCEPT !.file[x].off = v]
        PROVE  Good(k', Freed) /\ k'.ref = k.ref /\ SameFiles(k.file, k'.file) /\ k'.lock = k.lock
    BY <1>7, <2>2, OffsetStep
  <2>3. ASSUME NEW v, k' = [k EXCEPT !.pipe[i].data = v]
        PROVE  Good(k', Freed) /\ k'.ref = k.ref /\ SameFiles(k.file, k'.file) /\ k'.lock = k.lock
    BY <2>3, PipeStep
  <2> QED  BY <1>5, <2>1, <2>2, <2>3
<1>9. ASSUME NEW n,
             f' = [f EXCEPT ![p] = [g EXCEPT !.n = n]],
             UNCHANGED <<ofile, cwd>>
      PROVE  Sane'
  <2>1. DOMAIN f' = Proc /\ f'[p] = [g EXCEPT !.n = n] /\ \A q \in Proc \ {p} : f'[q] = f[q]
    BY <1>2, <1>9 DEF AtLabelFacts
  <2>2. Good(k', Freed) /\ k'.ref = k.ref /\ SameFiles(k.file, k'.file)
    BY <1>2, <1>9, <1>8
  <2>3. \A j \in Inum : k'.lock[j] = k.lock[j]
    BY <1>2, <1>9, <1>8
  <2>4. /\ DOMAIN f'[p] = DOMAIN Idle /\ ~f'[p].freeing /\ f'[p].puts = <<>>
        /\ f'[p].pc = "write" /\ f'[p].to = g.to /\ f'[p].ip = g.ip /\ f'[p].dp = g.dp
    <3>1. DOMAIN f'[p] = DOMAIN Idle /\ ~f'[p].freeing  BY <1>0, <1>1, <2>1, Shape
    <3>2. f'[p].puts = <<>>  BY <1>0, <1>1, <2>1, Shape
    <3>3. f'[p].pc = "write" /\ f'[p].to = g.to /\ f'[p].ip = g.ip /\ f'[p].dp = g.dp
      <4>1. f'[p].pc = "write"  BY ONLY <1>0, <1>1, <2>1, FrameShape
      <4>2. f'[p].to = g.to  BY ONLY <1>0, <2>1, FrameShape
      <4>3. f'[p].ip = g.ip  BY ONLY <1>0, <2>1, FrameShape
      <4>4. f'[p].dp = g.dp  BY ONLY <1>0, <2>1, FrameShape
      <4> QED  BY <4>1, <4>2, <4>3, <4>4
    <3> QED  BY <3>1, <3>2, <3>3
  <2>5. PlacedOK(f'[p]) /\ f'[p].pc \notin Outside
    BY <1>1, <1>2, <1>9, <2>4 DEF AtLabelFacts, PlacedOK, Outside
  <2>6. FrameOK(f'[p])  BY <2>4, <2>5, FrameForms
  <2>7. ASSUME NEW j \in Inum  PROVE k'.ref[j] + Held(f[p], j) = k.ref[j] + Held(f'[p], j)
    <3>1. Held(f[p], j) = One(g.ip, j) + One(g.dp, j)  BY <1>1, HeldBy
    <3>2. Held(f'[p], j) = One(f'[p].ip, j) + One(f'[p].dp, j)
      BY <2>4, HeldBy
    <3>3. k.ref[j] \in Nat  BY <1>2 DEF AtLabelFacts, Good
    <3>4. One(0, j) = 0 /\ One(g.ip, j) \in Nat /\ One(g.dp, j) \in Nat
      BY OneZero, HeldNat
    <3>5. One(f'[p].ip, j) = One(g.ip, j) /\ One(f'[p].dp, j) = One(g.dp, j)
      BY <2>4
    <3>6. k'.ref[j] = k.ref[j]  BY <2>2
    <3> QED  BY ONLY <3>1, <3>2, <3>3, <3>4, <3>5, <3>6
  <2>8. LocksMove(p, f'[p], k.lock, k'.lock)
    BY <1>1, <1>2, <1>9, <2>3, <2>4, <2>5 DEF AtLabelFacts, LocksMove, HasLocked
  <2> QED  BY <1>1, <1>9, <2>1, <2>2, <2>4, <2>5, <2>6, <2>7, <2>8, PlainStep
<1>10. ASSUME NEW n, f' = [f EXCEPT ![p] = Ret(g, n)]  PROVE Sane'
  <2>1. f[p].pc \in {"read", "write", "fstat"}  BY <1>1
  <2> QED  BY <1>1, <1>3, <1>8, <1>10, <2>1, FileReturn
<1> QED  BY <1>3, <1>4, <1>9, <1>10
-----------------------------------------------------------------------------
(* Descriptors and open files. *)

Rows == [Proc -> [0 .. NOFILE - 1 -> 0 .. NFILE]]

\* One descriptor that changes.
LEMMA DescriptorMove ==
  ASSUME NEW of \in Rows, NEW p \in Proc, NEW d \in 0 .. NOFILE - 1, NEW y \in 0 .. NFILE,
         NEW x \in 1 .. NFILE
  PROVE  LET of2 == [of EXCEPT ![p][d] = y]
         IN /\ of2 \in Rows
            /\ Cardinality(Descriptors(of, x)) \in Nat /\ Cardinality(Descriptors(of2, x)) \in Nat
            /\ Cardinality(Descriptors(of2, x)) + One(of[p][d], x)
               = Cardinality(Descriptors(of, x)) + One(y, x)
<1> DEFINE of2 == [of EXCEPT ![p][d] = y]
           a == <<p, d>>
           S == Descriptors(of, x)
           T == Descriptors(of2, x)
<1>1. of2 \in Rows  BY DEF Rows
<1>2. of2[p][d] = y  BY DEF Rows
<1>3. ASSUME NEW q \in Proc, NEW e \in 0 .. NOFILE - 1, q # p \/ e # d
      PROVE  of2[q][e] = of[q][e]
  BY <1>3 DEF Rows
<1>4. IsFiniteSet(S)
  <2>1. IsFiniteSet(0 .. NOFILE - 1)  BY Numbers, FS_Interval
  <2>2. IsFiniteSet(Proc \X (0 .. NOFILE - 1))  BY <2>1, Numbers, FS_Product
  <2>3. S \subseteq Proc \X (0 .. NOFILE - 1)  BY DEF Descriptors
  <2> QED  BY ONLY <2>2, <2>3, FS_Subset
<1>5. (a \in S <=> of[p][d] = x) /\ (a \in T <=> y = x)
  <2> HIDE DEF of2
  <2> QED  BY <1>2 DEF Descriptors
<1>6. S \ {a} = T \ {a}
  <2> HIDE DEF of2
  <2>1. ASSUME NEW pd \in Proc \X (0 .. NOFILE - 1), pd # a  PROVE of2[pd[1]][pd[2]] = of[pd[1]][pd[2]]
    <3>1. pd[1] \in Proc /\ pd[2] \in 0 .. NOFILE - 1 /\ (pd[1] # p \/ pd[2] # d)  BY <2>1
    <3> QED  BY <1>3, <3>1
  <2> QED  BY <2>1 DEF Descriptors
<1> HIDE DEF of2, S, T, a
<1>7. /\ Cardinality(S) \in Nat /\ Cardinality(T) \in Nat
      /\ Cardinality(T) + In(a, S) = Cardinality(S) + In(a, T)
  BY ONLY <1>4, <1>6, OneChanged
<1>8. In(a, S) = One(of[p][d], x) /\ In(a, T) = One(y, x)  BY <1>5 DEF In, One
<1>9. of2 \in Rows /\ Cardinality(S) \in Nat /\ Cardinality(T) \in Nat
      /\ Cardinality(T) + One(of[p][d], x) = Cardinality(S) + One(y, x)
  BY ONLY <1>1, <1>7, <1>8
<1> QED  BY <1>9 DEF of2, S, T

\* 1 if an entry of the file table refers to inode i.
Opens(e, i) == IF e.type \in {"inode", "dev"} /\ e.ip = i THEN 1 ELSE 0

\* One entry of the file table that changes.
OneEntry(file, file2, x) == \A z \in 1 .. NFILE : z # x => file2[z] = file[z]

\* It changes the files open on an inode by one at most.
LEMMA OpenMove ==
  ASSUME NEW file, NEW file2, NEW x \in 1 .. NFILE, NEW i, OneEntry(file, file2, x)
  PROVE  /\ Cardinality(OpenFiles(file, i)) \in Nat /\ Cardinality(OpenFiles(file2, i)) \in Nat
         /\ Cardinality(OpenFiles(file2, i)) + Opens(file[x], i)
            = Cardinality(OpenFiles(file, i)) + Opens(file2[x], i)
<1> DEFINE S == OpenFiles(file, i)  T == OpenFiles(file2, i)
<1>1. IsFiniteSet(S)  BY OpenFinite
<1>2. S \ {x} = T \ {x}  BY DEF OpenFiles, OneEntry
<1>3. In(x, S) = Opens(file[x], i) /\ In(x, T) = Opens(file2[x], i)  BY DEF In, Opens, OpenFiles
<1> HIDE DEF S, T
<1>4. /\ Cardinality(S) \in Nat /\ Cardinality(T) \in Nat
      /\ Cardinality(T) + In(x, S) = Cardinality(S) + In(x, T)
  BY ONLY <1>1, <1>2, OneChanged
<1>5. /\ Cardinality(S) \in Nat /\ Cardinality(T) \in Nat
      /\ Cardinality(T) + Opens(file[x], i) = Cardinality(S) + Opens(file2[x], i)
  BY ONLY <1>3, <1>4
<1> QED  BY <1>5 DEF S, T

\* Descriptor d of p changes to y, and with it the entry x of the file table that d
\* refers to before or after.
FdMoves(of, of2, file, file2, p, d, y, x) ==
  /\ d \in 0 .. NOFILE - 1 /\ y \in 0 .. NFILE /\ x \in 1 .. NFILE
  /\ of2 = [of EXCEPT ![p][d] = y]
  /\ (y = x /\ of[p][d] = 0) \/ (y = 0 /\ of[p][d] = x)
  /\ OneEntry(file, file2, x)
  /\ DOMAIN file2[x] = DOMAIN NoFile
  /\ file2[x].ref = 0 <=> file2[x].type = "none"
  /\ file2[x].type \in {"none", "inode", "dev", "pipe"}
  /\ file2[x].ref \in Nat
  /\ file2[x].ref + One(of[p][d], x) = file[x].ref + One(y, x)

\* Such a step keeps Sane if the frame takes the reference the entry gives up, or gives
\* the entry its own.
LEMMA FdStep ==
  ASSUME Sane, NEW p \in Proc, f[p].puts = <<>>, DOMAIN f' = Proc,
         \A q \in Proc \ {p} : f'[q] = f[q], ~f'[p].freeing, FrameOK(f'[p]), f'[p].pc \notin Outside,
         UNCHANGED cwd, k'.panic = "", Good(k', Freed), k'.ref = k.ref,
         LocksMove(p, f'[p], k.lock, k'.lock)
  PROVE  \A d, y, x :
           /\ FdMoves(ofile, ofile', k.file, k'.file, p, d, y, x)
           /\ \A j \in Inum : Held(f[p], j) + Opens(k.file[x], j) = Held(f'[p], j) + Opens(k'.file[x], j)
           => Sane'
<1> SUFFICES
      ASSUME NEW d, NEW y, NEW x, FdMoves(ofile, ofile', k.file, k'.file, p, d, y, x),
             \A j \in Inum : Held(f[p], j) + Opens(k.file[x], j) = Held(f'[p], j) + Opens(k'.file[x], j)
      PROVE  Sane'
  OBVIOUS
<1>0. /\ d \in 0 .. NOFILE - 1 /\ y \in 0 .. NFILE /\ x \in 1 .. NFILE
      /\ ofile' = [ofile EXCEPT ![p][d] = y]
      /\ (y = x /\ ofile[p][d] = 0) \/ (y = 0 /\ ofile[p][d] = x)
      /\ OneEntry(k.file, k'.file, x)
      /\ DOMAIN k'.file[x] = DOMAIN NoFile
      /\ k'.file[x].ref = 0 <=> k'.file[x].type = "none"
      /\ k'.file[x].type \in {"none", "inode", "dev", "pipe"}
      /\ k'.file[x].ref \in Nat
      /\ k'.file[x].ref + One(ofile[p][d], x) = k.file[x].ref + One(y, x)
  BY DEF FdMoves
<1>1. FrameInv /\ FileOK(k) /\ CountsRight  BY DEF Sane
<1>2. ofile \in Rows  BY <1>1 DEF FrameInv, Rows
<1>3. ASSUME NEW z \in 1 .. NFILE
      PROVE  /\ ofile' \in Rows
             /\ Cardinality(Descriptors(ofile, z)) \in Nat /\ Cardinality(Descriptors(ofile', z)) \in Nat
             /\ Cardinality(Descriptors(ofile', z)) + One(ofile[p][d], z)
                = Cardinality(Descriptors(ofile, z)) + One(y, z)
  <2> DEFINE of2 == [ofile EXCEPT ![p][d] = y]
  <2>1. /\ of2 \in Rows
        /\ Cardinality(Descriptors(ofile, z)) \in Nat /\ Cardinality(Descriptors(of2, z)) \in Nat
        /\ Cardinality(Descriptors(of2, z)) + One(ofile[p][d], z)
           = Cardinality(Descriptors(ofile, z)) + One(y, z)
    BY ONLY <1>0, <1>2, p \in Proc, z \in 1 .. NFILE, DescriptorMove
  <2>2. ofile' = of2  BY <1>0
  <2> HIDE DEF of2
  <2> QED  BY ONLY <2>1, <2>2
<1>4. ofile' \in Rows  BY <1>0, <1>3
<1>5. \A z \in 1 .. NFILE : k'.file[z].ref = Cardinality(Descriptors(ofile', z))
  <2> SUFFICES ASSUME NEW z \in 1 .. NFILE  PROVE k'.file[z].ref = Cardinality(Descriptors(ofile', z))
    OBVIOUS
  <2>1. k.file[z].ref = Cardinality(Descriptors(ofile, z))  BY <1>1 DEF CountsRight
  <2>2. /\ Cardinality(Descriptors(ofile, z)) \in Nat /\ Cardinality(Descriptors(ofile', z)) \in Nat
        /\ Cardinality(Descriptors(ofile', z)) + One(ofile[p][d], z)
           = Cardinality(Descriptors(ofile, z)) + One(y, z)
    BY <1>3
  <2>3. One(ofile[p][d], z) \in Nat /\ One(y, z) \in Nat  BY HeldNat
  <2>4. CASE z = x
    <3>1. k'.file[z].ref + One(ofile[p][d], z) = k.file[z].ref + One(y, z) /\ k'.file[z].ref \in Nat
      BY <1>0, <2>4
    <3> QED  BY ONLY <2>1, <2>2, <2>3, <3>1
  <2>5. CASE z # x
    <3>0. z # 0  BY ONLY z \in 1 .. NFILE, Numbers
    <3>1. One(ofile[p][d], z) = 0 /\ One(y, z) = 0  BY <1>0, <2>5, <3>0 DEF One
    <3>2. k'.file[z] = k.file[z]  BY <1>0, <2>5 DEF OneEntry
    <3> QED  BY ONLY <2>1, <2>2, <3>1, <3>2
  <2> QED  BY <2>4, <2>5
<1>6. FileOK(k')
  <2> SUFFICES ASSUME NEW z \in 1 .. NFILE
               PROVE  /\ DOMAIN k'.file[z] = DOMAIN NoFile
                      /\ k'.file[z].ref = 0 <=> k'.file[z].type = "none"
                      /\ k'.file[z].type \in {"none", "inode", "dev", "pipe"}
    BY DEF FileOK
  <2>1. CASE z = x  BY <1>0, <2>1
  <2>2. CASE z # x  BY <1>0, <1>1, <2>2 DEF FileOK, OneEntry
  <2> QED  BY <2>1, <2>2
<1>7. FrameInv'
  <2>1. \A q \in Proc : FrameOK(f'[q])  BY <1>1 DEF FrameInv
  <2>2. ASSUME NEW q \in Proc, f'[q].pc \in Outside
        PROVE  cwd'[q] = 0 /\ \A e \in 0 .. NOFILE - 1 : ofile'[q][e] = 0
    <3>1. q # p  BY <2>2
    <3>2. f[q].pc \in Outside  BY <2>2, <3>1
    <3>3. ofile'[q] = ofile[q] /\ cwd'[q] = cwd[q]  BY <1>0, <1>2, <3>1 DEF Rows
    <3>4. f[q].pc \in Outside => cwd[q] = 0 /\ \A e \in 0 .. NOFILE - 1 : ofile[q][e] = 0
      BY ONLY <1>1, q \in Proc DEF FrameInv, Outside
    <3> QED  BY ONLY <3>2, <3>3, <3>4
  <2>3. DOMAIN cwd' = Proc  BY <1>1 DEF FrameInv
  <2>4. DOMAIN f' = Proc  BY <1>1 DEF FrameInv
  <2>5. ofile' \in [Proc -> [0 .. NOFILE - 1 -> 0 .. NFILE]]  BY ONLY <1>4 DEF Rows
  <2> QED  BY ONLY <2>1, <2>2, <2>3, <2>4, <2>5 DEF FrameInv, Outside
<1>8. Freed' = Freed  BY <1>1, FreedSame
<1>9. Good(k', Freed')  BY <1>8
<1>10. \A q \in Proc \ {p} : f'[q] = f[q] /\ cwd'[q] = cwd[q]  OBVIOUS
<1>11. ASSUME NEW j \in Inum
       PROVE  k'.ref[j] + Held(f[p], j) + One(cwd[p], j) + Cardinality(OpenFiles(k.file, j))
              = k.ref[j] + Held(f'[p], j) + One(cwd'[p], j) + Cardinality(OpenFiles(k'.file, j))
  <2>1. /\ Cardinality(OpenFiles(k.file, j)) \in Nat /\ Cardinality(OpenFiles(k'.file, j)) \in Nat
        /\ Cardinality(OpenFiles(k'.file, j)) + Opens(k.file[x], j)
           = Cardinality(OpenFiles(k.file, j)) + Opens(k'.file[x], j)
    BY ONLY <1>0, OpenMove
  <2>2. Held(f[p], j) + Opens(k.file[x], j) = Held(f'[p], j) + Opens(k'.file[x], j)  OBVIOUS
  <2>3. /\ Held(f[p], j) \in Nat /\ Held(f'[p], j) \in Nat /\ One(cwd[p], j) \in Nat  BY HeldNat
  <2>4. Opens(k.file[x], j) \in Nat /\ Opens(k'.file[x], j) \in Nat  BY DEF Opens
  <2>5. k'.ref[j] = k.ref[j] /\ cwd'[p] = cwd[p]  OBVIOUS
  <2>6. k.ref[j] \in Nat  BY SaneGood DEF Good
  <2> QED  BY ONLY <2>1, <2>2, <2>3, <2>4, <2>5, <2>6
<1> QED  BY <1>5, <1>6, <1>7, <1>9, <1>10, <1>11, Accounts

\* filealloc finds a file without references.
LEMMA FreeFileIn ==
  ASSUME NEW s, FreeFile(s) # {}
  PROVE  Min(FreeFile(s)) \in 1 .. NFILE /\ s.file[Min(FreeFile(s))].ref = 0
<1>1. FreeFile(s) \in SUBSET Nat  BY DEF FreeFile
<1>2. Min(FreeFile(s)) \in FreeFile(s)  BY ONLY <1>1, FreeFile(s) # {}, MinIn
<1> QED  BY <1>2 DEF FreeFile

\* fdalloc finds a free descriptor.
LEMMA FreeFdIn ==
  ASSUME NEW p, FreeFd(p) # {}
  PROVE  Min(FreeFd(p)) \in 0 .. NOFILE - 1 /\ ofile[p][Min(FreeFd(p))] = 0
<1>1. FreeFd(p) \in SUBSET Nat  BY Numbers DEF FreeFd
<1>2. Min(FreeFd(p)) \in FreeFd(p)  BY ONLY <1>1, FreeFd(p) # {}, MinIn
<1> QED  BY <1>2 DEF FreeFd

\* An entry of the file table that is set.
LEMMA EntryKeeps ==
  ASSUME NEW s, NEW freed, Good(s, freed), NEW x \in 1 .. NFILE, NEW v
  PROVE  LET t == [s EXCEPT !.file[x] = v]
         IN /\ Good(t, freed) /\ t.ref = s.ref /\ t.lock = s.lock /\ t.panic = s.panic
            /\ t.file[x] = v /\ OneEntry(s.file, t.file, x)
<1> DEFINE t == [s EXCEPT !.file[x] = v]
<1>1. /\ DOMAIN t = DOMAIN s /\ t.ref = s.ref /\ t.lock = s.lock /\ t.panic = s.panic
      /\ t.ino = s.ino /\ t.mem = s.mem /\ t.valid = s.valid
      /\ t.file = [s.file EXCEPT ![x] = v] /\ DOMAIN s.file = 1 .. NFILE
  BY Shape DEF Good, TablesOK
<1> HIDE DEF t
<1>2. Good(t, freed)
  <2>1. TablesOK(t)  BY <1>1 DEF Good, TablesOK
  <2>2. CacheOK(s, freed) => CacheOK(t, freed)  BY <1>1 DEF CacheOK
  <2> QED  BY <1>1, <2>1, <2>2 DEF Good
<1>3. t.file[x] = v /\ OneEntry(s.file, t.file, x)  BY <1>1 DEF OneEntry
<1>4. /\ Good(t, freed) /\ t.ref = s.ref /\ t.lock = s.lock /\ t.panic = s.panic
      /\ t.file[x] = v /\ OneEntry(s.file, t.file, x)
  BY <1>1, <1>2, <1>3
<1> QED  BY <1>4 DEF t

\* sys_open with the inode locked: a file and a descriptor, or neither.
LEMMA OpenedSane ==
  ASSUME Sane, NEW p \in Proc, Opened(p), k'.panic = ""
  PROVE  Sane'
<1> DEFINE g == f[p]
           s == [k EXCEPT !.lock[g.ip] = 0]
           x == Min(FreeFile(s))
           fd == Min(FreeFd(p))
           v == [NoFile EXCEPT !.ref = 1, !.type = IF k.mem[g.ip].type = "dev" THEN "dev" ELSE "inode",
                               !.ip = g.ip, !.readable = "WRONLY" \notin g.call.mode,
                               !.writable = g.call.mode \cap {"WRONLY", "RDWR"} # {}]
           t == [s EXCEPT !.file[x] = v]
<1>1. g.puts = <<>> /\ g.pc = "opened"  BY DEF Opened, At
<1>2. AtLabelFacts(p)  BY <1>1, AtLabel
<1>0. DOMAIN g = DOMAIN Idle /\ ~g.freeing  BY <1>2 DEF AtLabelFacts
<1>3. g.dp = 0  BY <1>1, <1>2 DEF AtLabelFacts, PlacedOK
<1>4. Good(s, Freed) /\ Relocks(k, s, g.ip, 0)  BY <1>2, LockKeeps DEF AtLabelFacts
<1> HIDE DEF s
<1>5. ASSUME k' = s,
             f' = [f EXCEPT ![p] = Puts(Ret(g, -1), <<g.ip>>)],
             UNCHANGED <<ofile, cwd>>
      PROVE  Sane'
  <2>1. DOMAIN f' = Proc /\ f'[p] = Puts(Ret(g, -1), <<g.ip>>) /\ \A q \in Proc \ {p} : f'[q] = f[q]
    BY <1>2, <1>5 DEF AtLabelFacts
  <2>2. Returns(Puts(Ret(g, -1), <<g.ip>>)) /\ Puts(Ret(g, -1), <<g.ip>>).puts = <<g.ip>>
    BY ONLY <1>0, <1>1, RetOne
  <2>3. /\ Good(k', Freed) /\ k'.ref = k.ref /\ SameFiles(k.file, k'.file)
        /\ \A j \in Inum : k'.lock[j] = IF k.lock[j] = p THEN 0 ELSE k.lock[j]
    BY <1>1, <1>2, <1>5, <1>4 DEF AtLabelFacts, Keeps, Relocks
  <2> QED  BY <1>1, <1>5, <2>1, <2>2, <2>3, <1>3, ReturnSane
<1>6. ASSUME FreeFile(s) # {}, FreeFd(p) # {}, k' = t \/ k' = Itrunc(t, g.ip),
             ofile' = [ofile EXCEPT ![p][fd] = x], f' = [f EXCEPT ![p] = Ret(g, fd)], UNCHANGED cwd
      PROVE  Sane'
  <2>1. DOMAIN f' = Proc /\ f'[p] = Ret(g, fd) /\ \A q \in Proc \ {p} : f'[q] = f[q]
    BY <1>2, <1>6 DEF AtLabelFacts
  <2>2. Returns(Ret(g, fd)) /\ Ret(g, fd).puts = <<>>  BY ONLY <1>0, <1>1, RetFrame
  <2>3. x \in 1 .. NFILE /\ s.file[x].ref = 0  BY ONLY <1>6, FreeFileIn
  <2>4. fd \in 0 .. NOFILE - 1 /\ ofile[p][fd] = 0  BY ONLY <1>6, FreeFdIn
  <2>5. /\ DOMAIN v = DOMAIN NoFile /\ v.ref = 1 /\ v.type \in {"inode", "dev"} /\ v.ip = g.ip
    BY DEF NoFile
  <2> HIDE DEF x, fd, v
  <2>6. /\ Good(t, Freed) /\ t.ref = s.ref /\ t.lock = s.lock /\ t.panic = s.panic
        /\ t.file[x] = v /\ OneEntry(s.file, t.file, x)
    BY ONLY <1>4, <2>3, EntryKeeps
  <2> HIDE DEF t
  <2>7. Good(k', Freed) /\ Keeps(t, k')
    <3>1. Good(Itrunc(t, g.ip), Freed) /\ Keeps(t, Itrunc(t, g.ip))  BY <2>6, ItruncKeeps
    <3>2. Keeps(t, t)  BY DEF Keeps
    <3> QED  BY ONLY <1>6, <2>6, <3>1, <3>2
  <2>8. /\ k'.ref = k.ref /\ k'.file[x] = v /\ OneEntry(k.file, k'.file, x) /\ k.file[x].ref = 0
        /\ \A j \in Inum : k'.lock[j] = IF j = g.ip THEN 0 ELSE k.lock[j]
    BY ONLY <1>4, <2>3, <2>6, <2>7 DEF Keeps, Relocks
  <2>9. FrameOK(f'[p]) /\ f'[p].pc \notin Outside /\ ~f'[p].freeing
    <3>1. PlacedOK(f'[p]) /\ f'[p].pc \notin Outside /\ ~f'[p].freeing /\ DOMAIN f'[p] = DOMAIN Idle
      BY <2>1, <2>2 DEF Returns, PlacedOK, Outside
    <3> QED  BY <2>1, <2>2, <3>1, FrameForms
  <2>10. LocksMove(p, f'[p], k.lock, k'.lock)
    BY <1>1, <1>2, <2>1, <2>2, <2>8 DEF AtLabelFacts, LocksMove, HasLocked, Returns
  <2>11. ASSUME NEW j \in Inum
         PROVE  Held(f[p], j) + Opens(k.file[x], j) = Held(f'[p], j) + Opens(k'.file[x], j)
    <3>1. Held(f[p], j) = One(g.ip, j) + One(g.dp, j)  BY <1>1, HeldBy
    <3>2. Held(f'[p], j) = One(f'[p].ip, j) + One(f'[p].dp, j)  BY <2>1, <2>2, HeldBy
    <3>3. One(f'[p].ip, j) = 0 /\ One(f'[p].dp, j) = 0 /\ One(g.dp, j) = 0
      BY <1>3, <2>1, <2>2, OneZero DEF Returns
    <3>4. Opens(k.file[x], j) = 0  BY <2>3, <2>8 DEF Opens, Sane, FileOK
    <3>5. Opens(k'.file[x], j) = One(g.ip, j)  BY <2>5, <2>8 DEF Opens, One
    <3>6. One(g.ip, j) \in Nat  BY HeldNat
    <3> QED  BY ONLY <3>1, <3>2, <3>3, <3>4, <3>5, <3>6
  <2>12. FdMoves(ofile, ofile', k.file, k'.file, p, fd, x, x)
    <3>1. x # 0 /\ x \in 0 .. NFILE  BY ONLY <2>3, Numbers
    <3>2. One(ofile[p][fd], x) = 0 /\ One(x, x) = 1  BY <2>4, <3>1 DEF One
    <3>3. k'.file[x].ref + One(ofile[p][fd], x) = k.file[x].ref + One(x, x)  BY ONLY <2>5, <2>8, <3>2
    <3>4. /\ DOMAIN k'.file[x] = DOMAIN NoFile /\ (k'.file[x].ref = 0 <=> k'.file[x].type = "none")
          /\ k'.file[x].type \in {"none", "inode", "dev", "pipe"} /\ k'.file[x].ref \in Nat
      BY ONLY <2>5, <2>8
    <3> QED  BY ONLY <1>6, <2>3, <2>4, <2>8, <3>1, <3>3, <3>4 DEF FdMoves
  <2>13. \A d, y, z :
           /\ FdMoves(ofile, ofile', k.file, k'.file, p, d, y, z)
           /\ \A j \in Inum : Held(f[p], j) + Opens(k.file[z], j) = Held(f'[p], j) + Opens(k'.file[z], j)
           => Sane'
    <3>1. Sane /\ p \in Proc /\ k'.panic = ""  OBVIOUS
    <3>2. f[p].puts = <<>> /\ DOMAIN f' = Proc /\ \A q \in Proc \ {p} : f'[q] = f[q]  BY <1>1, <2>1
    <3>3. UNCHANGED cwd /\ Good(k', Freed) /\ k'.ref = k.ref  BY <1>6, <2>7, <2>8
    <3> QED  BY ONLY <2>9, <2>10, <3>1, <3>2, <3>3, FdStep
  <2> QED  BY ONLY <2>11, <2>12, <2>13
<1> QED  BY <1>5, <1>6 DEF Opened, Step, s, Zenon

\* An entry of the file table and a pipe that are set.
LEMMA EntryPipeKeeps ==
  ASSUME NEW s, NEW freed, Good(s, freed), NEW x \in 1 .. NFILE, NEW v, NEW i, NEW w
  PROVE  LET t == [s EXCEPT !.file[x] = v, !.pipe[i] = w]
         IN /\ Good(t, freed) /\ t.ref = s.ref /\ t.lock = s.lock /\ t.panic = s.panic
            /\ t.file[x] = v /\ OneEntry(s.file, t.file, x)
<1> DEFINE t == [s EXCEPT !.file[x] = v, !.pipe[i] = w]
<1>1. /\ DOMAIN t = DOMAIN s /\ t.ref = s.ref /\ t.lock = s.lock /\ t.panic = s.panic
      /\ t.ino = s.ino /\ t.mem = s.mem /\ t.valid = s.valid
      /\ t.file = [s.file EXCEPT ![x] = v] /\ DOMAIN s.file = 1 .. NFILE
  BY Shape DEF Good, TablesOK
<1> HIDE DEF t
<1>2. Good(t, freed)
  <2>1. TablesOK(t)  BY <1>1 DEF Good, TablesOK
  <2>2. CacheOK(s, freed) => CacheOK(t, freed)  BY <1>1 DEF CacheOK
  <2> QED  BY <1>1, <2>1, <2>2 DEF Good
<1>3. t.file[x] = v /\ OneEntry(s.file, t.file, x)  BY <1>1 DEF OneEntry
<1>4. /\ Good(t, freed) /\ t.ref = s.ref /\ t.lock = s.lock /\ t.panic = s.panic
      /\ t.file[x] = v /\ OneEntry(s.file, t.file, x)
  BY <1>1, <1>2, <1>3
<1> QED  BY <1>4 DEF t

\* The reference count of a file is a number.
LEMMA RefNat ==
  ASSUME Sane, NEW x \in 1 .. NFILE
  PROVE  k.file[x].ref \in Nat
<1>1. Descriptors(ofile, x) \subseteq Proc \X (0 .. NOFILE - 1)  BY DEF Descriptors
<1>2. IsFiniteSet(0 .. NOFILE - 1)  BY Numbers, FS_Interval
<1>3. IsFiniteSet(Proc \X (0 .. NOFILE - 1))  BY <1>2, Numbers, FS_Product
<1>4. IsFiniteSet(Descriptors(ofile, x))  BY ONLY <1>1, <1>3, FS_Subset
<1> QED  BY <1>4, FS_CardinalityType DEF Sane, CountsRight

\* The step from file entry k.file[x] to v when descriptor d of p, which refers to x,
\* is closed and the call goes on in frame f'[p].
LEMMA CloseStep ==
  ASSUME Sane, NEW p \in Proc, f[p].puts = <<>>, f[p].pc \in {"idle", "exit"},
         DOMAIN f' = Proc, \A q \in Proc \ {p} : f'[q] = f[q],
         DOMAIN f'[p] = DOMAIN Idle, ~f'[p].freeing, f'[p].puts = <<>>, PlacedOK(f'[p]),
         f'[p].pc \in {"ret", "exit", "fileclose"}, f'[p].dp = 0,
         UNCHANGED cwd, k'.panic = "", Good(k', Freed), k'.ref = k.ref, k'.lock = k.lock,
         NEW d \in 0 .. NOFILE - 1, NEW x \in 1 .. NFILE, ofile[p][d] = x,
         ofile' = [ofile EXCEPT ![p][d] = 0], OneEntry(k.file, k'.file, x),
         DOMAIN k'.file[x] = DOMAIN NoFile, k'.file[x].ref = 0 <=> k'.file[x].type = "none",
         k'.file[x].type \in {"none", "inode", "dev", "pipe"}, k'.file[x].ref \in Nat,
         k'.file[x].ref + 1 = k.file[x].ref,
         \A j \in Inum : Opens(k.file[x], j) = One(f'[p].ip, j) + Opens(k'.file[x], j)
  PROVE  Sane'
<1>1. AtLabelFacts(p)  BY AtLabel
<1>2. f[p].ip = 0 /\ f[p].dp = 0 /\ \A j \in Inum : k.lock[j] # p  BY <1>1 DEF AtLabelFacts, PlacedOK
<1>3. LocksMove(p, f'[p], k.lock, k'.lock)  BY <1>2 DEF LocksMove, HasLocked
<1>4. FrameOK(f'[p]) /\ f'[p].pc \notin Outside
  <2>1. FrameOK(f'[p])  BY FrameForms
  <2> QED  BY <2>1 DEF Outside
<1>5. FdMoves(ofile, ofile', k.file, k'.file, p, d, 0, x)
  <2>1. x # 0 /\ 0 \in 0 .. NFILE  BY ONLY x \in 1 .. NFILE, Numbers
  <2>2. One(ofile[p][d], x) = 1 /\ One(0, x) = 0  BY <2>1 DEF One
  <2>3. k.file[x].ref \in Nat  BY RefNat
  <2>4. k'.file[x].ref + One(ofile[p][d], x) = k.file[x].ref + One(0, x)
    BY ONLY <2>2, <2>3, k'.file[x].ref \in Nat, k'.file[x].ref + 1 = k.file[x].ref
  <2>5. ofile[p][d] = x /\ x # 0  BY <2>1
  <2> QED  BY <2>1, <2>4, <2>5 DEF FdMoves
<1>6. ASSUME NEW j \in Inum
      PROVE  Held(f[p], j) + Opens(k.file[x], j) = Held(f'[p], j) + Opens(k'.file[x], j)
  <2>1. Held(f[p], j) = One(f[p].ip, j) + One(f[p].dp, j)  BY HeldBy
  <2>2. Held(f'[p], j) = One(f'[p].ip, j) + One(f'[p].dp, j)  BY HeldBy
  <2>3. One(f[p].ip, j) = 0 /\ One(f[p].dp, j) = 0 /\ One(f'[p].dp, j) = 0  BY <1>2, OneZero
  <2>4. Opens(k.file[x], j) = One(f'[p].ip, j) + Opens(k'.file[x], j)  OBVIOUS
  <2>5. One(f'[p].ip, j) \in Nat  BY HeldNat
  <2>6. Opens(k'.file[x], j) \in Nat  BY DEF Opens
  <2> QED  BY ONLY <2>1, <2>2, <2>3, <2>4, <2>5, <2>6
<1>7. Sane /\ p \in Proc /\ k'.panic = ""  OBVIOUS
<1>8. f[p].puts = <<>> /\ DOMAIN f' = Proc /\ \A q \in Proc \ {p} : f'[q] = f[q]  OBVIOUS
<1>10. UNCHANGED cwd /\ Good(k', Freed) /\ k'.ref = k.ref  OBVIOUS
<1>11. ~f'[p].freeing  OBVIOUS
<1>9. \A e, y, z :
        /\ FdMoves(ofile, ofile', k.file, k'.file, p, e, y, z)
        /\ \A j \in Inum : Held(f[p], j) + Opens(k.file[z], j) = Held(f'[p], j) + Opens(k'.file[z], j)
        => Sane'
  BY ONLY <1>3, <1>4, <1>7, <1>8, <1>10, <1>11, FdStep
<1> QED  BY ONLY <1>5, <1>6, <1>9

\* close: the last reference to a file gives its inode to the frame.
LEMMA CloseFdSane ==
  ASSUME Sane, NEW p \in Proc, f[p].puts = <<>>, f[p].pc \in {"idle", "exit"},
         NEW d \in 0 .. NOFILE - 1, ofile[p][d] # 0, NEW g, CloseFd(p, d, g), k'.panic = "",
         DOMAIN g = DOMAIN Idle, ~g.freeing, g.puts = <<>>, g.ip = 0, g.dp = 0, g.pc \in {"ret", "exit"}
  PROVE  Sane'
<1> DEFINE x == ofile[p][d]
           file == k.file[x]
           h == [g EXCEPT !.to = g.pc, !.pc = "fileclose", !.ip = file.ip]
           v == [file EXCEPT !.ref = @ - 1]
<1>1. /\ ofile' = [ofile EXCEPT ![p][d] = 0] /\ UNCHANGED cwd
      /\ f' = [f EXCEPT ![p] = IF file.ref = 1 /\ file.type # "pipe" THEN h ELSE g]
  BY DEF CloseFd
<1>2. /\ DOMAIN h = DOMAIN Idle /\ ~h.freeing
      /\ h.pc = "fileclose" /\ h.to = g.pc /\ h.ip = file.ip /\ h.dp = 0
  BY Shape
<1>3. h.puts = <<>>  BY Shape
<1>4. PlacedOK(g) /\ PlacedOK(h)  BY <1>2, <1>3 DEF PlacedOK
<1>5. Good(k, Freed) /\ FrameInv /\ FileOK(k)  BY SaneGood DEF Sane
<1>6. x \in 1 .. NFILE
  <2>1. x \in 0 .. NFILE /\ x # 0  BY <1>5 DEF FrameInv
  <2> QED  BY ONLY <2>1, Numbers
<1>7. /\ DOMAIN file = DOMAIN NoFile /\ (file.ref = 0 <=> file.type = "none")
      /\ file.type \in {"none", "inode", "dev", "pipe"} /\ file.ref \in Nat
  BY <1>5, <1>6, RefNat DEF FileOK
<1>8. DOMAIN v = DOMAIN NoFile /\ v.ref = file.ref - 1 /\ v.type = file.type /\ v.ip = file.ip
  BY <1>7, Shape
<1>9. DOMAIN f' = Proc /\ (\A q \in Proc \ {p} : f'[q] = f[q])
      /\ f'[p] = IF file.ref = 1 /\ file.type # "pipe" THEN h ELSE g
  BY <1>1, <1>5 DEF FrameInv
<1>10. /\ DOMAIN f'[p] = DOMAIN Idle /\ ~f'[p].freeing /\ f'[p].puts = <<>> /\ PlacedOK(f'[p])
       /\ f'[p].pc \in {"ret", "exit", "fileclose"} /\ f'[p].dp = 0
  <2>1. f'[p] = h \/ f'[p] = g  BY <1>9
  <2>2. CASE f'[p] = h
    <3> HIDE DEF h
    <3> QED  BY ONLY <1>2, <1>3, <1>4, <2>2, Zenon
  <2>3. CASE f'[p] = g  BY <1>4, <2>3
  <2> QED  BY <2>1, <2>2, <2>3
<1>11. CASE file.ref # 0 /\ file.ref # 1
  <2>1. k' = [k EXCEPT !.file[x] = v]
    <3>1. ~(file.ref < 1)  BY ONLY <1>7, <1>11
    <3>2. k' = [k EXCEPT !.file[x].ref = @ - 1]  BY <1>11, <3>1 DEF CloseFd
    <3> QED  BY <3>2
  <2> HIDE DEF v
  <2>2. LET t == [k EXCEPT !.file[x] = v]
        IN /\ Good(t, Freed) /\ t.ref = k.ref /\ t.lock = k.lock /\ t.panic = k.panic
           /\ t.file[x] = v /\ OneEntry(k.file, t.file, x)
    BY ONLY <1>5, <1>6, EntryKeeps, Zenon
  <2>3. Good(k', Freed) /\ k'.ref = k.ref /\ k'.lock = k.lock /\ k'.file[x] = v /\ OneEntry(k.file, k'.file, x)
    BY ONLY <2>1, <2>2
  <2>4. f'[p].ip = 0  BY <1>9, <1>11
  <2>5. \A j \in Inum : Opens(k.file[x], j) = One(f'[p].ip, j) + Opens(k'.file[x], j)
    <3>1. \A j \in Inum : Opens(v, j) = Opens(file, j) /\ Opens(v, j) \in Nat  BY <1>8 DEF Opens
    <3>2. \A j \in Inum : One(f'[p].ip, j) = 0  BY <2>4, OneZero
    <3> QED  BY ONLY <2>3, <3>1, <3>2
  <2>6. /\ DOMAIN k'.file[x] = DOMAIN NoFile /\ (k'.file[x].ref = 0 <=> k'.file[x].type = "none")
        /\ k'.file[x].type \in {"none", "inode", "dev", "pipe"} /\ k'.file[x].ref \in Nat
        /\ k'.file[x].ref + 1 = k.file[x].ref
    BY ONLY <1>7, <1>8, <1>11, <2>3
  <2> QED  BY <1>1, <1>6, <1>9, <1>10, <2>3, <2>5, <2>6, CloseStep
<1>12. CASE file.ref = 1
  <2>1. \/ file.type # "pipe" /\ k' = [k EXCEPT !.file[x] = NoFile]
        \/ file.type = "pipe" /\ \E w : k' = [k EXCEPT !.file[x] = NoFile, !.pipe[file.ip] = w]
    <3>1. ~(file.ref < 1)  BY ONLY <1>12
    <3>2. CASE file.type # "pipe"  BY <1>12, <3>1, <3>2 DEF CloseFd
    <3>3. CASE file.type = "pipe"
      <4>1. k' = [k EXCEPT !.file[x] = NoFile,
                           !.pipe[file.ip] = IF file.writable THEN [@ EXCEPT !.writeopen = FALSE]
                                             ELSE [@ EXCEPT !.readopen = FALSE]]
        BY <1>12, <3>1, <3>3, Zenon DEF CloseFd
      <4> QED  BY ONLY <3>3, <4>1, Zenon
    <3> QED  BY <3>2, <3>3
  <2>2. Good(k', Freed) /\ k'.ref = k.ref /\ k'.lock = k.lock /\ k'.file[x] = NoFile
        /\ OneEntry(k.file, k'.file, x)
    <3>1. CASE k' = [k EXCEPT !.file[x] = NoFile]
      <4>1. LET t == [k EXCEPT !.file[x] = NoFile]
            IN /\ Good(t, Freed) /\ t.ref = k.ref /\ t.lock = k.lock /\ t.panic = k.panic
               /\ t.file[x] = NoFile /\ OneEntry(k.file, t.file, x)
        BY ONLY <1>5, <1>6, EntryKeeps, Zenon
      <4> QED  BY ONLY <3>1, <4>1
    <3>2. ASSUME NEW w, k' = [k EXCEPT !.file[x] = NoFile, !.pipe[file.ip] = w]
          PROVE  Good(k', Freed) /\ k'.ref = k.ref /\ k'.lock = k.lock /\ k'.file[x] = NoFile
                 /\ OneEntry(k.file, k'.file, x)
      <4>1. LET t == [k EXCEPT !.file[x] = NoFile, !.pipe[file.ip] = w]
            IN /\ Good(t, Freed) /\ t.ref = k.ref /\ t.lock = k.lock /\ t.panic = k.panic
               /\ t.file[x] = NoFile /\ OneEntry(k.file, t.file, x)
        BY ONLY <1>5, <1>6, EntryPipeKeeps, Zenon
      <4> QED  BY ONLY <3>2, <4>1
    <3> QED  BY <2>1, <3>1, <3>2
  <2>3. DOMAIN NoFile = DOMAIN NoFile /\ NoFile.ref = 0 /\ NoFile.type = "none"  BY DEF NoFile
  <2>4. \A j \in Inum : Opens(k.file[x], j) = One(f'[p].ip, j) + Opens(k'.file[x], j)
    <3>1. \A j \in Inum : Opens(NoFile, j) = 0 /\ One(0, j) = 0  BY <2>3, OneZero DEF Opens
    <3>2. CASE file.type = "pipe"
      <4>1. f'[p].ip = 0  BY <1>9, <3>2
      <4>2. \A j \in Inum : Opens(file, j) = 0  BY <3>2 DEF Opens
      <4> QED  BY ONLY <2>2, <3>1, <4>1, <4>2
    <3>3. CASE file.type # "pipe"
      <4>1. f'[p].ip = file.ip  BY <1>2, <1>9, <1>12, <3>3
      <4>2. \A j \in Inum : Opens(file, j) = One(file.ip, j) /\ One(file.ip, j) \in Nat
        BY <1>7, <1>12, <3>3 DEF Opens, One
      <4> QED  BY ONLY <2>2, <3>1, <4>1, <4>2
    <3> QED  BY <3>2, <3>3
  <2>5. /\ DOMAIN k'.file[x] = DOMAIN NoFile /\ (k'.file[x].ref = 0 <=> k'.file[x].type = "none")
        /\ k'.file[x].type \in {"none", "inode", "dev", "pipe"} /\ k'.file[x].ref \in Nat
        /\ k'.file[x].ref + 1 = k.file[x].ref
    BY ONLY <1>12, <2>2, <2>3
  <2> QED  BY <1>1, <1>6, <1>9, <1>10, <2>2, <2>4, <2>5, CloseStep
<1>13. CASE file.ref = 0
  <2>0. file.ref < 1  BY ONLY <1>13
  <2>1. k' = Panic(k, "fileclose")  BY <2>0 DEF CloseFd
  <2>2. Panic(k, "fileclose").panic # ""  BY <1>5, PanicKeeps
  <2> QED  BY <2>1, <2>2
<1> QED  BY <1>11, <1>12, <1>13

\* A file that a descriptor refers to has a reference.
LEMMA FdReferred ==
  ASSUME Sane, NEW p \in Proc, NEW d \in 0 .. NOFILE - 1, NEW x \in 1 .. NFILE, ofile[p][d] = x
  PROVE  k.file[x].ref # 0
<1>1. Descriptors(ofile, x) \subseteq Proc \X (0 .. NOFILE - 1)  BY DEF Descriptors
<1>2. IsFiniteSet(0 .. NOFILE - 1)  BY Numbers, FS_Interval
<1>3. IsFiniteSet(Proc \X (0 .. NOFILE - 1))  BY <1>2, Numbers, FS_Product
<1>4. IsFiniteSet(Descriptors(ofile, x))  BY ONLY <1>1, <1>3, FS_Subset
<1>5. <<p, d>> \in Descriptors(ofile, x)  BY DEF Descriptors
<1>6. Cardinality(Descriptors(ofile, x)) # 0  BY <1>4, <1>5, FS_EmptySet
<1> QED  BY <1>6 DEF Sane, CountsRight

\* What a process outside the kernel holds, and the frame it returns with at once.
LEMMA IdleFacts ==
  /\ DOMAIN Idle = DOMAIN Idle /\ ~Idle.freeing /\ Idle.puts = <<>> /\ Idle.ip = 0 /\ Idle.dp = 0
  /\ Idle.pc = "idle"
BY DEF Idle

\* A process outside the kernel or in exit has no lock and holds no reference.
LEMMA AtIdle ==
  ASSUME Sane, NEW p \in Proc, f[p].puts = <<>>, f[p].pc = "idle" \/ f[p].pc = "exit"
  PROVE  /\ DOMAIN f = Proc /\ f[p].ip = 0 /\ f[p].dp = 0 /\ \A j \in Inum : k.lock[j] # p
         /\ \A j \in Inum : Held(f[p], j) = 0
<1>1. AtLabelFacts(p)  BY AtLabel
<1>2. f[p].ip = 0 /\ f[p].dp = 0 /\ DOMAIN f = Proc  BY <1>1 DEF AtLabelFacts, PlacedOK
<1>3. \A j \in Inum : k.lock[j] # p  BY <1>1 DEF AtLabelFacts
<1>4. ASSUME NEW j \in Inum  PROVE Held(f[p], j) = 0
  <2>1. Held(f[p], j) = One(f[p].ip, j) + One(f[p].dp, j)  BY HeldBy
  <2>2. One(f[p].ip, j) = 0 /\ One(f[p].dp, j) = 0  BY <1>2, OneZero
  <2> QED  BY ONLY <2>1, <2>2
<1> QED  BY <1>2, <1>3, <1>4

\* The frame of a call that returns at once.
LEMMA RetIdle ==
  ASSUME NEW n
  PROVE  LET h == Ret(Idle, n)
         IN /\ Returns(h) /\ h.puts = <<>> /\ FrameOK(h) /\ h.pc \notin Outside /\ ~h.freeing
            /\ \A j \in Inum : Held(h, j) = 0 /\ ~HasLocked(h, j)
<1> DEFINE h == Ret(Idle, n)
<1>1. Returns(h) /\ h.puts = <<>>  BY IdleFacts, RetFrame
<1> HIDE DEF h
<1>2. PlacedOK(h) /\ h.pc \notin Outside /\ ~h.freeing /\ DOMAIN h = DOMAIN Idle
  BY <1>1 DEF Returns, PlacedOK, Outside
<1>3. FrameOK(h)  BY <1>1, <1>2, FrameForms
<1>4. \A j \in Inum : ~HasLocked(h, j)  BY <1>1 DEF HasLocked, Returns
<1>5. ASSUME NEW j \in Inum  PROVE Held(h, j) = 0
  <2>1. Held(h, j) = One(h.ip, j) + One(h.dp, j)  BY <1>1, HeldBy
  <2>2. One(h.ip, j) = 0 /\ One(h.dp, j) = 0  BY <1>1, OneZero DEF Returns
  <2> QED  BY ONLY <2>1, <2>2
<1>6. /\ Returns(h) /\ h.puts = <<>> /\ FrameOK(h) /\ h.pc \notin Outside /\ ~h.freeing
      /\ \A j \in Inum : Held(h, j) = 0 /\ ~HasLocked(h, j)
  BY <1>1, <1>2, <1>3, <1>4, <1>5
<1> QED  BY <1>6 DEF h

\* dup: one descriptor and one reference more.
LEMMA DupSane ==
  ASSUME Sane, NEW p \in Proc, f[p].puts = <<>>, f[p].pc = "idle",
         NEW c, HasFd(p, c), Dup(p, c), FreeFd(p) # {}, k'.panic = ""
  PROVE  Sane'
<1> DEFINE x == ofile[p][c.fd]
           fd == Min(FreeFd(p))
           v == [k.file[x] EXCEPT !.ref = @ + 1]
<1>1. /\ k' = [k EXCEPT !.file[x] = v] /\ ofile' = [ofile EXCEPT ![p][fd] = x]
      /\ f' = [f EXCEPT ![p] = Ret(Idle, fd)] /\ UNCHANGED cwd
  BY DEF Dup
<1>2. Good(k, Freed) /\ FrameInv /\ FileOK(k)  BY SaneGood DEF Sane
<1>3. c.fd \in 0 .. NOFILE - 1 /\ x \in 1 .. NFILE
  <2>1. c.fd \in 0 .. NOFILE - 1 /\ x # 0 /\ x \in 0 .. NFILE  BY <1>2 DEF HasFd, FrameInv
  <2> QED  BY ONLY <2>1, Numbers
<1>4. k.file[x].ref \in Nat /\ k.file[x].ref # 0  BY <1>3, RefNat, FdReferred
<1>5. fd \in 0 .. NOFILE - 1 /\ ofile[p][fd] = 0  BY FreeFdIn
<1>6. DOMAIN k.file[x] = DOMAIN NoFile /\ k.file[x].type \in {"inode", "dev", "pipe"}
  BY <1>2, <1>3, <1>4 DEF FileOK
<1>7. /\ DOMAIN v = DOMAIN NoFile /\ v.ref = k.file[x].ref + 1 /\ v.type = k.file[x].type
      /\ v.ip = k.file[x].ip
  BY <1>6, Shape
<1> HIDE DEF v, x, fd
<1>8. LET t == [k EXCEPT !.file[x] = v]
      IN /\ Good(t, Freed) /\ t.ref = k.ref /\ t.lock = k.lock /\ t.panic = k.panic
         /\ t.file[x] = v /\ OneEntry(k.file, t.file, x)
  BY ONLY <1>2, <1>3, EntryKeeps, Zenon
<1>9. Good(k', Freed) /\ k'.ref = k.ref /\ k'.lock = k.lock /\ k'.file[x] = v /\ OneEntry(k.file, k'.file, x)
  BY ONLY <1>1, <1>8
<1>10. /\ DOMAIN f = Proc /\ (\A j \in Inum : k.lock[j] # p) /\ \A j \in Inum : Held(f[p], j) = 0
  BY AtIdle
<1>11. DOMAIN f' = Proc /\ f'[p] = Ret(Idle, fd) /\ \A q \in Proc \ {p} : f'[q] = f[q]
  BY <1>1, <1>10
<1>12. /\ FrameOK(f'[p]) /\ f'[p].pc \notin Outside /\ ~f'[p].freeing
       /\ \A j \in Inum : Held(f'[p], j) = 0 /\ ~HasLocked(f'[p], j)
  BY <1>11, RetIdle
<1>13. LocksMove(p, f'[p], k.lock, k'.lock)  BY <1>9, <1>10, <1>12 DEF LocksMove
<1>14. FdMoves(ofile, ofile', k.file, k'.file, p, fd, x, x)
  <2>1. x # 0 /\ x \in 0 .. NFILE  BY ONLY <1>3, Numbers
  <2>2. One(ofile[p][fd], x) = 0 /\ One(x, x) = 1  BY <1>5, <2>1 DEF One
  <2>3. k'.file[x].ref + One(ofile[p][fd], x) = k.file[x].ref + One(x, x)
    BY ONLY <1>4, <1>7, <1>9, <2>2
  <2>4. /\ DOMAIN k'.file[x] = DOMAIN NoFile /\ (k'.file[x].ref = 0 <=> k'.file[x].type = "none")
        /\ k'.file[x].type \in {"none", "inode", "dev", "pipe"} /\ k'.file[x].ref \in Nat
    BY ONLY <1>4, <1>6, <1>7, <1>9
  <2> QED  BY ONLY <1>1, <1>3, <1>5, <1>9, <2>1, <2>3, <2>4 DEF FdMoves
<1>15. ASSUME NEW j \in Inum
       PROVE  Held(f[p], j) + Opens(k.file[x], j) = Held(f'[p], j) + Opens(k'.file[x], j)
  <2>1. Opens(k'.file[x], j) = Opens(k.file[x], j)  BY <1>7, <1>9 DEF Opens
  <2> QED  BY ONLY <1>10, <1>12, <2>1, j \in Inum
<1>16. \A d, y, z :
         /\ FdMoves(ofile, ofile', k.file, k'.file, p, d, y, z)
         /\ \A j \in Inum : Held(f[p], j) + Opens(k.file[z], j) = Held(f'[p], j) + Opens(k'.file[z], j)
         => Sane'
  <2>1. Sane /\ p \in Proc /\ k'.panic = "" /\ f[p].puts = <<>>  OBVIOUS
  <2>2. UNCHANGED cwd /\ Good(k', Freed) /\ k'.ref = k.ref  BY <1>1, <1>9
  <2> QED  BY ONLY <1>11, <1>12, <1>13, <2>1, <2>2, FdStep
<1> QED  BY ONLY <1>14, <1>15, <1>16

\* A set with two elements at least: Min of it, and Min of the rest.
LEMMA TwoMins ==
  ASSUME NEW S, IsFiniteSet(S), S \in SUBSET Nat, ~(Cardinality(S) < 2)
  PROVE  Min(S) \in S /\ Min(S \ {Min(S)}) \in S /\ Min(S \ {Min(S)}) # Min(S)
<1>1. Cardinality(S) \in Nat  BY FS_CardinalityType
<1>2. S # {}
  <2>1. Cardinality({}) = 0  BY FS_EmptySet
  <2> QED  BY <1>1, <2>1
<1> DEFINE a == Min(S)
<1>3. a \in S  BY <1>2, MinIn
<1> HIDE DEF a
<1>4. S \ {a} # {}
  <2>1. Cardinality({a}) = 1  BY FS_Singleton
  <2>2. S \ {a} = {} => S = {a}  BY <1>3
  <2> QED  BY <1>1, <2>1, <2>2
<1>5. Min(S \ {a}) \in S \ {a}
  <2>1. S \ {a} \in SUBSET Nat  OBVIOUS
  <2> QED  BY ONLY <1>4, <2>1, MinIn
<1>6. a \in S /\ Min(S \ {a}) \in S /\ Min(S \ {a}) # a  BY ONLY <1>3, <1>5
<1> QED  BY <1>6 DEF a

\* pipe takes two free descriptors and two free files.
LEMMA FreeFdTwo ==
  ASSUME NEW p, ~(Cardinality(FreeFd(p)) < 2)
  PROVE  LET a == Min(FreeFd(p))
             b == Min(FreeFd(p) \ {a})
         IN /\ a \in 0 .. NOFILE - 1 /\ b \in 0 .. NOFILE - 1 /\ a # b
            /\ ofile[p][a] = 0 /\ ofile[p][b] = 0
<1>1. FreeFd(p) \subseteq 0 .. NOFILE - 1  BY DEF FreeFd
<1>2. IsFiniteSet(0 .. NOFILE - 1)  BY ONLY Numbers, FS_Interval
<1>3. IsFiniteSet(FreeFd(p))  BY ONLY <1>1, <1>2, FS_Subset
<1>4. FreeFd(p) \in SUBSET Nat  BY Numbers DEF FreeFd
<1> DEFINE S == FreeFd(p)
<1>5. \A e \in S : e \in 0 .. NOFILE - 1 /\ ofile[p][e] = 0  BY DEF FreeFd
<1> HIDE DEF S
<1>6. Min(S) \in S /\ Min(S \ {Min(S)}) \in S /\ Min(S \ {Min(S)}) # Min(S)
  BY <1>3, <1>4, TwoMins DEF S
<1>7. /\ Min(S) \in 0 .. NOFILE - 1 /\ Min(S \ {Min(S)}) \in 0 .. NOFILE - 1
      /\ Min(S) # Min(S \ {Min(S)}) /\ ofile[p][Min(S)] = 0 /\ ofile[p][Min(S \ {Min(S)})] = 0
  BY ONLY <1>5, <1>6
<1> QED  BY ONLY <1>7 DEF S

\* The files of pipe.
LEMMA FreeFileTwo ==
  ASSUME ~(Cardinality(FreeFile(k)) < 2)
  PROVE  LET x == Min(FreeFile(k))
             y == Min(FreeFile(k) \ {x})
         IN /\ x \in 1 .. NFILE /\ y \in 1 .. NFILE /\ x # y
            /\ k.file[x].ref = 0 /\ k.file[y].ref = 0
<1>1. FreeFile(k) \subseteq 1 .. NFILE  BY DEF FreeFile
<1>2. IsFiniteSet(1 .. NFILE)  BY ONLY Numbers, FS_Interval
<1>3. IsFiniteSet(FreeFile(k))  BY ONLY <1>1, <1>2, FS_Subset
<1>4. FreeFile(k) \in SUBSET Nat  BY DEF FreeFile
<1> DEFINE S == FreeFile(k)
<1>5. \A z \in S : z \in 1 .. NFILE /\ k.file[z].ref = 0  BY DEF FreeFile
<1> HIDE DEF S
<1>6. Min(S) \in S /\ Min(S \ {Min(S)}) \in S /\ Min(S \ {Min(S)}) # Min(S)
  BY <1>3, <1>4, TwoMins DEF S
<1>7. /\ Min(S) \in 1 .. NFILE /\ Min(S \ {Min(S)}) \in 1 .. NFILE
      /\ Min(S) # Min(S \ {Min(S)}) /\ k.file[Min(S)].ref = 0 /\ k.file[Min(S \ {Min(S)})].ref = 0
  BY ONLY <1>5, <1>6
<1> QED  BY ONLY <1>7 DEF S

\* pipe: two new files, two descriptors.
LEMMA PipeCallSane ==
  ASSUME Sane, NEW p \in Proc, f[p].puts = <<>>, f[p].pc = "idle", NEW c, PipeCall(p, c),
         ~(Cardinality(FreeFd(p)) < 2), ~(Cardinality(FreeFile(k)) < 2), ~c.bad, k'.panic = ""
  PROVE  Sane'
<1> DEFINE a == Min(FreeFd(p))
           b == Min(FreeFd(p) \ {a})
           x == Min(FreeFile(k))
           y == Min(FreeFile(k) \ {x})
           i == Min({j \in 1 .. NFILE : k.pipe[j] = NoPipe})
           u == [NoFile EXCEPT !.ref = 1, !.type = "pipe", !.ip = i, !.readable = ~FALSE, !.writable = FALSE]
           v == [NoFile EXCEPT !.ref = 1, !.type = "pipe", !.ip = i, !.readable = ~TRUE, !.writable = TRUE]
           w == [data |-> <<>>, readopen |-> TRUE, writeopen |-> TRUE]
           t == [k EXCEPT !.file[x] = u, !.file[y] = v, !.pipe[i] = w]
           of1 == [ofile EXCEPT ![p][a] = x]
           of2 == [of1 EXCEPT ![p][b] = y]
<1>1. k' = t /\ ofile' = [ofile EXCEPT ![p][a] = x, ![p][b] = y]
      /\ f' = [f EXCEPT ![p] = Ret(Idle, 0)] /\ UNCHANGED cwd
  BY Zenon DEF PipeCall
<1>2. Good(k, Freed) /\ FrameInv /\ FileOK(k) /\ CountsRight  BY SaneGood DEF Sane
<1>3. a \in 0 .. NOFILE - 1 /\ b \in 0 .. NOFILE - 1 /\ a # b /\ ofile[p][a] = 0 /\ ofile[p][b] = 0
  BY ONLY ~(Cardinality(FreeFd(p)) < 2), FreeFdTwo, Zenon
<1>4. x \in 1 .. NFILE /\ y \in 1 .. NFILE /\ x # y /\ k.file[x].ref = 0 /\ k.file[y].ref = 0
  BY ONLY ~(Cardinality(FreeFile(k)) < 2), FreeFileTwo, Zenon
<1>5. /\ DOMAIN u = DOMAIN NoFile /\ u.ref = 1 /\ u.type = "pipe"
      /\ DOMAIN v = DOMAIN NoFile /\ v.ref = 1 /\ v.type = "pipe"
  BY DEF NoFile
<1> HIDE DEF a, b, x, y, i, u, v, w
<1>6. /\ DOMAIN t = DOMAIN k /\ t.ref = k.ref /\ t.lock = k.lock /\ t.panic = k.panic
      /\ t.ino = k.ino /\ t.mem = k.mem /\ t.valid = k.valid
      /\ t.file = [k.file EXCEPT ![x] = u, ![y] = v] /\ DOMAIN k.file = 1 .. NFILE
  BY <1>2, Shape DEF Good, TablesOK
<1>7. ofile' = of2  BY <1>1
<1> HIDE DEF t
<1>8. /\ k'.ref = k.ref /\ k'.lock = k.lock
      /\ k'.file[x] = u /\ k'.file[y] = v
      /\ \A z \in 1 .. NFILE : z # x /\ z # y => k'.file[z] = k.file[z]
  BY <1>1, <1>4, <1>6
<1>9. Good(k', Freed)
  <2>1. TablesOK(k')  BY <1>1, <1>2, <1>6 DEF Good, TablesOK
  <2>2. k'.ref = k.ref /\ k'.valid = k.valid /\ k'.mem = k.mem /\ k'.ino = k.ino  BY <1>1, <1>6
  <2>3. CacheOK(k, Freed) => CacheOK(k', Freed)  BY ONLY <2>2, Zenon DEF CacheOK
  <2> QED  BY <1>1, <1>2, <1>6, <2>1, <2>2, <2>3 DEF Good
<1>10. FileOK(k')
  <2> SUFFICES ASSUME NEW z \in 1 .. NFILE
               PROVE  /\ DOMAIN k'.file[z] = DOMAIN NoFile
                      /\ k'.file[z].ref = 0 <=> k'.file[z].type = "none"
                      /\ k'.file[z].type \in {"none", "inode", "dev", "pipe"}
    BY DEF FileOK
  <2>1. CASE z = x  BY ONLY <1>5, <1>8, <2>1
  <2>2. CASE z = y  BY ONLY <1>5, <1>8, <2>2
  <2>3. CASE z # x /\ z # y  BY <1>2, <1>8, <2>3 DEF FileOK
  <2> QED  BY <2>1, <2>2, <2>3
<1>11. ofile \in Rows  BY <1>2 DEF FrameInv, Rows
<1>12. of1 \in Rows /\ of1[p][b] = 0
  <2>1. x \in 0 .. NFILE  BY ONLY <1>4, Numbers
  <2>2. of1 \in Rows  BY ONLY <1>3, <1>11, <2>1, p \in Proc DEF Rows, of1
  <2>3. of1[p][b] = ofile[p][b]  BY ONLY <1>3, <1>11, p \in Proc DEF Rows, of1
  <2> QED  BY ONLY <1>3, <2>2, <2>3
<1>13. ASSUME NEW z \in 1 .. NFILE
       PROVE  /\ ofile' \in Rows
              /\ k'.file[z].ref = Cardinality(Descriptors(ofile', z))
  <2>0. x \in 0 .. NFILE /\ y \in 0 .. NFILE /\ x # 0 /\ y # 0 /\ z # 0
    BY ONLY <1>4, Numbers, z \in 1 .. NFILE
  <2>1. /\ Cardinality(Descriptors(ofile, z)) \in Nat /\ Cardinality(Descriptors(of1, z)) \in Nat
        /\ Cardinality(Descriptors(of1, z)) + One(ofile[p][a], z)
           = Cardinality(Descriptors(ofile, z)) + One(x, z)
    BY ONLY <1>3, <1>11, <2>0, p \in Proc, z \in 1 .. NFILE, DescriptorMove
  <2> HIDE DEF of1
  <2>2. /\ of2 \in Rows
        /\ Cardinality(Descriptors(of2, z)) \in Nat
        /\ Cardinality(Descriptors(of2, z)) + One(of1[p][b], z)
           = Cardinality(Descriptors(of1, z)) + One(y, z)
    BY ONLY <1>3, <1>12, <2>0, p \in Proc, z \in 1 .. NFILE, DescriptorMove
  <2> HIDE DEF of2
  <2>3. One(ofile[p][a], z) = 0 /\ One(of1[p][b], z) = 0  BY <1>3, <1>12, <2>0 DEF One
  <2>4. k.file[z].ref = Cardinality(Descriptors(ofile, z))  BY <1>2 DEF CountsRight
  <2>5. k'.file[z].ref = k.file[z].ref + One(x, z) + One(y, z)
    <3>1. CASE z = x
      <4>1. One(x, z) = 1 /\ One(y, z) = 0  BY <1>4, <3>1 DEF One
      <4> QED  BY ONLY <1>4, <1>5, <1>8, <3>1, <4>1
    <3>2. CASE z = y
      <4>1. One(x, z) = 0 /\ One(y, z) = 1  BY <1>4, <3>2 DEF One
      <4> QED  BY ONLY <1>4, <1>5, <1>8, <3>2, <4>1
    <3>3. CASE z # x /\ z # y
      <4>1. One(x, z) = 0 /\ One(y, z) = 0  BY <3>3 DEF One
      <4> QED  BY ONLY <1>8, <2>1, <2>4, <3>3, <4>1, z \in 1 .. NFILE
    <3> QED  BY <3>1, <3>2, <3>3
  <2>6. One(x, z) \in Nat /\ One(y, z) \in Nat  BY HeldNat
  <2>7. k'.file[z].ref = Cardinality(Descriptors(of2, z))
    BY ONLY <2>1, <2>2, <2>3, <2>4, <2>5, <2>6
  <2> QED  BY ONLY <1>7, <2>2, <2>7
<1>14. ofile' \in Rows  BY <1>4, <1>13
<1>15. DOMAIN f = Proc /\ (\A j \in Inum : k.lock[j] # p) /\ \A j \in Inum : Held(f[p], j) = 0
  BY AtIdle
<1>16. DOMAIN f' = Proc /\ f'[p] = Ret(Idle, 0) /\ \A q \in Proc \ {p} : f'[q] = f[q]
  BY <1>1, <1>15
<1>17. /\ FrameOK(f'[p]) /\ f'[p].pc \notin Outside /\ ~f'[p].freeing
       /\ \A j \in Inum : Held(f'[p], j) = 0 /\ ~HasLocked(f'[p], j)
  BY <1>16, RetIdle
<1>18. LocksMove(p, f'[p], k.lock, k'.lock)  BY <1>8, <1>15, <1>17 DEF LocksMove
<1>19. FrameInv'
  <2>1. \A q \in Proc : FrameOK(f'[q])  BY <1>2, <1>16, <1>17 DEF FrameInv
  <2>2. ASSUME NEW q \in Proc, f'[q].pc \in Outside
        PROVE  cwd'[q] = 0 /\ \A e \in 0 .. NOFILE - 1 : ofile'[q][e] = 0
    <3>1. q # p  BY <1>17, <2>2
    <3>2. f[q].pc \in Outside  BY <1>16, <2>2, <3>1
    <3>3. ofile'[q] = ofile[q] /\ cwd'[q] = cwd[q]  BY <1>1, <1>11, <3>1 DEF Rows
    <3> QED  BY <1>2, <3>2, <3>3 DEF FrameInv, Outside
  <2>3. DOMAIN cwd' = Proc  BY <1>1, <1>2 DEF FrameInv
  <2> QED  BY <1>14, <1>16, <2>1, <2>2, <2>3 DEF FrameInv, Outside, Rows
<1>20. Freed' = Freed  BY <1>2, <1>16, <1>17, FreedSame
<1>21. Good(k', Freed')  BY <1>9, <1>20
<1>22. ASSUME NEW j \in Inum
       PROVE  k'.ref[j] + Held(f[p], j) + One(cwd[p], j) + Cardinality(OpenFiles(k.file, j))
              = k.ref[j] + Held(f'[p], j) + One(cwd'[p], j) + Cardinality(OpenFiles(k'.file, j))
  <2>1. k.file[x].type = "none" /\ k.file[y].type = "none"  BY <1>2, <1>4 DEF FileOK
  <2>2. OpenFiles(k'.file, j) = OpenFiles(k.file, j)
    <3> SUFFICES ASSUME NEW z \in 1 .. NFILE
                 PROVE  k'.file[z].type \in {"inode", "dev"} /\ k'.file[z].ip = j
                        <=> k.file[z].type \in {"inode", "dev"} /\ k.file[z].ip = j
      BY DEF OpenFiles
    <3>1. CASE z = x  BY <1>5, <1>8, <2>1, <3>1
    <3>2. CASE z = y  BY <1>5, <1>8, <2>1, <3>2
    <3>3. CASE z # x /\ z # y  BY <1>8, <3>3
    <3> QED  BY <3>1, <3>2, <3>3
  <2>3. cwd'[p] = cwd[p] /\ k'.ref[j] = k.ref[j]  BY <1>1, <1>8
  <2>4. Held(f[p], j) = 0 /\ Held(f'[p], j) = 0  BY <1>15, <1>17
  <2> QED  BY ONLY <2>2, <2>3, <2>4
<1>23. \A q \in Proc \ {p} : f'[q] = f[q] /\ cwd'[q] = cwd[q]  BY <1>1, <1>16
<1>24. \A z \in 1 .. NFILE : k'.file[z].ref = Cardinality(Descriptors(ofile', z))  BY <1>13
<1> QED
  BY ONLY Sane, p \in Proc, k'.panic = "", <1>10, <1>18, <1>19, <1>21, <1>22, <1>23, <1>24, Accounts

\* A step of p that changes its current directory keeps Sane if the frame takes the
\* reference to the old one and gives up that to the new one.
LEMMA CwdStep ==
  ASSUME Sane, NEW p \in Proc, f[p].puts = <<>>, DOMAIN f' = Proc, DOMAIN cwd' = Proc,
         \A q \in Proc \ {p} : f'[q] = f[q], \A q \in Proc \ {p} : cwd'[q] = cwd[q],
         ~f'[p].freeing, FrameOK(f'[p]), UNCHANGED ofile, k'.panic = "", Good(k', Freed),
         k'.ref = k.ref, SameFiles(k.file, k'.file), LocksMove(p, f'[p], k.lock, k'.lock),
         f'[p].pc \in Outside => cwd'[p] = 0 /\ \A d \in 0 .. NOFILE - 1 : ofile[p][d] = 0,
         \A j \in Inum : Held(f[p], j) + One(cwd[p], j) = Held(f'[p], j) + One(cwd'[p], j)
  PROVE  Sane'
<1>1. FrameInv /\ FileOK(k) /\ CountsRight  BY DEF Sane
<1>2. FrameInv'
  <2>1. \A q \in Proc : FrameOK(f'[q])  BY <1>1 DEF FrameInv
  <2>2. ASSUME NEW q \in Proc, f'[q].pc \in Outside
        PROVE  cwd'[q] = 0 /\ \A d \in 0 .. NOFILE - 1 : ofile'[q][d] = 0
    <3>1. CASE q = p  BY <2>2, <3>1
    <3>2. CASE q # p  BY <1>1, <2>2, <3>2 DEF FrameInv, Outside
    <3> QED  BY <3>1, <3>2
  <2> QED  BY <1>1, <2>1, <2>2 DEF FrameInv, Outside
<1>3. FileOK(k')  BY <1>1 DEF FileOK, SameFiles
<1>4. \A x \in 1 .. NFILE : k'.file[x].ref = Cardinality(Descriptors(ofile', x))
  BY <1>1 DEF CountsRight, SameFiles
<1>5. ASSUME NEW j \in Inum
      PROVE  k'.ref[j] + Held(f[p], j) + One(cwd[p], j) + Cardinality(OpenFiles(k.file, j))
             = k.ref[j] + Held(f'[p], j) + One(cwd'[p], j) + Cardinality(OpenFiles(k'.file, j))
  <2>1. OpenFiles(k'.file, j) = OpenFiles(k.file, j)  BY DEF OpenFiles, SameFiles
  <2>2. Held(f[p], j) + One(cwd[p], j) = Held(f'[p], j) + One(cwd'[p], j) /\ k'.ref[j] = k.ref[j]
    OBVIOUS
  <2>3. /\ Held(f[p], j) \in Nat /\ Held(f'[p], j) \in Nat
        /\ One(cwd[p], j) \in Nat /\ One(cwd'[p], j) \in Nat
    BY HeldNat
  <2>4. k.ref[j] \in Nat  BY SaneGood DEF Good
  <2>5. Cardinality(OpenFiles(k.file, j)) \in Nat  BY OpenFinite
  <2> QED  BY ONLY <2>1, <2>2, <2>3, <2>4, <2>5
<1>6. Freed' = Freed  BY <1>1, FreedSame
<1>7. Good(k', Freed')  BY <1>6
<1>8. \A q \in Proc \ {p} : f'[q] = f[q] /\ cwd'[q] = cwd[q]  OBVIOUS
<1> QED  BY <1>2, <1>3, <1>4, <1>5, <1>7, <1>8, Accounts

\* chdir: the frame's reference becomes the directory's, and the old one is put.
LEMMA ChdirSane ==
  ASSUME Sane, NEW p \in Proc, Chdir(p), k'.panic = ""
  PROVE  Sane'
<1> DEFINE g == f[p]
           s == Ilock(k, g.ip)
           h == Puts(Ret(g, 0), <<cwd[p]>>)
<1>1. g.puts = <<>> /\ g.pc = "chdir"  BY DEF Chdir, At
<1>2. AtLabelFacts(p)  BY <1>1, AtLabel
<1>0. DOMAIN g = DOMAIN Idle /\ ~g.freeing  BY <1>2 DEF AtLabelFacts
<1>3. g.dp = 0  BY <1>1, <1>2 DEF AtLabelFacts, PlacedOK
<1>4. Good(s, Freed) /\ Keeps(k, s)  BY <1>2, IlockKeeps DEF AtLabelFacts
<1> HIDE DEF s
<1>5. ASSUME k' = k,
             f' = [f EXCEPT ![p] = Ret(g, -1)],
             g.ip = 0,
             UNCHANGED <<ofile, cwd>>
      PROVE  Sane'
  <2>1. DOMAIN f' = Proc /\ f'[p] = Ret(g, -1) /\ \A q \in Proc \ {p} : f'[q] = f[q]
    BY <1>2, <1>5 DEF AtLabelFacts
  <2>2. Returns(Ret(g, -1)) /\ Ret(g, -1).puts = <<>>
    BY ONLY <1>0, <1>1, RetFrame
  <2>3. /\ Good(k', Freed) /\ k'.ref = k.ref /\ SameFiles(k.file, k'.file)
        /\ \A j \in Inum : k'.lock[j] = IF k.lock[j] = p THEN 0 ELSE k.lock[j]
    BY <1>1, <1>2, <1>5, <1>4 DEF AtLabelFacts, Keeps, Relocks
  <2> QED  BY <1>1, <1>5, <2>1, <2>2, <2>3, <1>3, ReturnSane
<1>6. ASSUME k' = s,
             f' = [f EXCEPT ![p] = Puts(Ret(g, -1), <<g.ip>>)],
             UNCHANGED <<ofile, cwd>>
      PROVE  Sane'
  <2>1. DOMAIN f' = Proc /\ f'[p] = Puts(Ret(g, -1), <<g.ip>>) /\ \A q \in Proc \ {p} : f'[q] = f[q]
    BY <1>2, <1>6 DEF AtLabelFacts
  <2>2. Returns(Puts(Ret(g, -1), <<g.ip>>)) /\ Puts(Ret(g, -1), <<g.ip>>).puts = <<g.ip>>
    BY ONLY <1>0, <1>1, RetOne
  <2>3. /\ Good(k', Freed) /\ k'.ref = k.ref /\ SameFiles(k.file, k'.file)
        /\ \A j \in Inum : k'.lock[j] = IF k.lock[j] = p THEN 0 ELSE k.lock[j]
    BY <1>1, <1>2, <1>6, <1>4 DEF AtLabelFacts, Keeps, Relocks
  <2> QED  BY <1>1, <1>6, <2>1, <2>2, <2>3, <1>3, ReturnSane
<1>7. ASSUME k' = s, cwd' = [cwd EXCEPT ![p] = g.ip], f' = [f EXCEPT ![p] = h], UNCHANGED ofile
      PROVE  Sane'
  <2>1. DOMAIN f' = Proc /\ f'[p] = h /\ \A q \in Proc \ {p} : f'[q] = f[q]
    BY <1>2, <1>7 DEF AtLabelFacts
  <2>2. Returns(h) /\ h.puts = <<cwd[p]>>  BY ONLY <1>0, <1>1, RetOne
  <2> HIDE DEF h
  <2>3. /\ Good(k', Freed) /\ k'.ref = k.ref /\ SameFiles(k.file, k'.file)
        /\ \A j \in Inum : k'.lock[j] = k.lock[j] /\ k.lock[j] # p
    BY <1>1, <1>2, <1>4, <1>7 DEF AtLabelFacts, Keeps
  <2>4. PlacedOK(h) /\ h.pc \notin Outside /\ ~h.freeing /\ DOMAIN h = DOMAIN Idle
    BY <2>2 DEF Returns, PlacedOK, Outside
  <2>5. FrameOK(h)  BY <2>2, <2>4, FrameForms
  <2>6. LocksMove(p, h, k.lock, k'.lock)  BY <2>2, <2>3 DEF LocksMove, HasLocked, Returns
  <2>7. DOMAIN cwd = Proc  BY DEF Sane, FrameInv
  <2>8. DOMAIN cwd' = Proc /\ cwd'[p] = g.ip /\ \A q \in Proc \ {p} : cwd'[q] = cwd[q]
    BY ONLY <1>7, <2>7, p \in Proc
  <2>9. ASSUME NEW j \in Inum
        PROVE  Held(f[p], j) + One(cwd[p], j) = Held(f'[p], j) + One(cwd'[p], j)
    <3>1. Held(f[p], j) = One(g.ip, j) + One(g.dp, j)  BY <1>1, HeldBy
    <3>2. Held(h, j) = One(h.ip, j) + One(h.dp, j) + One(cwd[p], j)
      BY ONLY <2>2, j \in Inum, HeldOne, Zenon
    <3>3. One(h.ip, j) = 0 /\ One(h.dp, j) = 0 /\ One(g.dp, j) = 0  BY <1>3, <2>2, OneZero DEF Returns
    <3>4. One(g.ip, j) \in Nat /\ One(cwd[p], j) \in Nat  BY HeldNat
    <3> QED  BY ONLY <2>1, <2>8, <3>1, <3>2, <3>3, <3>4
  <2> QED  BY <1>1, <1>7, <2>1, <2>3, <2>4, <2>5, <2>6, <2>8, <2>9, CwdStep
<1> QED  BY <1>5, <1>6, <1>7 DEF Chdir, Step, s

\* exit: one descriptor after the other, then the directory.
LEMMA ExitSane ==
  ASSUME Sane, NEW p \in Proc, Exit(p), k'.panic = ""
  PROVE  Sane'
<1> DEFINE S == {d \in DOMAIN ofile[p] : ofile[p][d] # 0}
           g == f[p]
           h == [Idle EXCEPT !.pc = "gone", !.tx = TRUE, !.puts = <<cwd[p]>>]
<1>1. g.puts = <<>> /\ g.pc = "exit"  BY DEF Exit, At
<1>2. AtLabelFacts(p)  BY <1>1, AtLabel
<1>3. DOMAIN g = DOMAIN Idle /\ ~g.freeing /\ g.ip = 0 /\ g.dp = 0
  BY <1>1, <1>2 DEF AtLabelFacts, PlacedOK
<1>4. DOMAIN ofile[p] = 0 .. NOFILE - 1 /\ DOMAIN cwd = Proc  BY DEF Sane, FrameInv
<1>5. CASE \E d \in DOMAIN ofile[p] : ofile[p][d] # 0
  <2>1. CloseFd(p, Min(S), g)  BY <1>5 DEF Exit
  <2>2. S \in SUBSET Nat /\ S # {}
    <3>1. 0 .. NOFILE - 1 \subseteq Nat  BY ONLY Numbers
    <3> QED  BY <1>4, <1>5, <3>1
  <2>3. Min(S) \in S  BY ONLY <2>2, MinIn
  <2>4. Min(S) \in 0 .. NOFILE - 1 /\ ofile[p][Min(S)] # 0  BY <1>4, <2>3
  <2> HIDE DEF S, g
  <2>5. g.pc \in {"ret", "exit"} /\ f[p].pc \in {"idle", "exit"} /\ f[p].puts = <<>>  BY <1>1 DEF g
  <2> QED  BY ONLY Sane, p \in Proc, k'.panic = "", <1>1, <1>3, <2>1, <2>4, <2>5, CloseFdSane
<1>6. CASE ~\E d \in DOMAIN ofile[p] : ofile[p][d] # 0
  <2>1. f' = [f EXCEPT ![p] = h] /\ cwd' = [cwd EXCEPT ![p] = 0] /\ UNCHANGED <<k, ofile>>
    BY <1>6 DEF Exit
  <2>2. /\ DOMAIN f' = Proc /\ f'[p] = h /\ \A q \in Proc \ {p} : f'[q] = f[q]
    BY <1>2, <2>1 DEF AtLabelFacts
  <2>3. DOMAIN cwd' = Proc /\ cwd'[p] = 0 /\ \A q \in Proc \ {p} : cwd'[q] = cwd[q]
    BY ONLY <1>4, <2>1, p \in Proc
  <2>4. DOMAIN h = DOMAIN Idle /\ ~h.freeing /\ h.pc = "gone" /\ h.ip = 0 /\ h.dp = 0  BY DEF Idle
  <2>5. h.puts = <<cwd[p]>>  BY DEF Idle
  <2> HIDE DEF h
  <2>6. FrameOK(h)
    <3>1. PlacedOK(h)  BY <2>4 DEF PlacedOK
    <3> QED  BY <2>4, <2>5, <3>1, FrameForms
  <2>7. /\ Good(k', Freed) /\ k'.ref = k.ref /\ SameFiles(k.file, k'.file)
        /\ \A j \in Inum : k'.lock[j] = k.lock[j] /\ k.lock[j] # p
    BY <1>1, <1>2, <2>1 DEF AtLabelFacts
  <2>8. LocksMove(p, h, k.lock, k'.lock)  BY <2>4, <2>7 DEF LocksMove, HasLocked
  <2>9. ASSUME NEW j \in Inum
        PROVE  Held(f[p], j) + One(cwd[p], j) = Held(f'[p], j) + One(cwd'[p], j)
    <3>1. Held(f[p], j) = One(g.ip, j) + One(g.dp, j)  BY <1>1, HeldBy
    <3>2. Held(h, j) = One(h.ip, j) + One(h.dp, j) + One(cwd[p], j)
      BY ONLY <2>5, j \in Inum, HeldOne, Zenon
    <3>3. /\ One(h.ip, j) = 0 /\ One(h.dp, j) = 0 /\ One(g.ip, j) = 0 /\ One(g.dp, j) = 0
          /\ One(0, j) = 0
      BY <1>3, <2>4, OneZero
    <3>4. One(cwd[p], j) \in Nat  BY HeldNat
    <3> QED  BY ONLY <2>2, <2>3, <3>1, <3>2, <3>3, <3>4
  <2>10. \A d \in 0 .. NOFILE - 1 : ofile[p][d] = 0  BY <1>4, <1>6
  <2> QED  BY <1>1, <2>1, <2>2, <2>3, <2>4, <2>6, <2>7, <2>8, <2>9, <2>10, CwdStep
<1> QED  BY <1>5, <1>6

\* The entry of a system call.
LEMMA EnterSane ==
  ASSUME Sane, NEW p \in Proc, NEW c, Enter(p, c), k'.panic = ""
  PROVE  Sane'
<1> DEFINE g == f[p]
           a == Absolute(c.path)
           i == IF a THEN ROOTINO ELSE cwd[p]
           u == IF a THEN Iget(k, ROOTINO) ELSE Idup(k, cwd[p])
           to == WalkTo(c)
           b == [Idle EXCEPT !.call = c, !.tx = TRUE]
           h == [b EXCEPT !.pc = "walk", !.to = to, !.ip = i,
                          !.path = IF a THEN Tail(c.path) ELSE c.path]
<1>1. g.puts = <<>> /\ g.pc = "idle"  BY DEF Enter, At
<1>2. AtLabelFacts(p)  BY <1>1, AtLabel
<1>0. DOMAIN g = DOMAIN Idle /\ ~g.freeing  BY <1>2 DEF AtLabelFacts
<1>3. g.dp = 0 /\ g.ip = 0  BY <1>1, <1>2 DEF AtLabelFacts, PlacedOK
<1>4. Good(u, Freed) /\ Grows(k, u, i)
  <2>1. cwd[p] \in Inum => k.ref[cwd[p]] > 0  BY CwdHeld
  <2> QED  BY <2>1, SaneGood, StartGrows
<1>5. c.sys \in OnPath => to \in {"open", "create", "old", "unlink", "chdir", "exec"}
  BY DEF WalkTo, OnPath
<1>6. \/ \E n : Step(p, k, Ret(Idle, n))
      \/ c.sys \in OnPath /\ Step(p, u, h)
      \/ c.sys \in {"read", "write", "fstat"} /\ Step(p, k, [Idle EXCEPT !.pc = c.sys, !.call = c])
      \/ HasFd(p, c) /\ Dup(p, c)
      \/ HasFd(p, c) /\ CloseFd(p, c.fd, Ret(Idle, 0))
      \/ PipeCall(p, c)
      \/ Step(p, k, [Idle EXCEPT !.pc = "exit"])
  BY Zenon DEF Enter, Walking
<1>20. DOMAIN b = DOMAIN Idle /\ ~b.freeing /\ b.dp = 0 /\ b.puts = <<>>  BY DEF Idle
<1> HIDE DEF a, i, u, to, b
<1>21. DOMAIN h = DOMAIN Idle /\ ~h.freeing /\ h.pc = "walk" /\ h.to = to /\ h.ip = i /\ h.dp = 0
  BY <1>20, Shape
<1>22. h.puts = <<>>  BY <1>20, Shape
<1> HIDE DEF h
<1>7. ASSUME k' = u,
             f' = [f EXCEPT ![p] = h],
             c.sys \in OnPath,
             UNCHANGED <<ofile, cwd>>
      PROVE  Sane'
  <2>1. DOMAIN f' = Proc /\ f'[p] = h /\ \A q \in Proc \ {p} : f'[q] = f[q]
    BY <1>2, <1>7 DEF AtLabelFacts
  <2>2. /\ Good(k', Freed) /\ SameFiles(k.file, k'.file)
        /\ \A j \in Inum : k'.ref[j] = k.ref[j] + One(i, j)
    BY <1>2, <1>7, <1>4 DEF AtLabelFacts, Keeps, Relocks, Grows
  <2>3. \A j \in Inum : k'.lock[j] = k.lock[j]
    BY <1>2, <1>7, <1>4 DEF AtLabelFacts, Keeps, Relocks, Grows
  <2>4. /\ DOMAIN f'[p] = DOMAIN Idle /\ ~f'[p].freeing /\ f'[p].puts = <<>>
        /\ f'[p].pc = "walk" /\ f'[p].to = to /\ f'[p].ip = i /\ f'[p].dp = 0
    <3>1. DOMAIN f'[p] = DOMAIN Idle /\ ~f'[p].freeing  BY <1>0, <1>1, <2>1, Shape, <1>21, <1>22
    <3>2. f'[p].puts = <<>>  BY <1>0, <1>1, <2>1, Shape, <1>21, <1>22
    <3>3. f'[p].pc = "walk" /\ f'[p].to = to /\ f'[p].ip = i /\ f'[p].dp = 0
      <4>1. f'[p].pc = "walk"  BY ONLY <1>0, <2>1, FrameShape, <1>21, <1>22
      <4>2. f'[p].to = to  BY ONLY <1>0, <2>1, FrameShape, <1>21, <1>22
      <4>3. f'[p].ip = i  BY ONLY <1>0, <2>1, FrameShape, <1>21, <1>22
      <4>4. f'[p].dp = 0  BY ONLY <1>0, <2>1, FrameShape, <1>21, <1>22
      <4> QED  BY <4>1, <4>2, <4>3, <4>4
    <3> QED  BY <3>1, <3>2, <3>3
  <2>5. PlacedOK(f'[p]) /\ f'[p].pc \notin Outside
    BY <1>1, <1>2, <1>7, <2>4, <1>5 DEF AtLabelFacts, PlacedOK, Outside
  <2>6. FrameOK(f'[p])  BY <2>4, <2>5, FrameForms
  <2>7. ASSUME NEW j \in Inum  PROVE k'.ref[j] + Held(f[p], j) = k.ref[j] + Held(f'[p], j)
    <3>1. Held(f[p], j) = One(g.ip, j) + One(g.dp, j)  BY <1>1, HeldBy
    <3>2. Held(f'[p], j) = One(f'[p].ip, j) + One(f'[p].dp, j)
      BY <2>4, HeldBy
    <3>3. k.ref[j] \in Nat  BY <1>2 DEF AtLabelFacts, Good
    <3>4. One(0, j) = 0 /\ One(g.ip, j) \in Nat /\ One(g.dp, j) \in Nat /\ One(i, j) \in Nat
      BY OneZero, HeldNat
    <3>5. One(f'[p].ip, j) = One(i, j) /\ One(f'[p].dp, j) = One(0, j)
      BY <2>4
    <3>6. k'.ref[j] = k.ref[j] + One(i, j)  BY <2>2
    <3>7. One(g.dp, j) = 0  BY <1>3, OneZero
    <3>8. One(g.ip, j) = 0  BY <1>3, OneZero
    <3> QED  BY ONLY <3>1, <3>2, <3>3, <3>4, <3>5, <3>6, <3>7, <3>8
  <2>8. LocksMove(p, f'[p], k.lock, k'.lock)
    BY <1>1, <1>2, <1>7, <2>3, <2>4, <2>5, <1>5 DEF AtLabelFacts, LocksMove, HasLocked
  <2> QED  BY <1>1, <1>7, <2>1, <2>2, <2>4, <2>5, <2>6, <2>7, <2>8, PlainStep
<1>8. ASSUME k' = k,
             f' = [f EXCEPT ![p] = [Idle EXCEPT !.pc = c.sys, !.call = c]],
             c.sys \in {"read", "write", "fstat"},
             UNCHANGED <<ofile, cwd>>
      PROVE  Sane'
  <2>1. DOMAIN f' = Proc /\ f'[p] = [Idle EXCEPT !.pc = c.sys, !.call = c] /\ \A q \in Proc \ {p} : f'[q] = f[q]
    BY <1>2, <1>8 DEF AtLabelFacts
  <2>2. Good(k', Freed) /\ k'.ref = k.ref /\ SameFiles(k.file, k'.file)
    BY <1>2, <1>8, <1>2 DEF AtLabelFacts, Keeps, Relocks, Grows
  <2>3. \A j \in Inum : k'.lock[j] = k.lock[j]
    BY <1>2, <1>8, <1>2 DEF AtLabelFacts, Keeps, Relocks, Grows
  <2>4. /\ DOMAIN f'[p] = DOMAIN Idle /\ ~f'[p].freeing /\ f'[p].puts = <<>>
        /\ f'[p].pc = c.sys /\ f'[p].ip = 0 /\ f'[p].dp = 0
    <3>1. DOMAIN f'[p] = DOMAIN Idle /\ ~f'[p].freeing  BY <1>0, <1>1, <2>1, Shape DEF Idle
    <3>2. f'[p].puts = <<>>  BY <1>0, <1>1, <2>1, Shape DEF Idle
    <3>3. f'[p].pc = c.sys /\ f'[p].ip = 0 /\ f'[p].dp = 0
      BY <1>0, <1>1, <2>1, Shape DEF Idle
    <3> QED  BY <3>1, <3>2, <3>3
  <2>5. PlacedOK(f'[p]) /\ f'[p].pc \notin Outside
    BY <1>1, <1>2, <1>8, <2>4 DEF AtLabelFacts, PlacedOK, Outside
  <2>6. FrameOK(f'[p])  BY <2>4, <2>5, FrameForms
  <2>7. ASSUME NEW j \in Inum  PROVE k'.ref[j] + Held(f[p], j) = k.ref[j] + Held(f'[p], j)
    <3>1. Held(f[p], j) = One(g.ip, j) + One(g.dp, j)  BY <1>1, HeldBy
    <3>2. Held(f'[p], j) = One(f'[p].ip, j) + One(f'[p].dp, j)
      BY <2>4, HeldBy
    <3>3. k.ref[j] \in Nat  BY <1>2 DEF AtLabelFacts, Good
    <3>4. One(0, j) = 0 /\ One(g.ip, j) \in Nat /\ One(g.dp, j) \in Nat
      BY OneZero, HeldNat
    <3>5. One(f'[p].ip, j) = One(0, j) /\ One(f'[p].dp, j) = One(0, j)
      BY <2>4
    <3>6. k'.ref[j] = k.ref[j]  BY <2>2
    <3>7. One(g.dp, j) = 0  BY <1>3, OneZero
    <3>8. One(g.ip, j) = 0  BY <1>3, OneZero
    <3> QED  BY ONLY <3>1, <3>2, <3>3, <3>4, <3>5, <3>6, <3>7, <3>8
  <2>8. LocksMove(p, f'[p], k.lock, k'.lock)
    BY <1>1, <1>2, <1>8, <2>3, <2>4, <2>5 DEF AtLabelFacts, LocksMove, HasLocked
  <2> QED  BY <1>1, <1>8, <2>1, <2>2, <2>4, <2>5, <2>6, <2>7, <2>8, PlainStep
<1>9. ASSUME k' = k,
             f' = [f EXCEPT ![p] = [Idle EXCEPT !.pc = "exit"]],
             UNCHANGED <<ofile, cwd>>
      PROVE  Sane'
  <2>1. DOMAIN f' = Proc /\ f'[p] = [Idle EXCEPT !.pc = "exit"] /\ \A q \in Proc \ {p} : f'[q] = f[q]
    BY <1>2, <1>9 DEF AtLabelFacts
  <2>2. Good(k', Freed) /\ k'.ref = k.ref /\ SameFiles(k.file, k'.file)
    BY <1>2, <1>9, <1>2 DEF AtLabelFacts, Keeps, Relocks, Grows
  <2>3. \A j \in Inum : k'.lock[j] = k.lock[j]
    BY <1>2, <1>9, <1>2 DEF AtLabelFacts, Keeps, Relocks, Grows
  <2>4. /\ DOMAIN f'[p] = DOMAIN Idle /\ ~f'[p].freeing /\ f'[p].puts = <<>>
        /\ f'[p].pc = "exit" /\ f'[p].ip = 0 /\ f'[p].dp = 0
    <3>1. DOMAIN f'[p] = DOMAIN Idle /\ ~f'[p].freeing  BY <1>0, <1>1, <2>1, Shape DEF Idle
    <3>2. f'[p].puts = <<>>  BY <1>0, <1>1, <2>1, Shape DEF Idle
    <3>3. f'[p].pc = "exit" /\ f'[p].ip = 0 /\ f'[p].dp = 0
      BY <1>0, <1>1, <2>1, Shape DEF Idle
    <3> QED  BY <3>1, <3>2, <3>3
  <2>5. PlacedOK(f'[p]) /\ f'[p].pc \notin Outside
    BY <1>1, <1>2, <1>9, <2>4 DEF AtLabelFacts, PlacedOK, Outside
  <2>6. FrameOK(f'[p])  BY <2>4, <2>5, FrameForms
  <2>7. ASSUME NEW j \in Inum  PROVE k'.ref[j] + Held(f[p], j) = k.ref[j] + Held(f'[p], j)
    <3>1. Held(f[p], j) = One(g.ip, j) + One(g.dp, j)  BY <1>1, HeldBy
    <3>2. Held(f'[p], j) = One(f'[p].ip, j) + One(f'[p].dp, j)
      BY <2>4, HeldBy
    <3>3. k.ref[j] \in Nat  BY <1>2 DEF AtLabelFacts, Good
    <3>4. One(0, j) = 0 /\ One(g.ip, j) \in Nat /\ One(g.dp, j) \in Nat
      BY OneZero, HeldNat
    <3>5. One(f'[p].ip, j) = One(0, j) /\ One(f'[p].dp, j) = One(0, j)
      BY <2>4
    <3>6. k'.ref[j] = k.ref[j]  BY <2>2
    <3>7. One(g.dp, j) = 0  BY <1>3, OneZero
    <3>8. One(g.ip, j) = 0  BY <1>3, OneZero
    <3> QED  BY ONLY <3>1, <3>2, <3>3, <3>4, <3>5, <3>6, <3>7, <3>8
  <2>8. LocksMove(p, f'[p], k.lock, k'.lock)
    BY <1>1, <1>2, <1>9, <2>3, <2>4, <2>5 DEF AtLabelFacts, LocksMove, HasLocked
  <2> QED  BY <1>1, <1>9, <2>1, <2>2, <2>4, <2>5, <2>6, <2>7, <2>8, PlainStep
<1>10. ASSUME NEW n, Step(p, k, Ret(Idle, n))  PROVE Sane'
  <2>0. k' = k /\ f' = [f EXCEPT ![p] = Ret(Idle, n)] /\ UNCHANGED <<ofile, cwd>>  BY <1>10 DEF Step
  <2>1. DOMAIN f' = Proc /\ f'[p] = Ret(Idle, n) /\ \A q \in Proc \ {p} : f'[q] = f[q]
    BY <1>2, <2>0 DEF AtLabelFacts
  <2>2. Returns(Ret(Idle, n)) /\ Ret(Idle, n).puts = <<>>  BY ONLY IdleFacts, RetFrame
  <2>3. /\ Good(k', Freed) /\ k'.ref = k.ref /\ SameFiles(k.file, k'.file)
        /\ \A j \in Inum : k'.lock[j] = IF k.lock[j] = p THEN 0 ELSE k.lock[j]
    BY <1>1, <1>2, <2>0 DEF AtLabelFacts
  <2> QED  BY <1>1, <1>3, <2>0, <2>1, <2>2, <2>3, ReturnSane
<1>11. ASSUME HasFd(p, c), Dup(p, c)  PROVE Sane'
  <2>1. CASE FreeFd(p) = {}
    <3>1. Step(p, k, Ret(Idle, -1))  BY <1>11, <2>1 DEF Dup
    <3> QED  BY ONLY <1>10, <3>1
  <2>2. CASE FreeFd(p) # {}
    <3>1. f[p].puts = <<>> /\ f[p].pc = "idle"  BY <1>1
    <3> QED  BY ONLY Sane, p \in Proc, k'.panic = "", <1>11, <2>2, <3>1, DupSane
  <2> QED  BY <2>1, <2>2
<1>12. ASSUME HasFd(p, c), CloseFd(p, c.fd, Ret(Idle, 0))  PROVE Sane'
  <2> DEFINE r == Ret(Idle, 0)
  <2>1. Returns(r) /\ r.puts = <<>>  BY ONLY IdleFacts, RetFrame
  <2>2. c.fd \in 0 .. NOFILE - 1 /\ ofile[p][c.fd] # 0  BY <1>12 DEF HasFd
  <2>3. f[p].puts = <<>> /\ f[p].pc \in {"idle", "exit"}  BY <1>1
  <2>4. CloseFd(p, c.fd, r)  BY <1>12
  <2> HIDE DEF r
  <2>5. DOMAIN r = DOMAIN Idle /\ ~r.freeing /\ r.puts = <<>> /\ r.ip = 0 /\ r.dp = 0
        /\ r.pc \in {"ret", "exit"}
    BY <2>1 DEF Returns
  <2> QED  BY ONLY Sane, p \in Proc, k'.panic = "", <2>2, <2>3, <2>4, <2>5, CloseFdSane
<1>13. ASSUME PipeCall(p, c)  PROVE Sane'
  <2>1. CASE Cardinality(FreeFd(p)) < 2 \/ Cardinality(FreeFile(k)) < 2 \/ c.bad
    <3>1. Step(p, k, Ret(Idle, -1))  BY <1>13, <2>1, Zenon DEF PipeCall
    <3> QED  BY ONLY <1>10, <3>1
  <2>2. CASE ~(Cardinality(FreeFd(p)) < 2) /\ ~(Cardinality(FreeFile(k)) < 2) /\ ~c.bad
    <3>1. f[p].puts = <<>> /\ f[p].pc = "idle"  BY <1>1
    <3> QED  BY ONLY Sane, p \in Proc, k'.panic = "", <1>13, <2>2, <3>1, PipeCallSane
  <2> QED  BY <2>1, <2>2
<1>14. CASE c.sys \in OnPath /\ Step(p, u, h)
  <2>1. k' = u /\ f' = [f EXCEPT ![p] = h] /\ UNCHANGED <<ofile, cwd>>  BY ONLY <1>14, Zenon DEF Step
  <2> QED  BY ONLY <1>7, <1>14, <2>1, Zenon
<1>15. CASE c.sys \in {"read", "write", "fstat"} /\ Step(p, k, [Idle EXCEPT !.pc = c.sys, !.call = c])
  BY <1>8, <1>15, Zenon DEF Step
<1>16. CASE Step(p, k, [Idle EXCEPT !.pc = "exit"])  BY <1>9, <1>16, Zenon DEF Step
<1> QED  BY ONLY <1>6, <1>10, <1>11, <1>12, <1>13, <1>14, <1>15, <1>16, Zenon
-----------------------------------------------------------------------------
(* iput. *)

\* The references a frame is about to put.
LEMMA PutsForms ==
  ASSUME NEW g, FrameOK(g), g.puts # <<>>
  PROVE  LET a == g.puts[1]
             b == g.puts[2]
         IN /\ Head(g.puts) = a /\ 1 \in DOMAIN g.puts
            /\ \/ g.puts = <<a>> /\ Tail(g.puts) = <<>>
               \/ g.puts = <<a, b>> /\ Tail(g.puts) = <<b>>
<1>1. \A a : Head(<<a>>) = a /\ 1 \in DOMAIN <<a>> /\ Tail(<<a>>) = <<>>  OBVIOUS
<1>2. \A a, b : Head(<<a, b>>) = a /\ 1 \in DOMAIN <<a, b>> /\ Tail(<<a, b>>) = <<b>>  OBVIOUS
<1>3. g.puts = <<g.puts[1]>> \/ g.puts = <<g.puts[1], g.puts[2]>>  BY DEF FrameOK
<1> DEFINE a == g.puts[1]
           b == g.puts[2]
           w == g.puts
<1>4. w = <<a>> \/ w = <<a, b>>  BY <1>3
<1> HIDE DEF a, b, w
<1>5. /\ Head(w) = a /\ 1 \in DOMAIN w
      /\ \/ w = <<a>> /\ Tail(w) = <<>>
         \/ w = <<a, b>> /\ Tail(w) = <<b>>
  BY ONLY <1>1, <1>2, <1>4, Zenon
<1> QED  BY <1>5 DEF a, b, w

\* An inode with a put pending is in the inode table.
LEMMA PutHeld ==
  ASSUME Sane, NEW p \in Proc, f[p].puts # <<>>, f[p].puts[1] \in Inum
  PROVE  k.ref[f[p].puts[1]] > 0
<1> DEFINE i == f[p].puts[1]
           A == Cardinality(OpenFiles(k.file, i))
           B == Cardinality({q \in Proc : f[q].ip = i})
           C == Cardinality({q \in Proc : cwd[q] = i})
           D == Cardinality({q \in Proc : f[q].dp = i})
           E == Pending(f, i)
<1>1. k.ref[i] = A + C + B + D + Cardinality(E)  BY DEF Sane, CountsRight, Uses
<1>2. ASSUME NEW S, S \subseteq Proc  PROVE IsFiniteSet(S) /\ Cardinality(S) \in Nat
  BY <1>2, Numbers, FS_Subset, FS_CardinalityType
<1>3. B \in Nat /\ C \in Nat /\ D \in Nat  BY <1>2
<1>4. A \in Nat  BY OpenFinite
<1>5. \A q \in Proc : FrameOK(f[q])  BY DEF Sane, FrameInv
<1>6. 1 \in DOMAIN f[p].puts  BY <1>5, PutsForms
<1>7. IsFiniteSet(E) /\ <<p, 1>> \in E  BY <1>5, <1>6, PendingFinite
<1>8. Cardinality(E) \in Nat  BY <1>7, FS_CardinalityType
<1> HIDE DEF A, B, C, D, E
<1>9. Cardinality(E) # 0  BY <1>7, FS_EmptySet
<1> QED  BY ONLY <1>1, <1>3, <1>4, <1>8, <1>9

\* The first half of the last put of a file without names: its blocks and its inode
\* on disk are freed under its lock.
LEMMA IputFreeSane ==
  ASSUME Sane, NEW p \in Proc, IputFree(p), k'.panic = ""
  PROVE  Sane'
<1> DEFINE g == f[p]
           i == Head(g.puts)
           t == Itrunc(k, i)
           u == [t EXCEPT !.lock[i] = p]
           ip == [t.mem[i] EXCEPT !.type = "none"]
           h == [g EXCEPT !.freeing = TRUE]
<1>1. g.puts # <<>> /\ ~g.freeing  BY DEF IputFree
<1>2. FrameInv /\ LockInv /\ Good(k, Freed) /\ FileOK(k) /\ FrameOK(g) /\ DOMAIN f = Proc
  BY SaneGood DEF Sane, FrameInv
<1>3. i = g.puts[1]  BY <1>1, <1>2, PutsForms
<1>4. \/ k.lock[i] = 0 /\ k' = Updated(u, i, ip) /\ f' = [f EXCEPT ![p] = h] /\ UNCHANGED <<ofile, cwd>>
      \/ k' = Panic(k, "sched locks")
  BY Zenon DEF IputFree, Step, Unlocked
<1>5. CASE k' = Panic(k, "sched locks")
  <2>1. Panic(k, "sched locks").panic # ""  BY <1>2, PanicKeeps
  <2> QED  BY <1>5, <2>1
<1>6. CASE k.lock[i] = 0 /\ k' = Updated(u, i, ip) /\ f' = [f EXCEPT ![p] = h] /\ UNCHANGED <<ofile, cwd>>
  <2>1. DOMAIN f' = Proc /\ f'[p] = h /\ \A q \in Proc \ {p} : f'[q] = f[q]  BY <1>2, <1>6
  <2>2. /\ DOMAIN h = DOMAIN Idle /\ h.freeing = TRUE /\ h.pc = g.pc /\ h.to = g.to /\ h.ip = g.ip
        /\ h.dp = g.dp
    BY <1>2, Shape DEF FrameOK
  <2>3. h.puts = g.puts  BY <1>2, Shape DEF FrameOK
  <2> HIDE DEF h
  <2>4. Freed \subseteq Freed' /\ (i \in Inum => i \in Freed')
    <3>1. \A q \in Proc : f[q].freeing => f'[q] = f[q]  BY <1>1, <2>1
    <3>2. f'[p].freeing /\ f'[p].puts[1] = i  BY <1>3, <2>1, <2>2, <2>3
    <3> QED  BY <3>1, <3>2 DEF Freed
  <2>5. Good(t, Freed) /\ Keeps(k, t)  BY <1>2, ItruncKeeps
  <2> HIDE DEF t, i
  <2>6. Good(u, Freed) /\ Relocks(t, u, i, p) /\ u.mem = t.mem
    <3>1. Good(u, Freed) /\ Relocks(t, u, i, p)  BY ONLY <2>5, LockKeeps
    <3>2. u.mem = t.mem  BY <2>5, Shape DEF Good, TablesOK
    <3> QED  BY <3>1, <3>2
  <2> HIDE DEF u
  <2>7. Good(u, Freed')  BY <2>4, <2>6 DEF Good, CacheOK
  <2>8. i \in Inum => DOMAIN ip = DOMAIN None  BY <2>5 DEF Good, TablesOK
  <2> HIDE DEF ip
  <2>9. Good(Updated(u, i, ip), Freed') /\ Keeps(u, Updated(u, i, ip))
    BY ONLY <2>4, <2>7, <2>8, UpdatedKeeps
  <2>10. /\ Good(k', Freed') /\ k'.ref = k.ref /\ k'.file = k.file
         /\ \A j \in Inum : k'.lock[j] = IF j = i THEN p ELSE k.lock[j]
    BY ONLY <1>6, <2>5, <2>6, <2>9 DEF Keeps, Relocks
  <2>11. SameFiles(k.file, k'.file)  BY <1>2, <2>10 DEF SameFiles, FileOK, Good, TablesOK
  <2>12. ASSUME NEW j \in Inum  PROVE HasLocked(h, j) <=> HasLocked(g, j) \/ j = i
    BY <1>1, <1>3, <2>2, <2>3 DEF HasLocked
  <2>13. ASSUME NEW j \in Inum  PROVE k.lock[j] = p <=> HasLocked(g, j)  BY <1>2 DEF LockInv
  <2>14. LocksMove(p, f'[p], k.lock, k'.lock)
    BY <1>6, <2>1, <2>10, <2>12, <2>13, Numbers DEF LocksMove
  <2>15. FrameOK(f'[p])
    <3>1. ASSUME g.pc \in {"opened", "unlinked"}, g.ip = i, i \in Inum  PROVE FALSE
      <4>1. HasLocked(g, i)  BY <3>1 DEF HasLocked
      <4> QED  BY <1>6, <2>13, <3>1, <4>1, Numbers
    <3>2. PlacedOK(h)  BY <1>2, <2>2, <2>3 DEF FrameOK, PlacedOK
    <3>3. g.puts = <<>> \/ g.puts = <<g.puts[1]>> \/ g.puts = <<g.puts[1], g.puts[2]>>
      BY <1>2 DEF FrameOK
    <3>4. h.puts = <<>> \/ h.puts = <<h.puts[1]>> \/ h.puts = <<h.puts[1], h.puts[2]>>
      BY <2>3, <3>3, Zenon
    <3>5. h.puts # <<>> /\ (h.pc \in {"opened", "unlinked"} => h.ip # h.puts[1] \/ h.ip \notin Inum)
      BY <1>1, <1>3, <2>2, <2>3, <3>1
    <3>6. FrameOK(h)  BY ONLY <2>2, <3>2, <3>4, <3>5 DEF FrameOK
    <3> QED  BY <2>1, <3>6
  <2>16. f'[p].pc \in Outside => f[p].pc \in Outside  BY <2>1, <2>2
  <2>17. ASSUME NEW j \in Inum  PROVE k'.ref[j] + Held(f[p], j) = k.ref[j] + Held(f'[p], j)
    <3>1. Held(h, j) = Held(g, j)  BY <2>2, <2>3 DEF Held, PutAt
    <3> QED  BY ONLY <2>1, <2>10, <3>1
  <2>18. UNCHANGED <<ofile, cwd>>  BY <1>6
  <2> QED
    BY ONLY Sane, p \in Proc, k'.panic = "", <2>1, <2>10, <2>11, <2>14, <2>15, <2>16, <2>17, <2>18,
            StepSane
<1> QED  BY <1>4, <1>5, <1>6

\* The table entry gives a reference up; if the inode was freed, also its lock, and
\* it is no longer valid.
LEMMA PutKeeps ==
  ASSUME NEW s, NEW freed, Good(s, freed), NEW i, i \in Inum => s.ref[i] > 0
  PROVE  LET t == [s EXCEPT !.ref[i] = @ - 1]
         IN /\ Good(t, freed) /\ t.file = s.file /\ t.lock = s.lock
            /\ \A j \in Inum : t.ref[j] + One(i, j) = s.ref[j]
<1> DEFINE t == [s EXCEPT !.ref[i] = @ - 1]
<1>1. /\ DOMAIN t = DOMAIN s /\ t.file = s.file /\ t.lock = s.lock /\ t.panic = s.panic
      /\ t.ino = s.ino /\ t.mem = s.mem /\ t.valid = s.valid /\ DOMAIN t.ref = Inum
      /\ \A j \in Inum : t.ref[j] = IF j = i THEN s.ref[i] - 1 ELSE s.ref[j]
  BY Shape DEF Good, TablesOK
<1> HIDE DEF t
<1>2. \A j \in Inum : s.ref[j] \in Nat  BY DEF Good
<1>3. \A j \in Inum : t.ref[j] \in Nat /\ t.ref[j] + One(i, j) = s.ref[j]  BY <1>1, <1>2 DEF One
<1>4. \A j \in Inum : t.ref[j] > 0 => s.ref[j] > 0  BY <1>1, <1>2
<1>5. TablesOK(t)  BY <1>1 DEF Good, TablesOK
<1>6. CacheOK(s, freed) => CacheOK(t, freed)  BY <1>1, <1>4 DEF CacheOK
<1>7. /\ Good(t, freed) /\ t.file = s.file /\ t.lock = s.lock
      /\ \A j \in Inum : t.ref[j] + One(i, j) = s.ref[j]
  BY <1>1, <1>3, <1>5, <1>6 DEF Good
<1> QED  BY <1>7 DEF t

\* iput's last put invalidates the entry of the inode it has freed, before it unlocks it.
LEMMA FreedKeeps ==
  ASSUME NEW s, NEW freed, Good(s, freed), NEW i, NEW less, freed \subseteq less \cup {i}
  PROVE  LET t == IputFreed(s, i)
         IN /\ Good(t, less) /\ t.file = s.file /\ t.ref = s.ref
            /\ \A j \in Inum : t.lock[j] = IF j = i THEN 0 ELSE s.lock[j]
<1> DEFINE t == IputFreed(s, i)
<1>1. /\ DOMAIN t = DOMAIN s /\ t.file = s.file /\ t.panic = s.panic /\ t.ref = s.ref
      /\ t.ino = s.ino /\ t.mem = s.mem /\ DOMAIN t.valid = Inum /\ DOMAIN t.lock = Inum
      /\ \A j \in Inum : t.lock[j] = IF j = i THEN 0 ELSE s.lock[j]
      /\ \A j \in Inum : t.valid[j] = IF j = i THEN FALSE ELSE s.valid[j]
  BY Shape DEF Good, TablesOK, IputFreed
<1> HIDE DEF t
<1>2. TablesOK(t)  BY <1>1 DEF Good, TablesOK
<1>3. CacheOK(s, freed) => CacheOK(t, less)  BY <1>1 DEF CacheOK
<1>4. /\ Good(t, less) /\ t.file = s.file /\ t.ref = s.ref
      /\ \A j \in Inum : t.lock[j] = IF j = i THEN 0 ELSE s.lock[j]
  BY <1>1, <1>2, <1>3 DEF Good
<1> QED  BY <1>4 DEF t

\* A put, or the second half of the last one.
LEMMA IputDoneSane ==
  ASSUME Sane, NEW p \in Proc, IputDone(p), k'.panic = ""
  PROVE  Sane'
<1> DEFINE g == f[p]
           i == Head(g.puts)
           s == IF g.freeing THEN IputFreed(k, i) ELSE k
           t == [s EXCEPT !.ref[i] = @ - 1]
           h == [g EXCEPT !.puts = Tail(@), !.freeing = FALSE, !.tx = @ /\ g.pc # "exit"]
<1>1. g.puts # <<>> /\ k' = t /\ f' = [f EXCEPT ![p] = h] /\ UNCHANGED <<ofile, cwd>>
  BY Zenon DEF IputDone, Step
<1>2. FrameInv /\ LockInv /\ Good(k, Freed) /\ FileOK(k) /\ FrameOK(g) /\ DOMAIN f = Proc
  BY SaneGood DEF Sane, FrameInv
<1>3. /\ i = g.puts[1]
      /\ \/ g.puts = <<g.puts[1]>> /\ Tail(g.puts) = <<>>
         \/ g.puts = <<g.puts[1], g.puts[2]>> /\ Tail(g.puts) = <<g.puts[2]>>
  BY <1>1, <1>2, PutsForms
<1>4. i \in Inum => k.ref[i] > 0  BY <1>1, <1>3, PutHeld
<1>5. DOMAIN f' = Proc /\ f'[p] = h /\ \A q \in Proc \ {p} : f'[q] = f[q]  BY <1>1, <1>2
<1>6. /\ DOMAIN h = DOMAIN Idle /\ h.freeing = FALSE /\ h.pc = g.pc /\ h.to = g.to /\ h.ip = g.ip
      /\ h.dp = g.dp
  BY <1>2, Shape DEF FrameOK
<1>7. h.puts = Tail(g.puts)  BY <1>2, Shape DEF FrameOK
<1> HIDE DEF h, i
<1>8. ASSUME NEW j \in Inum  PROVE k.lock[j] = p <=> HasLocked(g, j)  BY <1>2 DEF LockInv
<1>9. g.pc \notin {"new", "entry", "unused"}  BY <1>1, <1>2 DEF FrameOK, PlacedOK
<1>10. g.freeing => (g.pc \in {"opened", "unlinked"} => g.ip # i \/ g.ip \notin Inum)
  BY <1>2, <1>3 DEF FrameOK
<1>11. Freed \subseteq Freed' \cup {i} /\ (~g.freeing => Freed \subseteq Freed')
  <2>1. \A q \in Proc : q # p => f'[q] = f[q]  BY <1>5
  <2>2. g.freeing => g.puts[1] = i  BY <1>3
  <2> QED  BY <2>1, <2>2 DEF Freed
<1>12. /\ Good(s, Freed') /\ s.file = k.file /\ s.ref = k.ref
       /\ \A j \in Inum : s.lock[j] = IF j = i /\ g.freeing THEN 0 ELSE k.lock[j]
  <2>1. CASE g.freeing
    <3>1. LET u == IputFreed(k, i)
          IN /\ Good(u, Freed') /\ u.file = k.file /\ u.ref = k.ref
             /\ \A j \in Inum : u.lock[j] = IF j = i THEN 0 ELSE k.lock[j]
      <4> DEFINE less == Freed'
      <4>1. Freed \subseteq less \cup {i} /\ Good(k, Freed)  BY <1>2, <1>11
      <4> HIDE DEF less
      <4>2. LET u == IputFreed(k, i)
            IN /\ Good(u, less) /\ u.file = k.file /\ u.ref = k.ref
               /\ \A j \in Inum : u.lock[j] = IF j = i THEN 0 ELSE k.lock[j]
        BY ONLY <4>1, FreedKeeps
      <4> QED  BY ONLY <4>2 DEF less
    <3>2. s = IputFreed(k, i)  BY <2>1
    <3> HIDE DEF s
    <3> QED  BY ONLY <2>1, <3>1, <3>2
  <2>2. CASE ~g.freeing
    <3>1. s = k  BY <2>2
    <3>2. Good(k, Freed')  BY <1>2, <1>11, <2>2 DEF Good, CacheOK
    <3> QED  BY <2>2, <3>1, <3>2
  <2> QED  BY <2>1, <2>2
<1> HIDE DEF s
<1>13. /\ Good(t, Freed') /\ t.file = s.file /\ t.lock = s.lock
       /\ \A j \in Inum : t.ref[j] + One(i, j) = s.ref[j]
  <2> DEFINE less == Freed'
  <2>1. Good(s, less)  BY <1>12
  <2> HIDE DEF less
  <2>2. i \in Inum => s.ref[i] > 0  BY <1>4, <1>12
  <2>3. LET v == [s EXCEPT !.ref[i] = @ - 1]
        IN /\ Good(v, less) /\ v.file = s.file /\ v.lock = s.lock
           /\ \A j \in Inum : v.ref[j] + One(i, j) = s.ref[j]
    BY ONLY <2>1, <2>2, PutKeeps, Zenon
  <2> QED  BY ONLY <2>3 DEF less
<1> HIDE DEF t
<1>14. /\ Good(k', Freed') /\ k'.file = k.file
       /\ \A j \in Inum : k'.ref[j] + One(i, j) = k.ref[j]
       /\ \A j \in Inum : k'.lock[j] = IF j = i /\ g.freeing THEN 0 ELSE k.lock[j]
  BY ONLY <1>1, <1>12, <1>13
<1>15. SameFiles(k.file, k'.file)  BY <1>2, <1>14 DEF SameFiles, FileOK, Good, TablesOK
<1>16. ASSUME NEW j \in Inum  PROVE HasLocked(h, j) <=> HasLocked(g, j) /\ ~(g.freeing /\ j = i)
  BY <1>3, <1>6, <1>9, <1>10 DEF HasLocked
<1>17. LocksMove(p, f'[p], k.lock, k'.lock)
  <2> SUFFICES ASSUME NEW j \in Inum
               PROVE  /\ HasLocked(h, j) => k'.lock[j] = p /\ k.lock[j] \in {0, p}
                      /\ ~HasLocked(h, j) => k'.lock[j] = IF k.lock[j] = p THEN 0 ELSE k.lock[j]
    BY <1>5 DEF LocksMove
  <2>1. g.freeing /\ j = i => HasLocked(g, j)  BY <1>3 DEF HasLocked
  <2> QED  BY <1>8, <1>14, <1>16, <2>1
<1>18. FrameOK(f'[p])
  <2>1. PlacedOK(h)  BY <1>2, <1>6, <1>9 DEF FrameOK, PlacedOK
  <2>2. h.puts = <<>> \/ h.puts = <<g.puts[2]>>  BY <1>3, <1>7
  <2> QED  BY <1>5, <1>6, <2>1, <2>2, FrameForms
<1>19. f'[p].pc \in Outside => f[p].pc \in Outside  BY <1>5, <1>6
<1>20. ASSUME NEW j \in Inum  PROVE k'.ref[j] + Held(f[p], j) = k.ref[j] + Held(f'[p], j)
  <2>1. Held(g, j) = One(i, j) + Held(h, j)
    <3>1. One(g.ip, j) \in Nat /\ One(g.dp, j) \in Nat /\ One(i, j) \in Nat /\ One(g.puts[2], j) \in Nat
      BY HeldNat
    <3>2. CASE g.puts = <<g.puts[1]>> /\ Tail(g.puts) = <<>>
      <4>1. g.puts = <<i>> /\ h.puts = <<>>  BY <1>3, <1>7, <3>2
      <4>2. Held(g, j) = One(g.ip, j) + One(g.dp, j) + One(i, j)
        BY ONLY <4>1, j \in Inum, HeldOne, Zenon
      <4>3. Held(h, j) = One(h.ip, j) + One(h.dp, j)  BY <4>1, HeldBy
      <4> QED  BY ONLY <1>6, <3>1, <4>2, <4>3
    <3>3. CASE g.puts = <<g.puts[1], g.puts[2]>> /\ Tail(g.puts) = <<g.puts[2]>>
      <4> DEFINE b == g.puts[2]
      <4>1. g.puts = <<i, b>> /\ h.puts = <<b>>  BY <1>3, <1>7, <3>3
      <4> HIDE DEF b
      <4>2. Held(g, j) = One(g.ip, j) + One(g.dp, j) + One(i, j) + One(b, j)
        BY ONLY <4>1, j \in Inum, HeldTwo
      <4>3. Held(h, j) = One(h.ip, j) + One(h.dp, j) + One(b, j)
        BY ONLY <4>1, j \in Inum, HeldOne, Zenon
      <4>4. One(b, j) \in Nat  BY HeldNat
      <4> QED  BY ONLY <1>6, <3>1, <4>2, <4>3, <4>4
    <3> QED  BY <1>3, <3>2, <3>3
  <2>2. k'.ref[j] + One(i, j) = k.ref[j] /\ k'.ref[j] \in Nat  BY <1>14 DEF Good
  <2>3. One(i, j) \in Nat /\ Held(h, j) \in Nat  BY HeldNat
  <2> QED  BY ONLY <1>5, <2>1, <2>2, <2>3
<1>21. UNCHANGED <<ofile, cwd>>  BY <1>1
<1> QED
  BY ONLY Sane, p \in Proc, k'.panic = "", <1>5, <1>14, <1>15, <1>17, <1>18, <1>19, <1>20, <1>21,
          StepSane
-----------------------------------------------------------------------------
(* fork. *)

\* The descriptors of p that refer to file x.
Row(of, p, x) == {d \in DOMAIN of[p] : of[p][d] = x}

\* A row of descriptors that is copied to a process without descriptors.
LEMMA DescriptorsCopied ==
  ASSUME NEW of \in Rows, NEW p \in Proc, NEW q \in Proc, NEW x \in 1 .. NFILE,
         \A d \in 0 .. NOFILE - 1 : of[q][d] = 0
  PROVE  LET of2 == [of EXCEPT ![q] = of[p]]
             D == Row(of, p, x)
         IN /\ of2 \in Rows
            /\ Cardinality(D) \in Nat /\ (D = {} => Cardinality(D) = 0)
            /\ Cardinality(Descriptors(of2, x)) = Cardinality(Descriptors(of, x)) + Cardinality(D)
<1> DEFINE of2 == [of EXCEPT ![q] = of[p]]
           N == 0 .. NOFILE - 1
           D == Row(of, p, x)
           S == Descriptors(of, x)
           T == Descriptors(of2, x)
<1>1. of2 \in Rows  BY DEF Rows
<1>2. D = {d \in N : of[p][d] = x}  BY DEF Rows, Row
<1>3. x # 0  BY ONLY x \in 1 .. NFILE, Numbers
<1>4. IsFiniteSet(N)  BY ONLY Numbers, FS_Interval
<1>5. IsFiniteSet(D)  BY ONLY <1>2, <1>4, FS_Subset
<1>6. IsFiniteSet(S)
  <2>1. IsFiniteSet(Proc \X N)  BY ONLY <1>4, Numbers, FS_Product
  <2>2. S \subseteq Proc \X N  BY DEF Descriptors
  <2> QED  BY ONLY <2>1, <2>2, FS_Subset
<1>7. IsFiniteSet({q}) /\ Cardinality({q}) = 1  BY FS_Singleton
<1>8. IsFiniteSet({q} \X D) /\ Cardinality({q} \X D) = 1 * Cardinality(D)
  BY ONLY <1>5, <1>7, FS_Product
<1>9. \A r \in Proc : of2[r] = IF r = q THEN of[p] ELSE of[r]  BY DEF Rows
<1>10. T = S \cup ({q} \X D)
  <2> HIDE DEF of2, N, D
  <2>1. ASSUME NEW r \in Proc, NEW d \in N
        PROVE  <<r, d>> \in T <=> <<r, d>> \in S \/ <<r, d>> \in {q} \X D
    <3>1. <<r, d>> \in T <=> of2[r][d] = x  BY DEF Descriptors, N
    <3>2. <<r, d>> \in S <=> of[r][d] = x  BY DEF Descriptors, N
    <3>3. <<r, d>> \in {q} \X D <=> r = q /\ of[p][d] = x  BY <1>2
    <3>4. of[q][d] = 0  BY DEF N
    <3> QED  BY <1>3, <1>9, <3>1, <3>2, <3>3, <3>4
  <2>2. T \subseteq Proc \X N /\ S \subseteq Proc \X N  BY DEF Descriptors, N
  <2>3. {q} \X D \subseteq Proc \X N  BY <1>2
  <2> HIDE DEF S, T
  <2> QED  BY <2>1, <2>2, <2>3
<1>11. S \cap ({q} \X D) = {}
  <2> SUFFICES ASSUME NEW y \in {q} \X D, y \in S  PROVE FALSE  OBVIOUS
  <2>1. y[1] = q /\ y[2] \in N  BY <1>2
  <2>2. of[y[1]][y[2]] = x  BY DEF Descriptors
  <2> QED  BY <1>3, <2>1, <2>2
<1>12. Cardinality(D) \in Nat /\ Cardinality(S) \in Nat  BY ONLY <1>5, <1>6, FS_CardinalityType
<1>13. Cardinality({}) = 0  BY ONLY FS_EmptySet
<1> HIDE DEF of2, D, S, T
<1>14. Cardinality(S \cup ({q} \X D)) = Cardinality(S) + Cardinality({q} \X D) - Cardinality(S \cap ({q} \X D))
  BY ONLY <1>6, <1>8, FS_Union
<1>15. Cardinality(T) = Cardinality(S) + Cardinality(D)
  <2>1. Cardinality({q} \X D) = Cardinality(D)  BY ONLY <1>8, <1>12
  <2>2. Cardinality(S \cap ({q} \X D)) = 0  BY ONLY <1>11, <1>13
  <2> QED  BY ONLY <1>10, <1>12, <1>14, <2>1, <2>2
<1>16. /\ of2 \in Rows /\ Cardinality(D) \in Nat /\ (D = {} => Cardinality(D) = 0)
       /\ Cardinality(T) = Cardinality(S) + Cardinality(D)
  BY ONLY <1>1, <1>12, <1>13, <1>15
<1> QED  BY ONLY <1>16 DEF of2, D, S, T

\* fork gives the child the files and the directory of its parent.
LEMMA ForkSane ==
  ASSUME Sane, NEW p \in Proc, NEW q \in Proc, Fork(p, q), k'.panic = ""
  PROVE  Sane'
<1> DEFINE Refs(x) == Cardinality({d \in DOMAIN ofile[p] : ofile[p][d] = x})
           file2 == [x \in DOMAIN k.file |-> [k.file[x] EXCEPT !.ref = @ + Refs(x)]]
           s == [k EXCEPT !.file = file2, !.killed = @ \ {q}]
           i == cwd[p]
           of2 == [ofile EXCEPT ![q] = ofile[p]]
<1>1. /\ k' = Idup(s, i) /\ ofile' = of2
      /\ cwd' = [cwd EXCEPT ![q] = i] /\ f' = [f EXCEPT ![q] = Idle] /\ f[q].pc = "unused"
  BY Zenon DEF Fork
<1>2. FrameInv /\ LockInv /\ Good(k, Freed) /\ FileOK(k) /\ CountsRight
  BY SaneGood DEF Sane
<1>3. /\ FrameOK(f[q]) /\ cwd[q] = 0 /\ (\A d \in 0 .. NOFILE - 1 : ofile[q][d] = 0) /\ DOMAIN f = Proc
      /\ DOMAIN cwd = Proc /\ ofile \in Rows
  BY <1>1, <1>2 DEF FrameInv, Rows
<1>4. f[q].puts = <<>> /\ f[q].ip = 0 /\ f[q].dp = 0 /\ ~f[q].freeing
  <2>1. PlacedOK(f[q])  BY <1>3 DEF FrameOK
  <2>2. f[q].puts = <<>> /\ f[q].ip = 0 /\ f[q].dp = 0  BY <1>1, <2>1 DEF PlacedOK
  <2> QED  BY <1>3, <2>2 DEF FrameOK
<1>5. DOMAIN f' = Proc /\ f'[q] = Idle /\ \A r \in Proc \ {q} : f'[r] = f[r]  BY <1>1, <1>3
<1>6. DOMAIN cwd' = Proc /\ cwd'[q] = i /\ \A r \in Proc \ {q} : cwd'[r] = cwd[r]  BY <1>1, <1>3
<1>7. /\ DOMAIN s = DOMAIN k /\ s.ref = k.ref /\ s.lock = k.lock /\ s.panic = k.panic
      /\ s.ino = k.ino /\ s.mem = k.mem /\ s.valid = k.valid /\ s.file = file2
  BY <1>2, Shape DEF Good, TablesOK
<1>8. DOMAIN k.file = 1 .. NFILE /\ \A x \in 1 .. NFILE : DOMAIN k.file[x] = DOMAIN NoFile
  BY <1>2 DEF Good, TablesOK, FileOK
<1>9. ASSUME NEW x \in 1 .. NFILE
      PROVE  /\ DOMAIN file2[x] = DOMAIN NoFile /\ file2[x].ref = k.file[x].ref + Refs(x)
             /\ file2[x].type = k.file[x].type /\ file2[x].ip = k.file[x].ip
  BY <1>8, Shape
<1>10. DOMAIN file2 = 1 .. NFILE  BY <1>8
<1> HIDE DEF s, file2, i
<1>11. Good(s, Freed)  BY <1>2, <1>7, <1>10 DEF Good, TablesOK, CacheOK
<1>12. Good(Idup(s, i), Freed) /\ Grows(s, Idup(s, i), i)
  <2>1. i \in Inum => s.ref[i] > 0  BY <1>7, CwdHeld DEF i
  <2> QED  BY ONLY <1>11, <2>1, IdupGrows
<1>13. /\ Good(k', Freed) /\ k'.file = file2 /\ k'.lock = k.lock
       /\ \A j \in Inum : k'.ref[j] = k.ref[j] + One(i, j)
  BY ONLY <1>1, <1>7, <1>12, k'.panic = "" DEF Grows
<1>14. ASSUME NEW x \in 1 .. NFILE
       PROVE  /\ of2 \in Rows
              /\ Refs(x) \in Nat /\ (k.file[x].ref = 0 => Refs(x) = 0)
              /\ Cardinality(Descriptors(of2, x)) = Cardinality(Descriptors(ofile, x)) + Refs(x)
  <2> DEFINE D == Row(ofile, p, x)
  <2>1. /\ of2 \in Rows /\ Cardinality(D) \in Nat /\ (D = {} => Cardinality(D) = 0)
        /\ Cardinality(Descriptors(of2, x)) = Cardinality(Descriptors(ofile, x)) + Cardinality(D)
    BY ONLY <1>3, p \in Proc, q \in Proc, x \in 1 .. NFILE, DescriptorsCopied
  <2>2. k.file[x].ref = 0 => D = {}
    <3>1. DOMAIN ofile[p] = 0 .. NOFILE - 1  BY <1>3 DEF Rows
    <3> QED  BY <3>1, FdReferred DEF Row
  <2>3. Refs(x) = Cardinality(D)  BY DEF Row
  <2> QED  BY <2>1, <2>2, <2>3
<1> HIDE DEF Refs
<1>15. FileOK(k')
  <2> SUFFICES ASSUME NEW x \in 1 .. NFILE
               PROVE  /\ DOMAIN k'.file[x] = DOMAIN NoFile
                      /\ k'.file[x].ref = 0 <=> k'.file[x].type = "none"
                      /\ k'.file[x].type \in {"none", "inode", "dev", "pipe"}
    BY DEF FileOK
  <2>1. k.file[x].ref \in Nat  BY RefNat
  <2>2. Refs(x) \in Nat /\ (k.file[x].ref = 0 => Refs(x) = 0)  BY <1>14
  <2>3. k.file[x].ref + Refs(x) = 0 <=> k.file[x].ref = 0  BY ONLY <2>1, <2>2
  <2>4. /\ DOMAIN k'.file[x] = DOMAIN NoFile /\ k'.file[x].ref = k.file[x].ref + Refs(x)
        /\ k'.file[x].type = k.file[x].type
    BY <1>9, <1>13
  <2>5. k.file[x].ref = 0 <=> k.file[x].type = "none"  BY <1>2 DEF FileOK
  <2>6. k.file[x].type \in {"none", "inode", "dev", "pipe"}  BY <1>2 DEF FileOK
  <2> QED  BY <2>3, <2>4, <2>5, <2>6
<1>16. ASSUME NEW x \in 1 .. NFILE
       PROVE  k'.file[x].ref = Cardinality(Descriptors(ofile', x))
  <2>1. k'.file[x].ref = k.file[x].ref + Refs(x)  BY <1>9, <1>13
  <2>2. k.file[x].ref = Cardinality(Descriptors(ofile, x))  BY <1>2 DEF CountsRight
  <2>3. Cardinality(Descriptors(of2, x)) = Cardinality(Descriptors(ofile, x)) + Refs(x)  BY <1>14
  <2> HIDE DEF of2
  <2> QED  BY ONLY <1>1, <2>1, <2>2, <2>3
<1>17. ofile' \in Rows
  <2>1. of2 \in Rows  BY <1>3 DEF Rows
  <2> QED  BY <1>1, <2>1
<1>18. FrameOK(Idle) /\ Idle.pc \notin Outside /\ ~Idle.freeing
       /\ \A j \in Inum : Held(Idle, j) = 0 /\ ~HasLocked(Idle, j)
  <2>1. PlacedOK(Idle) /\ Idle.pc \notin Outside  BY IdleFacts DEF PlacedOK, Outside
  <2>2. FrameOK(Idle)  BY <2>1, IdleFacts, FrameForms
  <2>3. ASSUME NEW j \in Inum  PROVE Held(Idle, j) = 0
    <3>1. Held(Idle, j) = One(Idle.ip, j) + One(Idle.dp, j)  BY IdleFacts, HeldBy
    <3>2. One(Idle.ip, j) = 0 /\ One(Idle.dp, j) = 0  BY IdleFacts, OneZero
    <3> QED  BY ONLY <3>1, <3>2
  <2>4. \A j \in Inum : ~HasLocked(Idle, j)  BY IdleFacts DEF HasLocked
  <2> QED  BY <2>1, <2>2, <2>3, <2>4, IdleFacts
<1>19. FrameInv'
  <2>1. \A r \in Proc : FrameOK(f'[r])  BY <1>2, <1>5, <1>18 DEF FrameInv
  <2>2. ASSUME NEW r \in Proc, f'[r].pc \in Outside
        PROVE  cwd'[r] = 0 /\ \A d \in 0 .. NOFILE - 1 : ofile'[r][d] = 0
    <3>1. r # q  BY <1>5, <1>18, <2>2
    <3>2. f[r].pc \in Outside  BY <1>5, <2>2, <3>1
    <3>3. ofile'[r] = ofile[r] /\ cwd'[r] = cwd[r]  BY <1>1, <1>3, <1>6, <3>1 DEF Rows
    <3> QED  BY <1>2, <3>2, <3>3 DEF FrameInv, Outside
  <2> QED  BY <1>5, <1>6, <1>17, <2>1, <2>2 DEF FrameInv, Outside, Rows
<1>20. Good(k', Freed')
  <2>1. Freed' = Freed  BY <1>2, <1>4, <1>5, <1>18, FreedSame
  <2> QED  BY <1>13, <2>1
<1>21. LocksMove(q, f'[q], k.lock, k'.lock)
  <2>1. \A j \in Inum : k.lock[j] # q  BY <1>1, <1>2, <1>4 DEF LockInv, HasLocked
  <2> QED  BY <1>5, <1>13, <1>18, <2>1 DEF LocksMove
<1>22. ASSUME NEW j \in Inum
       PROVE  k'.ref[j] + Held(f[q], j) + One(cwd[q], j) + Cardinality(OpenFiles(k.file, j))
              = k.ref[j] + Held(f'[q], j) + One(cwd'[q], j) + Cardinality(OpenFiles(k'.file, j))
  <2>1. OpenFiles(k'.file, j) = OpenFiles(k.file, j)  BY <1>9, <1>13 DEF OpenFiles
  <2>2. Held(f[q], j) = One(f[q].ip, j) + One(f[q].dp, j)  BY <1>4, HeldBy
  <2>3. One(f[q].ip, j) = 0 /\ One(f[q].dp, j) = 0 /\ One(cwd[q], j) = 0  BY <1>3, <1>4, OneZero
  <2>4. Held(f'[q], j) = 0  BY <1>5, <1>18
  <2>5. k'.ref[j] = k.ref[j] + One(i, j) /\ cwd'[q] = i  BY <1>6, <1>13
  <2>6. k.ref[j] \in Nat  BY <1>2 DEF Good
  <2>7. One(i, j) \in Nat  BY HeldNat
  <2>8. Cardinality(OpenFiles(k.file, j)) \in Nat  BY OpenFinite
  <2> QED  BY ONLY <2>1, <2>2, <2>3, <2>4, <2>5, <2>6, <2>7, <2>8
<1>23. \A r \in Proc \ {q} : f'[r] = f[r] /\ cwd'[r] = cwd[r]  BY <1>5, <1>6
<1> QED
  BY ONLY Sane, q \in Proc, k'.panic = "", <1>15, <1>16, <1>19, <1>20, <1>21, <1>22, <1>23, Accounts
-----------------------------------------------------------------------------
(* A kernel that has just booted. *)

\* Its tables are empty but for the root, the directory of process p.
Fresh(p) ==
  /\ DOMAIN k = DOMAIN Blank /\ DOMAIN k.ref = Inum /\ DOMAIN k.ino = Inum
  /\ \A i \in Inum : k.ref[i] = One(ROOTINO, i) /\ DOMAIN k.ino[i] = DOMAIN None
  /\ k.valid = [i \in Inum |-> FALSE] /\ k.lock = [i \in Inum |-> 0] /\ k.mem = [i \in Inum |-> None]
  /\ k.file = [x \in 1 .. NFILE |-> NoFile]
  /\ ofile = [q \in Proc |-> [d \in 0 .. NOFILE - 1 |-> 0]]
  /\ cwd = [q \in Proc |-> IF q = p THEN ROOTINO ELSE 0]
  /\ f = [q \in Proc |-> IF q = p THEN Idle ELSE [Idle EXCEPT !.pc = "unused"]]

\* Such a state is sane.
LEMMA FreshSane ==
  ASSUME NEW p \in Proc, Fresh(p)
  PROVE  Sane
<1> DEFINE h == [Idle EXCEPT !.pc = "unused"]
<1>1. /\ DOMAIN h = DOMAIN Idle /\ ~h.freeing /\ h.puts = <<>> /\ h.ip = 0 /\ h.dp = 0 /\ h.pc = "unused"
  BY DEF Idle
<1>2. DOMAIN f = Proc /\ \A q \in Proc : f[q] = IF q = p THEN Idle ELSE h  BY DEF Fresh
<1> HIDE DEF h
<1>3. FrameOK(Idle) /\ FrameOK(h)
  <2>1. PlacedOK(Idle) /\ PlacedOK(h)  BY <1>1, IdleFacts DEF PlacedOK
  <2>2. FrameOK(Idle)  BY <2>1, IdleFacts, FrameForms
  <2>3. FrameOK(h)  BY <1>1, <2>1, FrameForms
  <2> QED  BY <2>2, <2>3
<1>4. ASSUME NEW q \in Proc
      PROVE  /\ FrameOK(f[q]) /\ f[q].ip = 0 /\ f[q].dp = 0 /\ f[q].puts = <<>> /\ ~f[q].freeing
             /\ f[q].pc \in {"idle", "unused"} /\ (f[q].pc = "unused" => q # p)
  BY <1>1, <1>2, <1>3, IdleFacts
<1>5. TablesOK(k)  BY DEF Fresh, TablesOK
<1>6. NoFile.ref = 0 /\ NoFile.type = "none"  BY DEF NoFile
<1>7. FileOK(k)  BY <1>6 DEF FileOK, Fresh
<1>8. /\ DOMAIN cwd = Proc /\ \A q \in Proc : cwd[q] = IF q = p THEN ROOTINO ELSE 0
      /\ \A q \in Proc, d \in 0 .. NOFILE - 1 : ofile[q][d] = 0
  BY DEF Fresh
<1>9. FrameInv
  <2>1. 0 \in 0 .. NFILE  BY Numbers
  <2>2. ofile \in [Proc -> [0 .. NOFILE - 1 -> 0 .. NFILE]]  BY <2>1 DEF Fresh
  <2> QED  BY <1>2, <1>4, <1>8, <2>2 DEF FrameInv
<1>10. LockInv  BY <1>4, Numbers DEF LockInv, HasLocked, Fresh
<1>11. CacheOK(k, Freed)  BY DEF CacheOK, Fresh
<1>12. ASSUME NEW x \in 1 .. NFILE  PROVE k.file[x].ref = Cardinality(Descriptors(ofile, x))
  <2>1. x # 0  BY ONLY x \in 1 .. NFILE, Numbers
  <2>2. Descriptors(ofile, x) = {}  BY <1>8, <2>1 DEF Descriptors
  <2>3. k.file[x].ref = 0  BY <1>6 DEF Fresh
  <2> QED  BY <2>2, <2>3, FS_EmptySet
<1>13. ASSUME NEW i \in Inum  PROVE k.ref[i] = Uses(i)
  <2>0. i # 0  BY Numbers
  <2>1. OpenFiles(k.file, i) = {}  BY <1>6 DEF OpenFiles, Fresh
  <2>2. {q \in Proc : f[q].ip = i} = {} /\ {q \in Proc : f[q].dp = i} = {}  BY <1>4, <2>0
  <2>3. Pending(f, i) = {}
    <3>1. \A y : y \notin Pending(f, i)
      <4> SUFFICES ASSUME NEW y \in Pending(f, i)  PROVE FALSE  OBVIOUS
      <4>1. PICK q \in Proc : y \in {q} \X DOMAIN f[q].puts  BY DEF Pending
      <4> QED  BY <1>4, <4>1
    <3> QED  BY <3>1
  <2>4. Cardinality({q \in Proc : cwd[q] = i}) = One(ROOTINO, i)
    <3>1. CASE i = ROOTINO
      <4>1. {q \in Proc : cwd[q] = i} = {p}  BY <1>8, <2>0, <3>1
      <4> QED  BY <3>1, <4>1, FS_Singleton DEF One
    <3>2. CASE i # ROOTINO
      <4>1. {q \in Proc : cwd[q] = i} = {}  BY <1>8, <2>0, <3>2
      <4> QED  BY <3>2, <4>1, FS_EmptySet DEF One
    <3> QED  BY <3>1, <3>2
  <2>5. Cardinality({}) = 0  BY FS_EmptySet
  <2>6. k.ref[i] = One(ROOTINO, i) /\ One(ROOTINO, i) \in Nat  BY HeldNat DEF Fresh
  <2>7. Uses(i) = 0 + One(ROOTINO, i) + 0 + 0 + 0
    BY <2>1, <2>2, <2>3, <2>4, <2>5 DEF Uses
  <2> QED  BY ONLY <2>6, <2>7
<1> QED  BY <1>5, <1>7, <1>9, <1>10, <1>11, <1>12, <1>13 DEF Sane, CountsRight

\* The same of the state after a power failure.
LEMMA FreshLater ==
  \A p \in Proc : Fresh(p)' => Sane'
<1>1. \A p \in Proc : Fresh(p) => Sane  BY FreshSane
<1>2. (\A p \in Proc : Fresh(p) => Sane)'  BY <1>1, PTL
<1> QED  BY <1>2

\* The fields of empty tables.
LEMMA BlankFields ==
  /\ DOMAIN Blank.ref = Inum /\ (\A i \in Inum : Blank.ref[i] = 0)
  /\ Blank.valid = [i \in Inum |-> FALSE] /\ Blank.lock = [i \in Inum |-> 0]
  /\ Blank.mem = [i \in Inum |-> None] /\ Blank.file = [x \in 1 .. NFILE |-> NoFile]
BY DEF Blank

\* The system starts on the disk that mkfs made.
LEMMA BootSane ==
  ASSUME Init
  PROVE  Sane
<1> DEFINE p == CHOOSE q \in Proc : TRUE
           ino == Mkfs.ino
           s == [Blank EXCEPT !.ino = ino, !.used = Mkfs.used, !.blk = Mkfs.blk, !.ref[ROOTINO] = 1]
<1>1. p \in Proc  BY Numbers
<1>2. DOMAIN ino = Inum /\ \A i \in Inum : DOMAIN ino[i] = DOMAIN None  BY MkfsAssumption
<1>3. /\ k = s /\ ofile = [q \in Proc |-> [d \in 0 .. NOFILE - 1 |-> 0]]
      /\ cwd = [q \in Proc |-> IF q = p THEN ROOTINO ELSE 0]
      /\ f = [q \in Proc |-> IF q = p THEN Idle ELSE [Idle EXCEPT !.pc = "unused"]]
  BY DEF Init, Booted
<1> HIDE DEF p, ino
<1>4. /\ DOMAIN s = DOMAIN Blank /\ s.ino = ino /\ s.ref = [Blank.ref EXCEPT ![ROOTINO] = 1]
      /\ s.valid = Blank.valid /\ s.lock = Blank.lock /\ s.mem = Blank.mem /\ s.file = Blank.file
  BY Shape
<1> HIDE DEF s
<1>5. DOMAIN s.ref = Inum /\ \A i \in Inum : s.ref[i] = IF i = ROOTINO THEN 1 ELSE 0
  BY ONLY <1>4, BlankFields
<1>6. \A i \in Inum : s.ref[i] = One(ROOTINO, i)  BY <1>5 DEF One
<1>7. Fresh(p)  BY ONLY <1>2, <1>3, <1>4, <1>5, <1>6, BlankFields DEF Fresh
<1> QED  BY ONLY <1>1, <1>7, FreshSane

\* A power failure: the kernel boots again from what is on disk.
LEMMA CrashSane ==
  ASSUME Sane, NEW p \in Proc, Crash(p)
  PROVE  Sane'
<1> DEFINE lost == {i \in Inum : k.ino[i].type # "none" /\ k.ino[i].nlink = 0}
<1>1. /\ k' = [Blank EXCEPT !.ino = k.ino, !.used = k.used, !.blk = k.blk, !.ref[ROOTINO] = 1,
                            !.lost = lost]
      /\ ofile' = [q \in Proc |-> [d \in 0 .. NOFILE - 1 |-> 0]]
      /\ cwd' = [q \in Proc |-> IF q = p THEN ROOTINO ELSE 0]
      /\ f' = [q \in Proc |-> IF q = p THEN Idle ELSE [Idle EXCEPT !.pc = "unused"]]
  BY DEF Crash
<1>2. DOMAIN k.ino = Inum /\ \A i \in Inum : DOMAIN k.ino[i] = DOMAIN None  BY DEF Sane, TablesOK
<1> HIDE DEF lost
<1>3. /\ DOMAIN k' = DOMAIN Blank /\ DOMAIN k'.ref = Inum /\ k'.ino = k.ino
      /\ \A i \in Inum : k'.ref[i] = One(ROOTINO, i)
      /\ k'.valid = Blank.valid /\ k'.lock = Blank.lock /\ k'.mem = Blank.mem /\ k'.file = Blank.file
  <2>1. /\ DOMAIN k' = DOMAIN Blank /\ k'.ino = k.ino /\ k'.ref = [Blank.ref EXCEPT ![ROOTINO] = 1]
        /\ k'.valid = Blank.valid /\ k'.lock = Blank.lock /\ k'.mem = Blank.mem /\ k'.file = Blank.file
    BY <1>1, Shape
  <2>2. DOMAIN k'.ref = Inum /\ \A i \in Inum : k'.ref[i] = IF i = ROOTINO THEN 1 ELSE 0
    BY ONLY <2>1, BlankFields
  <2> QED  BY <2>1, <2>2 DEF One
<1>4. Fresh(p)'  BY ONLY <1>1, <1>2, <1>3, BlankFields DEF Fresh
<1> QED  BY ONLY p \in Proc, <1>4, FreshLater
-----------------------------------------------------------------------------
(* The invariant. *)

\* Every step of the kernel, a fork, a call and a power failure keeps the tables sane
\* unless it panics.
LEMMA NextSane ==
  ASSUME IInv, Next, k'.panic = ""
  PROVE  Sane'
<1> PICK p \in Proc :
      \/ Inside(p) \/ Return(p) \/ Gone(p)
      \/ \E c : Enter(p, c)
      \/ \E q \in Proc : Fork(p, q)
      \/ Crash(p)
  BY Zenon DEF Next, UserCall
<1>1. ASSUME Up  PROVE Sane  BY <1>1 DEF IInv, NoPanic, Up
<1>2. CASE Namex(p)
  <2>1. Up  BY <1>2 DEF Namex, At
  <2> QED  BY ONLY <1>1, <1>2, <2>1, p \in Proc, k'.panic = "", NamexSane
<1>3. CASE IputFree(p)
  <2>1. Up  BY <1>3 DEF IputFree, At
  <2> QED  BY ONLY <1>1, <1>3, <2>1, p \in Proc, k'.panic = "", IputFreeSane
<1>4. CASE IputDone(p)
  <2>1. Up  BY <1>4 DEF IputDone, At
  <2> QED  BY ONLY <1>1, <1>4, <2>1, p \in Proc, k'.panic = "", IputDoneSane
<1>5. CASE OpenExisting(p)
  <2>1. Up  BY <1>5 DEF OpenExisting, At
  <2> QED  BY ONLY <1>1, <1>5, <2>1, p \in Proc, k'.panic = "", OpenExistingSane
<1>6. CASE Opened(p)
  <2>1. Up  BY <1>6 DEF Opened, At
  <2> QED  BY ONLY <1>1, <1>6, <2>1, p \in Proc, k'.panic = "", OpenedSane
<1>7. CASE Create(p)
  <2>1. Up  BY <1>7 DEF Create, At
  <2> QED  BY ONLY <1>1, <1>7, <2>1, p \in Proc, k'.panic = "", CreateSane
<1>8. CASE CreateExists(p)
  <2>1. Up  BY <1>8 DEF CreateExists, At
  <2> QED  BY ONLY <1>1, <1>8, <2>1, p \in Proc, k'.panic = "", CreateExistsSane
<1>9. CASE CreateNew(p)
  <2>1. Up  BY <1>9 DEF CreateNew, At
  <2> QED  BY ONLY <1>1, <1>9, <2>1, p \in Proc, k'.panic = "", CreateNewSane
<1>10. CASE Link(p)
  <2>1. Up  BY <1>10 DEF Link, At
  <2> QED  BY ONLY <1>1, <1>10, <2>1, p \in Proc, k'.panic = "", LinkSane
<1>11. CASE LinkName(p)
  <2>1. Up  BY <1>11 DEF LinkName, At
  <2> QED  BY ONLY <1>1, <1>11, <2>1, p \in Proc, k'.panic = "", LinkNameSane
<1>12. CASE LinkBad(p)
  <2>1. Up  BY <1>12 DEF LinkBad, At
  <2> QED  BY ONLY <1>1, <1>12, <2>1, p \in Proc, k'.panic = "", LinkBadSane
<1>13. CASE Unlink(p)
  <2>1. Up  BY <1>13 DEF Unlink, At
  <2> QED  BY ONLY <1>1, <1>13, <2>1, p \in Proc, k'.panic = "", UnlinkSane
<1>14. CASE UnlinkEntry(p)
  <2>1. Up  BY <1>14 DEF UnlinkEntry, At
  <2> QED  BY ONLY <1>1, <1>14, <2>1, p \in Proc, k'.panic = "", UnlinkEntrySane
<1>15. CASE Unlinked(p)
  <2>1. Up  BY <1>15 DEF Unlinked, At
  <2> QED  BY ONLY <1>1, <1>15, <2>1, p \in Proc, k'.panic = "", UnlinkedSane
<1>16. CASE Chdir(p)
  <2>1. Up  BY <1>16 DEF Chdir, At
  <2> QED  BY ONLY <1>1, <1>16, <2>1, p \in Proc, k'.panic = "", ChdirSane
<1>17. CASE ReadProgram(p)
  <2>1. Up  BY <1>17 DEF ReadProgram, At
  <2> QED  BY ONLY <1>1, <1>17, <2>1, p \in Proc, k'.panic = "", ReadProgramSane
<1>18. CASE Fileclose(p)
  <2>1. Up  BY <1>18 DEF Fileclose, At
  <2> QED  BY ONLY <1>1, <1>18, <2>1, p \in Proc, k'.panic = "", FilecloseSane
<1>19. CASE Read(p)
  <2>1. Up  BY <1>19 DEF Read, At
  <2> QED  BY ONLY <1>1, <1>19, <2>1, p \in Proc, k'.panic = "", ReadSane
<1>20. CASE Write(p)
  <2>1. Up  BY <1>20 DEF Write, At
  <2> QED  BY ONLY <1>1, <1>20, <2>1, p \in Proc, k'.panic = "", WriteSane
<1>21. CASE Fstat(p)
  <2>1. Up  BY <1>21 DEF Fstat, At
  <2> QED  BY ONLY <1>1, <1>21, <2>1, p \in Proc, k'.panic = "", FstatSane
<1>22. CASE Exit(p)
  <2>1. Up  BY <1>22 DEF Exit, At
  <2> QED  BY ONLY <1>1, <1>22, <2>1, p \in Proc, k'.panic = "", ExitSane
<1>23. CASE Return(p)
  <2>1. Up  BY <1>23 DEF Return, At
  <2> QED  BY ONLY <1>1, <1>23, <2>1, p \in Proc, k'.panic = "", ReturnToUserSane
<1>24. CASE Gone(p)
  <2>1. Up  BY <1>24 DEF Gone, At
  <2> QED  BY ONLY <1>1, <1>24, <2>1, p \in Proc, k'.panic = "", GoneSane
<1>25. ASSUME NEW c, Enter(p, c)  PROVE Sane'
  <2>1. Up  BY <1>25 DEF Enter, At
  <2> QED  BY ONLY <1>1, <1>25, <2>1, p \in Proc, k'.panic = "", EnterSane
<1>26. ASSUME NEW q \in Proc, Fork(p, q)  PROVE Sane'
  <2>1. Up  BY <1>26 DEF Fork, At
  <2> QED  BY ONLY <1>1, <1>26, <2>1, p \in Proc, k'.panic = "", ForkSane
<1>27. CASE Crash(p)
  <2>1. Up  BY <1>27 DEF Crash
  <2> QED  BY ONLY <1>1, <1>27, <2>1, p \in Proc, CrashSane
<1> QED  BY Zenon, <1>2, <1>3, <1>4, <1>5, <1>6, <1>7, <1>8, <1>9, <1>10, <1>11, <1>12, <1>13, <1>14, <1>15, <1>16, <1>17, <1>18, <1>19, <1>20, <1>21, <1>22, <1>23, <1>24, <1>25, <1>26, <1>27 DEF Inside

\* The inductive invariant: until a panic, the tables, the frames, the counts and the
\* locks agree.
THEOREM SaneUntilPanic == Spec => []IInv
<1>1. Init => IInv  BY BootSane DEF IInv
<1>2. IInv /\ [Next]_<<vars, left>> => IInv'
  <2> SUFFICES ASSUME IInv, [Next]_<<vars, left>>, NoPanic'  PROVE Sane'  BY DEF IInv
  <2>1. k'.panic = ""  BY DEF NoPanic
  <2>2. CASE Next  BY <2>1, <2>2, NextSane
  <2>3. CASE UNCHANGED <<vars, left>>
    <3>1. Sane  BY <2>1, <2>3 DEF IInv, NoPanic, vars
    <3>2. UNCHANGED <<k, ofile, cwd, f>>  BY <2>3 DEF vars
    <3> QED
      BY <3>1, <3>2 DEF Sane, FrameInv, CountsRight, Uses, LockInv, Freed
  <2> QED  BY <2>2, <2>3
<1> QED  BY <1>1, <1>2, PTL DEF Spec

\* Reference counts are exact until a panic: file.ref is the number of descriptors that
\* refer to the file, ref of an inode the number of open files, current directories and
\* calls in progress that do (filedup, fileclose, iget, idup, iput), in every
\* interleaving of calls, forks, exits and power failures.
THEOREM ReferenceCountsExact == Spec => [](NoPanic => CountsRight)
<1>1. IInv => (NoPanic => CountsRight)  BY DEF IInv, Sane
<1> QED  BY <1>1, SaneUntilPanic, PTL

\* Until a panic, an inode in the table that nobody has locked is on disk as it is in
\* memory: every change is written through by iupdate before iunlock, and iput leaves
\* no valid entry behind for an inode it has freed (ilock, iupdate, iput).
THEOREM InodeTableFresh == Spec => [](NoPanic => CacheRight)
<1>1. IInv => (NoPanic => CacheRight)
  <2> SUFFICES ASSUME Sane, NEW i \in Inum, k.ref[i] > 0, k.valid[i], k.lock[i] = 0
               PROVE  k.mem[i] = k.ino[i]
    BY DEF IInv, CacheRight
  <2>1. i \notin Freed
    <3> SUFFICES ASSUME NEW p \in Proc, f[p].freeing, f[p].puts[1] = i  PROVE FALSE  BY DEF Freed
    <3>1. HasLocked(f[p], i)  BY DEF HasLocked
    <3>2. k.lock[i] = p  BY <3>1 DEF Sane, LockInv
    <3> QED  BY <3>2, Numbers
  <2> QED  BY <2>1 DEF Sane, CacheOK
<1> QED  BY <1>1, SaneUntilPanic, PTL
=============================================================================
