---------------------------- MODULE BcacheProofs ----------------------------
EXTENDS Bcache, FiniteSetTheorems, TLAPS

USE BcacheAssumption

\* The users of a buffer are finitely many, so refcnt can count them.
LEMMA UsersFinite ==
  ASSUME NEW b \in Buf
  PROVE  IsFiniteSet(UsersOf(b)) /\ Cardinality(UsersOf(b)) \in Nat
<1>1. UsersOf(b) \subseteq User  BY DEF UsersOf
<1> QED  BY <1>1, FS_Subset, FS_CardinalityType

\* A buffer with a user has a positive refcnt.
LEMMA RefPositive ==
  ASSUME IInv, NEW u \in User, pc[u] \in Using
  PROVE  bp[u] \in Buf /\ refcnt[bp[u]] >= 1
<1>1. bp[u] \in Buf  BY DEF IInv, LockInv
<1>2. u \in UsersOf(bp[u])  BY DEF UsersOf
<1>3. Cardinality(UsersOf(bp[u])) # 0  BY <1>1, <1>2, UsersFinite, FS_EmptySet
<1> QED  BY <1>1, <1>3, UsersFinite DEF IInv, RefInv

\* bget recycles at refcnt 0: nobody uses such a buffer and no pin holds it.
LEMMA UnusedIsFree ==
  ASSUME IInv, NEW b \in Buf, refcnt[b] = 0
  PROVE  /\ b \notin pinned
         /\ UsersOf(b) = {}
         /\ \A v \in User : pc[v] \in Using => bp[v] # b
<1>1. Cardinality(UsersOf(b)) = 0 /\ b \notin pinned
  BY UsersFinite DEF IInv, RefInv
<1>2. UsersOf(b) = {}  BY <1>1, UsersFinite, FS_EmptySet
<1> QED  BY <1>1, <1>2 DEF UsersOf

\* binit establishes the inductive invariant.
LEMMA InitIInv == Init => IInv
<1> SUFFICES ASSUME Init PROVE IInv  OBVIOUS
<1>1. \A b \in Buf : UsersOf(b) = {}  BY DEF Init, UsersOf, Using, Locked
<1>2. NBUF \in Nat  BY FS_CardinalityType DEF NBUF
<1>3. TypeOK  BY <1>2 DEF Init, TypeOK, Using, Locked
<1>4. LockInv  BY DEF Init, LockInv, LockExclusion, NoStrandedSleeper, Using, Locked
<1>5. RefInv
  <2>1. \A b \in Buf : Cardinality(UsersOf(b)) = 0  BY <1>1, FS_EmptySet
  <2> QED  BY <2>1 DEF Init, RefInv
<1>6. MapInv  BY DEF Init, MapInv, UniqueBuffer, Using, Locked
<1>7. DataInv  BY DEF Init, DataInv
<1> QED  BY <1>3, <1>4, <1>5, <1>6, <1>7 DEF IInv

\* A step that moves no user into or out of its bracket, and touches no count,
\* keeps refcnt exact.
LEMMA SameUsers ==
  ASSUME IInv, UNCHANGED <<bp, refcnt, pinned>>,
         \A v \in User : pc'[v] \in Using <=> pc[v] \in Using
  PROVE  RefInv'
<1>1. \A b \in Buf : UsersOf(b)' = UsersOf(b)  BY DEF UsersOf
<1> QED  BY <1>1 DEF IInv, RefInv

\* bget adds one user to the buffer it returns.
LEMMA OneUserMore ==
  ASSUME IInv, NEW u \in User, NEW b \in Buf, pc[u] = "idle",
         pc' = [pc EXCEPT ![u] = "acquire"], bp' = [bp EXCEPT ![u] = b]
  PROVE  /\ Cardinality(UsersOf(b)') = Cardinality(UsersOf(b)) + 1
         /\ \A a \in Buf \ {b} : UsersOf(a)' = UsersOf(a)
<1> USE DEF Using, Locked
<1>1. UsersOf(b)' = UsersOf(b) \cup {u}  BY DEF IInv, TypeOK, UsersOf
<1>2. u \notin UsersOf(b)  BY DEF UsersOf
<1>3. \A a \in Buf \ {b} : UsersOf(a)' = UsersOf(a)  BY DEF IInv, TypeOK, UsersOf
<1> QED  BY <1>1, <1>2, <1>3, UsersFinite, FS_AddElement

\* brelse removes one user from its buffer.
LEMMA OneUserLess ==
  ASSUME IInv, NEW u \in User, pc[u] \in Using, NEW b \in Buf, bp[u] = b,
         pc' = [pc EXCEPT ![u] = "idle"], bp' = [bp EXCEPT ![u] = NoBuf]
  PROVE  /\ Cardinality(UsersOf(b)') = Cardinality(UsersOf(b)) - 1
         /\ \A a \in Buf \ {b} : UsersOf(a)' = UsersOf(a)
<1> USE DEF Using, Locked
<1>1. UsersOf(b)' = UsersOf(b) \ {u}  BY DEF IInv, TypeOK, UsersOf
<1>2. u \in UsersOf(b)  BY DEF UsersOf
<1>3. \A a \in Buf \ {b} : UsersOf(a)' = UsersOf(a)  BY DEF IInv, TypeOK, UsersOf
<1> QED  BY <1>1, <1>2, <1>3, UsersFinite, FS_RemoveElement

\* Every step of every user preserves the inductive invariant.
LEMMA StepIInv == IInv /\ [Next]_vars => IInv'
<1> SUFFICES ASSUME IInv, [Next]_vars PROVE IInv'  OBVIOUS
<1> USE DEF Locked, Using
<1>1. ASSUME NEW u \in User, NEW k \in Block, BgetHit(u, k)  PROVE IInv'
  <2> USE <1>1 DEF BgetHit
  <2>1. TypeOK'  BY RefPositive DEF IInv, TypeOK
  <2>2. LockInv'  BY DEF IInv, TypeOK, LockInv, LockExclusion, NoStrandedSleeper
  <2>3. RefInv'
    <3>1. PICK b \in Buf : /\ refcnt' = [refcnt EXCEPT ![b] = @ + 1]
                           /\ bp' = [bp EXCEPT ![u] = b]
      OBVIOUS
    <3>2. /\ Cardinality(UsersOf(b)') = Cardinality(UsersOf(b)) + 1
          /\ \A a \in Buf \ {b} : UsersOf(a)' = UsersOf(a)
      BY <3>1, OneUserMore
    <3> QED  BY <3>1, <3>2, UsersFinite DEF IInv, TypeOK, RefInv
  <2>4. MapInv'  BY DEF IInv, TypeOK, LockInv, LockExclusion, MapInv, UniqueBuffer
  <2>5. DataInv'  BY DEF IInv, TypeOK, LockInv, LockExclusion, MapInv, UniqueBuffer, DataInv
  <2> QED  BY <2>1, <2>2, <2>3, <2>4, <2>5 DEF IInv
<1>2. ASSUME NEW u \in User, NEW k \in Block, BgetMiss(u, k)  PROVE IInv'
  <2> PICK b \in Buf : /\ refcnt[b] = 0
                       /\ block' = [block EXCEPT ![b] = k]
                       /\ valid' = [valid EXCEPT ![b] = FALSE]
                       /\ refcnt' = [refcnt EXCEPT ![b] = 1]
                       /\ bp' = [bp EXCEPT ![u] = b]
    BY <1>2 DEF BgetMiss, LeastRecent
  <2>0. b \notin pinned /\ UsersOf(b) = {} /\ \A v \in User : pc[v] \in Using => bp[v] # b
    BY UnusedIsFree
  <2>1. TypeOK'  BY <1>2 DEF BgetMiss, IInv, TypeOK
  <2>2. LockInv'  BY <1>2, <2>0 DEF BgetMiss, IInv, TypeOK, LockInv, LockExclusion, NoStrandedSleeper
  <2>3. RefInv'
    <3>1. Cardinality(UsersOf(b)) = 0  BY <2>0, FS_EmptySet
    <3>2. /\ Cardinality(UsersOf(b)') = Cardinality(UsersOf(b)) + 1
          /\ \A a \in Buf \ {b} : UsersOf(a)' = UsersOf(a)
      BY <1>2, OneUserMore DEF BgetMiss
    <3> QED  BY <1>2, <2>0, <3>1, <3>2 DEF BgetMiss, IInv, TypeOK, RefInv
  <2>4. MapInv'
    BY <1>2, <2>0 DEF BgetMiss, Cached, IInv, TypeOK, LockInv, LockExclusion, MapInv, UniqueBuffer
  <2>5. DataInv'
    <3>1. \A a \in Buf : a # b => valid'[a] = valid[a] /\ block'[a] = block[a]
      BY DEF IInv, TypeOK
    <3>2. valid'[b] = FALSE /\ block'[b] = k  BY DEF IInv, TypeOK
    <3>3. disk[k] = latest[k]  BY <1>2 DEF BgetMiss, Cached, IInv, DataInv
    <3>4. \A j \in Block : (\A a \in Buf : block'[a] = j => ~valid'[a]) => disk[j] = latest[j]
      <4> SUFFICES ASSUME NEW j \in Block, \A a \in Buf : block'[a] = j => ~valid'[a]
                   PROVE  disk[j] = latest[j]
        OBVIOUS
      <4>1. CASE valid[b] /\ block[b] = j
        BY <2>0, <4>1 DEF IInv, DataInv
      <4>2. CASE ~(valid[b] /\ block[b] = j)
        BY <3>1, <4>2 DEF IInv, DataInv
      <4> QED  BY <4>1, <4>2
    <3> QED  BY <1>2, <2>0, <3>1, <3>2, <3>4 DEF BgetMiss, IInv, TypeOK, LockInv, DataInv
  <2> QED  BY <2>1, <2>2, <2>3, <2>4, <2>5 DEF IInv
<1>3. ASSUME NEW u \in User, AcquireSleep(u)  PROVE IInv'
  <2> USE <1>3 DEF AcquireSleep, LockFree
  <2>1. TypeOK'  BY RefPositive DEF IInv, TypeOK
  <2>2. LockInv'  BY DEF IInv, TypeOK, LockInv, LockExclusion, NoStrandedSleeper
  <2>3. RefInv'  BY SameUsers DEF IInv, TypeOK
  <2>4. MapInv'  BY DEF IInv, TypeOK, LockInv, LockExclusion, MapInv, UniqueBuffer
  <2>5. DataInv'  BY DEF IInv, TypeOK, LockInv, LockExclusion, MapInv, UniqueBuffer, DataInv
  <2> QED  BY <2>1, <2>2, <2>3, <2>4, <2>5 DEF IInv
<1>4. ASSUME NEW u \in User, SleepOnLock(u)  PROVE IInv'
  <2> USE <1>4 DEF SleepOnLock, LockFree
  <2>1. TypeOK'  BY RefPositive DEF IInv, TypeOK
  <2>2. LockInv'  BY DEF IInv, TypeOK, LockInv, LockExclusion, NoStrandedSleeper
  <2>3. RefInv'  BY SameUsers DEF IInv, TypeOK
  <2>4. MapInv'  BY DEF IInv, TypeOK, LockInv, LockExclusion, MapInv, UniqueBuffer
  <2>5. DataInv'  BY DEF IInv, TypeOK, LockInv, LockExclusion, MapInv, UniqueBuffer, DataInv
  <2> QED  BY <2>1, <2>2, <2>3, <2>4, <2>5 DEF IInv
<1>5. ASSUME NEW u \in User, ReadDisk(u)  PROVE IInv'
  <2> USE <1>5 DEF ReadDisk
  <2>1. TypeOK'  BY RefPositive DEF IInv, TypeOK, MapInv
  <2>2. LockInv'  BY DEF IInv, TypeOK, LockInv, LockExclusion, NoStrandedSleeper
  <2>3. RefInv'  BY SameUsers DEF IInv, TypeOK
  <2>4. MapInv'  BY DEF IInv, TypeOK, LockInv, LockExclusion, MapInv, UniqueBuffer
  <2>5. DataInv'
    <3>1. bp[u] \in Buf /\ block[bp[u]] \in Block /\ holder[bp[u]] = u
      BY RefPositive DEF IInv, LockInv, LockExclusion, MapInv
    <3>2. disk[block[bp[u]]] = latest[block[bp[u]]]
      BY <3>1 DEF IInv, MapInv, UniqueBuffer, DataInv
    <3> QED  BY <3>1, <3>2 DEF IInv, TypeOK, LockInv, MapInv, UniqueBuffer, DataInv
  <2> QED  BY <2>1, <2>2, <2>3, <2>4, <2>5 DEF IInv
<1>6. ASSUME NEW u \in User, NEW d \in Data, Modify(u, d)  PROVE IInv'
  <2> USE <1>6 DEF Modify
  <2>1. TypeOK'  BY RefPositive DEF IInv, TypeOK
  <2>2. LockInv'  BY DEF IInv, TypeOK, LockInv, LockExclusion, NoStrandedSleeper
  <2>3. RefInv'  BY SameUsers DEF IInv, TypeOK
  <2>4. MapInv'  BY DEF IInv, TypeOK, LockInv, LockExclusion, MapInv, UniqueBuffer
  <2>5. DataInv'  BY DEF IInv, TypeOK, LockInv, LockExclusion, MapInv, UniqueBuffer, DataInv
  <2> QED  BY <2>1, <2>2, <2>3, <2>4, <2>5 DEF IInv
<1>7. ASSUME NEW u \in User, LogWrite(u)  PROVE IInv'
  <2> USE <1>7 DEF LogWrite
  <2>1. TypeOK'  BY RefPositive DEF IInv, TypeOK
  <2>2. LockInv'  BY DEF IInv, TypeOK, LockInv, LockExclusion, NoStrandedSleeper
  <2>3. RefInv'
    <3>1. \A b \in Buf : UsersOf(b)' = UsersOf(b)  BY DEF UsersOf, IInv, TypeOK
    <3> QED  BY <3>1, RefPositive, UsersFinite DEF IInv, TypeOK, RefInv
  <2>4. MapInv'  BY DEF IInv, TypeOK, LockInv, LockExclusion, MapInv, UniqueBuffer
  <2>5. DataInv'  BY DEF IInv, TypeOK, LockInv, LockExclusion, MapInv, UniqueBuffer, DataInv
  <2> QED  BY <2>1, <2>2, <2>3, <2>4, <2>5 DEF IInv
<1>8. ASSUME NEW u \in User, Bwrite(u)  PROVE IInv'
  <2> USE <1>8 DEF Bwrite
  <2>1. TypeOK'  BY RefPositive DEF IInv, TypeOK
  <2>2. LockInv'  BY DEF IInv, TypeOK, LockInv, LockExclusion, NoStrandedSleeper
  <2>3. RefInv'  BY SameUsers DEF IInv, TypeOK
  <2>4. MapInv'  BY DEF IInv, TypeOK, LockInv, LockExclusion, MapInv, UniqueBuffer
  <2>5. DataInv'  BY DEF IInv, TypeOK, LockInv, LockExclusion, MapInv, UniqueBuffer, DataInv
  <2> QED  BY <2>1, <2>2, <2>3, <2>4, <2>5 DEF IInv
<1>9. ASSUME NEW u \in User, Bunpin(u)  PROVE IInv'
  <2> USE <1>9 DEF Bunpin, Dropped
  <2>1. TypeOK'  BY RefPositive DEF IInv, TypeOK
  <2>2. LockInv'  BY DEF IInv, TypeOK, LockInv, LockExclusion, NoStrandedSleeper
  <2>3. RefInv'
    <3>1. \A b \in Buf : UsersOf(b)' = UsersOf(b)  BY DEF UsersOf, IInv, TypeOK
    <3>2. bp[u] \in pinned  BY DEF IInv, MapInv
    <3> QED  BY <3>1, <3>2, RefPositive, UsersFinite DEF IInv, TypeOK, RefInv
  <2>4. MapInv'  BY DEF IInv, TypeOK, LockInv, LockExclusion, MapInv, UniqueBuffer
  <2>5. DataInv'  BY DEF IInv, TypeOK, LockInv, LockExclusion, MapInv, UniqueBuffer, DataInv
  <2> QED  BY <2>1, <2>2, <2>3, <2>4, <2>5 DEF IInv
<1>10. ASSUME NEW u \in User, ReleaseSleep(u)  PROVE IInv'
  <2> USE <1>10 DEF ReleaseSleep, WakeSleepers
  <2>1. TypeOK'  BY RefPositive DEF IInv, TypeOK
  <2>2. LockInv'  BY DEF IInv, TypeOK, LockInv, LockExclusion, NoStrandedSleeper
  <2>3. RefInv'  BY SameUsers DEF IInv, TypeOK
  <2>4. MapInv'  BY DEF IInv, TypeOK, LockInv, LockExclusion, MapInv, UniqueBuffer
  <2>5. DataInv'  BY DEF IInv, TypeOK, LockInv, LockExclusion, MapInv, UniqueBuffer, DataInv
  <2> QED  BY <2>1, <2>2, <2>3, <2>4, <2>5 DEF IInv
<1>11. ASSUME NEW u \in User, Unref(u)  PROVE IInv'
  <2> USE <1>11 DEF Unref, Dropped, MoveToFront
  <2>0. PICK b \in Buf : bp[u] = b /\ refcnt[b] >= 1  BY RefPositive
  <2>1. TypeOK'
    <3>1. rank' \in [Buf -> 1..NBUF]
      <4>1. NBUF \in Nat  BY FS_CardinalityType DEF NBUF
      <4>2. rank \in [Buf -> 1..NBUF]  BY DEF IInv, TypeOK
      <4>3. \A a \in Buf : rank[a] < rank[b] => rank[a] + 1 \in 1..NBUF  BY <4>1, <4>2
      <4>4. NBUF >= 1  BY <4>1, <4>2
      <4> QED  BY <2>0, <4>1, <4>2, <4>3, <4>4
    <3>2. \A a, c \in Buf : rank'[a] = rank'[c] => a = c
      <4>1. CASE rank' = rank  BY <4>1 DEF IInv, TypeOK
      <4>2. CASE rank' = MoveToFront(b)
        <5>1. \A a \in Buf : rank[a] \in Nat  BY DEF IInv, TypeOK
        <5>2. \A a, c \in Buf : rank[a] = rank[c] => a = c  BY DEF IInv, TypeOK
        <5>3. \A a \in Buf : rank[a] >= 1  BY DEF IInv, TypeOK
        <5> QED  BY <4>2, <5>1, <5>2, <5>3
      <4> QED  BY <2>0, <4>1, <4>2
    <3> QED  BY <2>0, <3>1, <3>2 DEF IInv, TypeOK
  <2>2. LockInv'  BY DEF IInv, TypeOK, LockInv, LockExclusion, NoStrandedSleeper
  <2>3. RefInv'
    <3>1. /\ Cardinality(UsersOf(b)') = Cardinality(UsersOf(b)) - 1
          /\ \A a \in Buf \ {b} : UsersOf(a)' = UsersOf(a)
      BY <2>0, OneUserLess
    <3> QED  BY <2>0, <3>1, UsersFinite DEF IInv, TypeOK, RefInv
  <2>4. MapInv'  BY DEF IInv, TypeOK, LockInv, LockExclusion, MapInv, UniqueBuffer
  <2>5. DataInv'  BY DEF IInv, TypeOK, LockInv, LockExclusion, MapInv, UniqueBuffer, DataInv
  <2> QED  BY <2>1, <2>2, <2>3, <2>4, <2>5 DEF IInv
<1>12. CASE UNCHANGED vars
  BY <1>12 DEF vars, IInv, TypeOK, LockInv, LockExclusion, NoStrandedSleeper,
     RefInv, UsersOf, MapInv, UniqueBuffer, DataInv
<1> QED  BY <1>1, <1>2, <1>3, <1>4, <1>5, <1>6, <1>7, <1>8, <1>9, <1>10, <1>11, <1>12
     DEF Next, Step

\* The inductive invariant holds in every reachable state.
THEOREM IInvHolds == Spec => []IInv
BY InitIInv, StepIInv, PTL DEF Spec

\* Type correctness: refcnt never goes below 0 in bunpin or brelse, and the LRU
\* list stays a permutation of the buffers.
THEOREM TypeCorrect == Spec => []TypeOK
<1>1. IInv => TypeOK  BY DEF IInv
<1> QED  BY IInvHolds, <1>1, PTL

\* However bgets interleave, a disk block never has two buffers.
THEOREM OneBufferPerBlock == Spec => []UniqueBuffer
<1>1. IInv => UniqueBuffer  BY DEF IInv, MapInv
<1> QED  BY IInvHolds, <1>1, PTL

\* The sleep-lock gives a buffer to one user at a time.
THEOREM OneUserPerLockedBuffer == Spec => []LockExclusion
<1>1. IInv => LockExclusion  BY DEF IInv, LockInv
<1> QED  BY IInvHolds, <1>1, PTL

\* bread returns the last contents given to the block, across evictions.
THEOREM BreadReturnsLatest == Spec => []ReadsLatest
<1>1. IInv => ReadsLatest
  <2> SUFFICES ASSUME IInv, NEW u \in User, pc[u] \in Locked \ {"read"}
               PROVE  data[bp[u]] = latest[block[bp[u]]]
    BY DEF ReadsLatest
  <2>1. bp[u] \in Buf  BY RefPositive DEF Using
  <2> QED  BY <2>1 DEF IInv, MapInv, DataInv
<1> QED  BY IInvHolds, <1>1, PTL

\* No process stays asleep on a sleep-lock that is free.
THEOREM NobodySleepsOnFreeLock == Spec => []NoStrandedSleeper
<1>1. IInv => NoStrandedSleeper  BY DEF IInv, LockInv
<1> QED  BY IInvHolds, <1>1, PTL

\* No step gives a buffer that has a user to another block.
THEOREM UsedBufferKept == Spec => NeverRecycledInUse
<1>1. IInv /\ [Next]_vars
        => [\A u \in User : pc[u] \in Using => block'[bp[u]] = block[bp[u]]]_vars
  <2> SUFFICES ASSUME IInv, Next, NEW u \in User, pc[u] \in Using
               PROVE  block'[bp[u]] = block[bp[u]]
    OBVIOUS
  <2>1. ASSUME NEW v \in User, NEW k \in Block, BgetMiss(v, k)
        PROVE  block'[bp[u]] = block[bp[u]]
    <3>1. PICK b \in Buf : refcnt[b] = 0 /\ block' = [block EXCEPT ![b] = k]
      BY <2>1 DEF BgetMiss, LeastRecent
    <3>2. bp[u] # b  BY <3>1, UnusedIsFree
    <3> QED  BY <3>1, <3>2, RefPositive DEF IInv, TypeOK
  <2>2. ASSUME NEW v \in User, NEW k \in Block, BgetHit(v, k)
        PROVE  block'[bp[u]] = block[bp[u]]
    BY <2>2 DEF BgetHit
  <2>3. ASSUME NEW v \in User, NEW d \in Data, Modify(v, d)
        PROVE  block'[bp[u]] = block[bp[u]]
    BY <2>3 DEF Modify
  <2>4. ASSUME NEW v \in User, Step(v)
        PROVE  block'[bp[u]] = block[bp[u]]
    BY <2>4 DEF Step, AcquireSleep, SleepOnLock, ReadDisk, LogWrite, Bwrite, Bunpin,
       ReleaseSleep, Unref
  <2> QED  BY <2>1, <2>2, <2>3, <2>4 DEF Next
<1> QED  BY IInvHolds, <1>1, PTL DEF Spec, NeverRecycledInUse
-----------------------------------------------------------------------------
(* The panic of bget. *)

\* The pins are finitely many.
LEMMA PinnedFinite ==
  ASSUME IInv
  PROVE  IsFiniteSet(pinned) /\ Cardinality(pinned) \in Nat
BY FS_Subset, FS_CardinalityType DEF IInv, TypeOK

\* log_write pins one buffer more below its limit, bunpin one less.
LEMMA StepPinInv == IInv /\ PinInv /\ [Next]_vars => PinInv'
<1> SUFFICES ASSUME IInv, PinInv, [Next]_vars PROVE PinInv'  OBVIOUS
<1> USE DEF PinInv
<1>1. ASSUME NEW u \in User, LogWrite(u)  PROVE PinInv'
  <2>1. CASE UNCHANGED pinned  BY <2>1
  <2>2. CASE /\ bp[u] \notin pinned /\ Cardinality(pinned) < MaxPinned
             /\ pinned' = pinned \cup {bp[u]}
    <3>1. Cardinality(pinned \cup {bp[u]}) = Cardinality(pinned) + 1
      BY <2>2, PinnedFinite, FS_AddElement
    <3> QED  BY <2>2, <3>1, PinnedFinite
  <2> QED  BY <1>1, <2>1, <2>2 DEF LogWrite
<1>2. ASSUME NEW u \in User, Bunpin(u)  PROVE PinInv'
  <2>1. pinned' \in SUBSET pinned  BY <1>2 DEF Bunpin
  <2>2. Cardinality(pinned') <= Cardinality(pinned) /\ Cardinality(pinned') \in Nat
    BY <2>1, PinnedFinite, FS_Subset, FS_CardinalityType
  <2> QED  BY <2>2, PinnedFinite
<1>3. CASE UNCHANGED pinned  BY <1>3
<1>4. ASSUME NEW u \in User, Step(u)  PROVE PinInv'
  BY <1>1, <1>2, <1>3, <1>4 DEF Step, AcquireSleep, SleepOnLock, ReadDisk, Bwrite,
     ReleaseSleep, Unref
<1>5. ASSUME NEW u \in User, NEW k \in Block, BgetHit(u, k) \/ BgetMiss(u, k)  PROVE PinInv'
  BY <1>3, <1>5 DEF BgetHit, BgetMiss
<1>6. ASSUME NEW u \in User, NEW d \in Data, Modify(u, d)  PROVE PinInv'
  BY <1>3, <1>6 DEF Modify
<1> QED  BY <1>3, <1>4, <1>5, <1>6 DEF Next, vars

\* A buffer that is neither pinned nor used has refcnt 0; the users other than an
\* idle one and the pins are too few for all buffers.
LEMMA SomeBufferUnused ==
  ASSUME IInv, PinInv, Cardinality(User) + MaxPinned <= NBUF,
         NEW u \in User, pc[u] = "idle"
  PROVE  \E b \in Buf : refcnt[b] = 0
<1> DEFINE V == {v \in User \ {u} : pc[v] \in Using}
           T == {bp[v] : v \in V}
           f == [v \in V |-> bp[v]]
<1> SUFFICES ASSUME \A b \in Buf : refcnt[b] # 0  PROVE FALSE
  OBVIOUS
<1>1. IsFiniteSet(User \ {u}) /\ Cardinality(User \ {u}) = Cardinality(User) - 1
  BY FS_RemoveElement
<1>2. V \in SUBSET (User \ {u})  OBVIOUS
<1>3. IsFiniteSet(V) /\ Cardinality(V) <= Cardinality(User) - 1
  BY <1>1, <1>2, FS_Subset
<1>4. f \in Surjection(V, T)  BY DEF Surjection
<1>5. IsFiniteSet(T) /\ Cardinality(T) <= Cardinality(V)
  BY <1>3, <1>4, FS_Surjection
<1>6. Buf \subseteq pinned \cup T
  <2> SUFFICES ASSUME NEW b \in Buf, b \notin pinned  PROVE b \in T
    OBVIOUS
  <2>1. Cardinality(UsersOf(b)) # 0  BY DEF IInv, RefInv
  <2>2. PICK v \in User : pc[v] \in Using /\ bp[v] = b
    BY <2>1, UsersFinite, FS_EmptySet DEF UsersOf
  <2>3. v # u  BY <2>2 DEF Using, Locked
  <2> QED  BY <2>2, <2>3
<1>7. /\ IsFiniteSet(pinned \cup T)
      /\ Cardinality(pinned \cup T)
           = Cardinality(pinned) + Cardinality(T) - Cardinality(pinned \cap T)
  BY <1>5, PinnedFinite, FS_Union
<1>8. Cardinality(pinned \cap T) \in Nat
  BY PinnedFinite, FS_Intersection, FS_CardinalityType
<1>9. NBUF <= Cardinality(pinned \cup T)
  BY <1>6, <1>7, FS_Subset DEF NBUF
<1>10. /\ Cardinality(User) \in Nat /\ Cardinality(V) \in Nat
       /\ Cardinality(T) \in Nat /\ NBUF \in Nat
  BY <1>3, <1>5, FS_CardinalityType DEF NBUF
<1> QED  BY <1>3, <1>5, <1>7, <1>8, <1>9, <1>10, PinnedFinite DEF PinInv

\* bget never panics "no buffers" when the buffers are at least as many as the
\* brackets and the pins of the log together.
THEOREM BgetFindsBuffer ==
  ASSUME Cardinality(User) + MaxPinned <= NBUF
  PROVE  Spec => []BufferAvailable
<1>1. Init => PinInv
  BY FS_EmptySet DEF Init, PinInv
<1>2. IInv /\ PinInv => BufferAvailable
  BY SomeBufferUnused DEF BufferAvailable
<1> QED  BY IInvHolds, StepPinInv, <1>1, <1>2, PTL DEF Spec
=============================================================================
