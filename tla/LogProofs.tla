------------------------------ MODULE LogProofs ------------------------------
(***************************************************************************)
(* Proofs about the log: its inductive invariant, the safety properties    *)
(* that follow from it, and that it implements AtomicDisk.                 *)
(***************************************************************************)
EXTENDS Log, FiniteSetTheorems, TLAPS

USE LogAssumption

\* The operations in progress are finitely many, so outstanding can count them.
LEMMA InOpFinite == IsFiniteSet(InOp) /\ Cardinality(InOp) \in Nat
<1>1. InOp \subseteq Proc  BY DEF InOp
<1> QED  BY <1>1, FS_Subset, FS_CardinalityType

\* A step that neither begins nor ends an operation keeps the count exact.
LEMMA SameOps ==
  ASSUME CountInv, outstanding' = outstanding,
         \A p \in Proc : pc'[p] = "op" <=> pc[p] = "op"
  PROVE  outstanding' = Cardinality(InOp')
<1>1. InOp' = InOp  BY DEF InOp
<1> QED  BY <1>1 DEF CountInv

\* A freshly made disk satisfies the inductive invariant.
LEMMA InitIInv == Init => IInv
<1> SUFFICES ASSUME Init PROVE IInv  OBVIOUS
<1> USE DEF Booting, CommitPhase, Index
<1>1. TypeOK  BY DEF Init, TypeOK
<1>2. HeaderInv  BY DEF Init, HeaderInv
<1>3. CountInv
  <2>1. InOp = {}  BY DEF Init, InOp
  <2> QED  BY <2>1, FS_EmptySet DEF Init, CountInv
<1>4. ContentsInv  BY DEF Init, ContentsInv
<1>5. SleepInv  BY DEF Init, SleepInv, SleeperHasWaker
<1>6. PinsMatchLog  BY DEF Init, PinsMatchLog
<1> QED  BY <1>1, <1>2, <1>3, <1>4, <1>5, <1>6 DEF IInv

\* Every step, a crash included, preserves the inductive invariant.
LEMMA StepIInv == IInv /\ [Next]_vars => IInv'
<1> SUFFICES ASSUME IInv, [Next]_vars PROVE IInv'  OBVIOUS
<1> USE DEF IInv, TypeOK, Booting, CommitPhase, Committing, Index, disk
<1>1. ASSUME ReadHead  PROVE IInv'
  <2> USE <1>1 DEF ReadHead
  <2>1. TypeOK'  BY DEF HeaderInv, CountInv
  <2>2. HeaderInv'  BY DEF HeaderInv, CountInv, ContentsInv, Absorbed
  <2>3. CountInv'  BY SameOps DEF CountInv
  <2>4. ContentsInv'  BY DEF HeaderInv, ContentsInv, Absorbed
  <2>5. SleepInv'  BY DEF CountInv, SleepInv, SleeperHasWaker, HeaderInv
  <2>6. PinsMatchLog'  BY DEF HeaderInv, PinsMatchLog, Absorbed
  <2> QED  BY <2>1, <2>2, <2>3, <2>4, <2>5, <2>6
<1>2. ASSUME RecoverInstall  PROVE IInv'
  <2> USE <1>2 DEF RecoverInstall, InstallBlock
  <2>1. TypeOK'  BY DEF HeaderInv, CountInv
  <2>2. HeaderInv'  BY DEF HeaderInv, CountInv, ContentsInv, Absorbed
  <2>3. CountInv'  BY SameOps DEF CountInv
  <2>4. ContentsInv'  BY DEF HeaderInv, ContentsInv, Absorbed
  <2>5. SleepInv'  BY DEF CountInv, SleepInv, SleeperHasWaker, HeaderInv
  <2>6. PinsMatchLog'  BY DEF HeaderInv, PinsMatchLog, Absorbed
  <2> QED  BY <2>1, <2>2, <2>3, <2>4, <2>5, <2>6
<1>3. ASSUME RecoverClear  PROVE IInv'
  <2> USE <1>3 DEF RecoverClear, ClearHead
  <2>1. TypeOK'  BY DEF HeaderInv, CountInv
  <2>2. HeaderInv'  BY DEF HeaderInv, CountInv, ContentsInv, Absorbed
  <2>3. CountInv'  BY SameOps DEF CountInv
  <2>4. ContentsInv'  BY DEF HeaderInv, ContentsInv, Absorbed
  <2>5. SleepInv'  BY DEF CountInv, SleepInv, SleeperHasWaker, HeaderInv
  <2>6. PinsMatchLog'  BY DEF HeaderInv, PinsMatchLog, Absorbed
  <2> QED  BY <2>1, <2>2, <2>3, <2>4, <2>5, <2>6
<1>4. ASSUME NEW p \in Proc, BeginOp(p)  PROVE IInv'
  <2> USE <1>4 DEF BeginOp, NoSpace
  <2>1. TypeOK'  BY DEF HeaderInv, CountInv
  <2>2. HeaderInv'  BY DEF HeaderInv, CountInv, ContentsInv, Absorbed
  <2>3. CountInv'
    <3>1. InOp' = InOp \cup {p} /\ p \notin InOp  BY DEF InOp
    <3> QED  BY <3>1, InOpFinite, FS_AddElement DEF CountInv
  <2>4. ContentsInv'  BY DEF HeaderInv, ContentsInv, Absorbed
  <2>5. SleepInv'  BY DEF CountInv, SleepInv, SleeperHasWaker, HeaderInv
  <2>6. PinsMatchLog'  BY DEF HeaderInv, PinsMatchLog, Absorbed
  <2> QED  BY <2>1, <2>2, <2>3, <2>4, <2>5, <2>6
<1>5. ASSUME NEW p \in Proc, BeginSleep(p)  PROVE IInv'
  <2> USE <1>5 DEF BeginSleep, NoSpace
  <2>1. TypeOK'  BY DEF HeaderInv, CountInv
  <2>2. HeaderInv'  BY DEF HeaderInv, CountInv, ContentsInv, Absorbed
  <2>3. CountInv'  BY SameOps DEF CountInv
  <2>4. ContentsInv'  BY DEF HeaderInv, ContentsInv, Absorbed
  <2>5. SleepInv'  BY DEF CountInv, SleepInv, SleeperHasWaker, HeaderInv
  <2>6. PinsMatchLog'  BY DEF HeaderInv, PinsMatchLog, Absorbed
  <2> QED  BY <2>1, <2>2, <2>3, <2>4, <2>5, <2>6
<1>6. ASSUME NEW p \in Proc, NEW b \in Block, NEW d \in Data, LogWrite(p, b, d)  PROVE IInv'
  <2> USE <1>6 DEF LogWrite, TooBig
  <2>0. phase = "run"  BY DEF CountInv
  <2>1. TypeOK'  BY DEF HeaderInv, CountInv
  <2>2. HeaderInv'
    <3>1. CASE Absorbed(b)  BY <2>0, <3>1 DEF HeaderInv
    <3>2. CASE ~Absorbed(b)
      <4>1. block' = [block EXCEPT ![n] = b] /\ n' = n + 1 /\ n \in Index  BY <3>2
      <4>2. \A i \in Index : i < n => block[i] # b  BY <3>2 DEF Absorbed
      <4> QED  BY <2>0, <4>1, <4>2 DEF HeaderInv
    <3> QED  BY <3>1, <3>2
  <2>3. CountInv'  BY SameOps DEF CountInv
  <2>4. ContentsInv'
    <3>1. \A c \in Block : ~Absorbed(c)' => cache'[c] = home'[c]
      <4> SUFFICES ASSUME NEW c \in Block, ~Absorbed(c)' PROVE cache'[c] = home'[c]
        OBVIOUS
      <4>1. CASE Absorbed(b)  BY <4>1 DEF Absorbed, ContentsInv
      <4>2. CASE ~Absorbed(b)
        <5>1. block' = [block EXCEPT ![n] = b] /\ n' = n + 1 /\ n \in Index  BY <4>2
        <5>2. block'[n] = b /\ c # b  BY <5>1 DEF Absorbed
        <5>3. ~Absorbed(c)  BY <5>1 DEF Absorbed
        <5> QED  BY <5>2, <5>3 DEF ContentsInv
      <4> QED  BY <4>1, <4>2
    <3> QED  BY <2>0, <3>1 DEF ContentsInv
  <2>5. SleepInv'  BY DEF CountInv, SleepInv, SleeperHasWaker, HeaderInv
  <2>6. PinsMatchLog'
    <3>0. \A c \in Block : pins[c] = IF Absorbed(c) THEN 1 ELSE 0
      BY <2>0 DEF PinsMatchLog, Absorbed
    <3>1. \A c \in Block : pins'[c] = IF Absorbed(c)' THEN 1 ELSE 0
      <4>1. CASE Absorbed(b)
        <5>1. UNCHANGED <<n, block, pins>>  BY <4>1
        <5> QED  BY <3>0, <5>1 DEF Absorbed
      <4>2. CASE ~Absorbed(b)
        <5>1. block' = [block EXCEPT ![n] = b] /\ n' = n + 1 /\ n \in Index
              /\ pins' = [pins EXCEPT ![b] = @ + 1]
          BY <4>2
        <5>2. Absorbed(b)'  BY <5>1 DEF Absorbed
        <5>3. \A c \in Block : c # b => (Absorbed(c)' <=> Absorbed(c))  BY <5>1 DEF Absorbed
        <5>4. pins[b] = 0  BY <3>0, <4>2
        <5> QED  BY <3>0, <5>1, <5>2, <5>3, <5>4
      <4> QED  BY <4>1, <4>2
    <3> QED  BY <2>0, <3>1 DEF PinsMatchLog, Absorbed
  <2> QED  BY <2>1, <2>2, <2>3, <2>4, <2>5, <2>6
<1>7. ASSUME NEW p \in Proc, EndOp(p)  PROVE IInv'
  <2> USE <1>7 DEF EndOp, Wake
  <2>1. TypeOK'  BY DEF HeaderInv, CountInv
  <2>2. HeaderInv'  BY DEF HeaderInv, CountInv, ContentsInv, Absorbed
  <2>3. CountInv'
    <3>1. InOp' = InOp \ {p} /\ p \in InOp  BY DEF InOp
    <3>2. Cardinality(InOp') = Cardinality(InOp) - 1
      BY <3>1, InOpFinite, FS_RemoveElement
    <3> QED  BY <3>2, InOpFinite DEF CountInv
  <2>4. ContentsInv'  BY DEF HeaderInv, ContentsInv, Absorbed
  <2>5. SleepInv'  BY DEF CountInv, SleepInv, SleeperHasWaker, HeaderInv
  <2>6. PinsMatchLog'  BY DEF HeaderInv, PinsMatchLog, Absorbed
  <2> QED  BY <2>1, <2>2, <2>3, <2>4, <2>5, <2>6
<1>8. ASSUME NEW p \in Proc, EndLastOp(p)  PROVE IInv'
  <2> USE <1>8 DEF EndLastOp, CommitStart
  <2>0. phase = "run"  BY DEF CountInv
  <2>1. TypeOK'  BY DEF HeaderInv, CountInv
  <2>2. HeaderInv'  BY DEF HeaderInv, CountInv, ContentsInv, Absorbed
  <2>3. CountInv'
    <3>1. InOp' = InOp \ {p} /\ p \in InOp  BY DEF InOp
    <3>2. Cardinality(InOp') = Cardinality(InOp) - 1
      BY <3>1, InOpFinite, FS_RemoveElement
    <3>3. Cardinality(InOp) = 1  BY DEF CountInv
    <3> QED  BY <3>2, <3>3 DEF CountInv
  <2>4. ContentsInv'  BY DEF HeaderInv, ContentsInv, Absorbed
  <2>5. SleepInv'  BY DEF CountInv, SleepInv, SleeperHasWaker, HeaderInv
  <2>6. PinsMatchLog'  BY <2>0 DEF HeaderInv, PinsMatchLog, Absorbed
  <2> QED  BY <2>1, <2>2, <2>3, <2>4, <2>5, <2>6
<1>9. ASSUME WriteLog  PROVE IInv'
  <2> USE <1>9 DEF WriteLog
  <2>1. TypeOK'  BY DEF HeaderInv, CountInv
  <2>2. HeaderInv'  BY DEF HeaderInv, CountInv, ContentsInv, Absorbed
  <2>3. CountInv'  BY SameOps DEF CountInv
  <2>4. ContentsInv'  BY DEF HeaderInv, ContentsInv, Absorbed
  <2>5. SleepInv'  BY DEF CountInv, SleepInv, SleeperHasWaker, HeaderInv
  <2>6. PinsMatchLog'  BY DEF HeaderInv, PinsMatchLog, Absorbed
  <2> QED  BY <2>1, <2>2, <2>3, <2>4, <2>5, <2>6
<1>10. ASSUME WriteHead  PROVE IInv'
  <2> USE <1>10 DEF WriteHead
  <2>1. TypeOK'  BY DEF HeaderInv, CountInv
  <2>2. HeaderInv'  BY DEF HeaderInv, CountInv, ContentsInv, Absorbed
  <2>3. CountInv'  BY SameOps DEF CountInv
  <2>4. ContentsInv'  BY DEF HeaderInv, ContentsInv, Absorbed
  <2>5. SleepInv'  BY DEF CountInv, SleepInv, SleeperHasWaker, HeaderInv
  <2>6. PinsMatchLog'  BY DEF HeaderInv, PinsMatchLog, Absorbed
  <2> QED  BY <2>1, <2>2, <2>3, <2>4, <2>5, <2>6
<1>11. ASSUME Install  PROVE IInv'
  <2> USE <1>11 DEF Install, InstallBlock
  <2>1. TypeOK'  BY DEF HeaderInv, CountInv
  <2>2. HeaderInv'  BY DEF HeaderInv, CountInv, ContentsInv, Absorbed
  <2>3. CountInv'  BY SameOps DEF CountInv
  <2>4. ContentsInv'  BY DEF HeaderInv, ContentsInv, Absorbed
  <2>5. SleepInv'  BY DEF CountInv, SleepInv, SleeperHasWaker, HeaderInv
  <2>6. PinsMatchLog'  BY DEF HeaderInv, PinsMatchLog, Absorbed
  <2> QED  BY <2>1, <2>2, <2>3, <2>4, <2>5, <2>6
<1>12. ASSUME Erase  PROVE IInv'
  <2> USE <1>12 DEF Erase, ClearHead
  <2>1. TypeOK'  BY DEF HeaderInv, CountInv
  <2>2. HeaderInv'  BY DEF HeaderInv, CountInv, ContentsInv, Absorbed
  <2>3. CountInv'  BY SameOps DEF CountInv
  <2>4. ContentsInv'  BY DEF HeaderInv, ContentsInv, Absorbed
  <2>5. SleepInv'  BY DEF CountInv, SleepInv, SleeperHasWaker, HeaderInv
  <2>6. PinsMatchLog'  BY DEF HeaderInv, PinsMatchLog, Absorbed
  <2> QED  BY <2>1, <2>2, <2>3, <2>4, <2>5, <2>6
<1>13. ASSUME NEW p \in Proc, FinishCommit(p)  PROVE IInv'
  <2> USE <1>13 DEF FinishCommit, Wake
  <2>1. TypeOK'  BY DEF HeaderInv, CountInv
  <2>2. HeaderInv'  BY DEF HeaderInv, CountInv, ContentsInv, Absorbed
  <2>3. CountInv'  BY SameOps DEF CountInv
  <2>4. ContentsInv'  BY DEF HeaderInv, ContentsInv, Absorbed
  <2>5. SleepInv'  BY DEF CountInv, SleepInv, SleeperHasWaker, HeaderInv
  <2>6. PinsMatchLog'  BY DEF HeaderInv, PinsMatchLog, Absorbed
  <2> QED  BY <2>1, <2>2, <2>3, <2>4, <2>5, <2>6
<1>14. ASSUME Crash  PROVE IInv'
  <2> USE <1>14 DEF Crash
  <2>1. TypeOK'  BY DEF HeaderInv, CountInv
  <2>2. HeaderInv'  BY DEF HeaderInv, CountInv, ContentsInv, Absorbed
  <2>3. CountInv'
    <3>1. InOp' = {}  BY DEF InOp
    <3> QED  BY <3>1, FS_EmptySet DEF CountInv
  <2>4. ContentsInv'  BY DEF HeaderInv, ContentsInv, Absorbed
  <2>5. SleepInv'  BY DEF CountInv, SleepInv, SleeperHasWaker, HeaderInv
  <2>6. PinsMatchLog'  BY DEF HeaderInv, PinsMatchLog, Absorbed
  <2> QED  BY <2>1, <2>2, <2>3, <2>4, <2>5, <2>6
<1>15. CASE UNCHANGED vars
  BY <1>15 DEF vars, HeaderInv, CountInv, InOp, ContentsInv, Absorbed, SleepInv,
     SleeperHasWaker, PinsMatchLog
<1> QED
  BY <1>1, <1>2, <1>3, <1>4, <1>5, <1>6, <1>7, <1>8, <1>9, <1>10, <1>11, <1>12, <1>13,
     <1>14, <1>15 DEF Next, Recovery, Commit

\* The inductive invariant holds in every reachable state.
THEOREM IInvHolds == Spec => []IInv
BY InitIInv, StepIInv, PTL DEF Spec

\* Type correctness; in particular the header never overflows its LOGSIZE entries.
THEOREM TypeCorrect == Spec => []TypeOK
<1>1. IInv => TypeOK  BY DEF IInv
<1> QED  BY IInvHolds, <1>1, PTL

\* When the last end_op has returned nothing is left only in memory or in the log.
THEOREM QuietStateIsDurable == Spec => []QuietIsDurable
<1>1. IInv => QuietIsDurable
  <2> SUFFICES ASSUME IInv, phase = "run", outstanding = 0
               PROVE  home = cache /\ hn = 0
    BY DEF QuietIsDurable
  <2>1. n = 0 /\ hn = 0  BY DEF IInv, HeaderInv
  <2>2. \A b \in Block : ~Absorbed(b)  BY <2>1 DEF Absorbed, Index
  <2> QED  BY <2>1, <2>2 DEF IInv, TypeOK, ContentsInv
<1> QED  BY IInvHolds, <1>1, PTL

\* Every bpin of log_write is undone by exactly one bunpin of install_trans.
THEOREM PinsBalanced == Spec => []PinsMatchLog
<1>1. IInv => PinsMatchLog  BY DEF IInv
<1> QED  BY IInvHolds, <1>1, PTL

\* No process sleeps in begin_op with nobody left to call wakeup(&log).
THEOREM NoLostWakeup == Spec => []SleeperHasWaker
<1>1. IInv => SleeperHasWaker  BY DEF IInv, SleepInv
<1> QED  BY IInvHolds, <1>1, PTL
-----------------------------------------------------------------------------
(* The panics of log_write and end_op. *)

\* A set of operations has at most MAXOPBLOCKS entries reserved for each.
LEMMA EntriesFinite ==
  ASSUME NEW S \in SUBSET Proc, NEW R \in SUBSET (S \X (1..MAXOPBLOCKS))
  PROVE  /\ IsFiniteSet(S) /\ Cardinality(S) \in Nat
         /\ IsFiniteSet(R) /\ Cardinality(R) \in Nat
         /\ Cardinality(R) <= Cardinality(S) * MAXOPBLOCKS
<1>1. IsFiniteSet(S) /\ Cardinality(S) \in Nat  BY FS_Subset, FS_CardinalityType
<1>2. IsFiniteSet(1..MAXOPBLOCKS) /\ Cardinality(1..MAXOPBLOCKS) = MAXOPBLOCKS
  BY FS_Interval
<1>3. /\ IsFiniteSet(S \X (1..MAXOPBLOCKS))
      /\ Cardinality(S \X (1..MAXOPBLOCKS)) = Cardinality(S) * MAXOPBLOCKS
  BY <1>1, <1>2, FS_Product
<1> QED  BY <1>1, <1>3, FS_Subset, FS_CardinalityType

\* Operations and reservations are finitely many, before a step and after it.
LEMMA ReservedFinite ==
  /\ IsFiniteSet(Reserved) /\ Cardinality(Reserved) \in Nat
  /\ IsFiniteSet(InOp') /\ Cardinality(InOp') \in Nat
  /\ IsFiniteSet(Reserved') /\ Cardinality(Reserved') \in Nat
  /\ Cardinality(Reserved') <= Cardinality(InOp') * MAXOPBLOCKS
<1>1. InOp \in SUBSET Proc /\ Reserved \in SUBSET (InOp \X (1..MAXOPBLOCKS))
  BY DEF InOp, Reserved
<1>2. InOp' \in SUBSET Proc /\ Reserved' \in SUBSET (InOp' \X (1..MAXOPBLOCKS))
  BY DEF InOp, Reserved
<1> QED  BY <1>1, <1>2, EntriesFinite

\* Each operation keeps its last entry, so at least that many are reserved.
LEMMA LastEntryReserved ==
  ASSUME SpaceInv, Roomy
  PROVE  /\ \A p \in InOp : <<p, MAXOPBLOCKS>> \in Reserved
         /\ Cardinality(InOp) <= Cardinality(Reserved)
<1>1. \A p \in InOp : <<p, MAXOPBLOCKS>> \in Reserved
  <2> SUFFICES ASSUME NEW p \in InOp  PROVE <<p, MAXOPBLOCKS>> \in Reserved
    OBVIOUS
  <2>1. Cardinality(wrote[p]) < MAXOPBLOCKS
    BY FS_CardinalityType DEF SpaceInv, Roomy, InOp
  <2>2. MAXOPBLOCKS \in 1..MAXOPBLOCKS  BY DEF Roomy
  <2> QED  BY <2>1, <2>2 DEF Reserved
<1> DEFINE f == [p \in InOp |-> <<p, MAXOPBLOCKS>>]
<1>2. f \in Injection(InOp, Reserved)  BY <1>1 DEF Injection, IsInjective
<1> QED  BY <1>1, <1>2, ReservedFinite, FS_Injection

\* A step outside operations, or one that ends the last, leaves nothing reserved.
LEMMA NothingReserved ==
  ASSUME IInv', IInv, SpaceInv, outstanding' = 0, wrote' = [p \in Proc |-> {}]
  PROVE  SpaceInv'
<1>1. InOp' = {}  BY ReservedFinite, FS_EmptySet DEF IInv, CountInv
<1>2. Reserved' = {}  BY <1>1 DEF Reserved
<1>3. n' \in 0..LOGSIZE  BY DEF IInv, TypeOK
<1> QED  BY <1>1, <1>2, <1>3, FS_EmptySet DEF SpaceInv

\* With no operation in progress no set of written blocks is left over.
LEMMA NothingWritten ==
  ASSUME IInv, SpaceInv, outstanding = 0
  PROVE  wrote = [p \in Proc |-> {}]
<1>1. InOp = {}  BY InOpFinite, FS_EmptySet DEF IInv, CountInv
<1> QED  BY <1>1 DEF IInv, TypeOK, SpaceInv, InOp

\* Every step keeps the log's contents and reservations within its size.
LEMMA StepSpaceInv ==
  ASSUME Roomy, IInv, IInv', SpaceInv, [Next]_vars
  PROVE  SpaceInv'
<1>1. ASSUME Recovery \/ Commit  PROVE SpaceInv'
  <2>1. outstanding = 0
    BY <1>1 DEF Recovery, Commit, ReadHead, RecoverInstall, RecoverClear, ClearHead,
       WriteLog, WriteHead, Install, Erase, FinishCommit, IInv, CountInv
  <2>2. outstanding' = outstanding /\ wrote' = wrote
    BY <1>1 DEF Recovery, Commit, ReadHead, RecoverInstall, RecoverClear, ClearHead,
       WriteLog, WriteHead, Install, Erase, FinishCommit, InstallBlock
  <2> QED  BY <2>1, <2>2, NothingWritten, NothingReserved
<1>2. ASSUME NEW p \in Proc, BeginOp(p)  PROVE SpaceInv'
  <2> USE <1>2 DEF BeginOp
  <2>1. Cardinality(InOp') = outstanding + 1 /\ outstanding \in Nat
    BY DEF IInv, TypeOK, CountInv
  <2>2. n + (outstanding + 1) * MAXOPBLOCKS <= LOGSIZE
    BY DEF NoSpace, IInv, TypeOK
  <2>3. /\ Cardinality(Reserved') <= (outstanding + 1) * MAXOPBLOCKS
        /\ Cardinality(Reserved') \in Nat
    BY <2>1, ReservedFinite
  <2>4. n + Cardinality(Reserved') <= LOGSIZE
    BY <2>2, <2>3 DEF IInv, TypeOK
  <2>5. outstanding = 0 => n + Cardinality(Reserved') < LOGSIZE
    <3> SUFFICES ASSUME outstanding = 0  PROVE n + Cardinality(Reserved') < LOGSIZE
      OBVIOUS
    <3>1. n = 0
      BY DEF IInv, TypeOK, HeaderInv, Committing, Booting, CommitPhase
    <3>2. Cardinality(Reserved') <= MAXOPBLOCKS
      BY <2>3
    <3> QED  BY <2>3, <3>1, <3>2 DEF Roomy
  <2>6. \A q \in Proc : pc'[q] # "op" => pc[q] # "op"  BY DEF IInv, TypeOK
  <2> QED  BY <2>1, <2>4, <2>5, <2>6 DEF SpaceInv, Absorbed
<1>3. ASSUME NEW p \in Proc, BeginSleep(p)  PROVE SpaceInv'
  <2> USE <1>3 DEF BeginSleep
  <2>1. \A q \in Proc : pc'[q] = "op" <=> pc[q] = "op"  BY DEF IInv, TypeOK
  <2>2. InOp' = InOp  BY <2>1 DEF InOp
  <2>3. Reserved' = Reserved  BY <2>2 DEF Reserved
  <2> QED  BY <2>1, <2>2, <2>3 DEF SpaceInv, Absorbed
<1>4. ASSUME NEW p \in Proc, EndOp(p)  PROVE SpaceInv'
  <2> USE <1>4 DEF EndOp, Wake
  <2>1. InOp' = InOp \ {p} /\ p \in InOp  BY DEF InOp, IInv, TypeOK
  <2>2. \A q \in Proc \ {p} : wrote'[q] = wrote[q]  BY DEF IInv, TypeOK
  <2>3. Reserved' \in SUBSET (Reserved \ {<<p, MAXOPBLOCKS>>})
    BY <2>1, <2>2 DEF Reserved, InOp
  <2>4. Cardinality(Reserved \ {<<p, MAXOPBLOCKS>>}) = Cardinality(Reserved) - 1
    BY <2>1, LastEntryReserved, ReservedFinite, FS_RemoveElement
  <2>5. Cardinality(Reserved') <= Cardinality(Reserved) - 1
    BY <2>3, <2>4, ReservedFinite, FS_RemoveElement, FS_Subset
  <2>6. Cardinality(Reserved') \in Nat
    BY <2>3, ReservedFinite, FS_Subset, FS_RemoveElement, FS_CardinalityType
  <2>7. n + Cardinality(Reserved') < LOGSIZE
    BY <2>5, <2>6, ReservedFinite DEF SpaceInv, IInv, TypeOK
  <2>8. \A q \in Proc : /\ IsFiniteSet(wrote'[q]) /\ Cardinality(wrote'[q]) <= OpBlocks
                        /\ pc'[q] # "op" => wrote'[q] = {}
                        /\ wrote'[q] \subseteq wrote[q]
    BY <2>2, FS_EmptySet DEF SpaceInv, IInv, TypeOK
  <2> QED  BY <2>6, <2>7, <2>8 DEF SpaceInv, Absorbed, IInv, TypeOK
<1>5. ASSUME NEW p \in Proc, EndLastOp(p)  PROVE SpaceInv'
  <2>1. InOp' = {}
    BY <1>5, ReservedFinite, FS_EmptySet DEF EndLastOp, IInv, CountInv
  <2>2. \A q \in Proc \ {p} : wrote[q] = {}
    <3> SUFFICES ASSUME NEW q \in Proc \ {p}, pc[q] = "op"  PROVE FALSE
      BY DEF SpaceInv
    <3>1. pc'[q] = "op"  BY <1>5 DEF EndLastOp, IInv, TypeOK
    <3> QED  BY <2>1, <3>1 DEF InOp
  <2>3. wrote' = [q \in Proc |-> {}]  BY <1>5, <2>2 DEF EndLastOp, IInv, TypeOK
  <2>4. outstanding' = 0  BY <1>5 DEF EndLastOp
  <2> QED  BY <2>3, <2>4, NothingReserved
<1>6. ASSUME NEW p \in Proc, NEW b \in Block, NEW d \in Data, LogWrite(p, b, d)
      PROVE  SpaceInv'
  <2> USE <1>6 DEF LogWrite
  <2> DEFINE w == Cardinality(wrote[p])
  <2>1. InOp' = InOp /\ p \in InOp  BY DEF InOp, IInv, TypeOK
  <2>2. \A q \in Proc \ {p} : wrote'[q] = wrote[q]  BY DEF IInv, TypeOK
  <2>3. wrote'[p] = wrote[p] \cup {b}  BY DEF IInv, TypeOK
  <2>4. \A a \in Block : Absorbed(a) => Absorbed(a)'
    BY DEF Absorbed, IInv, TypeOK, Index
  <2>5. Absorbed(b)'  BY DEF Absorbed, IInv, TypeOK, Index, TooBig
  <2>6. w \in Nat /\ IsFiniteSet(wrote[p])  BY FS_CardinalityType DEF SpaceInv
  <2>7. IsFiniteSet(wrote'[p]) /\ Cardinality(wrote'[p]) <= OpBlocks
    <3>1. IsFiniteSet(wrote[p] \cup {b})  BY <2>6, FS_AddElement
    <3> QED  BY <2>3, <3>1
  <2>8. \A q \in Proc : /\ IsFiniteSet(wrote'[q]) /\ Cardinality(wrote'[q]) <= OpBlocks
                        /\ pc'[q] # "op" => wrote'[q] = {}
                        /\ \A a \in wrote'[q] : Absorbed(a)'
    BY <2>2, <2>3, <2>4, <2>5, <2>7 DEF SpaceInv, IInv, TypeOK
  <2>9. n' + Cardinality(Reserved') <= n + Cardinality(Reserved)
        /\ Cardinality(Reserved') \in Nat /\ n' \in Nat
    <3>1. CASE b \in wrote[p]
      <4>1. wrote' = wrote  BY <3>1 DEF IInv, TypeOK
      <4>2. n' = n  BY <3>1 DEF SpaceInv
      <4>3. Reserved' = Reserved  BY <2>1, <4>1 DEF Reserved
      <4> QED  BY <4>2, <4>3, ReservedFinite DEF IInv, TypeOK
    <3>2. CASE b \notin wrote[p]
      <4>1. Cardinality(wrote'[p]) = w + 1  BY <2>3, <2>6, <3>2, FS_AddElement
      <4>2. w + 1 \in 1..MAXOPBLOCKS  BY <2>6, <2>7, <4>1 DEF Roomy
      <4>3. <<p, w + 1>> \in Reserved  BY <2>1, <2>6, <4>2 DEF Reserved
      <4>4. Reserved' = Reserved \ {<<p, w + 1>>}
        <5>1. ASSUME NEW q \in InOp, NEW k \in 1..MAXOPBLOCKS
              PROVE  Cardinality(wrote'[q]) < k
                       <=> Cardinality(wrote[q]) < k /\ <<q, k>> # <<p, w + 1>>
          <6>1. CASE q = p  BY <2>6, <4>1, <6>1
          <6>2. CASE q # p  BY <2>2, <6>2 DEF InOp
          <6> QED  BY <6>1, <6>2
        <5> DEFINE T == InOp \X (1..MAXOPBLOCKS)
        <5>2. Reserved = {t \in T : Cardinality(wrote[t[1]]) < t[2]}  BY DEF Reserved
        <5>3. Reserved' = {t \in T : Cardinality(wrote'[t[1]]) < t[2]}
          BY <2>1 DEF Reserved
        <5>4. \A t \in T : Cardinality(wrote'[t[1]]) < t[2]
                <=> Cardinality(wrote[t[1]]) < t[2] /\ t # <<p, w + 1>>
          <6> TAKE t \in T
          <6>1. t[1] \in InOp /\ t[2] \in 1..MAXOPBLOCKS /\ t = <<t[1], t[2]>>  OBVIOUS
          <6> HIDE DEF T, w
          <6> QED  BY <5>1, <6>1
        <5> HIDE DEF T, w
        <5> QED  BY <5>2, <5>3, <5>4
      <4>5. Cardinality(Reserved') = Cardinality(Reserved) - 1
        BY <4>3, <4>4, ReservedFinite, FS_RemoveElement
      <4>6. Cardinality(Reserved') \in Nat
        BY <4>4, ReservedFinite, FS_RemoveElement, FS_CardinalityType
      <4> QED  BY <4>5, <4>6, ReservedFinite DEF IInv, TypeOK
    <3> QED  BY <3>1, <3>2
  <2> HIDE <1>6 DEF w, LogWrite
  <2>10. n \in Nat  BY DEF IInv, TypeOK
  <2>11. n + Cardinality(Reserved) <= LOGSIZE
         /\ (Cardinality(InOp) = 1 => n + Cardinality(Reserved) < LOGSIZE)
    BY DEF SpaceInv
  <2>12. n' + Cardinality(Reserved') <= LOGSIZE
         /\ (Cardinality(InOp') = 1 => n' + Cardinality(Reserved') < LOGSIZE)
    BY <2>1, <2>9, <2>10, <2>11, ReservedFinite
  <2> QED  BY <2>8, <2>12 DEF SpaceInv
<1>7. ASSUME Crash  PROVE SpaceInv'
  BY <1>7, NothingReserved DEF Crash
<1>8. CASE UNCHANGED vars
  BY <1>8 DEF vars, SpaceInv, Reserved, InOp, Absorbed
<1> QED  BY <1>1, <1>2, <1>3, <1>4, <1>5, <1>6, <1>7, <1>8 DEF Next

\* log.c never panics: an operation that begin_op has admitted finds room for its
\* blocks, whatever the others write, and none is cut short by a commit.
THEOREM LogNeverFull ==
  ASSUME Roomy
  PROVE  Spec => []NoPanic
<1>1. Init => SpaceInv
  <2> SUFFICES ASSUME Init  PROVE SpaceInv  OBVIOUS
  <2>1. InOp = {}  BY DEF Init, InOp
  <2>2. Reserved = {}  BY <2>1 DEF Reserved
  <2> QED  BY <2>1, <2>2, FS_EmptySet DEF Init, SpaceInv
<1>2. IInv /\ IInv' /\ SpaceInv /\ [Next]_vars => SpaceInv'
  BY StepSpaceInv
<1>3. IInv /\ SpaceInv => NoPanic
  <2> SUFFICES ASSUME IInv, SpaceInv, NEW p \in InOp
               PROVE  ~TooBig /\ outstanding >= 1 /\ ~Committing
    BY DEF NoPanic
  <2>1. outstanding >= 1 /\ outstanding = Cardinality(InOp)
    BY InOpFinite, FS_EmptySet DEF IInv, CountInv
  <2>2. ~Committing
    BY <2>1 DEF IInv, CountInv, Committing, CommitPhase
  <2>3. Cardinality(InOp) <= Cardinality(Reserved)  BY LastEntryReserved
  <2>4. n + 2 <= LOGSIZE
    BY <2>1, <2>3, InOpFinite, ReservedFinite DEF SpaceInv, IInv, TypeOK
  <2>5. ~TooBig  BY <2>4 DEF TooBig, Roomy, IInv, TypeOK
  <2> QED  BY <2>1, <2>2, <2>5
<1> QED  BY IInvHolds, <1>1, <1>2, <1>3, PTL DEF Spec
-----------------------------------------------------------------------------
(* The log implements AtomicDisk. *)

\* What a crash would leave, entry by entry of the on-disk header.
LEMMA RecoveredAt ==
  ASSUME HeaderInv, NEW b \in Block
  PROVE  /\ \A i \in Index : i < hn /\ hblock[i] = b => Durable[b] = logged[i]
         /\ (\A i \in Index : i < hn => hblock[i] # b) => Durable[b] = home[b]
<1>1. ASSUME NEW i \in Index, i < hn, hblock[i] = b  PROVE Durable[b] = logged[i]
  <2> DEFINE c == CHOOSE j \in Index : j < hn /\ hblock[j] = b
  <2>1. c \in Index /\ c < hn /\ hblock[c] = b  BY <1>1
  <2>2. c = i  BY <1>1, <2>1 DEF HeaderInv
  <2> QED  BY <1>1, <2>2 DEF Durable, Recovered
<1>2. ASSUME \A i \in Index : i < hn => hblock[i] # b  PROVE Durable[b] = home[b]
  BY <1>2 DEF Durable, Recovered
<1> QED  BY <1>1, <1>2

\* With an erased header a crash leaves the home locations.
LEMMA DurableIsHome ==
  IInv /\ hn = 0 => Durable = home
<1> SUFFICES ASSUME IInv, hn = 0 PROVE Durable = home  OBVIOUS
<1>1. \A b \in Block : Durable[b] = home[b]  BY RecoveredAt DEF IInv, Index
<1> QED  BY <1>1 DEF Durable, IInv, TypeOK

\* While a commit installs its blocks, and when it is about to erase the header, a
\* crash leaves what the operations saw.
LEMMA DurableIsCache ==
  IInv /\ phase = "install" => Durable = cache
<1> SUFFICES ASSUME IInv, phase = "install" PROVE Durable = cache  OBVIOUS
<1>1. ASSUME NEW b \in Block  PROVE Durable[b] = cache[b]
  <2>1. CASE \E i \in Index : i < hn /\ hblock[i] = b
    BY <2>1, RecoveredAt DEF IInv, HeaderInv, ContentsInv
  <2>2. CASE \A i \in Index : i < hn => hblock[i] # b
    <3>1. ~Absorbed(b)  BY <2>2 DEF Absorbed, IInv, HeaderInv
    <3> QED  BY <2>2, <3>1, RecoveredAt DEF IInv, ContentsInv
  <2> QED  BY <2>1, <2>2
<1> QED  BY <1>1 DEF Durable, IInv, TypeOK

\* The initial states of the log are initial states of AtomicDisk.
LEMMA InitRefines == Init => Abs!Init
<1> SUFFICES ASSUME Init PROVE Abs!Init  OBVIOUS
<1>1. Durable = home  BY InitIInv, DurableIsHome DEF Init
<1>2. InOp = {}  BY DEF Init, InOp
<1> QED  BY <1>1, <1>2 DEF Init, Abs!Init, Booting

\* Every step of the log is a step of AtomicDisk or changes nothing in it.
LEMMA StepRefines == IInv /\ IInv' /\ [Next]_vars => [Abs!Next]_(Abs!vars)
<1> SUFFICES ASSUME IInv, IInv', [Next]_vars PROVE [Abs!Next]_(Abs!vars)  OBVIOUS
<1> USE DEF Booting, CommitPhase, Committing, disk
<1> DEFINE view == IF phase \in Booting THEN Durable ELSE cache
<1>h. (IInv /\ hn = 0 => Durable = home)'  BY DurableIsHome, PTL
<1>c. (IInv /\ phase = "install" => Durable = cache)'  BY DurableIsCache, PTL
<1>a. ASSUME UNCHANGED <<view, Durable, InOp>> PROVE UNCHANGED Abs!vars
  BY <1>a DEF Abs!vars
<1>1. CASE ReadHead
  <2>1. UNCHANGED <<view, Durable, InOp>>
    BY <1>1 DEF ReadHead, Durable, Recovered, InOp
  <2> QED  BY <1>a, <2>1
<1>2. CASE RecoverInstall
  <2> USE <1>2 DEF RecoverInstall, InstallBlock
  <2>1. block[tail] = hblock[tail] /\ tail \in Index /\ tail < hn
    BY DEF IInv, TypeOK, HeaderInv, Index
  <2>2. \A b \in Block : Durable'[b] = Durable[b]
    BY <2>1 DEF Durable, Recovered, IInv, TypeOK
  <2>3. UNCHANGED <<view, Durable, InOp>>  BY <2>2 DEF Durable, InOp
  <2> QED  BY <1>a, <2>3
<1>3. CASE RecoverClear
  <2> USE <1>3 DEF RecoverClear, ClearHead
  <2>1. Durable' = home  BY <1>h, <1>3
  <2>2. \A b \in Block : Durable[b] = home[b]
    BY RecoveredAt DEF IInv, TypeOK, HeaderInv, ContentsInv, Index
  <2>3. Durable = home  BY <2>2 DEF Durable, IInv, TypeOK
  <2>4. cache = home  BY DEF IInv, TypeOK, ContentsInv
  <2>5. UNCHANGED <<view, Durable, InOp>>  BY <2>1, <2>3, <2>4 DEF InOp
  <2> QED  BY <1>a, <2>5
<1>4. ASSUME NEW p \in Proc, BeginOp(p)  PROVE Abs!Begin(p)
  BY <1>4 DEF BeginOp, Abs!Begin, InOp, Durable, Recovered, IInv, TypeOK
<1>5. ASSUME NEW p \in Proc, BeginSleep(p)  PROVE UNCHANGED Abs!vars
  <2>1. UNCHANGED <<view, Durable, InOp>>
    BY <1>5 DEF BeginSleep, Durable, Recovered, InOp, IInv, TypeOK
  <2> QED  BY <1>a, <2>1
<1>6. ASSUME NEW p \in Proc, NEW b \in Block, NEW d \in Data, LogWrite(p, b, d)
      PROVE  Abs!Write(p, b, d)
  BY <1>6 DEF LogWrite, Abs!Write, InOp, Durable, Recovered, IInv, SleepInv
<1>7. ASSUME NEW p \in Proc, EndOp(p)  PROVE Abs!End(p)
  BY <1>7 DEF EndOp, Wake, Abs!End, InOp, Durable, Recovered, IInv, TypeOK
<1>8. ASSUME NEW p \in Proc, EndLastOp(p)  PROVE Abs!End(p)
  BY <1>8 DEF EndLastOp, CommitStart, Abs!End, InOp, Durable, Recovered, IInv, TypeOK, CountInv
<1>9. CASE WriteLog
  <2>1. hn = 0 /\ hn' = 0 /\ home' = home  BY <1>9 DEF WriteLog, IInv, HeaderInv
  <2>2. Durable' = Durable  BY <2>1, <1>h, DurableIsHome
  <2>3. UNCHANGED <<view, Durable, InOp>>  BY <1>9, <2>2 DEF WriteLog, InOp
  <2> QED  BY <1>a, <2>3
<1>10. CASE WriteHead
  <2>1. Durable' = cache'  BY <1>10, <1>c DEF WriteHead
  <2>2. InOp = {}  BY <1>10, InOpFinite, FS_EmptySet DEF WriteHead, IInv, CountInv
  <2>3. InOp' = InOp  BY <1>10 DEF WriteHead, InOp
  <2> QED  BY <1>10, <2>1, <2>2, <2>3 DEF WriteHead, Abs!Commit, Abs!Next
<1>11. CASE Install
  <2>1. Durable = cache /\ Durable' = cache'
    BY <1>11, <1>c, DurableIsCache DEF Install, InstallBlock
  <2>2. cache' = cache
    BY <1>11 DEF Install, InstallBlock, IInv, TypeOK, HeaderInv, ContentsInv, Index
  <2>3. UNCHANGED <<view, Durable, InOp>>
    BY <1>11, <2>1, <2>2 DEF Install, InstallBlock, InOp
  <2> QED  BY <1>a, <2>3
<1>12. CASE Erase
  <2>1. Durable = cache  BY <1>12, DurableIsCache DEF Erase, ClearHead
  <2>2. Durable' = home'  BY <1>12, <1>h DEF Erase, ClearHead
  <2>3. \A b \in Block : ~Absorbed(b)'  BY <1>12 DEF Erase, ClearHead, Absorbed, Index
  <2>4. home' = cache'  BY <2>3 DEF IInv, TypeOK, ContentsInv
  <2>5. UNCHANGED <<view, Durable, InOp>>
    BY <1>12, <2>1, <2>2, <2>4 DEF Erase, ClearHead, InOp
  <2> QED  BY <1>a, <2>5
<1>13. ASSUME NEW p \in Proc, FinishCommit(p)  PROVE UNCHANGED Abs!vars
  <2>1. UNCHANGED <<view, Durable, InOp>>
    BY <1>13 DEF FinishCommit, Wake, Durable, Recovered, InOp, IInv, TypeOK
  <2> QED  BY <1>a, <2>1
<1>14. CASE Crash
  <2>1. Durable' = Durable /\ InOp' = {}
    BY <1>14 DEF Crash, Durable, Recovered, InOp
  <2>2. Abs!Crash  BY <1>14, <2>1 DEF Crash, Abs!Crash
  <2> QED  BY <2>2 DEF Abs!Next
<1>15. CASE UNCHANGED vars
  <2>1. UNCHANGED <<view, Durable, InOp>>  BY <1>15 DEF vars, Durable, Recovered, InOp
  <2> QED  BY <1>a, <2>1
<1> QED
  BY <1>1, <1>2, <1>3, <1>4, <1>5, <1>6, <1>7, <1>8, <1>9, <1>10, <1>11, <1>12, <1>13,
     <1>14, <1>15 DEF Next, Recovery, Commit, Abs!Next

\* Operations are atomic with respect to crashes, for any number of processes,
\* blocks and log entries.
THEOREM LogIsCrashAtomic == Spec => CrashAtomic
<1>1. IInv /\ IInv' /\ [Next]_vars => [Abs!Next]_(Abs!vars)  BY StepRefines
<1> QED  BY InitRefines, IInvHolds, <1>1, PTL DEF Spec, Abs!Spec, CrashAtomic
=============================================================================
