--------------------------- MODULE ProcLifeProofs ---------------------------
(***************************************************************************)
(* Proofs about the life of processes and threads: who is on a processor   *)
(* and who has which lock, for all programs; that no exit is lost and no   *)
(* process is left without a parent, when programs make no threads; that   *)
(* no thread_exit is lost, when threads end by it only.                    *)
(***************************************************************************)
EXTENDS ProcLife, WellFoundedInduction, TLAPS

USE ProcAssumption

\* Slots are the numbers from 1 on; None is no slot.
LEMMA SlotRange ==
  /\ \A x : x \in Slot <=> x \in Nat /\ 1 <= x /\ x <= NPROC
  /\ None \notin Slot /\ initproc \in Slot /\ None = 0 /\ initproc = 1
BY DEF Slot, None, initproc

\* Min of a set of slots is its least element.
LEMMA MinIsLeast ==
  ASSUME NEW S, S \subseteq Slot, S # {}
  PROVE  Min(S) \in S /\ \A y \in S : Min(S) <= y
<1> DEFINE R == {ss \in Nat \X Nat : ss[1] < ss[2]}
<1>1. R = OpToRel(<, Nat)  BY Zenon DEF OpToRel
<1>2. IsWellFoundedOn(R, Nat)  BY <1>1, NatLessThanWellFounded
<1>3. S \subseteq Nat  BY SlotRange
<1> HIDE DEF R
<1>4. PICK x \in S : \A y \in S : ~(<<y, x>> \in R)  BY <1>2, <1>3, WFMin
<1>5. \A y \in S : x <= y
  <2> SUFFICES ASSUME NEW y \in S, y < x  PROVE FALSE  BY <1>3
  <2>1. <<y, x>> \in R  BY <1>3 DEF R
  <2> QED  BY <1>4, <2>1
<1> QED  BY <1>5 DEF Min

\* The next child of p from slot k on.
LEMMA NextChild ==
  ASSUME NEW p, NEW k, Children(p, k) # {}
  PROVE  LET q == Min(Children(p, k)) IN
           /\ q \in Slot /\ parent[q] = p /\ q >= k
           /\ \A r \in Slot : r >= k /\ parent[r] = p => q <= r
BY MinIsLeast DEF Children

\* thread_join finds a thread of the group that has the pid.
LEMMA ThreadFound ==
  ASSUME NEW p, NEW found, found # {},
         found = {q \in Threads(Leader(p)) : pid[q] = tid[p]}
  PROVE  /\ Min(found) \in Slot /\ state[Min(found)] # "UNUSED"
         /\ father[Min(found)] = Leader(p) /\ pid[Min(found)] = tid[p]
BY MinIsLeast DEF Threads

\* One turn of wakeup, wherever it is called from, preserves the inductive invariant.
LEMMA WakeupIInv ==
  ASSUME IInv, NEW p \in Slot, NEW here, NEW ch, NEW next, Wakeup(p, here, ch, next),
         \/ here = "wakeinit" /\ next = "reparent"
         \/ here = "wakeparent" /\ next = "die"
         \/ here = "wakejoin" /\ next = "tgone"
  PROVE  IInv'
<1> USE SlotRange DEF IInv, Held, Parked, Dying, Exiting, Creating, Waking, table, locks, frame
<1>1. CASE /\ j[p] <= NPROC
           /\ j[p] # p => lock[j[p]] = None
           /\ state' = [state EXCEPT ![j[p]] =
                IF j[p] # p /\ @ = "SLEEPING" /\ chan[j[p]] = ch THEN "RUNNABLE" ELSE @]
           /\ j' = [j EXCEPT ![p] = @ + 1]
           /\ UNCHANGED <<parent, pid, chan, killed, father, ustack, nextpid, locks, oncpu, pc,
                          i, it, tid, havekids>>
  <2> USE <1>1
  <2>0. j[p] \in Slot /\ j[p] + 1 \in 0..NPROC + 1 /\ j[p] + 1 >= 1
    BY DEF Wakeup, At, TypeOK, FrameInv
  <2>1. TypeOK'  BY <2>0 DEF TypeOK
  <2>2. CpuInv'  BY <2>0 DEF TypeOK, CpuInv
  <2>3. WaitLockInv'  BY DEF WaitLockInv
  <2>4. FrameInv'
    <3>1. \A q \in Slot : pc'[q] \in Waking => j'[q] >= 1  BY <2>0 DEF TypeOK, FrameInv
    <3>2. \A q \in Slot : state[q] = "USED" => state'[q] = "USED"  BY <2>0 DEF TypeOK
    <3>3. \A q \in Slot : state'[q] = "SLEEPING" => state[q] = "SLEEPING"
      BY <2>0 DEF TypeOK
    <3> QED  BY <3>1, <3>2, <3>3 DEF FrameInv
  <2> QED  BY <2>1, <2>2, <2>3, <2>4
<1>2. CASE Goto(p, next) /\ UNCHANGED <<table, locks, oncpu, frame>>
  <2> USE <1>2 DEF Goto, Wakeup, At
  <2>1. TypeOK'  BY DEF TypeOK
  <2>2. CpuInv'  BY DEF TypeOK, CpuInv
  <2>3. WaitLockInv'  BY DEF TypeOK, WaitLockInv
  <2>4. FrameInv'  BY DEF TypeOK, FrameInv
  <2> QED  BY <2>1, <2>2, <2>3, <2>4
<1> QED  BY <1>1, <1>2 DEF Wakeup

\* userinit establishes the inductive invariant.
LEMMA InitIInv == Init => IInv
<1> SUFFICES ASSUME Init PROVE IInv  OBVIOUS
<1> USE SlotRange DEF Init, Held, Parked, Dying, Exiting, Creating, Waking
<1>1. TypeOK  BY DEF TypeOK
<1>2. CpuInv  BY DEF CpuInv
<1>3. WaitLockInv  BY DEF WaitLockInv
<1>4. FrameInv  BY DEF FrameInv
<1> QED  BY <1>1, <1>2, <1>3, <1>4 DEF IInv

\* Every step of every process preserves it, whatever system calls are made.
LEMMA StepIInv == IInv /\ [Next]_vars => IInv'
<1> SUFFICES ASSUME IInv, [Next]_vars PROVE IInv'  OBVIOUS
<1> USE SlotRange DEF IInv, Held, Parked, Dying, Exiting, Creating, Waking, table, locks, frame
<1>1. ASSUME NEW p \in Slot, Dispatch(p)  PROVE IInv'
  <2> USE <1>1 DEF Dispatch
  <2>1. TypeOK'  BY DEF TypeOK, FrameInv
  <2>2. CpuInv'  BY DEF TypeOK, CpuInv, FrameInv
  <2>3. WaitLockInv'  BY DEF TypeOK, CpuInv, WaitLockInv
  <2>4. FrameInv'  BY DEF TypeOK, CpuInv, FrameInv
  <2> QED  BY <2>1, <2>2, <2>3, <2>4
<1>2. ASSUME NEW p \in Slot, Yield(p)  PROVE IInv'
  <2> USE <1>2 DEF Yield
  <2>1. TypeOK'  BY DEF TypeOK, FrameInv
  <2>2. CpuInv'  BY DEF TypeOK, CpuInv, FrameInv
  <2>3. WaitLockInv'  BY DEF TypeOK, CpuInv, WaitLockInv
  <2>4. FrameInv'  BY DEF TypeOK, CpuInv, FrameInv
  <2> QED  BY <2>1, <2>2, <2>3, <2>4
<1>3. ASSUME NEW p \in Slot, Fork(p) \/ ThreadCreate(p)  PROVE IInv'
  <2>0. At(p, "user") /\ \E leader \in Slot \cup {None} : Alloc(p, leader)
    BY <1>3 DEF Fork, ThreadCreate, Enter, At, Leader, TypeOK
  <2> PICK leader \in Slot \cup {None} : Alloc(p, leader)  BY <2>0
  <2> PICK np \in Slot :
        /\ state[np] = "UNUSED" /\ lock[np] = None
        /\ state' = [state EXCEPT ![np] = "USED"]
        /\ pid' = [pid EXCEPT ![np] = nextpid]
        /\ father' = [father EXCEPT ![np] = leader]
        /\ ustack' = IF leader = None THEN ustack ELSE ustack \cup {np}
        /\ it' = [it EXCEPT ![p] = np]
    BY DEF Alloc
  <2> USE <2>0 DEF At, Alloc, Goto
  <2>1. TypeOK'  BY DEF TypeOK, FrameInv
  <2>2. CpuInv'  BY DEF TypeOK, CpuInv, FrameInv
  <2>3. WaitLockInv'  BY DEF TypeOK, CpuInv, WaitLockInv
  <2>4. FrameInv'  BY DEF TypeOK, CpuInv, FrameInv
  <2> QED  BY <2>1, <2>2, <2>3, <2>4
<1>4. ASSUME NEW p \in Slot, Exit(p)  PROVE IInv'
  <2> USE <1>4 DEF Exit, Enter, At, Goto
  <2>1. TypeOK'  BY DEF TypeOK, FrameInv
  <2>2. CpuInv'  BY DEF TypeOK, CpuInv, FrameInv
  <2>3. WaitLockInv'  BY DEF TypeOK, CpuInv, WaitLockInv
  <2>4. FrameInv'  BY DEF TypeOK, CpuInv, FrameInv
  <2> QED  BY <2>1, <2>2, <2>3, <2>4
<1>5. ASSUME NEW p \in Slot, ThreadExit(p)  PROVE IInv'
  <2> USE <1>5 DEF ThreadExit, Enter, At, Goto
  <2>1. TypeOK'  BY DEF TypeOK, FrameInv
  <2>2. CpuInv'  BY DEF TypeOK, CpuInv, FrameInv
  <2>3. WaitLockInv'  BY DEF TypeOK, CpuInv, WaitLockInv
  <2>4. FrameInv'  BY DEF TypeOK, CpuInv, FrameInv
  <2> QED  BY <2>1, <2>2, <2>3, <2>4
<1>6. ASSUME NEW p \in Slot, Wait(p)  PROVE IInv'
  <2> USE <1>6 DEF Wait, Enter, At, Goto
  <2>1. TypeOK'  BY DEF TypeOK, FrameInv
  <2>2. CpuInv'  BY DEF TypeOK, CpuInv, FrameInv
  <2>3. WaitLockInv'  BY DEF TypeOK, CpuInv, WaitLockInv
  <2>4. FrameInv'  BY DEF TypeOK, CpuInv, FrameInv
  <2> QED  BY <2>1, <2>2, <2>3, <2>4
<1>7. ASSUME NEW p \in Slot, Join(p)  PROVE IInv'
  <2> USE <1>7 DEF Join, Enter, At, Goto, Threads
  <2>1. TypeOK'  BY DEF TypeOK, FrameInv
  <2>2. CpuInv'  BY DEF TypeOK, CpuInv, FrameInv
  <2>3. WaitLockInv'  BY DEF TypeOK, CpuInv, WaitLockInv
  <2>4. FrameInv'  BY DEF TypeOK, CpuInv, FrameInv
  <2> QED  BY <2>1, <2>2, <2>3, <2>4
<1>8. ASSUME NEW p \in Slot, NEW v \in Slot, Kill(p, v)  PROVE IInv'
  <2> USE <1>8 DEF Kill, Enter, At
  <2>1. TypeOK'  BY DEF TypeOK, FrameInv
  <2>2. CpuInv'  BY DEF TypeOK, CpuInv, FrameInv
  <2>3. WaitLockInv'  BY DEF TypeOK, CpuInv, WaitLockInv
  <2>4. FrameInv'  BY DEF TypeOK, CpuInv, FrameInv
  <2> QED  BY <2>1, <2>2, <2>3, <2>4
<1>9. ASSUME NEW p \in Slot, SleepLock(p)  PROVE IInv'
  <2> USE <1>9 DEF SleepLock, At, Goto
  <2>1. TypeOK'  BY DEF TypeOK, FrameInv
  <2>2. CpuInv'  BY DEF TypeOK, CpuInv, FrameInv
  <2>3. WaitLockInv'  BY DEF TypeOK, CpuInv, WaitLockInv
  <2>4. FrameInv'  BY DEF TypeOK, CpuInv, FrameInv
  <2> QED  BY <2>1, <2>2, <2>3, <2>4
<1>10. ASSUME NEW p \in Slot, SleepSwitch(p)  PROVE IInv'
  <2> USE <1>10 DEF SleepSwitch, At, Goto
  <2>1. TypeOK'  BY DEF TypeOK, FrameInv
  <2>2. CpuInv'  BY DEF TypeOK, CpuInv, FrameInv
  <2>3. WaitLockInv'  BY DEF TypeOK, CpuInv, WaitLockInv
  <2>4. FrameInv'  BY DEF TypeOK, CpuInv, FrameInv
  <2> QED  BY <2>1, <2>2, <2>3, <2>4
<1>11. ASSUME NEW p \in Slot, Link(p)  PROVE IInv'
  <2> USE <1>11 DEF Link, At, Goto
  <2>1. TypeOK'  BY DEF TypeOK, FrameInv
  <2>2. CpuInv'  BY DEF TypeOK, CpuInv, FrameInv
  <2>3. WaitLockInv'  BY DEF TypeOK, CpuInv, WaitLockInv
  <2>4. FrameInv'  BY DEF TypeOK, CpuInv, FrameInv
  <2> QED  BY <2>1, <2>2, <2>3, <2>4
<1>12. ASSUME NEW p \in Slot, Start(p)  PROVE IInv'
  <2> USE <1>12 DEF Start, At, Return, Goto
  <2>1. TypeOK'  BY DEF TypeOK, FrameInv
  <2>2. CpuInv'  BY DEF TypeOK, CpuInv, FrameInv
  <2>3. WaitLockInv'  BY DEF TypeOK, CpuInv, WaitLockInv
  <2>4. FrameInv'  BY DEF TypeOK, CpuInv, FrameInv
  <2> QED  BY <2>1, <2>2, <2>3, <2>4
<1>13. ASSUME NEW p \in Slot, Reparent(p)  PROVE IInv'
  <2>0. /\ p \in oncpu /\ pc[p] = "reparent"
        /\ pc' = [pc EXCEPT ![p] = "wakeinit"] \/ pc' = [pc EXCEPT ![p] = "wakeparent"]
        /\ j' = [j EXCEPT ![p] = 1]
        /\ UNCHANGED <<state, pid, chan, killed, father, ustack, nextpid, lock, waitLock,
                       oncpu, it, tid, havekids>>
    BY <1>13 DEF Reparent, At, Goto
  <2>1. parent' \in [Slot -> Slot \cup {None}] /\ i' \in [Slot -> 0..NPROC + 1]
    <3>1. CASE UNCHANGED <<parent, i>>  BY <3>1 DEF TypeOK
    <3>2. CASE Children(p, i[p]) # {}
      <4>1. PICK q \in Slot : q = Min(Children(p, i[p]))  BY <3>2, NextChild
      <4>2. parent' = [parent EXCEPT ![q] = Heir(p)] /\ i' = [i EXCEPT ![p] = q + 1]
        BY <1>13, <3>2, <4>1 DEF Reparent
      <4>3. q + 1 \in 0..NPROC + 1  OBVIOUS
      <4> QED  BY <4>2, <4>3 DEF TypeOK, Heir
    <3> QED  BY <1>13, <3>1, <3>2 DEF Reparent
  <2>2. TypeOK'
    <3>1. j' \in [Slot -> 0..NPROC + 1]
      <4>1. 1 \in 0..NPROC + 1  OBVIOUS
      <4> QED  BY <2>0, <4>1 DEF TypeOK
    <3> QED  BY <2>0, <2>1, <3>1 DEF TypeOK
  <2>3. CpuInv'  BY <2>0 DEF TypeOK, CpuInv
  <2>4. WaitLockInv'  BY <2>0 DEF TypeOK, WaitLockInv
  <2>5. FrameInv'  BY <2>0 DEF TypeOK, FrameInv
  <2> QED  BY <2>2, <2>3, <2>4, <2>5
<1>14. ASSUME NEW p \in Slot, WakeInit(p)  PROVE IInv'
  BY <1>14, WakeupIInv DEF WakeInit
<1>15. ASSUME NEW p \in Slot, WakeParent(p)  PROVE IInv'
  BY <1>15, WakeupIInv DEF WakeParent
<1>16. ASSUME NEW p \in Slot, Die(p)  PROVE IInv'
  <2> USE <1>16 DEF Die, At, Goto
  <2>1. TypeOK'  BY DEF TypeOK, FrameInv
  <2>2. CpuInv'  BY DEF TypeOK, CpuInv, FrameInv
  <2>3. WaitLockInv'  BY DEF TypeOK, CpuInv, WaitLockInv
  <2>4. FrameInv'  BY DEF TypeOK, CpuInv, FrameInv
  <2> QED  BY <2>1, <2>2, <2>3, <2>4
<1>17. ASSUME NEW p \in Slot, Gone(p)  PROVE IInv'
  <2> USE <1>17 DEF Gone, At
  <2>1. TypeOK'  BY DEF TypeOK, FrameInv
  <2>2. CpuInv'  BY DEF TypeOK, CpuInv, FrameInv
  <2>3. WaitLockInv'  BY DEF TypeOK, CpuInv, WaitLockInv
  <2>4. FrameInv'  BY DEF TypeOK, CpuInv, FrameInv
  <2> QED  BY <2>1, <2>2, <2>3, <2>4
<1>18. ASSUME NEW p \in Slot, ThreadDie(p)  PROVE IInv'
  <2> USE <1>18 DEF ThreadDie, At, Goto
  <2>1. TypeOK'  BY DEF TypeOK, FrameInv
  <2>2. CpuInv'  BY DEF TypeOK, CpuInv, FrameInv
  <2>3. WaitLockInv'  BY DEF TypeOK, CpuInv, WaitLockInv
  <2>4. FrameInv'  BY DEF TypeOK, CpuInv, FrameInv
  <2> QED  BY <2>1, <2>2, <2>3, <2>4
<1>19. ASSUME NEW p \in Slot, WakeJoiner(p)  PROVE IInv'
  BY <1>19, WakeupIInv DEF WakeJoiner
<1>20. ASSUME NEW p \in Slot, ThreadRelease(p)  PROVE IInv'
  <2> USE <1>20 DEF ThreadRelease, At, Goto
  <2>1. TypeOK'  BY DEF TypeOK, FrameInv
  <2>2. CpuInv'  BY DEF TypeOK, CpuInv, FrameInv
  <2>3. WaitLockInv'  BY DEF TypeOK, CpuInv, WaitLockInv
  <2>4. FrameInv'  BY DEF TypeOK, CpuInv, FrameInv
  <2> QED  BY <2>1, <2>2, <2>3, <2>4
<1>21. ASSUME NEW p \in Slot, WaitScan(p)  PROVE IInv'
  <2> PICK q \in Slot : q = Min(Children(p, i[p]))  BY <1>21, NextChild DEF WaitScan
  <2>0. /\ p \in oncpu /\ pc[p] = "scan" /\ lock[q] = None
        /\ UNCHANGED <<ustack, nextpid, lock, oncpu, tid>>
    BY <1>21 DEF WaitScan, ChildLocked, At
  <2>1. CASE /\ state[q] = "ZOMBIE" /\ FreeProc(q) /\ waitLock' = None
             /\ pc' = [pc EXCEPT ![p] = "user", ![q] = "user"]
             /\ i' = [i EXCEPT ![p] = 0, ![q] = 0]
             /\ j' = [j EXCEPT ![q] = 0]
             /\ it' = [it EXCEPT ![p] = None]
             /\ havekids' = [havekids EXCEPT ![p] = FALSE]
    <3> USE <2>0, <2>1 DEF FreeProc
    <3>1. TypeOK'  BY DEF TypeOK
    <3>2. CpuInv'  BY DEF TypeOK, CpuInv
    <3>3. WaitLockInv'  BY DEF TypeOK, CpuInv, WaitLockInv
    <3>4. FrameInv'  BY DEF TypeOK, CpuInv, FrameInv
    <3> QED  BY <3>1, <3>2, <3>3, <3>4
  <2>2. CASE /\ i' = [i EXCEPT ![p] = q + 1]
             /\ havekids' = [havekids EXCEPT ![p] = TRUE]
             /\ UNCHANGED <<state, pid, parent, chan, killed, father, waitLock, pc, j, it>>
    <3> USE <2>0, <2>2
    <3>1. TypeOK'
      <4>1. q + 1 \in 0..NPROC + 1  OBVIOUS
      <4> QED  BY <4>1 DEF TypeOK
    <3> QED  BY <3>1 DEF CpuInv, WaitLockInv, FrameInv
  <2> QED  BY <1>21, <2>1, <2>2 DEF WaitScan
<1>22. ASSUME NEW p \in Slot, WaitCopyFail(p)  PROVE IInv'
  <2> USE <1>22 DEF WaitCopyFail, At, Return, Goto
  <2>1. TypeOK'  BY DEF TypeOK, FrameInv
  <2>2. CpuInv'  BY DEF TypeOK, CpuInv, FrameInv
  <2>3. WaitLockInv'  BY DEF TypeOK, CpuInv, WaitLockInv
  <2>4. FrameInv'  BY DEF TypeOK, CpuInv, FrameInv
  <2> QED  BY <2>1, <2>2, <2>3, <2>4
<1>23. ASSUME NEW p \in Slot, WaitFail(p)  PROVE IInv'
  <2> USE <1>23 DEF WaitFail, At, Return, Goto
  <2>1. TypeOK'  BY DEF TypeOK, FrameInv
  <2>2. CpuInv'  BY DEF TypeOK, CpuInv, FrameInv
  <2>3. WaitLockInv'  BY DEF TypeOK, CpuInv, WaitLockInv
  <2>4. FrameInv'  BY DEF TypeOK, CpuInv, FrameInv
  <2> QED  BY <2>1, <2>2, <2>3, <2>4
<1>24. ASSUME NEW p \in Slot, WaitSleep(p)  PROVE IInv'
  <2> USE <1>24 DEF WaitSleep, At, Goto
  <2>1. TypeOK'  BY DEF TypeOK, FrameInv
  <2>2. CpuInv'  BY DEF TypeOK, CpuInv, FrameInv
  <2>3. WaitLockInv'  BY DEF TypeOK, CpuInv, WaitLockInv
  <2>4. FrameInv'  BY DEF TypeOK, CpuInv, FrameInv
  <2> QED  BY <2>1, <2>2, <2>3, <2>4
<1>25. ASSUME NEW p \in Slot, JoinFind(p)  PROVE IInv'
  <2>0. /\ p \in oncpu /\ pc[p] = "find"
        /\ UNCHANGED <<state, parent, pid, chan, killed, father, ustack, nextpid, lock, oncpu>>
    BY <1>25 DEF JoinFind, At
  <2>1. CASE waitLock' = None /\ Return(p)
    <3> USE <2>0, <2>1 DEF Return, Goto
    <3>1. TypeOK'  BY DEF TypeOK
    <3>2. CpuInv'  BY DEF TypeOK, CpuInv
    <3>3. WaitLockInv'  BY DEF TypeOK, WaitLockInv
    <3>4. FrameInv'  BY DEF TypeOK, FrameInv, CpuInv
    <3> QED  BY <3>1, <3>2, <3>3, <3>4
  <2>2. CASE \E q \in Slot :
               /\ it' = [it EXCEPT ![p] = q]
               /\ Goto(p, "check")
               /\ UNCHANGED <<waitLock, i, j, tid, havekids>>
    <3> USE <2>0, <2>2 DEF Goto
    <3>1. TypeOK'  BY DEF TypeOK
    <3>2. CpuInv'  BY DEF TypeOK, CpuInv
    <3>3. WaitLockInv'  BY DEF TypeOK, WaitLockInv
    <3>4. FrameInv'  BY DEF TypeOK, FrameInv, CpuInv
    <3> QED  BY <3>1, <3>2, <3>3, <3>4
  <2> DEFINE found == {q \in Threads(Leader(p)) : pid[q] = tid[p]}
  <2>3. found # {} => Min(found) \in Slot  BY ThreadFound
  <2> QED  BY <1>25, <2>1, <2>2, <2>3 DEF JoinFind
<1>26. ASSUME NEW p \in Slot, JoinCheck(p)  PROVE IInv'
  <2> PICK q \in Slot : q = it[p]  BY <1>26 DEF JoinCheck, At, FrameInv
  <2>0. /\ p \in oncpu /\ pc[p] = "check" /\ lock[q] = None
        /\ UNCHANGED <<ustack, nextpid, lock, oncpu, havekids>>
    BY <1>26 DEF JoinCheck, ChildLocked, At
  <2>1. CASE /\ state[q] = "ZOMBIE" /\ FreeProc(q) /\ waitLock' = None
             /\ pc' = [pc EXCEPT ![p] = "user", ![q] = "user"]
             /\ i' = [i EXCEPT ![q] = 0]
             /\ j' = [j EXCEPT ![q] = 0]
             /\ it' = [it EXCEPT ![p] = None]
             /\ tid' = [tid EXCEPT ![p] = 0]
    <3> USE <2>0, <2>1 DEF FreeProc
    <3>1. TypeOK'  BY DEF TypeOK
    <3>2. CpuInv'  BY DEF TypeOK, CpuInv
    <3>3. WaitLockInv'  BY DEF TypeOK, CpuInv, WaitLockInv
    <3>4. FrameInv'  BY DEF TypeOK, CpuInv, FrameInv
    <3> QED  BY <3>1, <3>2, <3>3, <3>4
  <2>2. CASE /\ Goto(p, "sleep")
             /\ UNCHANGED <<state, pid, parent, chan, killed, father, waitLock, i, j, it, tid>>
    <3> USE <2>0, <2>2 DEF Goto
    <3>1. TypeOK'  BY DEF TypeOK
    <3>2. CpuInv'  BY DEF TypeOK, CpuInv
    <3>3. WaitLockInv'  BY DEF TypeOK, CpuInv, WaitLockInv
    <3>4. FrameInv'  BY DEF TypeOK, CpuInv, FrameInv
    <3> QED  BY <3>1, <3>2, <3>3, <3>4
  <2> QED  BY <1>26, <2>1, <2>2 DEF JoinCheck
<1>27. CASE UNCHANGED vars
  BY <1>27 DEF vars, TypeOK, CpuInv, WaitLockInv, FrameInv
<1> QED
  BY <1>1, <1>2, <1>3, <1>4, <1>5, <1>6, <1>7, <1>8, <1>9, <1>10, <1>11, <1>12, <1>13, <1>14, <1>15, <1>16, <1>17, <1>18, <1>19, <1>20, <1>21, <1>22, <1>23, <1>24, <1>25, <1>26, <1>27
  DEF Next, Kernel

\* The inductive invariant holds in every reachable state.
THEOREM IInvHolds == Spec => []IInv
BY InitIInv, StepIInv, PTL DEF Spec

\* Type correctness, of the loop indices and of the slots that calls work on too.
THEOREM TypeCorrect == Spec => []TypeOK
<1>1. IInv => TypeOK  BY DEF IInv
<1> QED  BY IInvHolds, <1>1, PTL

\* Whatever programs do, no slot is freed under a process that is still on its
\* kernel stack.
THEOREM ReapedOffCpu == Spec => []FreedOffCpu
<1>1. IInv => FreedOffCpu  BY DEF IInv, TypeOK, CpuInv, FreedOffCpu
<1> QED  BY IInvHolds, <1>1, PTL
-----------------------------------------------------------------------------
(* Programs without threads: no exit is lost. *)

\* Every step preserves what exit, wait and reparent rely on.
LEMMA StepExitInv ==
  ASSUME "thread_create" \notin Calls, IInv, IInv', ExitInv, [Next]_vars
  PROVE  ExitInv'
<1> USE SlotRange DEF IInv, ExitInv, Held, Parked, Dying, Exiting, Creating, Waking,
        table, locks, frame
<1>1. ASSUME NEW p \in Slot, Dispatch(p)  PROVE ExitInv'
  <2> USE <1>1 DEF Dispatch
  <2>1. NoThreadInv'  BY DEF TypeOK, NoThreadInv
  <2>2. InitprocInv'  BY DEF TypeOK, CpuInv, FrameInv, InitprocInv
  <2>3. ReparentInv'  BY DEF TypeOK, CpuInv, WaitLockInv, FrameInv, InitprocInv, ReparentInv
  <2>4. WaitInv'  BY DEF TypeOK, CpuInv, WaitLockInv, FrameInv, NoThreadInv, InitprocInv, ReparentInv, WaitInv, InWait, InitWoken
  <2> QED  BY <2>1, <2>2, <2>3, <2>4
<1>2. ASSUME NEW p \in Slot, Yield(p)  PROVE ExitInv'
  <2> USE <1>2 DEF Yield
  <2>1. NoThreadInv'  BY DEF TypeOK, NoThreadInv
  <2>2. InitprocInv'  BY DEF TypeOK, CpuInv, FrameInv, InitprocInv
  <2>3. ReparentInv'  BY DEF TypeOK, CpuInv, WaitLockInv, FrameInv, InitprocInv, ReparentInv
  <2>4. WaitInv'  BY DEF TypeOK, CpuInv, WaitLockInv, FrameInv, NoThreadInv, InitprocInv, ReparentInv, WaitInv, InWait, InitWoken
  <2> QED  BY <2>1, <2>2, <2>3, <2>4
<1>3. ASSUME NEW p \in Slot, Fork(p)  PROVE ExitInv'
  <2> PICK np \in Slot : /\ state[np] = "UNUSED"
                         /\ state' = [state EXCEPT ![np] = "USED"]
                         /\ father' = [father EXCEPT ![np] = None]
                         /\ it' = [it EXCEPT ![p] = np]
    BY <1>3 DEF Fork, Alloc
  <2>0. /\ p \in oncpu /\ pc[p] = "user" /\ pc' = [pc EXCEPT ![p] = "link"]
        /\ UNCHANGED <<parent, chan, killed, waitLock, lock, oncpu, i, j, tid, havekids>>
    BY <1>3 DEF Fork, Enter, At, Alloc, Goto
  <2> USE <2>0
  <2>1. NoThreadInv'  BY DEF TypeOK, NoThreadInv
  <2>2. InitprocInv'  BY DEF TypeOK, CpuInv, FrameInv, InitprocInv
  <2>3. ReparentInv'  BY DEF TypeOK, CpuInv, WaitLockInv, FrameInv, InitprocInv, ReparentInv
  <2>4. WaitInv'  BY DEF TypeOK, CpuInv, WaitLockInv, FrameInv, NoThreadInv, InitprocInv, ReparentInv, WaitInv, InWait, InitWoken
  <2> QED  BY <2>1, <2>2, <2>3, <2>4
<1>4. ASSUME NEW p \in Slot, Exit(p)  PROVE ExitInv'
  <2> USE <1>4 DEF Exit, Enter, At, Goto
  <2>1. NoThreadInv'  BY DEF TypeOK, NoThreadInv
  <2>2. InitprocInv'  BY DEF TypeOK, CpuInv, FrameInv, InitprocInv
  <2>3. ReparentInv'  BY DEF TypeOK, CpuInv, WaitLockInv, FrameInv, InitprocInv, ReparentInv
  <2>4. WaitInv'  BY DEF TypeOK, CpuInv, WaitLockInv, FrameInv, NoThreadInv, InitprocInv, ReparentInv, WaitInv, InWait, InitWoken
  <2> QED  BY <2>1, <2>2, <2>3, <2>4
<1>5. ASSUME NEW p \in Slot, Wait(p)  PROVE ExitInv'
  <2> USE <1>5 DEF Wait, Enter, At, Goto
  <2>1. NoThreadInv'  BY DEF TypeOK, NoThreadInv
  <2>2. InitprocInv'  BY DEF TypeOK, CpuInv, FrameInv, InitprocInv
  <2>3. ReparentInv'  BY DEF TypeOK, CpuInv, WaitLockInv, FrameInv, InitprocInv, ReparentInv
  <2>4. WaitInv'  BY DEF TypeOK, CpuInv, WaitLockInv, FrameInv, NoThreadInv, InitprocInv, ReparentInv, WaitInv, InWait, InitWoken
  <2> QED  BY <2>1, <2>2, <2>3, <2>4
<1>6. ASSUME NEW p \in Slot, NEW v \in Slot, Kill(p, v)  PROVE ExitInv'
  <2> USE <1>6 DEF Kill, Enter, At
  <2>1. NoThreadInv'  BY DEF TypeOK, NoThreadInv
  <2>2. InitprocInv'  BY DEF TypeOK, CpuInv, FrameInv, InitprocInv
  <2>3. ReparentInv'  BY DEF TypeOK, CpuInv, WaitLockInv, FrameInv, InitprocInv, ReparentInv
  <2>4. WaitInv'  BY DEF TypeOK, CpuInv, WaitLockInv, FrameInv, NoThreadInv, InitprocInv, ReparentInv, WaitInv, InWait, InitWoken
  <2> QED  BY <2>1, <2>2, <2>3, <2>4
<1>7. ASSUME NEW p \in Slot, SleepLock(p)  PROVE ExitInv'
  <2> USE <1>7 DEF SleepLock, At, Goto
  <2>1. NoThreadInv'  BY DEF TypeOK, NoThreadInv
  <2>2. InitprocInv'  BY DEF TypeOK, CpuInv, FrameInv, InitprocInv
  <2>3. ReparentInv'  BY DEF TypeOK, CpuInv, WaitLockInv, FrameInv, InitprocInv, ReparentInv
  <2>4. WaitInv'  BY DEF TypeOK, CpuInv, WaitLockInv, FrameInv, NoThreadInv, InitprocInv, ReparentInv, WaitInv, InWait, InitWoken
  <2> QED  BY <2>1, <2>2, <2>3, <2>4
<1>8. ASSUME NEW p \in Slot, SleepSwitch(p)  PROVE ExitInv'
  <2> USE <1>8 DEF SleepSwitch, At, Goto
  <2>1. NoThreadInv'  BY DEF TypeOK, NoThreadInv
  <2>2. InitprocInv'  BY DEF TypeOK, CpuInv, FrameInv, InitprocInv
  <2>3. ReparentInv'  BY DEF TypeOK, CpuInv, WaitLockInv, FrameInv, InitprocInv, ReparentInv
  <2>4. WaitInv'  BY DEF TypeOK, CpuInv, WaitLockInv, FrameInv, NoThreadInv, InitprocInv, ReparentInv, WaitInv, InWait, InitWoken
  <2> QED  BY <2>1, <2>2, <2>3, <2>4
<1>9. ASSUME NEW p \in Slot, Link(p)  PROVE ExitInv'
  <2> USE <1>9 DEF Link, At, Goto
  <2>1. NoThreadInv'  BY DEF TypeOK, NoThreadInv
  <2>2. InitprocInv'  BY DEF TypeOK, CpuInv, FrameInv, InitprocInv
  <2>3. ReparentInv'  BY DEF TypeOK, CpuInv, WaitLockInv, FrameInv, InitprocInv, ReparentInv
  <2>4. WaitInv'  BY DEF TypeOK, CpuInv, WaitLockInv, FrameInv, NoThreadInv, InitprocInv, ReparentInv, WaitInv, InWait, InitWoken
  <2> QED  BY <2>1, <2>2, <2>3, <2>4
<1>10. ASSUME NEW p \in Slot, Start(p)  PROVE ExitInv'
  <2> USE <1>10 DEF Start, At, Return, Goto
  <2>1. NoThreadInv'  BY DEF TypeOK, NoThreadInv
  <2>2. InitprocInv'  BY DEF TypeOK, CpuInv, FrameInv, InitprocInv
  <2>3. ReparentInv'  BY DEF TypeOK, CpuInv, WaitLockInv, FrameInv, InitprocInv, ReparentInv
  <2>4. WaitInv'  BY DEF TypeOK, CpuInv, WaitLockInv, FrameInv, NoThreadInv, InitprocInv, ReparentInv, WaitInv, InWait, InitWoken
  <2> QED  BY <2>1, <2>2, <2>3, <2>4
<1>11. ASSUME NEW p \in Slot, Reparent(p)  PROVE ExitInv'
  <2>0. /\ p \in oncpu /\ pc[p] = "reparent" /\ j' = [j EXCEPT ![p] = 1]
        /\ UNCHANGED <<state, pid, chan, killed, father, ustack, nextpid, lock, waitLock,
                       oncpu, it, tid, havekids>>
    BY <1>11 DEF Reparent, At
  <2>1. CASE Children(p, i[p]) # {}
    <3> PICK q \in Slot : q = Min(Children(p, i[p]))  BY <2>1, NextChild
    <3>0. /\ parent[q] = p /\ q >= i[p]
          /\ \A r \in Slot : r >= i[p] /\ parent[r] = p => q <= r
          /\ parent' = [parent EXCEPT ![q] = initproc]
          /\ i' = [i EXCEPT ![p] = q + 1]
          /\ pc' = [pc EXCEPT ![p] = "wakeinit"]
      BY <1>11, <2>1, NextChild DEF Reparent, Heir, Goto
    <3> USE <2>0, <3>0
    <3>1. NoThreadInv'  BY DEF TypeOK, NoThreadInv
    <3>2. InitprocInv'  BY DEF TypeOK, CpuInv, FrameInv, InitprocInv
    <3>3. ReparentInv'  BY DEF TypeOK, CpuInv, WaitLockInv, FrameInv, InitprocInv, ReparentInv
    <3>4. WaitInv'  BY DEF TypeOK, CpuInv, WaitLockInv, FrameInv, NoThreadInv, InitprocInv, ReparentInv, WaitInv, InWait, InitWoken
    <3> QED  BY <3>1, <3>2, <3>3, <3>4
  <2>2. CASE Children(p, i[p]) = {}
    <3>0. /\ \A q \in Slot : parent[q] = p => q < i[p]
          /\ pc' = [pc EXCEPT ![p] = "wakeparent"]
          /\ UNCHANGED <<parent, i>>
      BY <1>11, <2>2 DEF Reparent, Goto, Children, TypeOK
    <3> USE <2>0, <3>0
    <3>1. NoThreadInv'  BY DEF TypeOK, NoThreadInv
    <3>2. InitprocInv'  BY DEF TypeOK, CpuInv, FrameInv, InitprocInv
    <3>3. ReparentInv'  BY DEF TypeOK, CpuInv, WaitLockInv, FrameInv, InitprocInv, ReparentInv
    <3>4. WaitInv'  BY DEF TypeOK, CpuInv, WaitLockInv, FrameInv, NoThreadInv, InitprocInv, ReparentInv, WaitInv, InWait, InitWoken
    <3> QED  BY <3>1, <3>2, <3>3, <3>4
  <2> QED  BY <2>1, <2>2
<1>12. ASSUME NEW p \in Slot, WakeInit(p)  PROVE ExitInv'
  <2> USE <1>12 DEF WakeInit, Wakeup, At, Goto
  <2>1. NoThreadInv'  BY DEF TypeOK, NoThreadInv
  <2>2. InitprocInv'  BY DEF TypeOK, CpuInv, FrameInv, InitprocInv
  <2>3. ReparentInv'  BY DEF TypeOK, CpuInv, WaitLockInv, FrameInv, InitprocInv, ReparentInv
  <2>4. WaitInv'  BY DEF TypeOK, CpuInv, WaitLockInv, FrameInv, NoThreadInv, InitprocInv, ReparentInv, WaitInv, InWait, InitWoken
  <2> QED  BY <2>1, <2>2, <2>3, <2>4
<1>13. ASSUME NEW p \in Slot, WakeParent(p)  PROVE ExitInv'
  <2> USE <1>13 DEF WakeParent, Wakeup, At, Goto
  <2>1. NoThreadInv'  BY DEF TypeOK, NoThreadInv
  <2>2. InitprocInv'  BY DEF TypeOK, CpuInv, FrameInv, InitprocInv
  <2>3. ReparentInv'  BY DEF TypeOK, CpuInv, WaitLockInv, FrameInv, InitprocInv, ReparentInv
  <2>4. WaitInv'  BY DEF TypeOK, CpuInv, WaitLockInv, FrameInv, NoThreadInv, InitprocInv, ReparentInv, WaitInv, InWait, InitWoken
  <2> QED  BY <2>1, <2>2, <2>3, <2>4
<1>14. ASSUME NEW p \in Slot, Die(p)  PROVE ExitInv'
  <2> USE <1>14 DEF Die, At, Goto
  <2>1. NoThreadInv'  BY DEF TypeOK, NoThreadInv
  <2>2. InitprocInv'  BY DEF TypeOK, CpuInv, FrameInv, InitprocInv
  <2>3. ReparentInv'  BY DEF TypeOK, CpuInv, WaitLockInv, FrameInv, InitprocInv, ReparentInv
  <2>4. WaitInv'  BY DEF TypeOK, CpuInv, WaitLockInv, FrameInv, NoThreadInv, InitprocInv, ReparentInv, WaitInv, InWait, InitWoken
  <2> QED  BY <2>1, <2>2, <2>3, <2>4
<1>15. ASSUME NEW p \in Slot, Gone(p)  PROVE ExitInv'
  <2> USE <1>15 DEF Gone, At
  <2>1. NoThreadInv'  BY DEF TypeOK, NoThreadInv
  <2>2. InitprocInv'  BY DEF TypeOK, CpuInv, FrameInv, InitprocInv
  <2>3. ReparentInv'  BY DEF TypeOK, CpuInv, WaitLockInv, FrameInv, InitprocInv, ReparentInv
  <2>4. WaitInv'  BY DEF TypeOK, CpuInv, WaitLockInv, FrameInv, NoThreadInv, InitprocInv, ReparentInv, WaitInv, InWait, InitWoken
  <2> QED  BY <2>1, <2>2, <2>3, <2>4
<1>16. ASSUME NEW p \in Slot, WaitScan(p)  PROVE ExitInv'
  <2> PICK q \in Slot : q = Min(Children(p, i[p]))  BY <1>16, NextChild DEF WaitScan
  <2>0. /\ p \in oncpu /\ pc[p] = "scan" /\ lock[q] = None
        /\ parent[q] = p /\ q >= i[p]
        /\ \A r \in Slot : r >= i[p] /\ parent[r] = p => q <= r
        /\ UNCHANGED <<ustack, nextpid, lock, oncpu, tid>>
    BY <1>16, NextChild DEF WaitScan, ChildLocked, At
  <2>1. CASE /\ state[q] = "ZOMBIE" /\ FreeProc(q) /\ waitLock' = None
             /\ pc' = [pc EXCEPT ![p] = "user", ![q] = "user"]
             /\ i' = [i EXCEPT ![p] = 0, ![q] = 0]
             /\ j' = [j EXCEPT ![q] = 0]
             /\ it' = [it EXCEPT ![p] = None]
    <3> USE <2>0, <2>1 DEF FreeProc
    <3>1. NoThreadInv'  BY DEF TypeOK, NoThreadInv
    <3>2. InitprocInv'  BY DEF TypeOK, CpuInv, FrameInv, InitprocInv
    <3>3. ReparentInv'  BY DEF TypeOK, CpuInv, WaitLockInv, FrameInv, InitprocInv, ReparentInv
    <3>4. WaitInv'  BY DEF TypeOK, CpuInv, WaitLockInv, FrameInv, NoThreadInv, InitprocInv, ReparentInv, WaitInv, InWait, InitWoken
    <3> QED  BY <3>1, <3>2, <3>3, <3>4
  <2>2. CASE /\ state[q] # "ZOMBIE"
             /\ i' = [i EXCEPT ![p] = q + 1]
             /\ UNCHANGED <<state, pid, parent, chan, killed, father, waitLock, pc, j, it>>
    <3> USE <2>0, <2>2
    <3>1. NoThreadInv'  BY DEF TypeOK, NoThreadInv
    <3>2. InitprocInv'  BY DEF TypeOK, CpuInv, FrameInv, InitprocInv
    <3>3. ReparentInv'  BY DEF TypeOK, CpuInv, WaitLockInv, FrameInv, InitprocInv, ReparentInv
    <3>4. WaitInv'
      <4>1. \A r \in Slot : pc[r] = "scan" => r = p  BY DEF WaitLockInv
      <4>2. \A r \in Slot : parent[r] = p /\ r < q + 1 => state[r] # "ZOMBIE"
        <5> SUFFICES ASSUME NEW r \in Slot, parent[r] = p, r < q + 1, r # q
                     PROVE  state[r] # "ZOMBIE"
          OBVIOUS
        <5>1. r < i[p]  BY DEF TypeOK
        <5> QED  BY <5>1 DEF WaitInv
      <4>3. i'[p] = q + 1  BY DEF TypeOK
      <4> QED  BY <4>1, <4>2, <4>3 DEF WaitInv, InWait, InitWoken
    <3> QED  BY <3>1, <3>2, <3>3, <3>4
  <2> QED  BY <1>16, <2>1, <2>2 DEF WaitScan
<1>17. ASSUME NEW p \in Slot, WaitCopyFail(p)  PROVE ExitInv'
  <2> USE <1>17 DEF WaitCopyFail, At, Return, Goto
  <2>1. NoThreadInv'  BY DEF TypeOK, NoThreadInv
  <2>2. InitprocInv'  BY DEF TypeOK, CpuInv, FrameInv, InitprocInv
  <2>3. ReparentInv'  BY DEF TypeOK, CpuInv, WaitLockInv, FrameInv, InitprocInv, ReparentInv
  <2>4. WaitInv'  BY DEF TypeOK, CpuInv, WaitLockInv, FrameInv, NoThreadInv, InitprocInv, ReparentInv, WaitInv, InWait, InitWoken
  <2> QED  BY <2>1, <2>2, <2>3, <2>4
<1>18. ASSUME NEW p \in Slot, WaitFail(p)  PROVE ExitInv'
  <2> USE <1>18 DEF WaitFail, At, Return, Goto
  <2>1. NoThreadInv'  BY DEF TypeOK, NoThreadInv
  <2>2. InitprocInv'  BY DEF TypeOK, CpuInv, FrameInv, InitprocInv
  <2>3. ReparentInv'  BY DEF TypeOK, CpuInv, WaitLockInv, FrameInv, InitprocInv, ReparentInv
  <2>4. WaitInv'  BY DEF TypeOK, CpuInv, WaitLockInv, FrameInv, NoThreadInv, InitprocInv, ReparentInv, WaitInv, InWait, InitWoken
  <2> QED  BY <2>1, <2>2, <2>3, <2>4
<1>19. ASSUME NEW p \in Slot, WaitSleep(p)  PROVE ExitInv'
  <2> USE <1>19 DEF WaitSleep, At, Goto, Children
  <2>1. NoThreadInv'  BY DEF TypeOK, NoThreadInv
  <2>2. InitprocInv'  BY DEF TypeOK, CpuInv, FrameInv, InitprocInv
  <2>3. ReparentInv'  BY DEF TypeOK, CpuInv, WaitLockInv, FrameInv, InitprocInv, ReparentInv
  <2>4. WaitInv'  BY DEF TypeOK, CpuInv, WaitLockInv, FrameInv, NoThreadInv, InitprocInv, ReparentInv, WaitInv, InWait, InitWoken
  <2> QED  BY <2>1, <2>2, <2>3, <2>4
<1>20. ASSUME NEW p \in Slot,
             \/ ThreadCreate(p) \/ ThreadExit(p) \/ ThreadDie(p) \/ WakeJoiner(p)
             \/ ThreadRelease(p) \/ Join(p) \/ JoinFind(p) \/ JoinCheck(p)
      PROVE  ExitInv'
  <2>1. Threads(Leader(p)) = {}  BY DEF Threads, Leader, NoThreadInv
  <2> QED  BY <1>20, <2>1 DEF ThreadCreate, ThreadExit, ThreadDie, WakeJoiner, Wakeup,
            ThreadRelease, Join, JoinFind, JoinCheck, Enter, At, NoThreadInv
<1>21. CASE UNCHANGED vars
  BY <1>21 DEF vars, NoThreadInv, InitprocInv, ReparentInv, WaitInv, InWait, InitWoken
<1> QED
  BY <1>1, <1>2, <1>3, <1>4, <1>5, <1>6, <1>7, <1>8, <1>9, <1>10, <1>11, <1>12, <1>13, <1>14, <1>15, <1>16, <1>17, <1>18, <1>19, <1>20, <1>21
  DEF Next, Kernel

\* Every zombie has a parent that is alive and that is not asleep in wait unaware of it,
\* and the first process stays.
LEMMA ExitInvHolds ==
  ASSUME "thread_create" \notin Calls
  PROVE  Spec => []ExitInv
<1>1. Init => ExitInv
  BY SlotRange DEF Init, ExitInv, NoThreadInv, InitprocInv, ReparentInv, WaitInv, InWait,
     Exiting
<1>2. IInv /\ IInv' /\ ExitInv /\ [Next]_vars => ExitInv'  BY StepExitInv
<1> QED  BY IInvHolds, <1>1, <1>2, PTL DEF Spec

\* A process asleep in wait is woken by the exit of any of its children, whoever is
\* on the way into the sleep or out of it, if programs make no threads.
THEOREM WaitHearsExit ==
  ASSUME "thread_create" \notin Calls
  PROVE  Spec => []NoLostExit
<1>1. IInv /\ ExitInv => NoLostExit
  BY SlotRange DEF IInv, WaitLockInv, Held, Exiting, ExitInv, WaitInv, InWait, InitWoken,
     NoLostExit
<1> QED  BY IInvHolds, ExitInvHolds, <1>1, PTL

\* No process has a parent that is dead or gone, if programs make no threads.
THEOREM NoOrphans ==
  ASSUME "thread_create" \notin Calls
  PROVE  Spec => []ParentAlive
<1>1. IInv /\ ExitInv => ParentAlive
  BY DEF IInv, TypeOK, ExitInv, ReparentInv, ParentAlive
<1> QED  BY IInvHolds, ExitInvHolds, <1>1, PTL
-----------------------------------------------------------------------------
(* Threads that end by thread_exit only: no thread_exit is lost. *)

\* Every step preserves what thread_exit and thread_join rely on.
LEMMA StepThreadInv ==
  ASSUME "exit" \notin Calls, "kill" \notin Calls, IInv, IInv', ThreadInv, [Next]_vars
  PROVE  ThreadInv'
<1> USE SlotRange DEF IInv, ThreadInv, Held, Parked, Dying, Exiting, Creating, Waking,
        table, locks, frame
<1>1. ASSUME NEW p \in Slot, Dispatch(p)  PROVE ThreadInv'
  <2> USE <1>1 DEF Dispatch
  <2>1. ThreadEndInv'  BY DEF TypeOK, CpuInv, WaitLockInv, ThreadEndInv
  <2>2. JoinInv'  BY DEF TypeOK, CpuInv, WaitLockInv, FrameInv, ThreadEndInv, JoinInv, InJoin
  <2> QED  BY <2>1, <2>2
<1>2. ASSUME NEW p \in Slot, Yield(p)  PROVE ThreadInv'
  <2> USE <1>2 DEF Yield
  <2>1. ThreadEndInv'  BY DEF TypeOK, CpuInv, WaitLockInv, ThreadEndInv
  <2>2. JoinInv'  BY DEF TypeOK, CpuInv, WaitLockInv, FrameInv, ThreadEndInv, JoinInv, InJoin
  <2> QED  BY <2>1, <2>2
<1>3. ASSUME NEW p \in Slot, Fork(p) \/ ThreadCreate(p)  PROVE ThreadInv'
  <2>0. At(p, "user") /\ \E leader \in Slot \cup {None} : Alloc(p, leader)
    BY <1>3 DEF Fork, ThreadCreate, Enter, At, Leader, TypeOK
  <2> PICK leader \in Slot \cup {None} : Alloc(p, leader)  BY <2>0
  <2> PICK np \in Slot :
        /\ state[np] = "UNUSED"
        /\ state' = [state EXCEPT ![np] = "USED"]
        /\ pid' = [pid EXCEPT ![np] = nextpid]
        /\ father' = [father EXCEPT ![np] = leader]
        /\ it' = [it EXCEPT ![p] = np]
    BY DEF Alloc
  <2> USE <2>0 DEF At, Alloc, Goto
  <2>1. ThreadEndInv'  BY DEF TypeOK, CpuInv, WaitLockInv, ThreadEndInv
  <2>2. JoinInv'  BY DEF TypeOK, CpuInv, WaitLockInv, FrameInv, ThreadEndInv, JoinInv, InJoin
  <2> QED  BY <2>1, <2>2
<1>4. ASSUME NEW p \in Slot, Exit(p)  PROVE ThreadInv'
  <2> USE <1>4 DEF Exit, Enter, At, Goto
  <2>1. ThreadEndInv'  BY DEF TypeOK, CpuInv, WaitLockInv, ThreadEndInv
  <2>2. JoinInv'  BY DEF TypeOK, CpuInv, WaitLockInv, FrameInv, ThreadEndInv, JoinInv, InJoin
  <2> QED  BY <2>1, <2>2
<1>5. ASSUME NEW p \in Slot, ThreadExit(p)  PROVE ThreadInv'
  <2> USE <1>5 DEF ThreadExit, Enter, At, Goto
  <2>1. ThreadEndInv'  BY DEF TypeOK, CpuInv, WaitLockInv, ThreadEndInv
  <2>2. JoinInv'  BY DEF TypeOK, CpuInv, WaitLockInv, FrameInv, ThreadEndInv, JoinInv, InJoin
  <2> QED  BY <2>1, <2>2
<1>6. ASSUME NEW p \in Slot, Wait(p)  PROVE ThreadInv'
  <2> USE <1>6 DEF Wait, Enter, At, Goto
  <2>1. ThreadEndInv'  BY DEF TypeOK, CpuInv, WaitLockInv, ThreadEndInv
  <2>2. JoinInv'  BY DEF TypeOK, CpuInv, WaitLockInv, FrameInv, ThreadEndInv, JoinInv, InJoin
  <2> QED  BY <2>1, <2>2
<1>7. ASSUME NEW p \in Slot, Join(p)  PROVE ThreadInv'
  <2> USE <1>7 DEF Join, Enter, At, Goto, Threads
  <2>1. ThreadEndInv'  BY DEF TypeOK, CpuInv, WaitLockInv, ThreadEndInv
  <2>2. JoinInv'  BY DEF TypeOK, CpuInv, WaitLockInv, FrameInv, ThreadEndInv, JoinInv, InJoin
  <2> QED  BY <2>1, <2>2
<1>8. ASSUME NEW p \in Slot, SleepLock(p)  PROVE ThreadInv'
  <2> USE <1>8 DEF SleepLock, At, Goto
  <2>1. ThreadEndInv'  BY DEF TypeOK, CpuInv, WaitLockInv, ThreadEndInv
  <2>2. JoinInv'  BY DEF TypeOK, CpuInv, WaitLockInv, FrameInv, ThreadEndInv, JoinInv, InJoin
  <2> QED  BY <2>1, <2>2
<1>9. ASSUME NEW p \in Slot, SleepSwitch(p)  PROVE ThreadInv'
  <2> USE <1>9 DEF SleepSwitch, At, Goto
  <2>1. ThreadEndInv'  BY DEF TypeOK, CpuInv, WaitLockInv, ThreadEndInv
  <2>2. JoinInv'  BY DEF TypeOK, CpuInv, WaitLockInv, FrameInv, ThreadEndInv, JoinInv, InJoin
  <2> QED  BY <2>1, <2>2
<1>10. ASSUME NEW p \in Slot, Link(p)  PROVE ThreadInv'
  <2> USE <1>10 DEF Link, At, Goto
  <2>1. ThreadEndInv'  BY DEF TypeOK, CpuInv, WaitLockInv, ThreadEndInv
  <2>2. JoinInv'  BY DEF TypeOK, CpuInv, WaitLockInv, FrameInv, ThreadEndInv, JoinInv, InJoin
  <2> QED  BY <2>1, <2>2
<1>11. ASSUME NEW p \in Slot, Start(p)  PROVE ThreadInv'
  <2> USE <1>11 DEF Start, At, Return, Goto
  <2>1. ThreadEndInv'  BY DEF TypeOK, CpuInv, FrameInv, ThreadEndInv
  <2>2. JoinInv'  BY DEF TypeOK, CpuInv, WaitLockInv, FrameInv, ThreadEndInv, JoinInv, InJoin
  <2> QED  BY <2>1, <2>2
<1>12. ASSUME NEW p \in Slot, Reparent(p)  PROVE ThreadInv'
  <2>0. /\ p \in oncpu /\ pc[p] = "reparent" /\ j' = [j EXCEPT ![p] = 1]
        /\ pc' = [pc EXCEPT ![p] = "wakeinit"] \/ pc' = [pc EXCEPT ![p] = "wakeparent"]
        /\ UNCHANGED <<state, pid, chan, killed, father, it, tid>>
    BY <1>12 DEF Reparent, At, Goto
  <2> USE <2>0
  <2>1. ThreadEndInv'  BY DEF TypeOK, CpuInv, WaitLockInv, ThreadEndInv
  <2>2. JoinInv'  BY DEF TypeOK, CpuInv, WaitLockInv, FrameInv, ThreadEndInv, JoinInv, InJoin
  <2> QED  BY <2>1, <2>2
<1>13. ASSUME NEW p \in Slot, WakeInit(p)  PROVE ThreadInv'
  <2> USE <1>13 DEF WakeInit, Wakeup, At, Goto
  <2>1. ThreadEndInv'  BY DEF TypeOK, CpuInv, WaitLockInv, ThreadEndInv
  <2>2. JoinInv'  BY DEF TypeOK, CpuInv, WaitLockInv, FrameInv, ThreadEndInv, JoinInv, InJoin
  <2> QED  BY <2>1, <2>2
<1>14. ASSUME NEW p \in Slot, WakeParent(p)  PROVE ThreadInv'
  <2> USE <1>14 DEF WakeParent, Wakeup, At, Goto
  <2>1. ThreadEndInv'  BY DEF TypeOK, CpuInv, WaitLockInv, ThreadEndInv
  <2>2. JoinInv'  BY DEF TypeOK, CpuInv, WaitLockInv, FrameInv, ThreadEndInv, JoinInv, InJoin
  <2> QED  BY <2>1, <2>2
<1>15. ASSUME NEW p \in Slot, Die(p)  PROVE ThreadInv'
  <2> USE <1>15 DEF Die, At, Goto
  <2>1. ThreadEndInv'  BY DEF TypeOK, CpuInv, WaitLockInv, ThreadEndInv
  <2>2. JoinInv'  BY DEF TypeOK, CpuInv, WaitLockInv, FrameInv, ThreadEndInv, JoinInv, InJoin
  <2> QED  BY <2>1, <2>2
<1>16. ASSUME NEW p \in Slot, Gone(p)  PROVE ThreadInv'
  <2> USE <1>16 DEF Gone, At
  <2>1. ThreadEndInv'  BY DEF TypeOK, CpuInv, WaitLockInv, ThreadEndInv
  <2>2. JoinInv'  BY DEF TypeOK, CpuInv, WaitLockInv, FrameInv, ThreadEndInv, JoinInv, InJoin
  <2> QED  BY <2>1, <2>2
<1>17. ASSUME NEW p \in Slot, ThreadDie(p)  PROVE ThreadInv'
  <2> USE <1>17 DEF ThreadDie, At, Goto
  <2>1. ThreadEndInv'  BY DEF TypeOK, CpuInv, WaitLockInv, ThreadEndInv
  <2>2. JoinInv'  BY DEF TypeOK, CpuInv, WaitLockInv, FrameInv, ThreadEndInv, JoinInv, InJoin
  <2> QED  BY <2>1, <2>2
<1>18. ASSUME NEW p \in Slot, WakeJoiner(p)  PROVE ThreadInv'
  <2> USE <1>18 DEF WakeJoiner, Wakeup, At, Goto
  <2>1. ThreadEndInv'  BY DEF TypeOK, CpuInv, WaitLockInv, ThreadEndInv
  <2>2. JoinInv'  BY DEF TypeOK, CpuInv, WaitLockInv, FrameInv, ThreadEndInv, JoinInv, InJoin
  <2> QED  BY <2>1, <2>2
<1>19. ASSUME NEW p \in Slot, ThreadRelease(p)  PROVE ThreadInv'
  <2> USE <1>19 DEF ThreadRelease, At, Goto
  <2>1. ThreadEndInv'  BY DEF TypeOK, CpuInv, WaitLockInv, ThreadEndInv
  <2>2. JoinInv'  BY DEF TypeOK, CpuInv, WaitLockInv, FrameInv, ThreadEndInv, JoinInv, InJoin
  <2> QED  BY <2>1, <2>2
<1>20. ASSUME NEW p \in Slot, WaitScan(p)  PROVE ThreadInv'
  <2> PICK q \in Slot : q = Min(Children(p, i[p]))  BY <1>20, NextChild DEF WaitScan
  <2>0. p \in oncpu /\ pc[p] = "scan" /\ lock[q] = None /\ UNCHANGED tid
    BY <1>20 DEF WaitScan, ChildLocked, At
  <2>1. CASE /\ state[q] = "ZOMBIE" /\ father[q] = None /\ FreeProc(q)
             /\ pc' = [pc EXCEPT ![p] = "user", ![q] = "user"]
             /\ j' = [j EXCEPT ![q] = 0]
             /\ it' = [it EXCEPT ![p] = None]
    <3> USE <2>0, <2>1 DEF FreeProc
    <3>1. ThreadEndInv'  BY DEF TypeOK, CpuInv, WaitLockInv, ThreadEndInv
    <3>2. JoinInv'  BY DEF TypeOK, CpuInv, WaitLockInv, FrameInv, ThreadEndInv, JoinInv, InJoin
    <3> QED  BY <3>1, <3>2
  <2>2. CASE UNCHANGED <<state, pid, parent, chan, killed, father, waitLock, pc, j, it>>
    BY <2>0, <2>2 DEF ThreadEndInv, JoinInv, InJoin
  <2> QED  BY <1>20, <2>1, <2>2 DEF WaitScan
<1>21. ASSUME NEW p \in Slot, WaitCopyFail(p)  PROVE ThreadInv'
  <2> USE <1>21 DEF WaitCopyFail, At, Return, Goto
  <2>1. ThreadEndInv'  BY DEF TypeOK, CpuInv, WaitLockInv, ThreadEndInv
  <2>2. JoinInv'  BY DEF TypeOK, CpuInv, WaitLockInv, FrameInv, ThreadEndInv, JoinInv, InJoin
  <2> QED  BY <2>1, <2>2
<1>22. ASSUME NEW p \in Slot, WaitFail(p)  PROVE ThreadInv'
  <2> USE <1>22 DEF WaitFail, At, Return, Goto
  <2>1. ThreadEndInv'  BY DEF TypeOK, CpuInv, WaitLockInv, ThreadEndInv
  <2>2. JoinInv'  BY DEF TypeOK, CpuInv, WaitLockInv, FrameInv, ThreadEndInv, JoinInv, InJoin
  <2> QED  BY <2>1, <2>2
<1>23. ASSUME NEW p \in Slot, WaitSleep(p)  PROVE ThreadInv'
  <2> USE <1>23 DEF WaitSleep, At, Goto
  <2>1. ThreadEndInv'  BY DEF TypeOK, CpuInv, WaitLockInv, ThreadEndInv
  <2>2. JoinInv'  BY DEF TypeOK, CpuInv, WaitLockInv, FrameInv, ThreadEndInv, JoinInv, InJoin
  <2> QED  BY <2>1, <2>2
<1>24. ASSUME NEW p \in Slot, JoinFind(p)  PROVE ThreadInv'
  <2>0. /\ p \in oncpu /\ pc[p] = "find"
        /\ UNCHANGED <<state, pid, killed, father>>
    BY <1>24 DEF JoinFind, At
  <2>1. CASE Return(p)
    <3> USE <2>0, <2>1 DEF Return, Goto
    <3>1. ThreadEndInv'  BY DEF TypeOK, CpuInv, WaitLockInv, ThreadEndInv
    <3>2. JoinInv'  BY DEF TypeOK, CpuInv, WaitLockInv, FrameInv, ThreadEndInv, JoinInv, InJoin
    <3> QED  BY <3>1, <3>2
  <2>2. CASE \E q \in Slot :
               /\ state[q] # "UNUSED" /\ father[q] # None /\ pid[q] = tid[p]
               /\ it' = [it EXCEPT ![p] = q]
               /\ Goto(p, "check")
               /\ UNCHANGED <<j, tid>>
    <3> USE <2>0, <2>2 DEF Goto
    <3>1. ThreadEndInv'  BY DEF TypeOK, CpuInv, WaitLockInv, ThreadEndInv
    <3>2. JoinInv'  BY DEF TypeOK, CpuInv, WaitLockInv, FrameInv, ThreadEndInv, JoinInv, InJoin
    <3> QED  BY <3>1, <3>2
  <2> DEFINE found == {q \in Threads(Leader(p)) : pid[q] = tid[p]}
  <2>3. Leader(p) # None  BY DEF Leader
  <2>4. found # {} => /\ Min(found) \in Slot /\ state[Min(found)] # "UNUSED"
                      /\ father[Min(found)] # None /\ pid[Min(found)] = tid[p]
    BY <2>3, ThreadFound
  <2> QED  BY <1>24, <2>1, <2>2, <2>4 DEF JoinFind
<1>25. ASSUME NEW p \in Slot, JoinCheck(p)  PROVE ThreadInv'
  <2> PICK q \in Slot : q = it[p]  BY <1>25 DEF JoinCheck, At, FrameInv
  <2>0. p \in oncpu /\ pc[p] = "check" /\ lock[q] = None
    BY <1>25 DEF JoinCheck, ChildLocked, At
  <2>1. CASE /\ state[q] = "ZOMBIE" /\ FreeProc(q)
             /\ pc' = [pc EXCEPT ![p] = "user", ![q] = "user"]
             /\ j' = [j EXCEPT ![q] = 0]
             /\ it' = [it EXCEPT ![p] = None]
             /\ tid' = [tid EXCEPT ![p] = 0]
    <3> USE <2>0, <2>1 DEF FreeProc
    <3>1. ThreadEndInv'  BY DEF TypeOK, CpuInv, WaitLockInv, ThreadEndInv
    <3>2. JoinInv'  BY DEF TypeOK, CpuInv, WaitLockInv, FrameInv, ThreadEndInv, JoinInv, InJoin
    <3> QED  BY <3>1, <3>2
  <2>2. CASE /\ state[q] # "ZOMBIE" /\ Goto(p, "sleep")
             /\ UNCHANGED <<state, pid, killed, father, j, it, tid>>
    <3> USE <2>0, <2>2 DEF Goto
    <3>1. ThreadEndInv'  BY DEF TypeOK, CpuInv, WaitLockInv, ThreadEndInv
    <3>2. JoinInv'  BY DEF TypeOK, CpuInv, WaitLockInv, FrameInv, ThreadEndInv, JoinInv, InJoin
    <3> QED  BY <3>1, <3>2
  <2> QED  BY <1>25, <2>1, <2>2 DEF JoinCheck
<1>26. ASSUME NEW p \in Slot, NEW v \in Slot, Kill(p, v)  PROVE ThreadInv'
  BY <1>26 DEF Kill, Enter
<1>27. CASE UNCHANGED vars
  BY <1>27 DEF vars, ThreadEndInv, JoinInv, InJoin
<1> QED
  BY <1>1, <1>2, <1>3, <1>4, <1>5, <1>6, <1>7, <1>8, <1>9, <1>10, <1>11, <1>12, <1>13, <1>14, <1>15, <1>16, <1>17, <1>18, <1>19, <1>20, <1>21, <1>22, <1>23, <1>24, <1>25, <1>26, <1>27
  DEF Next, Kernel

\* A process asleep in thread_join is woken by the thread_exit of its target, and the
\* target is not reaped by another before that, if threads end by thread_exit only:
\* programs do not call exit or kill.
THEOREM JoinHearsThreadExit ==
  ASSUME "exit" \notin Calls, "kill" \notin Calls
  PROVE  Spec => []NoLostJoin
<1>1. Init => ThreadInv
  BY SlotRange DEF Init, ThreadInv, ThreadEndInv, JoinInv, InJoin
<1>2. IInv /\ IInv' /\ ThreadInv /\ [Next]_vars => ThreadInv'  BY StepThreadInv
<1>3. IInv /\ ThreadInv => NoLostJoin
  BY SlotRange DEF IInv, FrameInv, WaitLockInv, Held, ThreadInv, JoinInv, InJoin, NoLostJoin
<1> QED  BY IInvHolds, <1>1, <1>2, <1>3, PTL DEF Spec
=============================================================================
