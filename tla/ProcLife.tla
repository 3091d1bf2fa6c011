------------------------------ MODULE ProcLife ------------------------------
(***************************************************************************)
(* The life of processes and threads in xv6 (kernel/proc.c): creation,     *)
(* sleeping and waking, exit, reaping by wait and thread_join, and kill,   *)
(* with the locks that order them, wait_lock and every p->lock.            *)
(*                                                                         *)
(* A step is at most one critical section.  Acquiring a lock and what is   *)
(* done under it before the next acquire is one step; a scan of the table  *)
(* that locks the slots one by one is one step per slot.  The scheduler's  *)
(* half of a switch is part of the step that switches.  What a call does   *)
(* to user memory is module UserMem's; a call that panics on it stays      *)
(* where it is, with its locks, as panic's endless loop does.              *)
(***************************************************************************)
EXTENDS Integers, FiniteSetsExt

CONSTANTS NPROC,   \* slots of the process table; slot 1 is initproc
          NCPU,    \* processors
          MaxPid,  \* bound: pids handed out
          Calls    \* the system calls programs make

ASSUME ProcAssumption ==
  /\ NPROC \in Nat \ {0} /\ NCPU \in Nat \ {0} /\ MaxPid \in Nat \ {0}
  /\ Calls \subseteq {"fork", "exit", "wait", "kill",
                      "thread_create", "thread_join", "thread_exit"}

Slot == 1..NPROC
initproc == 1
None == 0

VARIABLES state, parent, pid, chan, killed,  \* the fields of struct proc
          father,    \* father[p]: the group's leader if p is a thread, else None
          ustack,    \* the threads whose private user stack is mapped
          nextpid,
          lock,      \* lock[p]: the process that holds p->lock, or None
          waitLock,  \* the process that holds wait_lock, or None
          oncpu,     \* processes that execute on a processor
          pc,        \* pc[p]: where p's kernel code is; "user" outside
          i,         \* i[p]: the loop index of reparent and wait
          j,         \* j[p]: the loop index of wakeup
          it,        \* it[p]: the slot p's call works on (np, target, chan)
          tid,       \* tid[p]: the argument of p's thread_join
          havekids   \* havekids[p], in wait

table == <<state, parent, pid, chan, killed, father, ustack, nextpid>>
locks == <<lock, waitLock>>
frame == <<i, j, it, tid, havekids>>
vars == <<table, locks, oncpu, pc, frame>>

\* userinit
Init ==
  /\ state = [p \in Slot |-> IF p = initproc THEN "RUNNABLE" ELSE "UNUSED"]
  /\ pid = [p \in Slot |-> IF p = initproc THEN 1 ELSE 0]
  /\ parent = [p \in Slot |-> None]
  /\ chan = [p \in Slot |-> None]
  /\ killed = [p \in Slot |-> FALSE]
  /\ father = [p \in Slot |-> None]
  /\ ustack = {}
  /\ nextpid = 2
  /\ lock = [p \in Slot |-> None]
  /\ waitLock = None
  /\ oncpu = {}
  /\ pc = [p \in Slot |-> "user"]
  /\ i = [p \in Slot |-> 0]
  /\ j = [p \in Slot |-> 0]
  /\ it = [p \in Slot |-> None]
  /\ tid = [p \in Slot |-> 0]
  /\ havekids = [p \in Slot |-> FALSE]

Exiting == {"reparent", "wakeinit", "wakeparent", "die"}   \* in exit
Waking == {"wakeinit", "wakeparent", "wakejoin"}           \* in wakeup
Creating == {"link", "start"}                              \* in fork or thread_create
Dying == {"wakejoin", "tgone", "gone"}                     \* a zombie that has p->lock
\* wait_lock is held
Held == Exiting \cup {"tdie", "wakejoin", "tgone", "scan", "sleep", "find", "check"}
\* no lock is held: a timer interrupt can take the processor away
Parked == Creating \cup {"user", "rewait", "rejoin"}

At(p, l) == p \in oncpu /\ pc[p] = l
Goto(p, l) == pc' = [pc EXCEPT ![p] = l]

\* A call begins: usertrap has found p not killed.  init.c only forks and waits.
Enter(p, call) ==
  /\ At(p, "user")
  /\ ~killed[p]
  /\ call \in Calls
  /\ p = initproc => call \in {"fork", "wait"}

\* Back to user space, with the frame of the call gone.
Return(p) ==
  /\ Goto(p, "user")
  /\ i' = [i EXCEPT ![p] = 0]
  /\ j' = [j EXCEPT ![p] = 0]
  /\ it' = [it EXCEPT ![p] = None]
  /\ tid' = [tid EXCEPT ![p] = 0]
  /\ havekids' = [havekids EXCEPT ![p] = FALSE]

\* group_leader
Leader(p) == IF father[p] # None THEN father[p] ELSE p
-----------------------------------------------------------------------------
(* scheduler, sched, yield, sleep, wakeup. *)

\* scheduler picks p; p resumes after its swtch and releases p->lock.
Dispatch(p) ==
  /\ state[p] = "RUNNABLE"
  /\ lock[p] = None
  /\ Cardinality(oncpu) < NCPU
  /\ state' = [state EXCEPT ![p] = "RUNNING"]
  /\ chan' = [chan EXCEPT ![p] = None]
  /\ oncpu' = oncpu \cup {p}
  /\ UNCHANGED <<parent, pid, killed, father, ustack, nextpid, locks, pc, frame>>

\* yield, from a timer interrupt that finds p with no lock held.
Yield(p) ==
  /\ p \in oncpu
  /\ pc[p] \in Parked
  /\ lock[p] = None
  /\ state' = [state EXCEPT ![p] = "RUNNABLE"]
  /\ oncpu' = oncpu \ {p}
  /\ UNCHANGED <<parent, pid, chan, killed, father, ustack, nextpid, locks, pc, frame>>

\* sleep(it[p], &wait_lock): acquire p->lock, then release lk.
SleepLock(p) ==
  /\ At(p, "sleep")
  /\ lock[p] = None
  /\ lock' = [lock EXCEPT ![p] = p]
  /\ waitLock' = None
  /\ Goto(p, "asleep")
  /\ UNCHANGED <<table, oncpu, frame>>

\* sleep: set chan and state and switch; the scheduler releases p->lock.
SleepSwitch(p) ==
  /\ At(p, "asleep")
  /\ state' = [state EXCEPT ![p] = "SLEEPING"]
  /\ chan' = [chan EXCEPT ![p] = it[p]]
  /\ lock' = [lock EXCEPT ![p] = None]
  /\ oncpu' = oncpu \ {p}
  /\ Goto(p, IF tid[p] = 0 THEN "rewait" ELSE "rejoin")
  /\ UNCHANGED <<parent, pid, killed, father, ustack, nextpid, waitLock, frame>>

\* Slip: the caller's own lock is acquired too.
WakeupSlip(p, here, ch, next) ==
  /\ At(p, here)
  /\ \/ /\ j[p] <= NPROC
        /\ lock[j[p]] = None
        /\ state' = [state EXCEPT ![j[p]] =
             IF j[p] # p /\ @ = "SLEEPING" /\ chan[j[p]] = ch THEN "RUNNABLE" ELSE @]
        /\ j' = [j EXCEPT ![p] = @ + 1]
        /\ UNCHANGED <<parent, pid, chan, killed, father, ustack, nextpid, locks, oncpu, pc,
                       i, it, tid, havekids>>
     \/ /\ j[p] > NPROC
        /\ Goto(p, next)
        /\ UNCHANGED <<table, locks, oncpu, frame>>

\* wakeup(ch) at the caller's label here: one slot, then the next; next is the
\* label after the loop.
Wakeup(p, here, ch, next) ==
  /\ At(p, here)
  /\ \/ /\ j[p] <= NPROC
        /\ j[p] # p => lock[j[p]] = None
        /\ state' = [state EXCEPT ![j[p]] =
             IF j[p] # p /\ @ = "SLEEPING" /\ chan[j[p]] = ch THEN "RUNNABLE" ELSE @]
        /\ j' = [j EXCEPT ![p] = @ + 1]
        /\ UNCHANGED <<parent, pid, chan, killed, father, ustack, nextpid, locks, oncpu, pc,
                       i, it, tid, havekids>>
     \/ /\ j[p] > NPROC
        /\ Goto(p, next)
        /\ UNCHANGED <<table, locks, oncpu, frame>>
-----------------------------------------------------------------------------
(* fork and thread_create. *)

\* allocproc and all that is done before np->lock is released.  A failure of the
\* memory allocator gives the slot back and costs a pid.  p->killed is left as it is.
Alloc(p, leader) ==
  /\ nextpid <= MaxPid
  /\ \E np \in Slot :
       /\ state[np] = "UNUSED"
       /\ lock[np] = None
       /\ state' = [state EXCEPT ![np] = "USED"]
       /\ pid' = [pid EXCEPT ![np] = nextpid]
       /\ father' = [father EXCEPT ![np] = leader]
       /\ ustack' = IF leader = None THEN ustack ELSE ustack \cup {np}
       /\ it' = [it EXCEPT ![p] = np]
  /\ nextpid' = nextpid + 1
  /\ Goto(p, "link")
  /\ UNCHANGED <<parent, chan, killed, locks, oncpu, i, j, tid, havekids>>

\* fork; of a thread it panics in uvmcopy.
Fork(p) == Enter(p, "fork") /\ father[p] = None /\ Alloc(p, None)
ThreadCreate(p) == Enter(p, "thread_create") /\ Alloc(p, Leader(p))

\* Under wait_lock: np->parent = p.
Link(p) ==
  /\ At(p, "link")
  /\ waitLock = None
  /\ parent' = [parent EXCEPT ![it[p]] = p]
  /\ Goto(p, "start")
  /\ UNCHANGED <<state, pid, chan, killed, father, ustack, nextpid, locks, oncpu, frame>>

\* Under np->lock: the child may run.
Start(p) ==
  /\ At(p, "start")
  /\ lock[it[p]] = None
  /\ state' = [state EXCEPT ![it[p]] = "RUNNABLE"]
  /\ Return(p)
  /\ UNCHANGED <<parent, pid, chan, killed, father, ustack, nextpid, locks, oncpu>>
-----------------------------------------------------------------------------
(* exit and thread_exit. *)

\* exit, called or (usertrap) forced on a killed process; files are closed and
\* wait_lock is acquired.  thread_exit is exit for a process that is no thread.
Exit(p) ==
  /\ \/ Enter(p, "exit")
     \/ Enter(p, "thread_exit") /\ father[p] = None
     \/ At(p, "user") /\ killed[p]
  /\ waitLock = None
  /\ waitLock' = p
  /\ i' = [i EXCEPT ![p] = 1]
  /\ Goto(p, "reparent")
  /\ UNCHANGED <<table, lock, oncpu, j, it, tid, havekids>>

\* The children of p that a loop at index k has still to see.
Children(p, k) == {q \in Slot : q >= k /\ parent[q] = p}

\* Slip: the children are left behind.
HeirSlip(p) == p

\* reparent passes children to init.
Heir(p) == initproc

\* reparent: the next child, or none left; either way a wakeup follows.
Reparent(p) ==
  /\ At(p, "reparent")
  /\ \/ /\ Children(p, i[p]) # {}
        /\ LET q == Min(Children(p, i[p])) IN
             /\ parent' = [parent EXCEPT ![q] = Heir(p)]
             /\ i' = [i EXCEPT ![p] = q + 1]
        /\ Goto(p, "wakeinit")
     \/ /\ Children(p, i[p]) = {}
        /\ Goto(p, "wakeparent")
        /\ UNCHANGED <<parent, i>>
  /\ j' = [j EXCEPT ![p] = 1]
  /\ UNCHANGED <<state, pid, chan, killed, father, ustack, nextpid, locks, oncpu, it, tid, havekids>>

WakeInit(p) == Wakeup(p, "wakeinit", initproc, "reparent")

\* Slip: the parent is not woken.
WakeParentSlip(p) == Wakeup(p, "wakeparent", None, "die")

\* exit: the parent might be sleeping in wait.
WakeParent(p) == Wakeup(p, "wakeparent", parent[p], "die")

\* exit: p becomes a zombie under p->lock and wait_lock is released.
Die(p) ==
  /\ At(p, "die")
  /\ lock[p] = None
  /\ lock' = [lock EXCEPT ![p] = p]
  /\ state' = [state EXCEPT ![p] = "ZOMBIE"]
  /\ waitLock' = None
  /\ Goto(p, "gone")
  /\ UNCHANGED <<parent, pid, chan, killed, father, ustack, nextpid, oncpu, frame>>

\* sched, never to return: off the kernel stack, then p->lock is released.
Gone(p) ==
  /\ At(p, "gone")
  /\ oncpu' = oncpu \ {p}
  /\ lock' = [lock EXCEPT ![p] = None]
  /\ UNCHANGED <<table, waitLock, pc, frame>>

\* thread_exit, of a thread: files and stack are released, wait_lock is acquired.
ThreadExit(p) ==
  /\ Enter(p, "thread_exit")
  /\ father[p] # None
  /\ waitLock = None
  /\ waitLock' = p
  /\ ustack' = ustack \ {p}
  /\ Goto(p, "tdie")
  /\ UNCHANGED <<state, parent, pid, chan, killed, father, nextpid, lock, oncpu, frame>>

\* thread_exit: zombie first, wakeup(p) with p->lock and wait_lock held.
ThreadDie(p) ==
  /\ At(p, "tdie")
  /\ lock[p] = None
  /\ lock' = [lock EXCEPT ![p] = p]
  /\ state' = [state EXCEPT ![p] = "ZOMBIE"]
  /\ j' = [j EXCEPT ![p] = 1]
  /\ Goto(p, "wakejoin")
  /\ UNCHANGED <<parent, pid, chan, killed, father, ustack, nextpid, waitLock, oncpu, i, it, tid, havekids>>

\* Slip: the joiner is not woken.
WakeJoinerSlip(p) == Wakeup(p, "wakejoin", None, "tgone")

WakeJoiner(p) == Wakeup(p, "wakejoin", p, "tgone")

ThreadRelease(p) ==
  /\ At(p, "tgone")
  /\ waitLock' = None
  /\ Goto(p, "gone")
  /\ UNCHANGED <<table, lock, oncpu, frame>>
-----------------------------------------------------------------------------
(* wait, thread_join, kill. *)

\* freeproc and freeproc_thread: the slot can be used again.
FreeProc(q) ==
  /\ state' = [state EXCEPT ![q] = "UNUSED"]
  /\ pid' = [pid EXCEPT ![q] = 0]
  /\ parent' = [parent EXCEPT ![q] = None]
  /\ chan' = [chan EXCEPT ![q] = None]
  /\ killed' = [killed EXCEPT ![q] = FALSE]
  /\ father' = [father EXCEPT ![q] = None]

\* wait, on entry and after each sleep.
Wait(p) ==
  /\ Enter(p, "wait") \/ At(p, "rewait")
  /\ waitLock = None
  /\ waitLock' = p
  /\ i' = [i EXCEPT ![p] = 1]
  /\ it' = [it EXCEPT ![p] = p]
  /\ havekids' = [havekids EXCEPT ![p] = FALSE]
  /\ Goto(p, "scan")
  /\ UNCHANGED <<table, lock, oncpu, j, tid>>

\* Slip: the child is examined without its lock.
ChildLockedSlip(q) == TRUE

\* pp->lock can be acquired: the child is not still in exit or swtch.
ChildLocked(q) == lock[q] = None

\* wait: one child, reaped if it is a zombie; freeproc of a thread panics in
\* uvmunmap.
WaitScan(p) ==
  /\ At(p, "scan")
  /\ Children(p, i[p]) # {}
  /\ LET q == Min(Children(p, i[p])) IN
       /\ ChildLocked(q)
       /\ \/ /\ state[q] = "ZOMBIE" /\ father[q] = None
             /\ FreeProc(q)
             /\ waitLock' = None
             /\ pc' = [pc EXCEPT ![p] = "user", ![q] = "user"]
             /\ i' = [i EXCEPT ![p] = 0, ![q] = 0]
             /\ j' = [j EXCEPT ![q] = 0]
             /\ it' = [it EXCEPT ![p] = None]
             /\ havekids' = [havekids EXCEPT ![p] = FALSE]
          \/ /\ state[q] # "ZOMBIE"
             /\ i' = [i EXCEPT ![p] = q + 1]
             /\ havekids' = [havekids EXCEPT ![p] = TRUE]
             /\ UNCHANGED <<state, pid, parent, chan, killed, father, waitLock, pc, j, it>>
  /\ UNCHANGED <<ustack, nextpid, lock, oncpu, tid>>

\* wait: the child is a zombie but copyout of its status fails; it stays one.
WaitCopyFail(p) ==
  /\ At(p, "scan")
  /\ Children(p, i[p]) # {}
  /\ LET q == Min(Children(p, i[p])) IN ChildLocked(q) /\ state[q] = "ZOMBIE"
  /\ waitLock' = None
  /\ Return(p)
  /\ UNCHANGED <<table, lock, oncpu>>

\* wait: no children, or killed(p).
WaitFail(p) ==
  /\ At(p, "scan")
  /\ Children(p, i[p]) = {}
  /\ lock[p] = None
  /\ ~havekids[p] \/ killed[p]
  /\ waitLock' = None
  /\ Return(p)
  /\ UNCHANGED <<table, lock, oncpu>>

\* wait: not killed when it looks; sleep(p, &wait_lock) follows.
WaitSleep(p) ==
  /\ At(p, "scan")
  /\ Children(p, i[p]) = {}
  /\ lock[p] = None
  /\ havekids[p] /\ ~killed[p]
  /\ Goto(p, "sleep")
  /\ UNCHANGED <<table, locks, oncpu, frame>>

Threads(leader) == {q \in Slot : state[q] # "UNUSED" /\ father[q] = leader}

\* thread_join, on entry (of some thread of the group) and after each sleep.
Join(p) ==
  /\ \/ /\ Enter(p, "thread_join")
        /\ \E q \in Threads(Leader(p)) : tid' = [tid EXCEPT ![p] = pid[q]]
     \/ At(p, "rejoin") /\ UNCHANGED tid
  /\ waitLock = None
  /\ waitLock' = p
  /\ Goto(p, "find")
  /\ UNCHANGED <<table, lock, oncpu, i, j, it, havekids>>

\* thread_join: look for the target, without its lock.
JoinFind(p) ==
  /\ At(p, "find")
  /\ LET found == {q \in Threads(Leader(p)) : pid[q] = tid[p]} IN
       \/ /\ found = {}
          /\ waitLock' = None
          /\ Return(p)
       \/ /\ found # {}
          /\ it' = [it EXCEPT ![p] = Min(found)]
          /\ Goto(p, "check")
          /\ UNCHANGED <<waitLock, i, j, tid, havekids>>
  /\ UNCHANGED <<table, lock, oncpu>>

\* thread_join: the target, under its lock, is freed or waited for; freeproc_thread
\* panics in freewalk if the stack is still mapped.
JoinCheck(p) ==
  /\ At(p, "check")
  /\ ChildLocked(it[p])
  /\ \/ /\ state[it[p]] = "ZOMBIE" /\ it[p] \notin ustack
        /\ FreeProc(it[p])
        /\ waitLock' = None
        /\ pc' = [pc EXCEPT ![p] = "user", ![it[p]] = "user"]
        /\ i' = [i EXCEPT ![it[p]] = 0]
        /\ j' = [j EXCEPT ![it[p]] = 0]
        /\ it' = [it EXCEPT ![p] = None]
        /\ tid' = [tid EXCEPT ![p] = 0]
     \/ /\ state[it[p]] # "ZOMBIE"
        /\ Goto(p, "sleep")
        /\ UNCHANGED <<state, pid, parent, chan, killed, father, waitLock, i, j, it, tid>>
  /\ UNCHANGED <<ustack, nextpid, lock, oncpu, havekids>>

\* kill, of any process but init; kill(0) finds the first unused slot.
Kill(p, v) ==
  /\ Enter(p, "kill")
  /\ v # initproc
  /\ pid[v] = 0 => \A q \in Slot : q < v => pid[q] # 0
  /\ lock[v] = None
  /\ killed' = [killed EXCEPT ![v] = TRUE]
  /\ state' = [state EXCEPT ![v] = IF @ = "SLEEPING" THEN "RUNNABLE" ELSE @]
  /\ UNCHANGED <<parent, pid, chan, father, ustack, nextpid, locks, oncpu, pc, frame>>
-----------------------------------------------------------------------------
\* p is in panic: freeproc of a thread, or freeproc_thread of a thread that has its
\* stack.
Panicking(p) ==
  \/ /\ At(p, "scan") /\ Children(p, i[p]) # {}
     /\ LET q == Min(Children(p, i[p])) IN state[q] = "ZOMBIE" /\ father[q] # None
  \/ At(p, "check") /\ state[it[p]] = "ZOMBIE" /\ it[p] \in ustack

\* What a process does once it has entered the kernel.
Kernel(p) ==
  \/ SleepLock(p) \/ SleepSwitch(p)
  \/ Link(p) \/ Start(p)
  \/ Reparent(p) \/ WakeInit(p) \/ WakeParent(p) \/ Die(p) \/ Gone(p)
  \/ ThreadDie(p) \/ WakeJoiner(p) \/ ThreadRelease(p)
  \/ WaitScan(p) \/ WaitCopyFail(p) \/ WaitFail(p) \/ WaitSleep(p) \/ JoinFind(p) \/ JoinCheck(p)

Next ==
  \E p \in Slot :
    \/ Dispatch(p) \/ Yield(p)
    \/ Fork(p) \/ ThreadCreate(p)
    \/ Exit(p) \/ ThreadExit(p)
    \/ Wait(p) \/ Join(p)
    \/ \E v \in Slot : Kill(p, v)
    \/ Kernel(p)

Spec == Init /\ [][Next]_vars

\* A process that holds a spin-lock has interrupts off and keeps its processor:
\* what it can do in the kernel it does.
FairSpec == Spec /\ \A p \in Slot : WF_vars(Kernel(p))
-----------------------------------------------------------------------------
(* Properties. *)

\* "Wait for a child process to exit and return its pid": with wait_lock free, no
\* process sleeps in wait while it has a zombie child.
NoLostExit ==
  \A p, q \in Slot :
    ~(/\ waitLock = None
      /\ state[p] = "SLEEPING" /\ pc[p] = "rewait"
      /\ parent[q] = p /\ state[q] = "ZOMBIE")

\* "thread_exit() will wakeup(target)": with wait_lock free, no process sleeps in
\* thread_join on a thread that is a zombie or no longer there.
NoLostJoin ==
  \A p \in Slot :
    waitLock = None /\ state[p] = "SLEEPING" /\ pc[p] = "rejoin"
      => state[chan[p]] \notin {"ZOMBIE", "UNUSED"} /\ pid[chan[p]] = tid[p]

\* "Pass p's abandoned children to init": nobody's parent is dead or gone, so
\* every zombie has somebody to reap it.
ParentAlive ==
  \A q \in Slot : parent[q] # None => state[parent[q]] \notin {"UNUSED", "ZOMBIE"}

\* "make sure the child isn't still in exit() or swtch()": a slot is freed, and
\* used again, only when its old process is off its kernel stack.
FreedOffCpu ==
  \A p \in oncpu : state[p] \in {"RUNNING", "ZOMBIE"} /\ (state[p] = "ZOMBIE" => lock[p] = p)

\* wakeup "must be called without any p->lock", and thread_exit calls it with one:
\* still, whoever has wait_lock releases it unless the kernel panics, so no two
\* processes wait for each other's locks.
WaitLockReleased ==
  \A p \in Slot : waitLock = p ~> waitLock # p \/ \E q \in Slot : Panicking(q)
-----------------------------------------------------------------------------
(* The inductive invariants behind the safety properties above. *)

\* Every variable stays in its range.
TypeOK ==
  /\ state \in [Slot -> {"UNUSED", "USED", "RUNNABLE", "RUNNING", "SLEEPING", "ZOMBIE"}]
  /\ parent \in [Slot -> Slot \cup {None}] /\ father \in [Slot -> Slot \cup {None}]
  /\ pid \in [Slot -> Nat] /\ nextpid \in Nat \ {0}
  /\ chan \in [Slot -> Slot \cup {None}]
  /\ killed \in [Slot -> BOOLEAN]
  /\ ustack \subseteq Slot /\ oncpu \subseteq Slot
  /\ lock \in [Slot -> Slot \cup {None}] /\ waitLock \in Slot \cup {None}
  /\ pc \in [Slot -> Held \cup Parked \cup Dying \cup {"asleep"}]
  /\ i \in [Slot -> 0..NPROC + 1] /\ j \in [Slot -> 0..NPROC + 1]
  /\ it \in [Slot -> Slot \cup {None}] /\ tid \in [Slot -> Nat]
  /\ havekids \in [Slot -> BOOLEAN]

\* A process is on a processor while it runs, and as a zombie for as long as it holds
\* its own lock; nobody keeps the lock of another process from step to step.
CpuInv ==
  \A p \in Slot :
    /\ p \in oncpu <=> state[p] = "RUNNING" \/ (state[p] = "ZOMBIE" /\ lock[p] = p)
    /\ lock[p] \in {None, p}
    /\ lock[p] = p <=> p \in oncpu /\ pc[p] \in Dying \cup {"asleep"}
    /\ state[p] = "ZOMBIE" <=> pc[p] \in Dying
    /\ p \notin oncpu => pc[p] \in Parked \cup {"gone"}
    /\ state[p] \in {"UNUSED", "USED"} => pc[p] = "user"
    /\ state[p] = "SLEEPING" => pc[p] \in {"rewait", "rejoin"}

\* The label says who has wait_lock.
WaitLockInv == \A p \in Slot : pc[p] \in Held <=> waitLock = p

\* The slot a call works on is the right one: a child under construction is nobody
\* else's.
FrameInv ==
  /\ \A p \in Slot :
       /\ pc[p] \in Creating => it[p] \in Slot /\ state[it[p]] = "USED"
       /\ pc[p] \in {"scan", "check", "sleep", "asleep", "rewait", "rejoin"} => it[p] \in Slot
       /\ pc[p] \in Waking => j[p] >= 1
       /\ state[p] = "SLEEPING" => chan[p] = it[p]
  /\ \A p, q \in Slot : pc[p] \in Creating /\ pc[q] \in Creating /\ it[p] = it[q] => p = q

IInv == TypeOK /\ CpuInv /\ WaitLockInv /\ FrameInv

\* Without thread_create nobody is a thread and nobody joins one.
NoThreadInv ==
  \A p \in Slot :
    /\ father[p] = None /\ tid[p] = 0
    /\ pc[p] \notin {"rejoin", "find", "check", "tdie", "wakejoin", "tgone"}

\* init is never killed and never exits.
InitprocInv ==
  /\ ~killed[initproc]
  /\ state[initproc] \notin {"UNUSED", "USED", "ZOMBIE"}
  /\ pc[initproc] \notin Exiting

\* Who has no children any more: the slots that reparent has passed, all of them
\* when its loop is done.
ReparentInv ==
  \A p, q \in Slot :
    parent[q] = p =>
      /\ pc[p] \in {"reparent", "wakeinit"} => q >= i[p]
      /\ pc[p] \notin {"wakeparent", "die"}
      /\ state[p] \notin {"UNUSED", "USED", "ZOMBIE"}

\* p sleeps in wait or has let go of wait_lock to do so.
InWait(p) == pc[p] = "asleep" \/ state[p] = "SLEEPING"

\* Somebody gives init a child and has not yet come to init in its wakeup.
InitWoken == \E r \in Slot : pc[r] = "wakeinit" /\ j[r] <= initproc

\* A process that waits has looked at its children; one that exits since then has
\* its wakeup before it.
WaitInv ==
  /\ \A p \in Slot : pc[p] \in {"scan", "sleep", "asleep", "rewait"} => it[p] = p
  /\ \A p, q \in Slot :
       parent[q] = p =>
         /\ pc[p] = "scan" /\ q < i[p] => state[q] # "ZOMBIE"
         /\ pc[p] = "sleep" => state[q] # "ZOMBIE"
         /\ InWait(p) => /\ state[q] = "ZOMBIE" => p = initproc /\ InitWoken
                         /\ pc[q] = "wakeparent" => j[q] <= p
                         /\ pc[q] # "die"

ExitInv == NoThreadInv /\ InitprocInv /\ ReparentInv /\ WaitInv

\* Without exit and kill a thread ends by thread_exit only.
ThreadEndInv ==
  \A p \in Slot :
    /\ ~killed[p]
    /\ father[p] # None => pc[p] \notin Exiting
    /\ state[p] # "UNUSED" => pid[p] # 0
    /\ pc[p] \in {"find", "check", "rejoin"} => tid[p] # 0
    /\ pc[p] \notin {"find", "check", "sleep", "asleep", "rejoin"} => tid[p] = 0

\* p has found the thread it joins and has not been woken.
InJoin(p) ==
  \/ pc[p] = "check"
  \/ pc[p] \in {"sleep", "asleep"} /\ tid[p] # 0
  \/ pc[p] = "rejoin" /\ state[p] = "SLEEPING"

\* The thread somebody joins stays there, and one that has become a zombie has its
\* wakeup of the joiner before it.
JoinInv ==
  \A p \in Slot :
    InJoin(p) =>
      /\ state[it[p]] # "UNUSED" /\ father[it[p]] # None /\ pid[it[p]] = tid[p]
      /\ state[it[p]] = "ZOMBIE" =>
           pc[p] = "check" \/ (pc[p] # "sleep" /\ pc[it[p]] = "wakejoin" /\ j[it[p]] <= p)

ThreadInv == ThreadEndInv /\ JoinInv
=============================================================================
