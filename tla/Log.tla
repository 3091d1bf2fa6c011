-------------------------------- MODULE Log --------------------------------
(***************************************************************************)
(* The redo log of the xv6 file system (kernel/log.c), with crashes and    *)
(* the recovery that initlog runs at boot.                                 *)
(*                                                                         *)
(* Every critical section under log.lock is one step, and so is every      *)
(* write of a disk block: a crash can fall between any two of them.  The   *)
(* buffer cache is what module Bcache shows it to be: bread returns the    *)
(* last contents given to a block.  Sleeping and waking are atomic under   *)
(* log.lock, as sleep() and wakeup() in kernel/proc.c make them.           *)
(***************************************************************************)
EXTENDS Integers, FiniteSets

CONSTANTS Proc,        \* processes that make file-system calls
          Block,       \* home blocks of the file system
          Data,        \* possible contents of a block
          NoBlock,     \* an entry of a header never written
          MAXOPBLOCKS, \* blocks begin_op reserves for an operation
          LOGSIZE,     \* entries of a log header
          NLog,        \* log.size: log blocks on the disk, the header included
          OpBlocks     \* distinct blocks an operation really writes

ASSUME LogAssumption ==
  /\ IsFiniteSet(Proc) /\ NoBlock \notin Block /\ Block # {}
  /\ MAXOPBLOCKS \in Nat /\ LOGSIZE \in Nat /\ NLog \in Nat /\ OpBlocks \in Nat
  /\ MAXOPBLOCKS <= LOGSIZE

VARIABLES n, block,       \* log.lh: the header in memory
          hn, hblock,     \* the header on the disk
          logged,         \* logged[i]: contents of log block start + 1 + i
          home,           \* home[b]: contents of block b at its home location
          cache,          \* cache[b]: contents of block b that bread returns
          pins,           \* pins[b]: bpins of b's buffer not yet undone
          outstanding,    \* log.outstanding
          phase,          \* how far recovery or commit has come; "run": neither
          tail,           \* the loop index of write_log and install_trans
          pc,             \* pc[p]: where process p is
          wrote           \* wrote[p]: the blocks its operation has written

disk == <<hn, hblock, logged, home>>
vars == <<n, block, disk, cache, pins, outstanding, phase, tail, pc, wrote>>

Index == 0..LOGSIZE - 1

Booting == {"read_head", "recover"}
CommitPhase == {"write_log", "write_head", "install", "finish"}

\* log.committing
Committing == phase \in CommitPhase

\* A disk as mkfs leaves it; the kernel is about to call initlog.
Init ==
  /\ n = 0 /\ hn = 0
  /\ block = [i \in Index |-> NoBlock]
  /\ hblock = [i \in Index |-> NoBlock]
  /\ home \in [Block -> Data]
  /\ \E zeroed \in Data : logged = [i \in Index |-> zeroed]
  /\ cache = home
  /\ pins = [b \in Block |-> 0]
  /\ outstanding = 0
  /\ phase = "read_head"
  /\ tail = 0
  /\ pc = [p \in Proc |-> "idle"]
  /\ wrote = [p \in Proc |-> {}]
-----------------------------------------------------------------------------
(* Recovery: initlog calls recover_from_log before any system call runs. *)

\* Slip: the loop of install_trans starts at the second entry.
ReadHeadSlip ==
  /\ phase = "read_head"
  /\ n' = hn
  /\ block' = [i \in Index |-> IF i < hn THEN hblock[i] ELSE block[i]]
  /\ phase' = "recover"
  /\ tail' = 1
  /\ UNCHANGED <<disk, cache, pins, outstanding, pc, wrote>>

\* read_head.
ReadHead ==
  /\ phase = "read_head"
  /\ n' = hn
  /\ block' = [i \in Index |-> IF i < hn THEN hblock[i] ELSE block[i]]
  /\ phase' = "recover"
  /\ tail' = 0
  /\ UNCHANGED <<disk, cache, pins, outstanding, pc, wrote>>

\* One turn of the loop of install_trans; only a commit has a pin to undo.
InstallBlock(pinsAfter) ==
  /\ tail < n
  /\ home' = [home EXCEPT ![block[tail]] = logged[tail]]
  /\ cache' = [cache EXCEPT ![block[tail]] = logged[tail]]
  /\ pins' = pinsAfter
  /\ tail' = tail + 1
  /\ UNCHANGED <<n, block, hn, hblock, logged, outstanding, phase, pc, wrote>>

\* install_trans(1)
RecoverInstall ==
  /\ phase = "recover"
  /\ InstallBlock(pins)

\* log.lh.n = 0; write_head().
ClearHead(here, next) ==
  /\ phase = here
  /\ tail = n
  /\ n' = 0
  /\ hn' = 0
  /\ phase' = next
  /\ UNCHANGED <<block, hblock, logged, home, cache, pins, outstanding, tail, pc, wrote>>

\* recover_from_log clears the log: the system is up.
RecoverClear == ClearHead("recover", "run")
-----------------------------------------------------------------------------
(* Operations. *)

\* Slip: the space of the caller itself is not counted.
NoSpaceSlip == n + outstanding * MAXOPBLOCKS > LOGSIZE

\* begin_op: this op might exhaust log space.
NoSpace == n + (outstanding + 1) * MAXOPBLOCKS > LOGSIZE

\* begin_op: admitted.
BeginOp(p) ==
  /\ phase \notin Booting
  /\ pc[p] \in {"idle", "retry"}
  /\ ~Committing /\ ~NoSpace
  /\ outstanding' = outstanding + 1
  /\ pc' = [pc EXCEPT ![p] = "op"]
  /\ UNCHANGED <<n, block, disk, cache, pins, phase, tail, wrote>>

\* begin_op: sleep(&log, &log.lock), in either of the two cases.
BeginSleep(p) ==
  /\ phase \notin Booting
  /\ pc[p] \in {"idle", "retry"}
  /\ Committing \/ NoSpace
  /\ pc' = [pc EXCEPT ![p] = "sleep"]
  /\ UNCHANGED <<n, block, disk, cache, pins, outstanding, phase, tail, wrote>>

\* log_write panics "too big a transaction", whether or not it will absorb.
TooBig == n >= LOGSIZE \/ n >= NLog - 1

\* Slip: the loop of log_write finds nothing.
AbsorbedSlip(b) == FALSE

\* The loop of log_write finds the block in the header.
Absorbed(b) == \E i \in Index : i < n /\ block[i] = b

\* An operation changes a block under its buffer's lock and calls log_write.
LogWrite(p, b, d) ==
  /\ pc[p] = "op"
  /\ Cardinality(wrote[p] \cup {b}) <= OpBlocks
  /\ ~TooBig /\ outstanding >= 1
  /\ cache' = [cache EXCEPT ![b] = d]
  /\ wrote' = [wrote EXCEPT ![p] = @ \cup {b}]
  /\ \/ /\ Absorbed(b)
        /\ UNCHANGED <<n, block, pins>>
     \/ /\ ~Absorbed(b)
        /\ block' = [block EXCEPT ![n] = b]
        /\ n' = n + 1
        /\ pins' = [pins EXCEPT ![b] = @ + 1]
  /\ UNCHANGED <<disk, outstanding, phase, tail, pc>>

\* Slip: nobody is woken.
WakeSlip(p, s) == [pc EXCEPT ![p] = s]

\* wakeup(&log), by process p that goes on to s.
Wake(p, s) == [q \in Proc |-> IF q = p THEN s
                              ELSE IF pc[q] = "sleep" THEN "retry" ELSE pc[q]]

\* end_op, with other operations still in progress.
EndOp(p) ==
  /\ pc[p] = "op"
  /\ ~Committing
  /\ outstanding > 1
  /\ outstanding' = outstanding - 1
  /\ pc' = Wake(p, "idle")
  /\ wrote' = [wrote EXCEPT ![p] = {}]
  /\ UNCHANGED <<n, block, disk, cache, pins, phase, tail>>

\* Slip: the header goes to the disk before the blocks do.
CommitStartSlip == IF n > 0 THEN "write_head" ELSE "finish"

\* Slip: a commit with little in the log is put off.
CommitLaterSlip == IF n > 1 THEN "write_log" ELSE "finish"

\* commit does nothing for an empty log.
CommitStart == IF n > 0 THEN "write_log" ELSE "finish"

\* end_op, the last operation: it will commit.
EndLastOp(p) ==
  /\ pc[p] = "op"
  /\ ~Committing
  /\ outstanding = 1
  /\ outstanding' = 0
  /\ phase' = CommitStart
  /\ tail' = 0
  /\ pc' = [pc EXCEPT ![p] = "commit"]
  /\ wrote' = [wrote EXCEPT ![p] = {}]
  /\ UNCHANGED <<n, block, disk, cache, pins>>
-----------------------------------------------------------------------------
(* Commit: run by the process whose end_op was the last. *)

\* One turn of the loop of write_log.
WriteLog ==
  /\ phase = "write_log"
  /\ logged' = [logged EXCEPT ![tail] = cache[block[tail]]]
  /\ tail' = tail + 1
  /\ phase' = IF tail' = n THEN "write_head" ELSE phase
  /\ UNCHANGED <<n, block, hn, hblock, home, cache, pins, outstanding, pc, wrote>>

\* write_head: one disk block, the commit point.
WriteHead ==
  /\ phase = "write_head"
  /\ hn' = n
  /\ hblock' = [i \in Index |-> IF i < n THEN block[i] ELSE hblock[i]]
  /\ phase' = "install"
  /\ tail' = 0
  /\ UNCHANGED <<n, block, logged, home, cache, pins, outstanding, pc, wrote>>

\* install_trans(0)
Install ==
  /\ phase = "install"
  /\ InstallBlock([pins EXCEPT ![block[tail]] = @ - 1])

\* Erase the transaction from the log.
Erase == ClearHead("install", "finish")

\* Slip: the operation is counted out once more.
FinishCommitSlip(p) ==
  /\ pc[p] = "commit"
  /\ phase = "finish"
  /\ phase' = "run"
  /\ pc' = Wake(p, "idle")
  /\ outstanding' = outstanding - 1
  /\ UNCHANGED <<n, block, disk, cache, pins, tail, wrote>>

\* end_op, after commit.
FinishCommit(p) ==
  /\ pc[p] = "commit"
  /\ phase = "finish"
  /\ phase' = "run"
  /\ pc' = Wake(p, "idle")
  /\ UNCHANGED <<n, block, disk, cache, pins, outstanding, tail, wrote>>

\* Power fails: memory is lost, the disk is not.
Crash ==
  /\ n' = 0
  /\ block' = [i \in Index |-> NoBlock]
  /\ cache' = home
  /\ pins' = [b \in Block |-> 0]
  /\ outstanding' = 0
  /\ phase' = "read_head"
  /\ tail' = 0
  /\ pc' = [p \in Proc |-> "idle"]
  /\ wrote' = [p \in Proc |-> {}]
  /\ UNCHANGED disk

Recovery == ReadHead \/ RecoverInstall \/ RecoverClear
Commit == WriteLog \/ WriteHead \/ Install \/ Erase \/ \E p \in Proc : FinishCommit(p)

Next ==
  \/ Recovery
  \/ Commit
  \/ \E p \in Proc : BeginOp(p) \/ BeginSleep(p) \/ EndOp(p) \/ EndLastOp(p)
  \/ \E p \in Proc, b \in Block, d \in Data : LogWrite(p, b, d)
  \/ Crash

Spec == Init /\ [][Next]_vars

\* Boot runs recovery to its end, a committer its commit, and an operation makes
\* finitely many log_writes before its end_op.
Fairness ==
  /\ WF_vars(Recovery)
  /\ WF_vars(Commit)
  /\ \A p \in Proc : WF_vars(EndOp(p) \/ EndLastOp(p))

FairSpec == Spec /\ Fairness
-----------------------------------------------------------------------------
(* Properties. *)

\* Every variable stays in its range; outstanding counts the operations.
TypeOK ==
  /\ n \in 0..LOGSIZE /\ hn \in 0..LOGSIZE
  /\ block \in [Index -> Block \cup {NoBlock}]
  /\ hblock \in [Index -> Block \cup {NoBlock}]
  /\ logged \in [Index -> Data]
  /\ home \in [Block -> Data] /\ cache \in [Block -> Data]
  /\ pins \in [Block -> Int]
  /\ outstanding \in Nat
  /\ phase \in Booting \cup CommitPhase \cup {"run"}
  /\ tail \in 0..LOGSIZE
  /\ pc \in [Proc -> {"idle", "sleep", "retry", "op", "commit"}]
  /\ wrote \in [Proc -> SUBSET Block]

\* The block's contents after a crash now and the recovery that follows.
Recovered(b) ==
  IF \E i \in Index : i < hn /\ hblock[i] = b
  THEN logged[CHOOSE i \in Index : i < hn /\ hblock[i] = b]
  ELSE home[b]

Durable == [b \in Block |-> Recovered(b)]

InOp == {p \in Proc : pc[p] = "op"}

Abs == INSTANCE AtomicDisk WITH
         view <- IF phase \in Booting THEN Durable ELSE cache,
         durable <- Durable,
         active <- InOp

\* "The logging system only commits when there are no FS system calls active":
\* across crashes, during commit and during recovery too, an operation's writes
\* reach the disk all together or not at all.
CrashAtomic == Abs!Spec

\* Once the last end_op has returned everything the operations wrote is at its
\* home location: no later crash undoes it.
QuietIsDurable ==
  phase = "run" /\ outstanding = 0 => home = cache /\ hn = 0

\* A buffer is pinned once while its block waits in the log, and not otherwise:
\* absorption does not pin again, recovery unpins nothing.
PinsMatchLog ==
  \A b \in Block :
    pins[b] = IF phase \notin Booting
                 /\ \E i \in Index : i < n /\ block[i] = b
                                     /\ (phase = "install" => tail <= i)
              THEN 1 ELSE 0

\* The panics of log.c are not reached: "too big a transaction" and "log_write
\* outside of trans" by an operation, "log.committing" by its end_op.
NoPanic ==
  \A p \in InOp : ~TooBig /\ outstanding >= 1 /\ ~Committing

\* "It sleeps until the last outstanding end_op() commits": somebody is left to
\* wake a process asleep in begin_op.
SleeperHasWaker ==
  \A p \in Proc : pc[p] = "sleep" => outstanding > 0 \/ Committing

\* A process asleep in begin_op is woken.
SleeperWakes ==
  \A p \in Proc : pc[p] = "sleep" ~> pc[p] # "sleep"

\* However often power fails, and wherever in commit or recovery: once it stops
\* failing, recovery ends and the system comes up.
ComesUp ==
  []<><<Crash>>_vars \/ (phase \in Booting ~> phase \notin Booting)
-----------------------------------------------------------------------------
(* The inductive invariant behind the properties above. *)

\* The headers name distinct home blocks, and outstanding counts operations.
HeaderInv ==
  /\ \A i \in Index : i < n => block[i] \in Block
  /\ \A i, j \in Index : i < n /\ j < n /\ block[i] = block[j] => i = j
  /\ \A i \in Index : i < hn => hblock[i] \in Block
  /\ \A i, j \in Index : i < hn /\ j < hn /\ hblock[i] = hblock[j] => i = j
  /\ phase \in {"run", "write_log", "write_head", "finish"} => hn = 0
  /\ phase \in {"recover", "install"} =>
       n = hn /\ \A i \in Index : i < n => block[i] = hblock[i]
  /\ phase \in {"recover", "install"} => tail <= n
  /\ phase = "write_log" => tail < n
  /\ phase = "finish" \/ (phase = "run" /\ outstanding = 0) => n = 0

CountInv ==
  /\ outstanding = Cardinality(InOp)
  /\ phase # "run" => outstanding = 0

\* Where the contents are that a crash must not lose.
ContentsInv ==
  /\ \A b \in Block : ~Absorbed(b) \/ phase \in Booting => cache[b] = home[b]
  /\ \A i \in Index :
       i < n /\ ((phase = "write_log" /\ i < tail) \/ phase \in {"write_head", "install"})
         => logged[i] = cache[block[i]]
  /\ \A i \in Index :
       phase \in {"recover", "install"} /\ i < tail => home[block[i]] = logged[i]

\* Processes sleep only in a system that is up and has somebody to wake them.
SleepInv ==
  /\ SleeperHasWaker
  /\ phase \in Booting => \A p \in Proc : pc[p] = "idle"

IInv == TypeOK /\ HeaderInv /\ CountInv /\ ContentsInv /\ SleepInv /\ PinsMatchLog

\* The entries of the log that begin_op has reserved and no log_write has used.
Reserved ==
  {t \in InOp \X (1..MAXOPBLOCKS) : Cardinality(wrote[t[1]]) < t[2]}

\* Operations write fewer blocks than begin_op reserves for them, and the log can
\* take more than one operation; param.h and mkfs see to both.
Roomy == OpBlocks < MAXOPBLOCKS /\ MAXOPBLOCKS < LOGSIZE /\ LOGSIZE <= NLog

\* What is in the log and what is still reserved fits in it; with one operation left
\* an entry is to spare, since that operation was alone on an empty log or another
\* one has ended without using its last entry.
SpaceInv ==
  /\ \A p \in Proc : /\ IsFiniteSet(wrote[p]) /\ Cardinality(wrote[p]) <= OpBlocks
                     /\ pc[p] # "op" => wrote[p] = {}
                     /\ \A b \in wrote[p] : Absorbed(b)
  /\ n + Cardinality(Reserved) <= LOGSIZE
  /\ Cardinality(InOp) = 1 => n + Cardinality(Reserved) < LOGSIZE
=============================================================================
