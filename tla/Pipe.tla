-------------------------------- MODULE Pipe --------------------------------
(***************************************************************************)
(* A pipe of xv6 (kernel/pipe.c) and the references to its two ends        *)
(* (filedup, fileclose in kernel/file.c).                                  *)
(*                                                                         *)
(* pi->lock is held from entry to sleep or return; a step is one turn of a *)
(* loop under it, so that a kill, which does not take the lock, can come   *)
(* between any two.  sleep releases the lock and sleeps atomically.        *)
(***************************************************************************)
EXTENDS Integers

CONSTANTS Reader, Writer,  \* processes that hold the read end, the write end
          Byte,
          PIPESIZE,
          Modulus,         \* 2^32: nread and nwrite are uint
          MaxCount,        \* bound: largest n of a read or write
          Kills            \* whether processes are killed

ASSUME PipeAssumption ==
  /\ Reader \cap Writer = {} /\ "none" \notin Reader \cup Writer
  /\ PIPESIZE \in Nat \ {0} /\ Modulus \in Nat \ {0} /\ MaxCount \in Nat
  /\ PIPESIZE < Modulus /\ Modulus % PIPESIZE = 0
  /\ Kills \in BOOLEAN

Proc == Reader \cup Writer
None == "none"

VARIABLES data, nread, nwrite, readopen, writeopen,  \* struct pipe
          lock,    \* the holder of pi->lock, or None
          frees,   \* how often the pipe's page was given to kfree
          open,    \* processes whose descriptor is open (f->ref counts them)
          killed,  \* processes with p->killed
          pc,      \* pc[p]: where p is
          todo     \* todo[p]: n - i, the bytes its call has still to move

pipe == <<data, nread, nwrite, readopen, writeopen>>
vars == <<pipe, lock, frees, open, killed, pc, todo>>

\* pipealloc; kalloc's page has arbitrary contents.
Init ==
  /\ data \in [0..PIPESIZE - 1 -> Byte]
  /\ nread = 0 /\ nwrite = 0
  /\ readopen = TRUE /\ writeopen = TRUE
  /\ lock = None
  /\ frees = 0
  /\ open = Proc
  /\ killed = {}
  /\ pc = [p \in Proc |-> "idle"]
  /\ todo = [p \in Proc |-> 0]

Empty == nread = nwrite

\* Slip: the sum is not reduced to the width of a uint.
FullSlip == nwrite = nread + PIPESIZE

Full == nwrite = (nread + PIPESIZE) % Modulus

\* Slip: nobody is woken.
WokenSlip(q, where) == FALSE

\* wakeup: q, asleep at the given place, goes on to compete for the lock.
Woken(q, where) == pc[q] = where

\* pc after a wakeup of those asleep at where, p itself going on to next.
Wake(where, p, next) ==
  [q \in Proc |-> IF q = p THEN next
                  ELSE IF Woken(q, where)
                       THEN (IF where = "rsleep" THEN "rretry" ELSE "wretry")
                       ELSE pc[q]]
-----------------------------------------------------------------------------
(* pipewrite *)

PipeWrite(p, n) ==
  /\ pc[p] = "idle" /\ p \in open \ killed
  /\ lock = None
  /\ lock' = p
  /\ todo' = [todo EXCEPT ![p] = n]
  /\ pc' = [pc EXCEPT ![p] = "wloop"]
  /\ UNCHANGED <<pipe, frees, open, killed>>

\* After sleep: reacquire the lock.
WriteRetry(p) ==
  /\ pc[p] = "wretry"
  /\ lock = None
  /\ lock' = p
  /\ pc' = [pc EXCEPT ![p] = "wloop"]
  /\ UNCHANGED <<pipe, frees, open, killed, todo>>

\* Nobody will read, or killed(pr): -1, without a wakeup.
WriteFail(p) ==
  /\ pc[p] = "wloop" /\ todo[p] > 0
  /\ ~readopen \/ p \in killed
  /\ lock' = None
  /\ todo' = [todo EXCEPT ![p] = 0]
  /\ pc' = [pc EXCEPT ![p] = "idle"]
  /\ UNCHANGED <<pipe, frees, open, killed>>

WriteCheck(p) ==
  /\ pc[p] = "wloop" /\ todo[p] > 0
  /\ readopen /\ p \notin killed
  /\ pc' = [pc EXCEPT ![p] = "wput"]
  /\ UNCHANGED <<pipe, lock, frees, open, killed, todo>>

\* pipewrite-full: wakeup(&pi->nread); sleep(&pi->nwrite, &pi->lock).
WriteSleep(p) ==
  /\ pc[p] = "wput" /\ Full
  /\ lock' = None
  /\ pc' = Wake("rsleep", p, "wsleep")
  /\ UNCHANGED <<pipe, frees, open, killed, todo>>

WriteByte(p, b) ==
  /\ pc[p] = "wput" /\ ~Full
  /\ data' = [data EXCEPT ![nwrite % PIPESIZE] = b]
  /\ nwrite' = (nwrite + 1) % Modulus
  /\ todo' = [todo EXCEPT ![p] = @ - 1]
  /\ pc' = [pc EXCEPT ![p] = "wloop"]
  /\ UNCHANGED <<nread, readopen, writeopen, lock, frees, open, killed>>

\* The loop ends, or copyin fails: wakeup(&pi->nread) and return.
WriteDone(p) ==
  /\ (pc[p] = "wloop" /\ todo[p] = 0) \/ (pc[p] = "wput" /\ ~Full)
  /\ lock' = None
  /\ todo' = [todo EXCEPT ![p] = 0]
  /\ pc' = Wake("rsleep", p, "idle")
  /\ UNCHANGED <<pipe, frees, open, killed>>
-----------------------------------------------------------------------------
(* piperead *)

PipeRead(p, n) ==
  /\ pc[p] = "idle" /\ p \in open \ killed
  /\ lock = None
  /\ lock' = p
  /\ todo' = [todo EXCEPT ![p] = n]
  /\ pc' = [pc EXCEPT ![p] = "rloop"]
  /\ UNCHANGED <<pipe, frees, open, killed>>

ReadRetry(p) ==
  /\ pc[p] = "rretry"
  /\ lock = None
  /\ lock' = p
  /\ pc' = [pc EXCEPT ![p] = "rloop"]
  /\ UNCHANGED <<pipe, frees, open, killed, todo>>

\* pipe-empty, and killed(pr).
ReadFail(p) ==
  /\ pc[p] = "rloop" /\ Empty /\ writeopen
  /\ p \in killed
  /\ lock' = None
  /\ todo' = [todo EXCEPT ![p] = 0]
  /\ pc' = [pc EXCEPT ![p] = "idle"]
  /\ UNCHANGED <<pipe, frees, open, killed>>

\* pipe-empty: the process is not killed when it looks, then piperead-sleep.
ReadCheck(p) ==
  /\ pc[p] = "rloop" /\ Empty /\ writeopen
  /\ p \notin killed
  /\ pc' = [pc EXCEPT ![p] = "rgoing"]
  /\ UNCHANGED <<pipe, lock, frees, open, killed, todo>>

ReadSleep(p) ==
  /\ pc[p] = "rgoing"
  /\ lock' = None
  /\ pc' = [pc EXCEPT ![p] = "rsleep"]
  /\ UNCHANGED <<pipe, frees, open, killed, todo>>

ReadReady(p) ==
  /\ pc[p] = "rloop" /\ ~(Empty /\ writeopen)
  /\ pc' = [pc EXCEPT ![p] = "rcopy"]
  /\ UNCHANGED <<pipe, lock, frees, open, killed, todo>>

\* piperead-copy: one byte; when copyout fails it is the last.
ReadByte(p, copied) ==
  /\ pc[p] = "rcopy" /\ todo[p] > 0 /\ ~Empty
  /\ nread' = (nread + 1) % Modulus
  /\ todo' = [todo EXCEPT ![p] = IF copied THEN @ - 1 ELSE 0]
  /\ UNCHANGED <<data, nwrite, readopen, writeopen, lock, frees, open, killed, pc>>

\* piperead-wakeup and return.
ReadDone(p) ==
  /\ pc[p] = "rcopy" /\ (todo[p] = 0 \/ Empty)
  /\ lock' = None
  /\ todo' = [todo EXCEPT ![p] = 0]
  /\ pc' = Wake("wsleep", p, "idle")
  /\ UNCHANGED <<pipe, frees, open, killed>>
-----------------------------------------------------------------------------
(* fileclose and pipeclose; kill *)

End(p) == IF p \in Reader THEN Reader ELSE Writer

\* fileclose, under ftable.lock: the last reference goes on to pipeclose.
FileClose(p) ==
  /\ pc[p] = "idle" /\ p \in open
  /\ open' = open \ {p}
  /\ pc' = [pc EXCEPT ![p] = IF open' \cap End(p) = {} THEN "closing" ELSE "closed"]
  /\ UNCHANGED <<pipe, lock, frees, killed, todo>>

\* Slip: || for &&.
LastEndSlip(r, w) == ~r \/ ~w

\* pi->readopen == 0 && pi->writeopen == 0
LastEnd(r, w) == ~r /\ ~w

PipeClose(p) ==
  /\ pc[p] = "closing"
  /\ lock = None
  /\ readopen' = (readopen /\ p \in Writer)
  /\ writeopen' = (writeopen /\ p \in Reader)
  /\ pc' = Wake(IF p \in Writer THEN "rsleep" ELSE "wsleep", p, "closed")
  /\ frees' = IF LastEnd(readopen', writeopen') THEN frees + 1 ELSE frees
  /\ UNCHANGED <<data, nread, nwrite, lock, open, killed, todo>>

\* kill: takes p->lock only; a sleeper is woken.
Kill(p) ==
  /\ Kills
  /\ p \notin killed /\ pc[p] # "closed"
  /\ killed' = killed \cup {p}
  /\ pc' = [pc EXCEPT ![p] = IF @ = "rsleep" THEN "rretry"
                             ELSE IF @ = "wsleep" THEN "wretry" ELSE @]
  /\ UNCHANGED <<pipe, lock, frees, open, todo>>

Write(p) ==
  \/ \E n \in 0..MaxCount : PipeWrite(p, n)
  \/ \E b \in Byte : WriteByte(p, b)
  \/ WriteRetry(p) \/ WriteFail(p) \/ WriteCheck(p) \/ WriteSleep(p) \/ WriteDone(p)

Read(p) ==
  \/ \E n \in 0..MaxCount : PipeRead(p, n)
  \/ \E copied \in BOOLEAN : ReadByte(p, copied)
  \/ ReadRetry(p) \/ ReadFail(p) \/ ReadCheck(p) \/ ReadSleep(p) \/ ReadReady(p) \/ ReadDone(p)

Next ==
  \/ \E p \in Writer : Write(p)
  \/ \E p \in Reader : Read(p)
  \/ \E p \in Proc : FileClose(p) \/ PipeClose(p) \/ Kill(p)

Spec == Init /\ [][Next]_vars
-----------------------------------------------------------------------------
(* Properties. *)

\* The bytes in the pipe, oldest first.
Contents ==
  [k \in 1..(nwrite - nread) % Modulus |-> data[(nread + k - 1) % PIPESIZE]]

Queue == INSTANCE BoundedQueue WITH queue <- Contents, Capacity <- PIPESIZE

\* The ring buffer is a queue of PIPESIZE bytes, also when nread and nwrite wrap.
PipeIsQueue == Queue!Spec

\* pipewrite-full: with the lock free, a writer sleeps only when the pipe is full
\* and can still be read.
WriterSleepsWhenFull ==
  lock = None => \A p \in Writer : pc[p] = "wsleep" => Full /\ readopen

\* pipe-empty: with the lock free, a reader sleeps only when the pipe can still be
\* written, and beside bytes only if a writer was killed, as pipewrite then returns
\* without a wakeup.
NoStrandedReader ==
  lock = None => \A p \in Reader : pc[p] = "rsleep" =>
                   (Empty \/ Writer \cap killed # {}) /\ writeopen

\* pipeclose gives the page back exactly when both ends are closed, once, and
\* nobody is left inside or asleep.
FreedWhenUnused ==
  frees > 0 => frees = 1 /\ \A p \in Proc : pc[p] = "closed"
-----------------------------------------------------------------------------
(* The inductive invariant behind these properties. *)

Inside == {"wloop", "wput", "rloop", "rgoing", "rcopy"}

\* Who is where, and who has the lock.
PcInv ==
  /\ pc \in [Proc -> Inside \cup {"idle", "wretry", "wsleep", "rretry", "rsleep",
                                   "closing", "closed"}]
  /\ \A p \in Proc : lock = p <=> pc[p] \in Inside
  /\ lock \in Proc \cup {None}
  /\ \A p \in Writer : pc[p] \notin {"rloop", "rgoing", "rcopy", "rretry", "rsleep"}
  /\ \A p \in Reader : pc[p] \notin {"wloop", "wput", "wretry", "wsleep"}

\* Each end is closed once, by the process that had its last reference.
CloseInv ==
  /\ \A p \in Proc : p \in open <=> pc[p] \notin {"closing", "closed"}
  /\ \A p \in Proc : pc[p] = "closing" => \A q \in End(p) \ {p} : pc[q] = "closed"
  /\ ~readopen => \A p \in Reader : pc[p] = "closed"
  /\ ~writeopen => \A p \in Writer : pc[p] = "closed"
  /\ readopen \in BOOLEAN /\ writeopen \in BOOLEAN
  /\ frees = IF ~readopen /\ ~writeopen THEN 1 ELSE 0

\* While a reader takes bytes out, writers it will wake may sleep beside a pipe
\* that is no longer full.
SleepInv ==
  \A p \in Writer :
    /\ pc[p] \in {"wput", "wsleep"} => readopen
    /\ pc[p] = "wsleep" => Full \/ \E r \in Reader : pc[r] = "rcopy"

\* While a writer puts bytes in, readers it will wake may sleep beside them.
ReadInv ==
  \A p \in Reader :
    /\ pc[p] = "rgoing" => Empty /\ writeopen
    /\ pc[p] = "rsleep" =>
         /\ writeopen
         /\ \/ Empty \/ Writer \cap killed # {}
            \/ \E w \in Writer : pc[w] \in {"wloop", "wput"}

IInv == PcInv /\ CloseInv /\ SleepInv /\ ReadInv

\* The ring holds bytes, and nwrite is never more than PIPESIZE ahead of nread.
RingInv ==
  /\ data \in [0..PIPESIZE - 1 -> Byte]
  /\ nread \in 0..Modulus - 1 /\ nwrite \in 0..Modulus - 1
  /\ (nwrite - nread) % Modulus <= PIPESIZE
=============================================================================
