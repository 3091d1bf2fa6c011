----------------------------- MODULE AtomicDisk -----------------------------
(***************************************************************************)
(* What the log of xv6 promises to file-system calls: a disk on which the  *)
(* writes of a group of operations become durable all at once, at a moment *)
(* when no operation is in progress, so that a crash leaves every          *)
(* operation done completely or not at all.                                *)
(***************************************************************************)
CONSTANTS Proc, Block, Data

VARIABLES view,     \* view[b]: contents of block b as operations see them
          durable,  \* durable[b]: contents of block b after a crash
          active    \* the processes between begin_op and end_op

vars == <<view, durable, active>>

Init ==
  /\ durable \in [Block -> Data]
  /\ view = durable
  /\ active = {}

Begin(p) ==
  /\ p \notin active
  /\ active' = active \cup {p}
  /\ UNCHANGED <<view, durable>>

Write(p, b, d) ==
  /\ p \in active
  /\ view' = [view EXCEPT ![b] = d]
  /\ UNCHANGED <<durable, active>>

End(p) ==
  /\ p \in active
  /\ active' = active \ {p}
  /\ UNCHANGED <<view, durable>>

\* Everything written so far becomes durable, between operations only.
Commit ==
  /\ active = {}
  /\ durable' = view
  /\ UNCHANGED <<view, active>>

Crash ==
  /\ view' = durable
  /\ active' = {}
  /\ UNCHANGED durable

Next ==
  \/ \E p \in Proc : Begin(p) \/ End(p) \/ \E b \in Block, d \in Data : Write(p, b, d)
  \/ Commit
  \/ Crash

Spec == Init /\ [][Next]_vars
=============================================================================
