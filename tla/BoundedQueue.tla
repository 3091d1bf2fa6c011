---------------------------- MODULE BoundedQueue ----------------------------
(***************************************************************************)
(* What a pipe promises: bytes come out in the order they went in, none    *)
(* is repeated, and no more than Capacity wait inside.                     *)
(***************************************************************************)
EXTENDS Naturals, Sequences

CONSTANTS Byte, Capacity
VARIABLE queue

Init == queue = <<>>
Put(b) == Len(queue) < Capacity /\ queue' = Append(queue, b)
Get == queue # <<>> /\ queue' = Tail(queue)
Next == Get \/ \E b \in Byte : Put(b)
Spec == Init /\ [][Next]_queue
=============================================================================
