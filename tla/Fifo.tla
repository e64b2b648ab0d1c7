-------------------------------- MODULE Fifo --------------------------------
(***************************************************************************)
(* What a pipe promises: bytes come out in the order they went in, none    *)
(* twice, and never more than Capacity are in between.                     *)
(***************************************************************************)
EXTENDS Integers, Sequences

CONSTANTS Bytes, Capacity

VARIABLE queue

Init == queue = <<>>

Put(v) == Len(queue) < Capacity /\ queue' = Append(queue, v)

Get == queue # <<>> /\ queue' = Tail(queue)

Next == Get \/ \E v \in Bytes : Put(v)

Spec == Init /\ [][Next]_queue
=============================================================================
