-------------------------------- MODULE Fifo --------------------------------
(***************************************************************************)
(* What a pipe promises: a queue of at most Size bytes that come out in    *)
(* the order they went in, and that readers find at its end only when it   *)
(* is empty and nobody can write to it any more.                           *)
(***************************************************************************)
EXTENDS Naturals, Sequences

CONSTANTS Byte, Size

VARIABLES
    queue,
    open     \* some process may still write

Init == queue = <<>> /\ open = TRUE

Put(b) == /\ open /\ Len(queue) < Size
          /\ queue' = Append(queue, b) /\ UNCHANGED open

Get == /\ queue # <<>>
       /\ queue' = Tail(queue) /\ UNCHANGED open

Close == open' = FALSE /\ UNCHANGED queue

Next == Get \/ Close \/ \E b \in Byte : Put(b)

Spec == Init /\ [][Next]_<<queue, open>>
=============================================================================
