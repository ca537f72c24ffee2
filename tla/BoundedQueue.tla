---------------------------- MODULE BoundedQueue ----------------------------
(***************************************************************************)
(* What a SizedFIFO promises its user: a first-in first-out queue of at    *)
(* most Capacity elements that takes one command per clock cycle.  The     *)
(* commands are total.  An element offered to a full queue is dropped, a   *)
(* dequeue of an empty queue does nothing, and an element offered together *)
(* with a dequeue of an empty queue is dropped: these are the three cases  *)
(* the simulation model warns about.                                       *)
(***************************************************************************)
EXTENDS Naturals, Sequences

CONSTANTS Elements, Capacity

VARIABLE queue

Init == queue = << >>

Clear == queue' = << >>

Enq(d) == queue' = IF Len(queue) < Capacity THEN Append(queue, d) ELSE queue

Deq == queue' = IF queue = << >> THEN queue ELSE Tail(queue)

EnqDeq(d) ==
    queue' = IF queue = << >> THEN queue ELSE Append(Tail(queue), d)

Next == Clear \/ Deq \/ (\E d \in Elements : Enq(d) \/ EnqDeq(d))

Spec == Init /\ [][Next]_queue
=============================================================================
