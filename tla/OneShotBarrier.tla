--------------------------- MODULE OneShotBarrier ---------------------------
(***************************************************************************)
(* What CYCLIC_BARRIER_await promises (cbarrier.h:70): "All threads call   *)
(* this function, nobody continues until all have called this function".   *)
(* CBarrier is shown to implement it for the first use of a barrier.       *)
(***************************************************************************)
CONSTANT Threads

VARIABLES arrived,      \* threads that have called await
          departed      \* threads whose call has returned

Init == arrived = {} /\ departed = {}

Arrive(t) == /\ t \notin arrived
             /\ arrived' = arrived \cup {t}
             /\ UNCHANGED departed

Depart(t) == /\ arrived = Threads
             /\ t \notin departed
             /\ departed' = departed \cup {t}
             /\ UNCHANGED arrived

Next == \E t \in Threads : Arrive(t) \/ Depart(t)

Spec == Init /\ [][Next]_<<arrived, departed>>
=============================================================================
