----------------------------- MODULE FifoQueue -----------------------------
(***************************************************************************)
(* What a TQUEUE promises to its users, without threads: a queue whose     *)
(* items come out in the order in which they went in, each exactly once,   *)
(* and exit messages that overtake every queued item (tqueue.h, "push out  *)
(* of order exit message").  TQueue is shown to implement this module.     *)
(***************************************************************************)
EXTENDS Naturals, Sequences

CONSTANT Items          \* the entries that callers push

VARIABLES pending,      \* items put and not yet taken, oldest first
          urgent,       \* exit messages put and not yet taken
          delivered     \* items taken so far, in the order of taking

fifoVars == <<pending, urgent, delivered>>

Init == pending = <<>> /\ urgent = 0 /\ delivered = <<>>

Put(m) == /\ pending' = Append(pending, m)
          /\ UNCHANGED <<urgent, delivered>>

PutExit == /\ urgent' = urgent + 1
           /\ UNCHANGED <<pending, delivered>>

TakeExit == /\ urgent > 0
            /\ urgent' = urgent - 1
            /\ UNCHANGED <<pending, delivered>>

Take == /\ urgent = 0
        /\ pending # <<>>
        /\ pending' = Tail(pending)
        /\ delivered' = Append(delivered, Head(pending))
        /\ UNCHANGED urgent

Next == (\E m \in Items : Put(m)) \/ PutExit \/ TakeExit \/ Take

Spec == Init /\ [][Next]_fifoVars
=============================================================================
