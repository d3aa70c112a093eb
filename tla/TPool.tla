------------------------------- MODULE TPool --------------------------------
(***************************************************************************)
(* The thread pool of tutils/tpool.c: worker threads around a TQUEUE of    *)
(* requests, stopped by exit messages and a CYCLIC_BARRIER.                *)
(*                                                                         *)
(* The thread that creates the pool also closes it; by then no sender is   *)
(* inside a send, which is the caller's business.  Spurious wakeups and    *)
(* failing allocations are left to TQueue.                                 *)
(***************************************************************************)
EXTENDS Naturals, Sequences, FiniteSets

CONSTANTS
  Workers,             \* the threads of the pool (num_threads of them)
  Senders,             \* threads that send requests
  Owner,               \* the thread that creates and closes the pool
  Items,               \* the requests
  Exit, Empty, NoItem, \* as in TQueue
  MaxCount,            \* queue_size
  CreateMayFail        \* whether pthread_create may fail

ASSUME PoolAssumption ==
  /\ IsFiniteSet(Workers) /\ Workers # {} /\ IsFiniteSet(Senders)
  /\ Workers \cap Senders = {} /\ Owner \notin Workers \cup Senders
  /\ Exit \notin Items /\ Empty \notin Items
  /\ CreateMayFail \in BOOLEAN

VARIABLES
  queue, waiting_empty, waiting_full, qpc, arg, result, used, taken, exits,
                \* request_queue, see TQueue
  cond, bth,    \* all_finished, see CBarrier
  wpc,          \* worker threads
  opc,          \* the owner
  handled       \* ghost: how often each request was handled

queueVars   == <<queue, waiting_empty, waiting_full, qpc, arg, result, used, taken, exits>>
barrierVars == <<cond, bth>>
poolVars    == <<wpc, opc, handled>>
vars        == <<queueVars, barrierVars, poolVars>>

Parties == Workers \cup {Owner}
num_threads == Cardinality(Workers)

Q == INSTANCE TQueue
       WITH Threads <- Workers \cup Senders \cup {Owner},
            BlockPushers <- Senders, FailPushers <- Senders,
            ExitPushers <- {Owner}, Poppers <- Workers, Pollers <- {},
            MaxExits <- num_threads, SpuriousWakeups <- FALSE,
            AllocMayFail <- FALSE, pc <- qpc

B == INSTANCE CBarrier
       WITH Threads <- Parties, Parties <- num_threads + 1,
            MaxAwaits <- 1, MaxResets <- 0,
            Cancellers <- {}, Recyclers <- {}, Freers <- {}, th <- bth

Init ==
  /\ Q!Init
  /\ B!Init
  /\ wpc = [w \in Workers |-> "none"]
  /\ opc = "creating"
  /\ handled = [m \in Items |-> 0]

QueuedItems == {m \in Items : \E i \in DOMAIN queue : queue[i] = m}

-----------------------------------------------------------------------------
(* THREADPOOL_init_ext: the barrier is initialised after the threads *)

CreateWorker(w) ==
  /\ opc = "creating" /\ wpc[w] = "none"
  /\ wpc' = [wpc EXCEPT ![w] = "popping"]
  /\ UNCHANGED <<queueVars, barrierVars, opc, handled>>

Created == {w \in Workers : wpc[w] # "none"}

\* A definition with an underscore in its name is a mutant of the one that follows
\* it: a plausible slip that some property has to notice.
InitDone_OwnerNotCounted ==
  /\ opc = "creating" /\ Created = Workers
  /\ cond' = B!NewBarrier(num_threads)
  /\ opc' = "open"
  /\ UNCHANGED <<queueVars, bth, wpc, handled>>

InitDone ==
  /\ opc = "creating" /\ Created = Workers
  /\ cond' = B!NewBarrier(num_threads + 1)
  /\ opc' = "open"
  /\ UNCHANGED <<queueVars, bth, wpc, handled>>

\* pthread_create failed for thread i: close the pool with the threads there are
CreateFailed ==
  /\ opc = "creating" /\ Created # Workers /\ CreateMayFail
  /\ cond' = B!NewBarrier(Cardinality(Created) + 1)
  /\ opc' = "closing"
  /\ UNCHANGED <<queueVars, bth, wpc, handled>>

-----------------------------------------------------------------------------
(* worker_thread *)

Pop_DroppedAtClose(w) ==
  /\ wpc[w] = "popping"
  /\ \/ Q!PopWait(w) /\ UNCHANGED wpc
     \/ /\ Q!Pop(w) \/ Q!PopResume(w)
        /\ wpc' = [wpc EXCEPT ![w] = IF result'[w] \in Items /\ opc # "closing"
                                    THEN "handling" ELSE "finishing"]
  /\ UNCHANGED <<barrierVars, opc, handled>>

\* The request that TQUEUE_pop returned is handled; a null pointer, be it the
\* exit message or nothing at all, ends the loop.
Pop(w) ==
  /\ wpc[w] = "popping"
  /\ \/ /\ Q!PopWait(w)
        /\ UNCHANGED wpc
     \/ /\ Q!Pop(w) \/ Q!PopResume(w)
        /\ wpc' = [wpc EXCEPT ![w] = IF result'[w] \in Items THEN "handling"
                                                             ELSE "finishing"]
  /\ UNCHANGED <<barrierVars, opc, handled>>

Handle_EndsLoop(w) ==
  /\ wpc[w] = "handling"
  /\ handled' = [handled EXCEPT ![result[w]] = @ + 1]
  /\ wpc' = [wpc EXCEPT ![w] = "finishing"]
  /\ UNCHANGED <<queueVars, barrierVars, opc>>

\* handle_request and process_result
Handle(w) ==
  /\ wpc[w] = "handling"
  /\ handled' = [handled EXCEPT ![result[w]] = @ + 1]
  /\ wpc' = [wpc EXCEPT ![w] = "popping"]
  /\ UNCHANGED <<queueVars, barrierVars, opc>>

Finish_NoAwait(w) ==
  /\ wpc[w] = "finishing"
  /\ wpc' = [wpc EXCEPT ![w] = "none"]
  /\ UNCHANGED <<queueVars, barrierVars, opc, handled>>

\* thread_finish, then CYCLIC_BARRIER_await
Finish(w) ==
  /\ wpc[w] = "finishing"
  /\ wpc' = [wpc EXCEPT ![w] = "awaiting"]
  /\ UNCHANGED <<queueVars, barrierVars, opc, handled>>

WorkerAwait(w) ==
  /\ wpc[w] = "awaiting"
  /\ B!Enter(w) \/ B!AwaitStep(w)
  /\ UNCHANGED <<queueVars, poolVars>>

-----------------------------------------------------------------------------
(* Sending and closing *)

\* THREADPOOL_send_block_on_queue_full and THREADPOOL_send_fail_on_queue_full
Send(s) ==
  /\ s \in Senders
  /\ opc = "open"
  /\ \/ \E m \in Items : Q!PushBlockWait(s, m) \/ Q!PushBlock(s, m) \/ Q!PushFail(s, m)
     \/ Q!PushBlockResume(s)
  /\ UNCHANGED <<barrierVars, poolVars>>

\* THREADPOOL_close
Close ==
  /\ opc = "open"
  /\ \A s \in Senders : qpc[s] = "idle"
  /\ opc' = "closing"
  /\ UNCHANGED <<queueVars, barrierVars, wpc, handled>>

PushExit ==
  /\ opc = "closing"
  /\ Q!PushExit(Owner)
  /\ UNCHANGED <<barrierVars, poolVars>>

OwnerAwait ==
  /\ opc = "closing" /\ exits = num_threads
  /\ B!Enter(Owner) \/ B!AwaitStep(Owner)
  /\ UNCHANGED <<queueVars, poolVars>>

FreePool ==
  /\ opc = "closing" /\ bth[Owner].passed = 1
  /\ opc' = "freed"
  /\ UNCHANGED <<queueVars, barrierVars, wpc, handled>>

-----------------------------------------------------------------------------
WorkerStep(w) == Pop(w) \/ Handle(w) \/ Finish(w) \/ WorkerAwait(w)
CloseStep == PushExit \/ OwnerAwait \/ FreePool

Next ==
  \/ \E w \in Workers : CreateWorker(w) \/ WorkerStep(w)
  \/ InitDone \/ CreateFailed
  \/ \E s \in Senders : Send(s)
  \/ Close \/ CloseStep

Spec == Init /\ [][Next]_vars

\* Worker threads are scheduled, callbacks return, and the owner runs through
\* THREADPOOL_close once it is in it.  Nobody has to send or to close.
Fairness == (\A w \in Workers : WF_vars(WorkerStep(w))) /\ WF_vars(CloseStep)

FairSpec == Spec /\ Fairness

-----------------------------------------------------------------------------
(* Properties *)

TypeOK ==
  /\ Q!TypeOK
  /\ wpc \in [Workers -> {"none", "popping", "handling", "finishing", "awaiting"}]
  /\ opc \in {"creating", "open", "closing", "freed"}
  /\ handled \in [Items -> Nat]

Serving == {w \in Workers : wpc[w] \in {"popping", "handling"}}

\* A worker whose wakeup was stolen by another one gets a null pointer from
\* TQUEUE_pop and ends (tpool.c:37).  However this happens, an open pool keeps
\* a worker: the thief is still there.
AlwaysAWorker == opc = "open" => Serving # {}

\* A request that left the queue was handled exactly once or is in the hands
\* of exactly one worker, whichever worker took it and whatever ends workers.
TakenIsHandled ==
  \A m \in Items :
    Cardinality({i \in DOMAIN taken : taken[i] = m})
      = handled[m] + Cardinality({w \in Workers : wpc[w] = "handling" /\ result[w] = m})

\* When THREADPOOL_close frees the pool no worker is in its loop, in a callback
\* that gets pool_ctx, or on its way to the barrier (tpool.c:131-134).
NoCallbackAfterFree ==
  opc = "freed" => \A w \in Workers : wpc[w] \in {"none", "awaiting"}

\* A request that got into the queue of a pool that stays open is handled.
RequestsHandled ==
  \A m \in Items : (opc = "open" /\ m \in QueuedItems) ~> (handled[m] > 0 \/ opc # "open")

\* THREADPOOL_close returns, after a failed THREADPOOL_init_ext too.
CloseReturns == opc = "closing" ~> opc = "freed"
=============================================================================
