------------------------------ MODULE TQueue -------------------------------
(***************************************************************************)
(* The thread safe bounded queue of tutils/tqueue.c.                       *)
(*                                                                         *)
(* Every operation runs under queue->mutex, so one action is one critical  *)
(* section: from the lock to the unlock, or to pthread_cond_wait, or from  *)
(* the return of pthread_cond_wait to the unlock.  A thread blocked in     *)
(* pthread_cond_wait first becomes "woken" and only later owns the mutex   *)
(* again; whatever other threads do in between is the subject of this      *)
(* module.                                                                 *)
(*                                                                         *)
(* The list is a sequence whose head is what DLIST_pop_back returns next.  *)
(***************************************************************************)
EXTENDS Naturals, Sequences, FiniteSets

CONSTANTS
  Threads,          \* every thread that uses the queue
  BlockPushers,     \* threads that call TQUEUE_push_block_on_queue_full,
  FailPushers,      \*   ... TQUEUE_push_fail_on_queue_full,
  ExitPushers,      \*   ... TQUEUE_push_exit_message,
  Poppers,          \*   ... TQUEUE_pop,
  Pollers,          \*   ... TQUEUE_pop_non_blocking
  Items,            \* non null entries, each pushed at most once
  Exit,             \* the null entry of an exit message
  Empty,            \* what pop returns when nothing was popped.  In C this is
                    \* the null pointer, as Exit is: kept apart for properties
  NoItem,           \* no entry at all
  MaxCount,         \* max_count, 0 for no limit
  MaxExits,         \* bound of the model: exit messages pushed
  SpuriousWakeups,  \* whether pthread_cond_wait may return without a signal
  AllocMayFail      \* whether malloc may fail in push_entry

ASSUME ThreadsAssumption ==
  /\ IsFiniteSet(Threads)
  /\ BlockPushers \cup FailPushers \cup ExitPushers \cup Poppers \cup Pollers
       \subseteq Threads
ASSUME EntriesAssumption ==
  /\ Cardinality({Exit, Empty, NoItem}) = 3
  /\ {Exit, Empty, NoItem} \cap Items = {}
ASSUME BoundsAssumption == MaxCount \in Nat /\ MaxExits \in Nat
ASSUME EnvironmentAssumption ==
  SpuriousWakeups \in BOOLEAN /\ AllocMayFail \in BOOLEAN

VARIABLES
  queue,            \* dlist
  waiting_empty,    \* the counters of the same name
  waiting_full,
  pc,               \* where each thread is: "idle" outside of the queue
  arg,              \* the entry a blocked pusher is holding
  result,           \* what the last pop of each thread returned
  used,             \* ghost: items handed to a push
  taken,            \* ghost: items popped, in order
  exits             \* ghost: exit messages pushed

vars == <<queue, waiting_empty, waiting_full, pc, arg, result, used, taken, exits>>

PcStates == {"idle", "wait_empty", "woken_empty", "wait_full", "woken_full"}

ThreadsAt(p, state) == {t \in Threads : p[t] = state}

EmptyWaiters == ThreadsAt(pc, "wait_empty")    \* blocked on cond_empty
EmptyWoken   == ThreadsAt(pc, "woken_empty")   \* back from it, without the mutex
FullWaiters  == ThreadsAt(pc, "wait_full")     \* the same for cond_max
FullWoken    == ThreadsAt(pc, "woken_full")

Init ==
  /\ queue = <<>>
  /\ waiting_empty = 0
  /\ waiting_full = 0
  /\ pc = [t \in Threads |-> "idle"]
  /\ arg = [t \in Threads |-> NoItem]
  /\ result = [t \in Threads |-> NoItem]
  /\ used = {}
  /\ taken = <<>>
  /\ exits = 0

-----------------------------------------------------------------------------
(* Condition variables *)

\* pthread_cond_signal: the control states that may follow p when one thread
\* blocked at `from' is made ready at `to'; p itself when none is blocked.
Signalled(p, from, to) ==
  IF ThreadsAt(p, from) = {}
  THEN {p}
  ELSE {[p EXCEPT ![t] = to] : t \in ThreadsAt(p, from)}

\* Mutants (each is a plausible slip in the definition named before the
\* underscore; the runs show that a property notices it).
SignalEmpty_Never(p) == {p}
SignalFull_Never(p) == {p}

\* A pusher signals cond_empty only when it counts a waiter ...
SignalEmpty(p) ==
  IF waiting_empty > 0 THEN Signalled(p, "wait_empty", "woken_empty") ELSE {p}

\* ... and a popper signals cond_max only when it counts one.
SignalFull(p) ==
  IF waiting_full # 0 THEN Signalled(p, "wait_full", "woken_full") ELSE {p}

\* POSIX allows pthread_cond_wait to return without a signal.
SpuriousWakeup(t) ==
  /\ SpuriousWakeups
  /\ \/ pc[t] = "wait_empty" /\ pc' = [pc EXCEPT ![t] = "woken_empty"]
     \/ pc[t] = "wait_full"  /\ pc' = [pc EXCEPT ![t] = "woken_full"]
  /\ UNCHANGED <<queue, waiting_empty, waiting_full, arg, result, used, taken, exits>>

-----------------------------------------------------------------------------
(* Pushing *)

Full == MaxCount # 0 /\ Len(queue) >= MaxCount

\* push_entry and the signal after it; the entry is refused when malloc fails.
PushEntry(t, m) ==
  \/ /\ queue' = Append(queue, m)
     /\ pc' \in SignalEmpty([pc EXCEPT ![t] = "idle"])
  \/ /\ AllocMayFail
     /\ pc' = [pc EXCEPT ![t] = "idle"]
     /\ UNCHANGED queue

NewItem(m) == m \in Items \ used /\ used' = used \cup {m}

PushBlockWait_EntryForgotten(t, m) ==
  /\ t \in BlockPushers /\ pc[t] = "idle" /\ Full
  /\ NewItem(m)
  /\ waiting_full' = waiting_full + 1
  /\ pc' = [pc EXCEPT ![t] = "wait_full"]
  /\ UNCHANGED <<queue, waiting_empty, arg, result, taken, exits>>

\* TQUEUE_push_block_on_queue_full up to pthread_cond_wait ...
PushBlockWait(t, m) ==
  /\ t \in BlockPushers /\ pc[t] = "idle"
  /\ NewItem(m)
  /\ Full
  /\ waiting_full' = waiting_full + 1
  /\ pc' = [pc EXCEPT ![t] = "wait_full"]
  /\ arg' = [arg EXCEPT ![t] = m]
  /\ UNCHANGED <<queue, waiting_empty, result, taken, exits>>

\* ... the whole of it when there is room ...
PushBlock(t, m) ==
  /\ t \in BlockPushers /\ pc[t] = "idle"
  /\ NewItem(m)
  /\ ~Full
  /\ PushEntry(t, m)
  /\ UNCHANGED <<waiting_empty, waiting_full, arg, result, taken, exits>>

\* ... and what follows pthread_cond_wait: the limit is not tested again and
\* waiting_full is incremented a second time.
PushBlockResume(t) ==
  /\ pc[t] = "woken_full"
  /\ waiting_full' = waiting_full + 1
  /\ PushEntry(t, arg[t])
  /\ arg' = [arg EXCEPT ![t] = NoItem]
  /\ UNCHANGED <<waiting_empty, result, used, taken, exits>>

PushFail_NoLimit(t, m) ==
  /\ t \in FailPushers /\ pc[t] = "idle"
  /\ NewItem(m) /\ PushEntry(t, m)
  /\ UNCHANGED <<waiting_empty, waiting_full, arg, result, taken, exits>>

\* TQUEUE_push_fail_on_queue_full
PushFail(t, m) ==
  /\ t \in FailPushers /\ pc[t] = "idle"
  /\ NewItem(m)
  /\ \/ Full /\ UNCHANGED <<queue, pc>>
     \/ ~Full /\ PushEntry(t, m)
  /\ UNCHANGED <<waiting_empty, waiting_full, arg, result, taken, exits>>

PushExit_AtTheBack(t) ==
  /\ t \in ExitPushers /\ pc[t] = "idle"
  /\ exits < MaxExits
  /\ exits' = exits + 1
  /\ queue' = Append(queue, Exit)
  /\ pc' \in SignalEmpty(pc)
  /\ UNCHANGED <<waiting_empty, waiting_full, arg, result, used, taken>>

\* TQUEUE_push_exit_message: at the end that is popped next, whatever the limit
PushExit(t) ==
  /\ t \in ExitPushers /\ pc[t] = "idle"
  /\ exits < MaxExits
  /\ exits' = exits + 1
  /\ queue' = <<Exit>> \o queue
  /\ pc' \in SignalEmpty(pc)
  /\ UNCHANGED <<waiting_empty, waiting_full, arg, result, used, taken>>

-----------------------------------------------------------------------------
(* Popping *)

\* DLIST_pop_back and what the caller gets from it.
TakeEntry(t) ==
  IF queue = <<>>
  THEN /\ result' = [result EXCEPT ![t] = Empty]
       /\ UNCHANGED <<queue, taken>>
  ELSE /\ result' = [result EXCEPT ![t] = Head(queue)]
       /\ queue' = Tail(queue)
       /\ taken' = IF Head(queue) = Exit THEN taken ELSE Append(taken, Head(queue))

\* TQUEUE_pop up to pthread_cond_wait ...
PopWait(t) ==
  /\ t \in Poppers /\ pc[t] = "idle"
  /\ queue = <<>>
  /\ waiting_empty' = waiting_empty + 1
  /\ pc' = [pc EXCEPT ![t] = "wait_empty"]
  /\ UNCHANGED <<queue, waiting_full, arg, result, used, taken, exits>>

\* ... the whole of it when there is an entry ...
Pop(t) ==
  /\ t \in Poppers /\ pc[t] = "idle"
  /\ queue # <<>>
  /\ TakeEntry(t)
  /\ pc' \in SignalFull(pc)
  /\ UNCHANGED <<waiting_empty, waiting_full, arg, used, exits>>

PopResume_StillCounted(t) ==
  /\ pc[t] = "woken_empty"
  /\ TakeEntry(t)
  /\ pc' \in SignalFull([pc EXCEPT ![t] = "idle"])
  /\ UNCHANGED <<waiting_empty, waiting_full, arg, used, exits>>

\* ... and what follows pthread_cond_wait: the list may be empty again.
PopResume(t) ==
  /\ pc[t] = "woken_empty"
  /\ waiting_empty' = waiting_empty - 1
  /\ TakeEntry(t)
  /\ pc' \in SignalFull([pc EXCEPT ![t] = "idle"])
  /\ UNCHANGED <<waiting_full, arg, used, exits>>

\* TQUEUE_pop_non_blocking: pushers that wait for room are not signalled
PopNonBlocking(t) ==
  /\ t \in Pollers /\ pc[t] = "idle"
  /\ TakeEntry(t)
  /\ UNCHANGED <<waiting_empty, waiting_full, pc, arg, used, exits>>

-----------------------------------------------------------------------------
PushStep(t) ==
  \/ \E m \in Items : PushBlockWait(t, m) \/ PushBlock(t, m) \/ PushFail(t, m)
  \/ PushBlockResume(t)
  \/ PushExit(t)

PopStep(t) == PopWait(t) \/ Pop(t) \/ PopResume(t) \/ PopNonBlocking(t)

Next == \E t \in Threads : PushStep(t) \/ PopStep(t) \/ SpuriousWakeup(t)

Spec == Init /\ [][Next]_vars

\* The scheduler runs every thread that is ready, and a consumer loop calls
\* TQUEUE_pop again after every return (worker_thread in tpool.c).
Fairness ==
  /\ \A t \in Threads : WF_vars(PushBlockResume(t) \/ PopResume(t))
  /\ \A t \in Poppers : WF_vars(PopWait(t) \/ Pop(t))

FairSpec == Spec /\ Fairness

-----------------------------------------------------------------------------
(* Properties *)

Entries == Items \cup {Exit}

TypeOK ==
  /\ queue \in Seq(Entries)
  /\ waiting_empty \in Nat
  /\ waiting_full \in Nat
  /\ pc \in [Threads -> PcStates]
  /\ arg \in [Threads -> Items \cup {NoItem}]
  /\ result \in [Threads -> Entries \cup {Empty, NoItem}]
  /\ used \subseteq Items
  /\ taken \in Seq(Items)
  /\ exits \in Nat

\* The tests "is anybody waiting" that guard pthread_cond_signal
\* (tqueue.c:61, 99, 131, 202) never miss a waiter: waiting_empty is exact, and
\* waiting_full, incremented again where it should be decremented
\* (tqueue.c:95), can only be too large.
WaitersCounted ==
  /\ waiting_empty = Cardinality(EmptyWaiters) + Cardinality(EmptyWoken)
  /\ waiting_full >= Cardinality(FullWaiters) + Cardinality(FullWoken)

\* No consumer sleeps on while there is work for it: when somebody is still
\* blocked on cond_empty, each queued entry has a consumer already on its way.
NoLostEmptyWakeup ==
  EmptyWaiters # {} => Len(queue) <= Cardinality(EmptyWoken)

\* No producer sleeps on while there is room for it: when somebody is still
\* blocked on cond_max, each free slot has a producer already on its way.
NoLostFullWakeup ==
  FullWaiters # {} => MaxCount <= Len(queue) + Cardinality(FullWoken)

\* The limit is not tested again after pthread_cond_wait (tqueue.c:92), so the
\* queue can outgrow max_count; without spurious wakeups it does so by at most
\* one entry per blocking producer, exit messages apart.
OvershootBounded ==
  MaxCount # 0 /\ ~SpuriousWakeups =>
    Len(queue) + Cardinality(FullWoken) <= MaxCount + Cardinality(BlockPushers) + exits

\* The order of entries: a TQUEUE implements FifoQueue.  Exit messages are in
\* front of every item, so they are counted and the rest is the FIFO.
QueuedExits == Cardinality({i \in DOMAIN queue : queue[i] = Exit})

Fifo == INSTANCE FifoQueue
          WITH pending <- SubSeq(queue, QueuedExits + 1, Len(queue)),
               urgent <- QueuedExits,
               delivered <- taken

ImplementsFifo == Fifo!Spec

\* Every queued item is handed to some consumer in the end, and every blocked
\* producer returns.
NobodyStranded ==
  /\ \A m \in Items : (\E i \in DOMAIN queue : queue[i] = m)
                        ~> (\E i \in DOMAIN taken : taken[i] = m)
  /\ \A t \in BlockPushers : pc[t] = "wait_full" ~> pc[t] = "idle"
=============================================================================
