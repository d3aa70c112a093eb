------------------------------ MODULE CBarrier -------------------------------
(***************************************************************************)
(* The barrier of tutils/cbarrier.c: a mutex, a semaphore `blocked' that   *)
(* the parties wait on, and a second one, `in_await_blocked', that lets    *)
(* CYCLIC_BARRIER_free wait until everybody is out of await.               *)
(*                                                                         *)
(* An action is a critical section under cond->mutex, one semaphore        *)
(* operation, or the unprotected read of is_broken.                        *)
(***************************************************************************)
EXTENDS Naturals, FiniteSets

CONSTANTS
  Threads,       \* the threads that share the barrier
  Parties,       \* the number given to CYCLIC_BARRIER_init
  MaxAwaits,     \* bound of the model: calls of await by each thread
  MaxResets,     \* bound of the model: calls of reset
  Cancellers,    \* threads that may call reset at any time
  Recyclers,     \* threads that call reset only when nobody is inside
  Freers         \* threads that call free, once, after their last await

ASSUME PartiesAssumption ==
  IsFiniteSet(Threads) /\ Parties \in Nat \ {0} /\ Parties = Cardinality(Threads)
ASSUME CallersAssumption == Cancellers \cup Recyclers \cup Freers \subseteq Threads
ASSUME RoundsAssumption == MaxAwaits \in Nat /\ MaxResets \in Nat

VARIABLES
  cond,   \* the CYCLIC_BARRIER: parties, left, is_broken, in_await, the values
          \* of the two semaphores, and two ghosts: resets completed, destroyed
  th      \* per thread: pc, posts to do, and the ghosts entered and passed,
          \* which count the calls of await that began and that returned

vars == <<cond, th>>

\* A definition with an underscore in its name is a mutant of the one that follows
\* it: a plausible slip that some property has to notice.
NewBarrier_CallerNotCounted(num) ==
  [parties |-> num, left |-> num - 1, is_broken |-> FALSE, in_await |-> 0,
   blocked |-> 0, in_await_blocked |-> 0, resets |-> 0, destroyed |-> FALSE]

NewBarrier_OneMore(num) ==
  [parties |-> num + 1, left |-> num + 1, is_broken |-> FALSE, in_await |-> 0,
   blocked |-> 0, in_await_blocked |-> 0, resets |-> 0, destroyed |-> FALSE]

\* CYCLIC_BARRIER_init
NewBarrier(num) ==
  [parties |-> num, left |-> num, is_broken |-> FALSE, in_await |-> 0,
   blocked |-> 0, in_await_blocked |-> 0, resets |-> 0, destroyed |-> FALSE]

Init ==
  /\ cond = NewBarrier(Parties)
  /\ th = [t \in Threads |-> [pc |-> "out", todo |-> 0, entered |-> 0, passed |-> 0]]

Quiet == \A t \in Threads : th[t].pc = "out"

Goto(t, from, to) ==
  /\ th[t].pc = from
  /\ th' = [th EXCEPT ![t].pc = to]

-----------------------------------------------------------------------------
(* CYCLIC_BARRIER_await *)

Enter_OneShort(t) ==
  /\ th[t].pc = "out"
  /\ th[t].entered < MaxAwaits /\ th[t].entered <= cond.resets
  /\ ~cond.destroyed
  /\ cond' = [cond EXCEPT !.in_await = @ + 1, !.left = IF @ > 0 THEN @ - 1 ELSE 0]
  /\ th' = [th EXCEPT ![t].pc = IF cond.left <= 2 THEN "finished" ELSE "blocked",
                      ![t].entered = @ + 1]

\* The first critical section; a barrier is used again only after a reset.
Enter(t) ==
  LET left == IF cond.left > 0 THEN cond.left - 1 ELSE 0
  IN  /\ th[t].pc = "out"
      /\ th[t].entered < MaxAwaits
      /\ th[t].entered <= cond.resets
      /\ ~cond.destroyed
      /\ cond' = [cond EXCEPT !.in_await = @ + 1, !.left = left]
      /\ th' = [th EXCEPT ![t].pc = IF left = 0 THEN "finished" ELSE "blocked",
                          ![t].entered = @ + 1]

\* sem_wait(&cond->blocked)
Unblock(t) ==
  /\ cond.blocked > 0
  /\ Goto(t, "blocked", "leave")
  /\ cond' = [cond EXCEPT !.blocked = @ - 1]

ReadBroken_OnePostMissing(t) ==
  /\ th[t].pc = "finished"
  /\ th' = [th EXCEPT ![t].pc = IF cond.is_broken THEN "leave" ELSE "release",
                      ![t].todo = IF cond.is_broken THEN 0 ELSE cond.parties - 2]
  /\ UNCHANGED cond

\* The thread that found left = 0 reads is_broken without the mutex.
ReadBroken(t) ==
  /\ th[t].pc = "finished"
  /\ th' = [th EXCEPT ![t].pc = IF cond.is_broken THEN "leave" ELSE "release",
                      ![t].todo = IF cond.is_broken THEN 0 ELSE cond.parties - 1]
  /\ UNCHANGED cond

\* One turn of a loop that posts cond->blocked, in await or in reset.
Post(t) ==
  /\ th[t].pc \in {"release", "reset", "free"}
  /\ th[t].todo > 0
  /\ cond' = [cond EXCEPT !.blocked = @ + 1]
  /\ th' = [th EXCEPT ![t].todo = @ - 1]

Released(t) ==
  /\ th[t].todo = 0
  /\ Goto(t, "release", "leave")
  /\ UNCHANGED cond

\* The second critical section: the last one out is in_harms_way.
Leave(t) ==
  /\ th[t].pc = "leave"
  /\ cond' = [cond EXCEPT !.in_await = @ - 1]
  /\ th' = [th EXCEPT ![t].pc = IF cond.in_await = 1 THEN "harm" ELSE "out",
                      ![t].passed = IF cond.in_await = 1 THEN @ ELSE @ + 1]

PostHarm(t) ==
  /\ th[t].pc = "harm"
  /\ cond' = [cond EXCEPT !.in_await_blocked = @ + 1]
  /\ th' = [th EXCEPT ![t].pc = "out", ![t].passed = @ + 1]

-----------------------------------------------------------------------------
(* CYCLIC_BARRIER_reset and CYCLIC_BARRIER_free *)

StartReset_OnePostMissing(t, to) ==
  /\ th[t].pc = "out"
  /\ cond' = [cond EXCEPT !.left = 0, !.is_broken = TRUE]
  /\ th' = [th EXCEPT ![t].pc = to, ![t].todo = cond.parties - 2]

\* The critical section of reset, called by itself (to = "reset") or by free.
StartReset(t, to) ==
  /\ th[t].pc = "out"
  /\ cond' = [cond EXCEPT !.left = 0, !.is_broken = TRUE]
  /\ th' = [th EXCEPT ![t].pc = to, ![t].todo = cond.parties - 1]

Reset(t) ==
  /\ t \in Cancellers \/ (t \in Recyclers /\ Quiet /\ th[t].passed > cond.resets)
  /\ cond.resets < MaxResets /\ ~cond.destroyed
  /\ \A u \in Threads : th[u].pc # "reset"
  /\ StartReset(t, "reset")

ResetDone(t) ==
  /\ th[t].todo = 0
  /\ Goto(t, "reset", "out")
  /\ cond' = [cond EXCEPT !.resets = @ + 1]

\* The caller of free is past its own await, and nobody awaits later.
Free(t) ==
  /\ t \in Freers /\ th[t].passed = MaxAwaits /\ MaxAwaits > 0
  /\ \A u \in Threads : th[u].entered = MaxAwaits
  /\ ~cond.destroyed
  /\ \A u \in Threads : th[u].pc # "free"
  /\ StartReset(t, "free")

Destroy_NoWait(t) ==
  /\ th[t].todo = 0
  /\ Goto(t, "free", "out")
  /\ cond' = [cond EXCEPT !.destroyed = TRUE]

\* sem_wait(&cond->in_await_blocked), after which everything is destroyed
Destroy(t) ==
  /\ th[t].todo = 0 /\ cond.in_await_blocked > 0
  /\ Goto(t, "free", "out")
  /\ cond' = [cond EXCEPT !.in_await_blocked = @ - 1, !.destroyed = TRUE]

-----------------------------------------------------------------------------
AwaitStep(t) ==
  Unblock(t) \/ ReadBroken(t) \/ Post(t) \/ Released(t) \/ Leave(t) \/ PostHarm(t)

FreeStep(t) == ResetDone(t) \/ Destroy(t)

Next == \E t \in Threads :
          Enter(t) \/ AwaitStep(t) \/ Reset(t) \/ Free(t) \/ FreeStep(t)

Spec == Init /\ [][Next]_vars

\* A thread inside the barrier keeps running, and the parties do call await
\* and free, as the callers in tutils do unconditionally.
Fairness ==
  \A t \in Threads : WF_vars(Enter(t)) /\ WF_vars(AwaitStep(t) \/ FreeStep(t)) /\ WF_vars(Free(t))

FairSpec == Spec /\ Fairness

-----------------------------------------------------------------------------
(* Properties *)

PcStates == {"out", "blocked", "finished", "release", "leave", "harm", "reset", "free"}

BarrierStates ==
  [parties : {Parties}, left : 0..Parties, is_broken : BOOLEAN, in_await : Nat,
   blocked : Nat, in_await_blocked : Nat, resets : Nat, destroyed : BOOLEAN]

ThreadStates == [pc : PcStates, todo : Nat, entered : Nat, passed : Nat]

TypeOK == cond \in BarrierStates /\ th \in [Threads -> ThreadStates]

\* Threads that the counter in_await must account for.
Inside == {t \in Threads : th[t].pc \in {"blocked", "finished", "release", "leave"}}

\* cbarrier.h:70, "nobody continues until all have called this function", for
\* the first use: a thread gets past await only when all have called it, or
\* when a reset has cancelled the rendezvous.
NobodyContinuesEarly ==
  (\E t \in Threads : th[t].passed > 0) =>
    cond.is_broken \/ \A u \in Threads : th[u].entered > 0

\* cbarrier.c:134, "wait till everybody is out of await": free destroys the
\* semaphore and the mutex only when no thread is going to touch them, not even
\* the ones that are still posting (cbarrier.c:72) or about to post (94).
DestroyedOnlyWhenQuiet == cond.destroyed => Quiet

\* cbarrier.h:78-81, "can use this cyclic barrier again": after a reset that
\* finds nobody inside, the second rendezvous is as good as the first.
ReusableAfterReset ==
  \A t, u \in Threads : th[t].passed > 1 => th[u].entered > 1

\* The first use of a barrier implements the abstract barrier.
Abstract == INSTANCE OneShotBarrier
              WITH arrived <- {t \in Threads : th[t].entered > 0},
                   departed <- {t \in Threads : th[t].passed > 0}

ImplementsBarrier == Abstract!Spec

\* cbarrier.h:28, "a way to cancel/reset blocked threads": a reset lets every
\* thread out, whatever it interrupts.
ResetReleases == \A t \in Threads : cond.is_broken /\ th[t].pc # "out" ~> th[t].pc = "out"
=============================================================================
