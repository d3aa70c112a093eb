----------------------------- MODULE TestThread ------------------------------
(***************************************************************************)
(* TEST_THREAD_run of tutils/testthread.c: the main thread and the test    *)
(* threads meet at three barriers, `start', `finish' and, if there is a    *)
(* cleanup callback, `cleanup'.  All three live in the TEST_THREAD object  *)
(* of the caller, which may be gone once TEST_THREAD_run has returned.     *)
(***************************************************************************)
EXTENDS Naturals, FiniteSets

CONSTANTS
  Runners,      \* the test threads
  Main,         \* the thread that calls TEST_THREAD_run
  Cleanups      \* the values that tfunc_cleanup # 0 may have

ASSUME RunnersAssumption ==
  IsFiniteSet(Runners) /\ Runners # {} /\ Main \notin Runners /\ Cleanups \subseteq BOOLEAN

VARIABLES
  start, startTh, finish, finishTh, cleanup, cleanupTh,   \* see CBarrier
  tfunc_cleanup,  \* whether there is a cleanup callback
  pc              \* per thread: what it is about to do

vars == <<start, startTh, finish, finishTh, cleanup, cleanupTh, tfunc_cleanup, pc>>

Parties == Runners \cup {Main}

S == INSTANCE CBarrier
       WITH Threads <- Parties, Parties <- Cardinality(Runners) + 1, MaxAwaits <- 1,
            MaxResets <- 0, Cancellers <- {}, Recyclers <- {}, Freers <- {Main},
            cond <- start, th <- startTh
F == INSTANCE CBarrier
       WITH Threads <- Parties, Parties <- Cardinality(Runners) + 1, MaxAwaits <- 1,
            MaxResets <- 0, Cancellers <- {}, Recyclers <- {}, Freers <- {Main},
            cond <- finish, th <- finishTh
C == INSTANCE CBarrier
       WITH Threads <- Parties, Parties <- Cardinality(Runners) + 1, MaxAwaits <- 1,
            MaxResets <- 0, Cancellers <- {}, Recyclers <- {}, Freers <- {Main},
            cond <- cleanup, th <- cleanupTh

startVars   == <<start, startTh>>
finishVars  == <<finish, finishTh>>
cleanupVars == <<cleanup, cleanupTh>>

\* TEST_THREAD_init
Init ==
  /\ S!Init /\ F!Init /\ C!Init
  /\ tfunc_cleanup \in Cleanups
  /\ pc = [t \in Parties |-> IF t = Main THEN "create" ELSE "none"]

Goto(t, from, to) == pc[t] = from /\ pc' = [pc EXCEPT ![t] = to]

\* pthread_create_detached for one runner
Create(r) ==
  /\ pc[Main] = "create" /\ Goto(r, "none", "init")
  /\ UNCHANGED <<startVars, finishVars, cleanupVars>>

AllCreated ==
  /\ \A r \in Runners : pc[r] # "none"
  /\ Goto(Main, "create", "start")
  /\ UNCHANGED <<startVars, finishVars, cleanupVars>>

\* Every thread walks through the barriers; each await is a call of CBarrier.
AwaitStart(t) ==
  /\ pc[t] = "start"
  /\ \/ (S!Enter(t) \/ S!AwaitStep(t)) /\ UNCHANGED pc
     \/ /\ startTh[t].passed = 1
        /\ pc' = [pc EXCEPT ![t] = IF t = Main THEN "finish" ELSE "run"]
        /\ UNCHANGED startVars
  /\ UNCHANGED <<finishVars, cleanupVars>>

AwaitFinish(t) ==
  /\ pc[t] = "finish"
  /\ \/ (F!Enter(t) \/ F!AwaitStep(t)) /\ UNCHANGED pc
     \/ /\ finishTh[t].passed = 1
        /\ pc' = [pc EXCEPT ![t] = "test_cleanup"]
        /\ UNCHANGED finishVars
  /\ UNCHANGED <<startVars, cleanupVars>>

AwaitCleanup(t) ==
  /\ pc[t] = "cleanup"
  /\ \/ (C!Enter(t) \/ C!AwaitStep(t)) /\ UNCHANGED pc
     \/ /\ cleanupTh[t].passed = 1
        /\ pc' = [pc EXCEPT ![t] = IF t = Main THEN "free_start" ELSE "done"]
        /\ UNCHANGED cleanupVars
  /\ UNCHANGED <<startVars, finishVars>>

\* A definition with an underscore in its name is a mutant of the one that follows
\* it: a plausible slip that some property has to notice.
Callback_NoStartBarrier(r) ==
  /\ r \in Runners
  /\ Goto(r, "init", "run") \/ Goto(r, "run", "finish")
  /\ UNCHANGED <<startVars, finishVars, cleanupVars>>

\* test_thread_runner: tfunc_init, tfunc_run
Callback(r) ==
  /\ r \in Runners
  /\ Goto(r, "init", "start") \/ Goto(r, "run", "finish")
  /\ UNCHANGED <<startVars, finishVars, cleanupVars>>

\* if (thread->tfunc_cleanup): the runner's last look at the object when there
\* is none.  A runner calls it before it awaits.
TestCleanup(t) ==
  /\ Goto(t, "test_cleanup", IF tfunc_cleanup THEN "cleanup"
                             ELSE IF t = Main THEN "free_start" ELSE "done")
  /\ UNCHANGED <<startVars, finishVars, cleanupVars>>

\* The calls of CYCLIC_BARRIER_free.
FreeStart ==
  /\ pc[Main] = "free_start"
  /\ \/ (S!Free(Main) \/ S!Post(Main) \/ S!Destroy(Main)) /\ UNCHANGED pc
     \/ start.destroyed /\ pc' = [pc EXCEPT ![Main] = "free_finish"] /\ UNCHANGED startVars
  /\ UNCHANGED <<finishVars, cleanupVars>>

FreeFinish_CleanupForgotten ==
  /\ pc[Main] = "free_finish"
  /\ \/ (F!Free(Main) \/ F!Post(Main) \/ F!Destroy(Main)) /\ UNCHANGED pc
     \/ /\ finish.destroyed
        /\ pc' = [pc EXCEPT ![Main] = "returned"]
        /\ UNCHANGED finishVars
  /\ UNCHANGED <<startVars, cleanupVars>>

FreeFinish ==
  /\ pc[Main] = "free_finish"
  /\ \/ (F!Free(Main) \/ F!Post(Main) \/ F!Destroy(Main)) /\ UNCHANGED pc
     \/ /\ finish.destroyed
        /\ pc' = [pc EXCEPT ![Main] = IF tfunc_cleanup THEN "free_cleanup" ELSE "returned"]
        /\ UNCHANGED finishVars
  /\ UNCHANGED <<startVars, cleanupVars>>

FreeCleanup ==
  /\ pc[Main] = "free_cleanup"
  /\ \/ (C!Free(Main) \/ C!Post(Main) \/ C!Destroy(Main)) /\ UNCHANGED pc
     \/ cleanup.destroyed /\ pc' = [pc EXCEPT ![Main] = "returned"] /\ UNCHANGED cleanupVars
  /\ UNCHANGED <<startVars, finishVars>>

ThreadStep(t) ==
  AwaitStart(t) \/ AwaitFinish(t) \/ AwaitCleanup(t) \/ Callback(t) \/ TestCleanup(t)

MainStep ==
  \/ \E r \in Runners : Create(r)
  \/ AllCreated \/ FreeStart \/ FreeFinish \/ FreeCleanup

Next == /\ MainStep \/ \E t \in Parties : ThreadStep(t)
        /\ UNCHANGED tfunc_cleanup

Spec == Init /\ [][Next]_vars

\* All threads are scheduled and the callbacks return.
FairSpec ==
  /\ Spec
  /\ WF_vars(MainStep /\ UNCHANGED tfunc_cleanup)
  /\ \A t \in Parties : WF_vars(ThreadStep(t) /\ UNCHANGED tfunc_cleanup)

-----------------------------------------------------------------------------
(* Properties *)

TypeOK ==
  /\ S!TypeOK /\ F!TypeOK /\ C!TypeOK
  /\ tfunc_cleanup \in BOOLEAN
  /\ pc \in [Parties -> {"none", "create", "init", "start", "run", "finish",
                         "test_cleanup", "cleanup", "done", "free_start",
                         "free_finish", "free_cleanup", "returned"}]

\* The phases of a test do not overlap.  testthread.h:29, "wait till all threads
\* reach synchronization point": no test procedure begins before the last thread
\* is created and initialised, and no cleanup before the last test has ended.
PhasesDoNotOverlap ==
  /\ (\E r \in Runners : pc[r] \in {"run", "finish", "test_cleanup", "cleanup", "done"})
       => \A r \in Runners : pc[r] \notin {"none", "init"}
  /\ (\E r \in Runners : pc[r] \in {"cleanup", "done"})
       => \A r \in Runners : pc[r] \notin {"none", "init", "start", "run"}

\* Every runner is past its last access to the TEST_THREAD of the caller.
RunnersGone ==
  \A r \in Runners : pc[r] = "done" \/ (pc[r] = "cleanup" /\ cleanupTh[r].passed = 1)

\* With a cleanup callback the third barrier makes TEST_THREAD_run outlast
\* every access of the runners to the object.
ObjectOutlivesRunners == pc[Main] = "returned" /\ tfunc_cleanup => RunnersGone

\* testthread.h:31, "wait for all test threads to complete": no barrier is
\* destroyed under a thread that is inside it (cbarrier.c:134), not even one
\* that is about to post.
DestroyedOnlyWhenQuiet ==
  S!DestroyedOnlyWhenQuiet /\ F!DestroyedOnlyWhenQuiet /\ C!DestroyedOnlyWhenQuiet

\* Each of the three is a barrier: cbarrier.h:70, "nobody continues until all
\* have called this function".
ImplementsBarrier == S!ImplementsBarrier /\ F!ImplementsBarrier /\ C!ImplementsBarrier

\* TEST_THREAD_run returns.
RunReturns == <>(pc[Main] = "returned")
=============================================================================
