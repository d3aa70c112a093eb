-------------------------- MODULE TestThreadProofs ---------------------------
(***************************************************************************)
(* Theorems about TestThread, for any number of test threads.  Each of the *)
(* three barriers is used once, so what CBarrierProofs shows of such a     *)
(* barrier holds of it (OnceInv); what is left to show is that the phases  *)
(* of the threads follow the barriers (InStep).                            *)
(***************************************************************************)
EXTENDS TestThread, FiniteSetTheorems, TLAPS

SB == INSTANCE CBarrierProofs
        WITH Threads <- Parties, Parties <- Cardinality(Runners) + 1, MaxAwaits <- 1,
             MaxResets <- 0, Cancellers <- {}, Recyclers <- {}, Freers <- {Main},
             cond <- start, th <- startTh
FB == INSTANCE CBarrierProofs
        WITH Threads <- Parties, Parties <- Cardinality(Runners) + 1, MaxAwaits <- 1,
             MaxResets <- 0, Cancellers <- {}, Recyclers <- {}, Freers <- {Main},
             cond <- finish, th <- finishTh
CB == INSTANCE CBarrierProofs
        WITH Threads <- Parties, Parties <- Cardinality(Runners) + 1, MaxAwaits <- 1,
             MaxResets <- 0, Cancellers <- {}, Recyclers <- {}, Freers <- {Main},
             cond <- cleanup, th <- cleanupTh

-----------------------------------------------------------------------------
(* A barrier that TEST_THREAD_run uses *)

LEMMA PartiesCounted ==
  /\ IsFiniteSet(Parties)
  /\ Cardinality(Parties) = Cardinality(Runners) + 1
  /\ Cardinality(Runners) + 1 \in Nat \ {0}
  BY RunnersAssumption, FS_AddElement, FS_CardinalityType DEF Parties

\* What a step of thread u at a barrier leaves as it was: everybody else's
\* calls, calls that have returned, and a destruction.
Kept(u, before, after, gone, goneNext) ==
  /\ \A t \in Parties \ {u} : after[t] = before[t]
  /\ before[u].passed = 1 => after[u].passed = 1
  /\ gone => goneNext

LEMMA StartAssumptions ==
  SB!PartiesAssumption /\ SB!CallersAssumption /\ SB!RoundsAssumption
<1>1. \A X : (SB!IsFiniteSet(X) <=> IsFiniteSet(X)) /\ SB!Cardinality(X) = Cardinality(X)
  BY DEF SB!IsFiniteSet, IsFiniteSet, SB!Cardinality, Cardinality
<1>2. SB!PartiesAssumption
  BY <1>1, PartiesCounted
<1>3. SB!CallersAssumption
  BY <1>1, PartiesCounted DEF Parties
<1>4. SB!RoundsAssumption
  OBVIOUS
<1>. QED
  BY <1>2, <1>3, <1>4

LEMMA StartInit == S!Init => SB!OnceInv
  BY StartAssumptions, SB!InitTInv, SB!InitFirstUse, SB!InitUsedOnce
     DEF SB!OnceInv, S!Init, SB!Init, S!NewBarrier, SB!NewBarrier

\* The start barrier of the test takes the steps of CBarrier only.
LEMMA StartAction ==
  ASSUME NEW u \in Parties,
         S!Enter(u) \/ S!AwaitStep(u) \/ S!Free(u) \/ S!Destroy(u)
  PROVE  /\ SB!Enter(u) \/ SB!AwaitStep(u) \/ SB!Free(u) \/ SB!Destroy(u)
         /\ SB!Enter(u) <=> S!Enter(u)
         /\ SB!Next
<1>1. /\ SB!Enter(u) \/ SB!AwaitStep(u) \/ SB!Free(u) \/ SB!Destroy(u)
      /\ SB!Enter(u) <=> S!Enter(u)
  BY DEF S!Enter, S!AwaitStep, S!Free, S!Destroy, S!Unblock, S!ReadBroken,
         S!Post, S!Released, S!Leave, S!PostHarm, S!StartReset, S!Goto,
         SB!Enter, SB!AwaitStep, SB!Free, SB!Destroy, SB!Unblock, SB!ReadBroken,
         SB!Post, SB!Released, SB!Leave, SB!PostHarm, SB!StartReset, SB!Goto
<1>. QED
  BY <1>1 DEF SB!Next, SB!FreeStep

LEMMA StartStep ==
  ASSUME SB!OnceInv, NEW u \in Parties,
         S!Enter(u) \/ S!AwaitStep(u) \/ S!Free(u) \/ S!Destroy(u)
  PROVE  /\ SB!OnceInv'
         /\ Kept(u, startTh, startTh', start.destroyed, start'.destroyed)
         /\ ~S!Enter(u) => startTh'[u].entered = startTh[u].entered
<1>1. SB!OnceInv'
  BY StartAction, StartAssumptions, SB!OnceStep
<1>. QED
  BY <1>1, StartAction, StartAssumptions, SB!OnceKeeps DEF Kept

LEMMA StartSame ==
  ASSUME SB!OnceInv, UNCHANGED <<start, startTh>> PROVE SB!OnceInv'
<1>1. [SB!Next]_(SB!vars)
  BY DEF SB!vars
<1>. QED
  BY <1>1, StartAssumptions, SB!OnceStep

LEMMA StartMeans ==
  ASSUME SB!OnceInv, NEW t \in Parties
  PROVE  /\ startTh[t].passed = 1 => \A u \in Parties : startTh[u].entered = 1
         /\ start.destroyed => startTh[t].pc = "out" /\ startTh[t].passed = 1
  BY StartAssumptions, SB!OnceMeans

LEMMA FinishAssumptions ==
  FB!PartiesAssumption /\ FB!CallersAssumption /\ FB!RoundsAssumption
<1>1. \A X : (FB!IsFiniteSet(X) <=> IsFiniteSet(X)) /\ FB!Cardinality(X) = Cardinality(X)
  BY DEF FB!IsFiniteSet, IsFiniteSet, FB!Cardinality, Cardinality
<1>2. FB!PartiesAssumption
  BY <1>1, PartiesCounted
<1>3. FB!CallersAssumption
  BY <1>1, PartiesCounted DEF Parties
<1>4. FB!RoundsAssumption
  OBVIOUS
<1>. QED
  BY <1>2, <1>3, <1>4

LEMMA FinishInit == F!Init => FB!OnceInv
  BY FinishAssumptions, FB!InitTInv, FB!InitFirstUse, FB!InitUsedOnce
     DEF FB!OnceInv, F!Init, FB!Init, F!NewBarrier, FB!NewBarrier

\* The finish barrier of the test takes the steps of CBarrier only.
LEMMA FinishAction ==
  ASSUME NEW u \in Parties,
         F!Enter(u) \/ F!AwaitStep(u) \/ F!Free(u) \/ F!Destroy(u)
  PROVE  /\ FB!Enter(u) \/ FB!AwaitStep(u) \/ FB!Free(u) \/ FB!Destroy(u)
         /\ FB!Enter(u) <=> F!Enter(u)
         /\ FB!Next
<1>1. /\ FB!Enter(u) \/ FB!AwaitStep(u) \/ FB!Free(u) \/ FB!Destroy(u)
      /\ FB!Enter(u) <=> F!Enter(u)
  BY DEF F!Enter, F!AwaitStep, F!Free, F!Destroy, F!Unblock, F!ReadBroken,
         F!Post, F!Released, F!Leave, F!PostHarm, F!StartReset, F!Goto,
         FB!Enter, FB!AwaitStep, FB!Free, FB!Destroy, FB!Unblock, FB!ReadBroken,
         FB!Post, FB!Released, FB!Leave, FB!PostHarm, FB!StartReset, FB!Goto
<1>. QED
  BY <1>1 DEF FB!Next, FB!FreeStep

LEMMA FinishStep ==
  ASSUME FB!OnceInv, NEW u \in Parties,
         F!Enter(u) \/ F!AwaitStep(u) \/ F!Free(u) \/ F!Destroy(u)
  PROVE  /\ FB!OnceInv'
         /\ Kept(u, finishTh, finishTh', finish.destroyed, finish'.destroyed)
         /\ ~F!Enter(u) => finishTh'[u].entered = finishTh[u].entered
<1>1. FB!OnceInv'
  BY FinishAction, FinishAssumptions, FB!OnceStep
<1>. QED
  BY <1>1, FinishAction, FinishAssumptions, FB!OnceKeeps DEF Kept

LEMMA FinishSame ==
  ASSUME FB!OnceInv, UNCHANGED <<finish, finishTh>> PROVE FB!OnceInv'
<1>1. [FB!Next]_(FB!vars)
  BY DEF FB!vars
<1>. QED
  BY <1>1, FinishAssumptions, FB!OnceStep

LEMMA FinishMeans ==
  ASSUME FB!OnceInv, NEW t \in Parties
  PROVE  /\ finishTh[t].passed = 1 => \A u \in Parties : finishTh[u].entered = 1
         /\ finish.destroyed => finishTh[t].pc = "out" /\ finishTh[t].passed = 1
  BY FinishAssumptions, FB!OnceMeans

LEMMA CleanupAssumptions ==
  CB!PartiesAssumption /\ CB!CallersAssumption /\ CB!RoundsAssumption
<1>1. \A X : (CB!IsFiniteSet(X) <=> IsFiniteSet(X)) /\ CB!Cardinality(X) = Cardinality(X)
  BY DEF CB!IsFiniteSet, IsFiniteSet, CB!Cardinality, Cardinality
<1>2. CB!PartiesAssumption
  BY <1>1, PartiesCounted
<1>3. CB!CallersAssumption
  BY <1>1, PartiesCounted DEF Parties
<1>4. CB!RoundsAssumption
  OBVIOUS
<1>. QED
  BY <1>2, <1>3, <1>4

LEMMA CleanupInit == C!Init => CB!OnceInv
  BY CleanupAssumptions, CB!InitTInv, CB!InitFirstUse, CB!InitUsedOnce
     DEF CB!OnceInv, C!Init, CB!Init, C!NewBarrier, CB!NewBarrier

\* The cleanup barrier of the test takes the steps of CBarrier only.
LEMMA CleanupAction ==
  ASSUME NEW u \in Parties,
         C!Enter(u) \/ C!AwaitStep(u) \/ C!Free(u) \/ C!Destroy(u)
  PROVE  /\ CB!Enter(u) \/ CB!AwaitStep(u) \/ CB!Free(u) \/ CB!Destroy(u)
         /\ CB!Enter(u) <=> C!Enter(u)
         /\ CB!Next
<1>1. /\ CB!Enter(u) \/ CB!AwaitStep(u) \/ CB!Free(u) \/ CB!Destroy(u)
      /\ CB!Enter(u) <=> C!Enter(u)
  BY DEF C!Enter, C!AwaitStep, C!Free, C!Destroy, C!Unblock, C!ReadBroken,
         C!Post, C!Released, C!Leave, C!PostHarm, C!StartReset, C!Goto,
         CB!Enter, CB!AwaitStep, CB!Free, CB!Destroy, CB!Unblock, CB!ReadBroken,
         CB!Post, CB!Released, CB!Leave, CB!PostHarm, CB!StartReset, CB!Goto
<1>. QED
  BY <1>1 DEF CB!Next, CB!FreeStep

LEMMA CleanupStep ==
  ASSUME CB!OnceInv, NEW u \in Parties,
         C!Enter(u) \/ C!AwaitStep(u) \/ C!Free(u) \/ C!Destroy(u)
  PROVE  /\ CB!OnceInv'
         /\ Kept(u, cleanupTh, cleanupTh', cleanup.destroyed, cleanup'.destroyed)
         /\ ~C!Enter(u) => cleanupTh'[u].entered = cleanupTh[u].entered
<1>1. CB!OnceInv'
  BY CleanupAction, CleanupAssumptions, CB!OnceStep
<1>. QED
  BY <1>1, CleanupAction, CleanupAssumptions, CB!OnceKeeps DEF Kept

LEMMA CleanupSame ==
  ASSUME CB!OnceInv, UNCHANGED <<cleanup, cleanupTh>> PROVE CB!OnceInv'
<1>1. [CB!Next]_(CB!vars)
  BY DEF CB!vars
<1>. QED
  BY <1>1, CleanupAssumptions, CB!OnceStep

LEMMA CleanupMeans ==
  ASSUME CB!OnceInv, NEW t \in Parties
  PROVE  /\ cleanupTh[t].passed = 1 => \A u \in Parties : cleanupTh[u].entered = 1
         /\ cleanup.destroyed => cleanupTh[t].pc = "out" /\ cleanupTh[t].passed = 1
  BY CleanupAssumptions, CB!OnceMeans

-----------------------------------------------------------------------------
(* The phases follow the barriers *)

ToStart   == {"none", "create", "init"}
ToRun     == ToStart \cup {"start"}
ToFinish  == ToRun \cup {"run"}
ToTest    == ToFinish \cup {"finish"}
ToCleanup == ToTest \cup {"test_cleanup"}
ToEnd     == ToCleanup \cup {"cleanup"}
MainOnly  == {"create", "free_start", "free_finish", "free_cleanup", "returned"}
Places    == ToEnd \cup MainOnly \cup {"done"}

\* A thread has called await only if it got there, and is past a barrier only
\* if its call has returned.
InStep(t) ==
  /\ startTh[t].entered > 0 => pc[t] \notin ToStart
  /\ pc[t] \notin ToRun => startTh[t].passed = 1
  /\ finishTh[t].entered > 0 => pc[t] \notin ToFinish
  /\ pc[t] \notin ToTest => finishTh[t].passed = 1
  /\ cleanupTh[t].entered > 0 => pc[t] \notin ToCleanup
  /\ tfunc_cleanup /\ pc[t] \notin ToEnd => cleanupTh[t].passed = 1
  /\ t \in Runners => pc[t] \notin MainOnly

FreedLast == pc[Main] = "returned" /\ tfunc_cleanup => cleanup.destroyed

Barriers == SB!OnceInv /\ FB!OnceInv /\ CB!OnceInv

TestInv ==
  /\ Barriers
  /\ tfunc_cleanup \in BOOLEAN
  /\ pc \in [Parties -> Places]
  /\ \A t \in Parties : InStep(t)
  /\ FreedLast

LEMMA InitTestInv == Init => TestInv
<1>. SUFFICES ASSUME Init PROVE TestInv
  OBVIOUS
<1>1. Barriers
  BY StartInit, FinishInit, CleanupInit DEF Init, Barriers
<1>2. pc \in [Parties -> Places] /\ tfunc_cleanup \in BOOLEAN
  BY RunnersAssumption DEF Init, Places, ToEnd, ToCleanup, ToTest, ToFinish, ToRun, ToStart
<1>3. ASSUME NEW t \in Parties PROVE InStep(t)
  <2>1. startTh[t].entered = 0 /\ finishTh[t].entered = 0 /\ cleanupTh[t].entered = 0
    BY DEF Init, S!Init, F!Init, C!Init
  <2>2. pc[t] \in ToStart /\ (t \in Runners => pc[t] = "none")
    BY RunnersAssumption DEF Init, ToStart
  <2>. QED
    BY <2>1, <2>2 DEF InStep, MainOnly, ToEnd, ToCleanup, ToTest, ToFinish, ToRun, ToStart
<1>4. FreedLast
  BY DEF Init, FreedLast, Parties
<1>. QED
  BY <1>1, <1>2, <1>3, <1>4 DEF TestInv

\* A step of one thread between the barriers.
LEMMA WalkStep ==
  ASSUME TestInv, NEW u \in Parties, NEW to \in Places,
         pc' = [pc EXCEPT ![u] = to],
         UNCHANGED <<startVars, finishVars, cleanupVars, tfunc_cleanup>>,
         InStep(u)', FreedLast'
  PROVE  TestInv'
<1>1. Barriers'
  BY StartSame, FinishSame, CleanupSame DEF TestInv, Barriers, startVars, finishVars, cleanupVars
<1>2. ASSUME NEW t \in Parties PROVE InStep(t)'
  BY <1>2 DEF TestInv, InStep, startVars, finishVars, cleanupVars
<1>3. pc' \in [Parties -> Places]
  BY DEF TestInv
<1>. QED
  BY <1>1, <1>2, <1>3 DEF TestInv

\* A step inside the start barrier.
LEMMA StartBarrier ==
  ASSUME TestInv, NEW u \in Parties,
         S!Enter(u) \/ S!AwaitStep(u) \/ S!Free(u) \/ S!Destroy(u),
         S!Enter(u) => pc[u] = "start",
         UNCHANGED <<finishVars, cleanupVars, tfunc_cleanup, pc>>
  PROVE  TestInv'
<1>1. SB!OnceInv
  BY DEF TestInv, Barriers
<1>2. /\ SB!OnceInv'
      /\ Kept(u, startTh, startTh', start.destroyed, start'.destroyed)
      /\ ~S!Enter(u) => startTh'[u].entered = startTh[u].entered
  BY <1>1, StartStep
<1>3. Barriers'
  BY <1>2, FinishSame, CleanupSame DEF TestInv, Barriers, finishVars, cleanupVars
<1>4. ASSUME NEW t \in Parties PROVE InStep(t)'
  <2>1. InStep(t) /\ InStep(u)
    BY DEF TestInv
  <2>2. startTh'[t].entered > 0 => startTh[t].entered > 0 \/ pc[t] = "start"
    BY <1>2 DEF Kept
  <2>3. startTh[t].passed = 1 => startTh'[t].passed = 1
    BY <1>2 DEF Kept
  <2>. QED
    BY <2>1, <2>2, <2>3 DEF InStep, finishVars, cleanupVars, ToStart, ToRun, ToFinish, ToTest,
       ToCleanup
<1>5. FreedLast'
  BY <1>2 DEF TestInv, FreedLast, Kept, finishVars, cleanupVars
<1>. QED
  BY <1>3, <1>4, <1>5 DEF TestInv

\* A step inside the finish barrier.
LEMMA FinishBarrier ==
  ASSUME TestInv, NEW u \in Parties,
         F!Enter(u) \/ F!AwaitStep(u) \/ F!Free(u) \/ F!Destroy(u),
         F!Enter(u) => pc[u] = "finish",
         UNCHANGED <<startVars, cleanupVars, tfunc_cleanup, pc>>
  PROVE  TestInv'
<1>1. FB!OnceInv
  BY DEF TestInv, Barriers
<1>2. /\ FB!OnceInv'
      /\ Kept(u, finishTh, finishTh', finish.destroyed, finish'.destroyed)
      /\ ~F!Enter(u) => finishTh'[u].entered = finishTh[u].entered
  BY <1>1, FinishStep
<1>3. Barriers'
  BY <1>2, StartSame, CleanupSame DEF TestInv, Barriers, startVars, cleanupVars
<1>4. ASSUME NEW t \in Parties PROVE InStep(t)'
  <2>1. InStep(t) /\ InStep(u)
    BY DEF TestInv
  <2>2. finishTh'[t].entered > 0 => finishTh[t].entered > 0 \/ pc[t] = "finish"
    BY <1>2 DEF Kept
  <2>3. finishTh[t].passed = 1 => finishTh'[t].passed = 1
    BY <1>2 DEF Kept
  <2>. QED
    BY <2>1, <2>2, <2>3 DEF InStep, startVars, cleanupVars, ToStart, ToRun, ToFinish, ToTest,
       ToCleanup
<1>5. FreedLast'
  BY <1>2 DEF TestInv, FreedLast, Kept, startVars, cleanupVars
<1>. QED
  BY <1>3, <1>4, <1>5 DEF TestInv

\* A step inside the cleanup barrier.
LEMMA CleanupBarrier ==
  ASSUME TestInv, NEW u \in Parties,
         C!Enter(u) \/ C!AwaitStep(u) \/ C!Free(u) \/ C!Destroy(u),
         C!Enter(u) => pc[u] = "cleanup",
         UNCHANGED <<startVars, finishVars, tfunc_cleanup, pc>>
  PROVE  TestInv'
<1>1. CB!OnceInv
  BY DEF TestInv, Barriers
<1>2. /\ CB!OnceInv'
      /\ Kept(u, cleanupTh, cleanupTh', cleanup.destroyed, cleanup'.destroyed)
      /\ ~C!Enter(u) => cleanupTh'[u].entered = cleanupTh[u].entered
  BY <1>1, CleanupStep
<1>3. Barriers'
  BY <1>2, StartSame, FinishSame DEF TestInv, Barriers, startVars, finishVars
<1>4. ASSUME NEW t \in Parties PROVE InStep(t)'
  <2>1. InStep(t) /\ InStep(u)
    BY DEF TestInv
  <2>2. cleanupTh'[t].entered > 0 => cleanupTh[t].entered > 0 \/ pc[t] = "cleanup"
    BY <1>2 DEF Kept
  <2>3. cleanupTh[t].passed = 1 => cleanupTh'[t].passed = 1
    BY <1>2 DEF Kept
  <2>. QED
    BY <2>1, <2>2, <2>3 DEF InStep, startVars, finishVars, ToStart, ToRun, ToFinish, ToTest,
       ToCleanup
<1>5. FreedLast'
  BY <1>2 DEF TestInv, FreedLast, Kept, startVars, finishVars
<1>. QED
  BY <1>3, <1>4, <1>5 DEF TestInv

LEMMA AwaitSteps ==
  ASSUME TestInv, NEW u \in Parties, UNCHANGED tfunc_cleanup,
         AwaitStart(u) \/ AwaitFinish(u) \/ AwaitCleanup(u)
  PROVE  TestInv'
<1>. /\ InStep(u) /\ FreedLast /\ pc \in [Parties -> Places]
     /\ u \in Runners <=> u # Main
     /\ Main \in Parties
  BY RunnersAssumption DEF TestInv, Parties
<1>. USE DEF ToStart, ToRun, ToFinish, ToTest, ToCleanup, ToEnd, MainOnly, Places
<1>1. CASE AwaitStart(u)
  <2>. pc[u] = "start" /\ UNCHANGED <<finishVars, cleanupVars>>
    BY <1>1 DEF AwaitStart
  <2>1. CASE (S!Enter(u) \/ S!AwaitStep(u)) /\ UNCHANGED pc
    BY <2>1, StartBarrier
  <2>2. CASE /\ startTh[u].passed = 1 /\ UNCHANGED startVars
             /\ pc' = [pc EXCEPT ![u] = IF u = Main THEN "finish" ELSE "run"]
    <3>1. InStep(u)' /\ FreedLast'
      BY <2>2 DEF InStep, FreedLast, startVars, finishVars, cleanupVars
    <3>. QED
      BY <2>2, <3>1, WalkStep
  <2>. QED
    BY <1>1, <2>1, <2>2 DEF AwaitStart
<1>2. CASE AwaitFinish(u)
  <2>. pc[u] = "finish" /\ UNCHANGED <<startVars, cleanupVars>>
    BY <1>2 DEF AwaitFinish
  <2>1. CASE (F!Enter(u) \/ F!AwaitStep(u)) /\ UNCHANGED pc
    BY <2>1, FinishBarrier
  <2>2. CASE /\ finishTh[u].passed = 1 /\ UNCHANGED finishVars
             /\ pc' = [pc EXCEPT ![u] = "test_cleanup"]
    <3>1. InStep(u)' /\ FreedLast'
      BY <2>2 DEF InStep, FreedLast, startVars, finishVars, cleanupVars
    <3>. QED
      BY <2>2, <3>1, WalkStep
  <2>. QED
    BY <1>2, <2>1, <2>2 DEF AwaitFinish
<1>3. CASE AwaitCleanup(u)
  <2>. pc[u] = "cleanup" /\ UNCHANGED <<startVars, finishVars>>
    BY <1>3 DEF AwaitCleanup
  <2>1. CASE (C!Enter(u) \/ C!AwaitStep(u)) /\ UNCHANGED pc
    BY <2>1, CleanupBarrier
  <2>2. CASE /\ cleanupTh[u].passed = 1 /\ UNCHANGED cleanupVars
             /\ pc' = [pc EXCEPT ![u] = IF u = Main THEN "free_start" ELSE "done"]
    <3>1. InStep(u)' /\ FreedLast'
      BY <2>2 DEF InStep, FreedLast, startVars, finishVars, cleanupVars
    <3>. QED
      BY <2>2, <3>1, WalkStep
  <2>. QED
    BY <1>3, <2>1, <2>2 DEF AwaitCleanup
<1>. QED
  BY <1>1, <1>2, <1>3

LEMMA WalkSteps ==
  ASSUME TestInv, NEW u \in Parties, UNCHANGED tfunc_cleanup,
         Callback(u) \/ TestCleanup(u) \/ (u \in Runners /\ Create(u)) \/ AllCreated
  PROVE  TestInv'
<1>. /\ InStep(u) /\ InStep(Main) /\ pc \in [Parties -> Places]
     /\ u \in Runners <=> u # Main
     /\ Main \in Parties
  BY RunnersAssumption DEF TestInv, Parties
<1>. UNCHANGED <<startVars, finishVars, cleanupVars>>
  BY DEF Callback, TestCleanup, Create, AllCreated
<1>. USE DEF ToStart, ToRun, ToFinish, ToTest, ToCleanup, ToEnd, MainOnly, Places, Goto
<1>1. ASSUME NEW v \in Parties, NEW to \in Places \ {"returned"},
             pc' = [pc EXCEPT ![v] = to], InStep(v)'
      PROVE  TestInv'
  <2>1. FreedLast'
    BY <1>1 DEF TestInv, FreedLast, cleanupVars
  <2>. QED
    BY <1>1, <2>1, WalkStep
<1>2. CASE Callback(u)
  <2>1. CASE pc[u] = "init" /\ pc' = [pc EXCEPT ![u] = "start"]
    BY <1>1, <1>2, <2>1 DEF InStep, startVars, finishVars, cleanupVars, Callback
  <2>2. CASE pc[u] = "run" /\ pc' = [pc EXCEPT ![u] = "finish"]
    BY <1>1, <1>2, <2>2 DEF InStep, startVars, finishVars, cleanupVars, Callback
  <2>. QED
    BY <1>2, <2>1, <2>2 DEF Callback
<1>3. CASE TestCleanup(u)
  <2> DEFINE to == IF tfunc_cleanup THEN "cleanup" ELSE IF u = Main THEN "free_start" ELSE "done"
  <2>1. pc[u] = "test_cleanup" /\ pc' = [pc EXCEPT ![u] = to]
    BY <1>3 DEF TestCleanup
  <2>2. InStep(u)'
    BY <2>1 DEF InStep, startVars, finishVars, cleanupVars
  <2>. QED
    BY <1>1, <2>1, <2>2
<1>4. CASE u \in Runners /\ Create(u)
  <2>1. pc[u] = "none" /\ pc' = [pc EXCEPT ![u] = "init"]
    BY <1>4 DEF Create
  <2>2. InStep(u)'
    BY <2>1 DEF InStep, startVars, finishVars, cleanupVars
  <2>. QED
    BY <1>1, <2>1, <2>2
<1>5. CASE AllCreated
  <2>1. pc[Main] = "create" /\ pc' = [pc EXCEPT ![Main] = "start"]
    BY <1>5 DEF AllCreated
  <2>2. InStep(Main)'
    BY <2>1 DEF InStep, startVars, finishVars, cleanupVars
  <2>. QED
    BY <1>1, <2>1, <2>2
<1>. QED
  BY <1>2, <1>3, <1>4, <1>5

LEMMA FreeSteps ==
  ASSUME TestInv, UNCHANGED tfunc_cleanup, FreeStart \/ FreeFinish \/ FreeCleanup
  PROVE  TestInv'
<1>. /\ Main \in Parties /\ Main \notin Runners
     /\ InStep(Main) /\ FreedLast /\ pc \in [Parties -> Places]
  BY RunnersAssumption DEF TestInv, Parties
<1>. USE DEF ToStart, ToRun, ToFinish, ToTest, ToCleanup, ToEnd, MainOnly, Places
<1>1. CASE FreeStart
  <2>. pc[Main] = "free_start" /\ UNCHANGED <<finishVars, cleanupVars>>
    BY <1>1 DEF FreeStart
  <2>1. CASE (S!Free(Main) \/ S!Post(Main) \/ S!Destroy(Main)) /\ UNCHANGED pc
    <3>1. ~S!Enter(Main)
      BY <2>1 DEF S!Free, S!Post, S!Destroy, S!Goto, S!Enter
    <3>. QED
      BY <2>1, <3>1, StartBarrier DEF S!AwaitStep
  <2>2. CASE /\ start.destroyed /\ UNCHANGED startVars
             /\ pc' = [pc EXCEPT ![Main] = "free_finish"]
    <3>1. InStep(Main)' /\ FreedLast'
      BY <2>2 DEF InStep, FreedLast, startVars, finishVars, cleanupVars
    <3>. QED
      BY <2>2, <3>1, WalkStep
  <2>. QED
    BY <1>1, <2>1, <2>2 DEF FreeStart
<1>2. CASE FreeFinish
  <2>. pc[Main] = "free_finish" /\ UNCHANGED <<startVars, cleanupVars>>
    BY <1>2 DEF FreeFinish
  <2>1. CASE (F!Free(Main) \/ F!Post(Main) \/ F!Destroy(Main)) /\ UNCHANGED pc
    <3>1. ~F!Enter(Main)
      BY <2>1 DEF F!Free, F!Post, F!Destroy, F!Goto, F!Enter
    <3>. QED
      BY <2>1, <3>1, FinishBarrier DEF F!AwaitStep
  <2>2. CASE /\ finish.destroyed /\ UNCHANGED finishVars
             /\ pc' = [pc EXCEPT ![Main] = IF tfunc_cleanup THEN "free_cleanup" ELSE "returned"]
    <3>1. InStep(Main)' /\ FreedLast'
      BY <2>2 DEF InStep, FreedLast, startVars, finishVars, cleanupVars
    <3>. QED
      BY <2>2, <3>1, WalkStep
  <2>. QED
    BY <1>2, <2>1, <2>2 DEF FreeFinish
<1>3. CASE FreeCleanup
  <2>. pc[Main] = "free_cleanup" /\ UNCHANGED <<startVars, finishVars>>
    BY <1>3 DEF FreeCleanup
  <2>1. CASE (C!Free(Main) \/ C!Post(Main) \/ C!Destroy(Main)) /\ UNCHANGED pc
    <3>1. ~C!Enter(Main)
      BY <2>1 DEF C!Free, C!Post, C!Destroy, C!Goto, C!Enter
    <3>. QED
      BY <2>1, <3>1, CleanupBarrier DEF C!AwaitStep
  <2>2. CASE /\ cleanup.destroyed /\ UNCHANGED cleanupVars
             /\ pc' = [pc EXCEPT ![Main] = "returned"]
    <3>1. InStep(Main)' /\ FreedLast'
      BY <2>2 DEF InStep, FreedLast, startVars, finishVars, cleanupVars
    <3>. QED
      BY <2>2, <3>1, WalkStep
  <2>. QED
    BY <1>3, <2>1, <2>2 DEF FreeCleanup
<1>. QED
  BY <1>1, <1>2, <1>3
LEMMA TestStep == TestInv /\ [Next]_vars => TestInv'
<1>. SUFFICES ASSUME TestInv, [Next]_vars PROVE TestInv'
  OBVIOUS
<1>1. CASE UNCHANGED vars
  <2>. UNCHANGED <<start, startTh, finish, finishTh, cleanup, cleanupTh, tfunc_cleanup, pc>>
    BY <1>1 DEF vars
  <2>1. Barriers'
    BY StartSame, FinishSame, CleanupSame DEF TestInv, Barriers
  <2>. QED
    BY <2>1 DEF TestInv, InStep, FreedLast
<1>2. ASSUME NEW u \in Parties, UNCHANGED tfunc_cleanup, ThreadStep(u) PROVE TestInv'
  BY <1>2, AwaitSteps, WalkSteps DEF ThreadStep
<1>3. ASSUME UNCHANGED tfunc_cleanup, MainStep PROVE TestInv'
  <2>. Runners \subseteq Parties /\ Main \in Parties
    BY DEF Parties
  <2>. QED
    BY <1>3, WalkSteps, FreeSteps DEF MainStep
<1>. QED
  BY <1>1, <1>2, <1>3 DEF Next

LEMMA TestInvariant == Spec => []TestInv
  BY InitTestInv, TestStep, PTL DEF Spec

-----------------------------------------------------------------------------
(* What TEST_THREAD_run promises *)

\* No test procedure begins before the last thread is created and initialised,
\* and no cleanup before the last test has ended (testthread.h:29), whatever the
\* number of threads.
THEOREM PhasesApart == Spec => []PhasesDoNotOverlap
<1>1. TestInv => PhasesDoNotOverlap
  <2>. SUFFICES ASSUME TestInv PROVE PhasesDoNotOverlap
    OBVIOUS
  <2>. USE DEF ToStart, ToRun, ToFinish, ToTest
  <2>1. ASSUME NEW r \in Runners, NEW q \in Runners,
               pc[r] \in {"run", "finish", "test_cleanup", "cleanup", "done"}
        PROVE  pc[q] \notin {"none", "init"}
    <3>1. startTh[r].passed = 1
      BY <2>1 DEF TestInv, InStep, Parties
    <3>2. startTh[q].entered = 1
      BY <3>1, StartMeans DEF TestInv, Barriers, Parties
    <3>. QED
      BY <3>2 DEF TestInv, InStep, Parties
  <2>2. ASSUME NEW r \in Runners, NEW q \in Runners, pc[r] \in {"cleanup", "done"}
        PROVE  pc[q] \notin {"none", "init", "start", "run"}
    <3>1. finishTh[r].passed = 1
      BY <2>2 DEF TestInv, InStep, Parties
    <3>2. finishTh[q].entered = 1
      BY <3>1, FinishMeans DEF TestInv, Barriers, Parties
    <3>. QED
      BY <3>2 DEF TestInv, InStep, Parties
  <2>. QED
    BY <2>1, <2>2 DEF PhasesDoNotOverlap
<1>. QED
  BY <1>1, TestInvariant, PTL

\* With a cleanup callback TEST_THREAD_run outlasts every access of the runners
\* to the caller's TEST_THREAD: the last barrier is freed when all have left it.
THEOREM ObjectSafe == Spec => []ObjectOutlivesRunners
<1>1. TestInv => ObjectOutlivesRunners
  <2>. SUFFICES ASSUME TestInv, pc[Main] = "returned", tfunc_cleanup, NEW r \in Runners
                PROVE  pc[r] = "done" \/ (pc[r] = "cleanup" /\ cleanupTh[r].passed = 1)
    BY DEF ObjectOutlivesRunners, RunnersGone
  <2>. r \in Parties /\ Main \in Parties
    BY DEF Parties
  <2>1. cleanupTh[r].passed = 1 /\ cleanupTh[r].entered = 1
    BY CleanupMeans DEF TestInv, FreedLast, Barriers
  <2>2. pc[r] \in Places /\ pc[r] \notin ToCleanup /\ pc[r] \notin MainOnly
    BY <2>1 DEF TestInv, InStep
  <2>. QED
    BY <2>1, <2>2 DEF Places, ToEnd
<1>. QED
  BY <1>1, TestInvariant, PTL

\* No barrier is destroyed under a thread that is inside it (cbarrier.c:134).
THEOREM QuietWhenDestroyed == Spec => []DestroyedOnlyWhenQuiet
<1>1. TestInv => DestroyedOnlyWhenQuiet
  BY StartMeans, FinishMeans, CleanupMeans
     DEF TestInv, Barriers, DestroyedOnlyWhenQuiet, S!DestroyedOnlyWhenQuiet, F!DestroyedOnlyWhenQuiet,
         C!DestroyedOnlyWhenQuiet, S!Quiet, F!Quiet, C!Quiet
<1>. QED
  BY <1>1, TestInvariant, PTL

\* The state of the test and of its three barriers keeps its types.
THEOREM TypeCorrect == Spec => []TypeOK
<1>1. TestInv => TypeOK
  <2>. SUFFICES ASSUME TestInv PROVE TypeOK
    OBVIOUS
  <2>1. S!TypeOK
    BY DEF TestInv, Barriers, SB!OnceInv, SB!TInv, SB!TypeOK, SB!BarrierStates,
           SB!ThreadStates, SB!PcStates, S!TypeOK, S!BarrierStates, S!ThreadStates, S!PcStates
  <2>2. F!TypeOK
    BY DEF TestInv, Barriers, FB!OnceInv, FB!TInv, FB!TypeOK, FB!BarrierStates,
           FB!ThreadStates, FB!PcStates, F!TypeOK, F!BarrierStates, F!ThreadStates, F!PcStates
  <2>3. C!TypeOK
    BY DEF TestInv, Barriers, CB!OnceInv, CB!TInv, CB!TypeOK, CB!BarrierStates,
           CB!ThreadStates, CB!PcStates, C!TypeOK, C!BarrierStates, C!ThreadStates, C!PcStates
  <2>4. Places = {"none", "create", "init", "start", "run", "finish", "test_cleanup",
                  "cleanup", "done", "free_start", "free_finish", "free_cleanup", "returned"}
    BY DEF Places, MainOnly, ToEnd, ToCleanup, ToTest, ToFinish, ToRun, ToStart
  <2>. QED
    BY <2>1, <2>2, <2>3, <2>4 DEF TestInv, TypeOK
<1>. QED
  BY <1>1, TestInvariant, PTL

-----------------------------------------------------------------------------
(* Refinement: each barrier of the test is a barrier *)

LEMMA StartSpec == Spec => SB!Spec
<1>1. Init => SB!Init
  BY DEF Init, S!Init, SB!Init, S!NewBarrier, SB!NewBarrier
<1>2. [Next]_vars => [SB!Next]_(SB!vars)
  <2>. SUFFICES ASSUME [Next]_vars, ~UNCHANGED <<start, startTh>> PROVE SB!Next
    BY DEF SB!vars
  <2>1. PICK u \in Parties : AwaitStart(u) \/ (u = Main /\ FreeStart)
    BY DEF Next, vars, MainStep, ThreadStep, Create, AllCreated, AwaitStart, AwaitFinish,
           AwaitCleanup, Callback, TestCleanup, FreeStart, FreeFinish, FreeCleanup, startVars,
           finishVars, cleanupVars, Parties
  <2>2. S!Enter(u) \/ S!AwaitStep(u) \/ S!Free(u) \/ S!Destroy(u)
    BY <2>1 DEF AwaitStart, FreeStart, startVars, S!AwaitStep
  <2>. QED
    BY <2>2, StartAction
<1>. QED
  BY <1>1, <1>2, PTL DEF Spec, SB!Spec

LEMMA StartImplements == Spec => S!ImplementsBarrier
<1>1. SB!Spec => SB!ImplementsBarrier
  BY StartAssumptions, SB!Implements
<1>2. SB!ImplementsBarrier => S!ImplementsBarrier
  BY DEF S!ImplementsBarrier, S!Abstract!Spec, S!Abstract!Init, S!Abstract!Next,
         S!Abstract!Arrive, S!Abstract!Depart,
         SB!ImplementsBarrier, SB!Abstract!Spec, SB!Abstract!Init, SB!Abstract!Next,
         SB!Abstract!Arrive, SB!Abstract!Depart
<1>. QED
  BY <1>1, <1>2, StartSpec, PTL

LEMMA FinishSpec == Spec => FB!Spec
<1>1. Init => FB!Init
  BY DEF Init, F!Init, FB!Init, F!NewBarrier, FB!NewBarrier
<1>2. [Next]_vars => [FB!Next]_(FB!vars)
  <2>. SUFFICES ASSUME [Next]_vars, ~UNCHANGED <<finish, finishTh>> PROVE FB!Next
    BY DEF FB!vars
  <2>1. PICK u \in Parties : AwaitFinish(u) \/ (u = Main /\ FreeFinish)
    BY DEF Next, vars, MainStep, ThreadStep, Create, AllCreated, AwaitStart, AwaitFinish,
           AwaitCleanup, Callback, TestCleanup, FreeStart, FreeFinish, FreeCleanup, startVars,
           finishVars, cleanupVars, Parties
  <2>2. F!Enter(u) \/ F!AwaitStep(u) \/ F!Free(u) \/ F!Destroy(u)
    BY <2>1 DEF AwaitFinish, FreeFinish, finishVars, F!AwaitStep
  <2>. QED
    BY <2>2, FinishAction
<1>. QED
  BY <1>1, <1>2, PTL DEF Spec, FB!Spec

LEMMA FinishImplements == Spec => F!ImplementsBarrier
<1>1. FB!Spec => FB!ImplementsBarrier
  BY FinishAssumptions, FB!Implements
<1>2. FB!ImplementsBarrier => F!ImplementsBarrier
  BY DEF F!ImplementsBarrier, F!Abstract!Spec, F!Abstract!Init, F!Abstract!Next,
         F!Abstract!Arrive, F!Abstract!Depart,
         FB!ImplementsBarrier, FB!Abstract!Spec, FB!Abstract!Init, FB!Abstract!Next,
         FB!Abstract!Arrive, FB!Abstract!Depart
<1>. QED
  BY <1>1, <1>2, FinishSpec, PTL

LEMMA CleanupSpec == Spec => CB!Spec
<1>1. Init => CB!Init
  BY DEF Init, C!Init, CB!Init, C!NewBarrier, CB!NewBarrier
<1>2. [Next]_vars => [CB!Next]_(CB!vars)
  <2>. SUFFICES ASSUME [Next]_vars, ~UNCHANGED <<cleanup, cleanupTh>> PROVE CB!Next
    BY DEF CB!vars
  <2>1. PICK u \in Parties : AwaitCleanup(u) \/ (u = Main /\ FreeCleanup)
    BY DEF Next, vars, MainStep, ThreadStep, Create, AllCreated, AwaitStart, AwaitFinish,
           AwaitCleanup, Callback, TestCleanup, FreeStart, FreeFinish, FreeCleanup, startVars,
           finishVars, cleanupVars, Parties
  <2>2. C!Enter(u) \/ C!AwaitStep(u) \/ C!Free(u) \/ C!Destroy(u)
    BY <2>1 DEF AwaitCleanup, FreeCleanup, cleanupVars, C!AwaitStep
  <2>. QED
    BY <2>2, CleanupAction
<1>. QED
  BY <1>1, <1>2, PTL DEF Spec, CB!Spec

LEMMA CleanupImplements == Spec => C!ImplementsBarrier
<1>1. CB!Spec => CB!ImplementsBarrier
  BY CleanupAssumptions, CB!Implements
<1>2. CB!ImplementsBarrier => C!ImplementsBarrier
  BY DEF C!ImplementsBarrier, C!Abstract!Spec, C!Abstract!Init, C!Abstract!Next,
         C!Abstract!Arrive, C!Abstract!Depart,
         CB!ImplementsBarrier, CB!Abstract!Spec, CB!Abstract!Init, CB!Abstract!Next,
         CB!Abstract!Arrive, CB!Abstract!Depart
<1>. QED
  BY <1>1, <1>2, CleanupSpec, PTL

\* Nobody continues from any of the three barriers until all have called await
\* (cbarrier.h:70): each implements the abstract rendezvous.
THEOREM Implements == Spec => ImplementsBarrier
  BY StartImplements, FinishImplements, CleanupImplements DEF ImplementsBarrier
=============================================================================
