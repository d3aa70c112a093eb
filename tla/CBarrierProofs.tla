--------------------------- MODULE CBarrierProofs ---------------------------
(***************************************************************************)
(* Theorems about CBarrier, for any number of threads.                     *)
(***************************************************************************)
EXTENDS CBarrier, FiniteSetTheorems, TLAPS

-----------------------------------------------------------------------------
(* Types: in_await is exact, so it is never decremented below zero *)

InsidePc == {"blocked", "finished", "release", "leave"}

AwaitCounted == cond.in_await = Cardinality(Inside)

TInv == TypeOK /\ AwaitCounted

LEMMA InsideFinite == IsFiniteSet(Inside) /\ Cardinality(Inside) \in Nat
<1>1. Inside \subseteq Threads
  BY DEF Inside
<1>. QED
  BY <1>1, FS_Subset, FS_CardinalityType, PartiesAssumption

\* in_await follows the set of threads that are inside await.
LEMMA InsideStep ==
  ASSUME TInv, NEW t \in Threads,
         \A u \in Threads \ {t} : th'[u] = th[u]
  PROVE  /\ th[t].pc \notin InsidePc /\ th'[t].pc \in InsidePc
              => Cardinality(Inside') = cond.in_await + 1
         /\ th[t].pc \in InsidePc /\ th'[t].pc \notin InsidePc
              => /\ Cardinality(Inside') = cond.in_await - 1
                 /\ cond.in_await > 0
                 /\ cond.in_await = 1 => Inside' = {}
         /\ (th[t].pc \in InsidePc <=> th'[t].pc \in InsidePc)
              => Inside' = Inside /\ Cardinality(Inside') = cond.in_await
<1>. Inside = {u \in Threads : th[u].pc \in InsidePc}
  BY DEF Inside, InsidePc
<1>. Inside' = {u \in Threads : th'[u].pc \in InsidePc}
  BY DEF Inside, InsidePc
<1>. cond.in_await = Cardinality(Inside)
  BY DEF TInv, AwaitCounted
<1>1. CASE th[t].pc \notin InsidePc /\ th'[t].pc \in InsidePc
  <2>1. Inside' = Inside \cup {t} /\ t \notin Inside
    BY <1>1
  <2>. QED
    BY <1>1, <2>1, InsideFinite, FS_AddElement
<1>2. CASE th[t].pc \in InsidePc /\ th'[t].pc \notin InsidePc
  <2>1. Inside' = Inside \ {t} /\ t \in Inside
    BY <1>2
  <2>2. Cardinality(Inside \ {t}) = cond.in_await - 1 /\ IsFiniteSet(Inside \ {t})
    BY <2>1, InsideFinite, FS_RemoveElement
  <2>3. cond.in_await \in Nat /\ cond.in_await # 0
    BY <2>1, InsideFinite, FS_EmptySet
  <2>4. ASSUME cond.in_await = 1 PROVE Inside \ {t} = {}
    <3>1. Cardinality(Inside \ {t}) = 0
      BY <2>2, <2>4
    <3>. QED
      BY <2>2, <3>1, FS_EmptySet
  <2>. QED
    <3>1. Inside' = Inside \ {t}
      BY <2>1
    <3>2. Cardinality(Inside') = cond.in_await - 1
      BY <2>2, <3>1
    <3>3. cond.in_await > 0
      BY <2>3
    <3>4. cond.in_await = 1 => Inside' = {}
      BY <2>4, <3>1
    <3>. QED
      BY <1>2, <3>2, <3>3, <3>4
<1>3. CASE th[t].pc \in InsidePc <=> th'[t].pc \in InsidePc
  <2>1. Inside' = Inside
    BY <1>3
  <2>. QED
    BY <1>3, <2>1
<1>. QED
  BY <1>1, <1>2, <1>3

LEMMA InitTInv == Init => TInv
<1>. SUFFICES ASSUME Init PROVE TInv
  OBVIOUS
<1>1. TypeOK
  BY PartiesAssumption DEF Init, TypeOK, BarrierStates, ThreadStates, NewBarrier, PcStates
<1>2. Inside = {}
  BY DEF Init, Inside
<1>3. AwaitCounted
  BY <1>2, FS_EmptySet DEF Init, NewBarrier, AwaitCounted
<1>. QED
  BY <1>1, <1>3 DEF TInv

\* Each operation changes the state of its own thread only.
LEMMA OneThread ==
  ASSUME TypeOK, NEW t \in Threads,
         Enter(t) \/ AwaitStep(t) \/ Reset(t) \/ Free(t) \/ FreeStep(t)
  PROVE  \A u \in Threads \ {t} : th'[u] = th[u]
<1>. \A u \in Threads \ {t} : u # t
  OBVIOUS
<1>. QED
  BY DEF TypeOK, Enter, AwaitStep, Reset, Free, FreeStep, Unblock, ReadBroken, Post,
         Released, Leave, PostHarm, StartReset, ResetDone, Destroy, Goto

\* Every operation keeps the types and counts a thread in or out of await.
OpStep(t) ==
  /\ TypeOK'
  /\ \/ /\ th[t].pc \notin InsidePc /\ th'[t].pc \in InsidePc
        /\ cond'.in_await = cond.in_await + 1
     \/ /\ th[t].pc \in InsidePc /\ th'[t].pc \notin InsidePc
        /\ cond'.in_await = cond.in_await - 1
     \/ /\ th[t].pc \in InsidePc <=> th'[t].pc \in InsidePc
        /\ cond'.in_await = cond.in_await

LEMMA EnterType ==
  ASSUME TypeOK, NEW t \in Threads, Enter(t) PROVE OpStep(t)
<1> DEFINE left == IF cond.left > 0 THEN cond.left - 1 ELSE 0
           to == IF left = 0 THEN "finished" ELSE "blocked"
<1>1. left \in 0..Parties /\ cond.in_await + 1 \in Nat
  BY PartiesAssumption DEF TypeOK, BarrierStates
<1>2. to \in PcStates /\ to \in InsidePc /\ "out" \notin InsidePc
  BY DEF PcStates, InsidePc
<1>3. cond' = [cond EXCEPT !.in_await = @ + 1, !.left = left]
  BY DEF Enter
<1>4. th[t].pc = "out" /\ th' = [th EXCEPT ![t].pc = to, ![t].entered = @ + 1]
  BY DEF Enter
<1>. HIDE DEF left, to
<1>5. cond' \in BarrierStates /\ cond'.in_await = cond.in_await + 1
  BY <1>1, <1>3 DEF TypeOK, BarrierStates
<1>6. th' \in [Threads -> ThreadStates] /\ th'[t].pc = to
  BY <1>2, <1>4 DEF TypeOK, ThreadStates
<1>. QED
  BY <1>2, <1>4, <1>5, <1>6 DEF OpStep, TypeOK

LEMMA LeaveType ==
  ASSUME TInv, NEW t \in Threads, Leave(t) PROVE OpStep(t)
<1> DEFINE to == IF cond.in_await = 1 THEN "harm" ELSE "out"
           n == IF cond.in_await = 1 THEN th[t].passed ELSE th[t].passed + 1
<1>1. t \in Inside /\ cond.in_await \in Nat
  BY DEF Leave, Inside, TInv, TypeOK, BarrierStates
<1>2. cond.in_await # 0
  BY <1>1, InsideFinite, FS_EmptySet DEF TInv, AwaitCounted
<1>3. cond.in_await - 1 \in Nat
  BY <1>1, <1>2
<1>4. to \in PcStates /\ to \notin InsidePc /\ "leave" \in InsidePc
  BY DEF PcStates, InsidePc
<1>5. n \in Nat
  BY DEF TInv, TypeOK, ThreadStates
<1>6. cond' \in BarrierStates /\ cond'.in_await = cond.in_await - 1
  BY <1>3 DEF TInv, TypeOK, BarrierStates, Leave
<1>7. th[t].pc = "leave" /\ th' = [th EXCEPT ![t].pc = to, ![t].passed = n]
  BY DEF Leave
<1>. HIDE DEF to, n
<1>8. th' \in [Threads -> ThreadStates] /\ th'[t].pc = to
  BY <1>4, <1>5, <1>7 DEF TInv, TypeOK, ThreadStates
<1>. QED
  BY <1>4, <1>6, <1>7, <1>8 DEF OpStep, TypeOK

LEMMA OtherTypes ==
  ASSUME TypeOK, NEW t \in Threads,
         \/ Unblock(t) \/ ReadBroken(t) \/ Post(t) \/ Released(t) \/ PostHarm(t)
         \/ Reset(t) \/ Free(t) \/ ResetDone(t) \/ Destroy(t)
  PROVE  OpStep(t)
<1>. /\ \A s \in {"leave", "release", "out", "reset", "free"} : s \in PcStates
     /\ \A s \in {"leave", "release", "finished", "blocked"} : s \in InsidePc
     /\ \A s \in {"out", "harm", "reset", "free"} : s \notin InsidePc
     /\ TRUE \in BOOLEAN
  BY DEF PcStates, InsidePc
<1>. cond.parties - 1 \in Nat /\ 0 \in 0..Parties
  BY PartiesAssumption DEF TypeOK, BarrierStates
<1>. cond \in BarrierStates /\ th \in [Threads -> ThreadStates]
  BY DEF TypeOK
<1>1. CASE Unblock(t)
  <2>1. cond.blocked - 1 \in Nat
    BY <1>1 DEF Unblock, BarrierStates
  <2>2. cond' \in BarrierStates /\ cond'.in_await = cond.in_await
    BY <1>1, <2>1 DEF Unblock, BarrierStates
  <2>3. th' \in [Threads -> ThreadStates] /\ th[t].pc = "blocked" /\ th'[t].pc = "leave"
    BY <1>1 DEF Unblock, Goto, ThreadStates
  <2>. QED
    BY <2>2, <2>3 DEF OpStep, TypeOK
<1>2. CASE ReadBroken(t)
  <2> DEFINE to == IF cond.is_broken THEN "leave" ELSE "release"
             n == IF cond.is_broken THEN 0 ELSE cond.parties - 1
  <2>1. to \in PcStates /\ to \in InsidePc /\ n \in Nat
    OBVIOUS
  <2>2. th[t].pc = "finished" /\ th' = [th EXCEPT ![t].pc = to, ![t].todo = n]
    BY <1>2 DEF ReadBroken
  <2>. HIDE DEF to, n
  <2>3. th' \in [Threads -> ThreadStates] /\ th'[t].pc = to
    BY <2>1, <2>2 DEF ThreadStates
  <2>4. cond' = cond
    BY <1>2 DEF ReadBroken
  <2>. QED
    BY <2>1, <2>2, <2>3, <2>4 DEF OpStep, TypeOK
<1>3. CASE Post(t)
  <2>1. cond' \in BarrierStates /\ cond'.in_await = cond.in_await
    BY <1>3 DEF Post, BarrierStates
  <2>2. th' \in [Threads -> ThreadStates] /\ th'[t].pc = th[t].pc
    BY <1>3 DEF Post, ThreadStates
  <2>. QED
    BY <2>1, <2>2 DEF OpStep, TypeOK
<1>4. CASE Released(t)
  <2>1. th' \in [Threads -> ThreadStates] /\ th[t].pc = "release" /\ th'[t].pc = "leave"
    BY <1>4 DEF Released, Goto, ThreadStates
  <2>2. cond' = cond
    BY <1>4 DEF Released
  <2>. QED
    BY <2>1, <2>2 DEF OpStep, TypeOK
<1>5. CASE PostHarm(t)
  <2>1. cond' \in BarrierStates /\ cond'.in_await = cond.in_await
    BY <1>5 DEF PostHarm, BarrierStates
  <2>2. th' \in [Threads -> ThreadStates] /\ th[t].pc = "harm" /\ th'[t].pc = "out"
    BY <1>5 DEF PostHarm, ThreadStates
  <2>. QED
    BY <2>1, <2>2 DEF OpStep, TypeOK
<1>6. ASSUME NEW to \in {"reset", "free"}, StartReset(t, to) PROVE OpStep(t)
  <2>1. cond' \in BarrierStates /\ cond'.in_await = cond.in_await
    BY <1>6 DEF StartReset, BarrierStates
  <2>2. th' \in [Threads -> ThreadStates] /\ th[t].pc = "out" /\ th'[t].pc = to
    BY <1>6 DEF StartReset, ThreadStates
  <2>. QED
    BY <2>1, <2>2 DEF OpStep, TypeOK
<1>7. CASE ResetDone(t)
  <2>1. cond' \in BarrierStates /\ cond'.in_await = cond.in_await
    BY <1>7 DEF ResetDone, BarrierStates
  <2>2. th' \in [Threads -> ThreadStates] /\ th[t].pc = "reset" /\ th'[t].pc = "out"
    BY <1>7 DEF ResetDone, Goto, ThreadStates
  <2>. QED
    BY <2>1, <2>2 DEF OpStep, TypeOK
<1>8. CASE Destroy(t)
  <2>1. cond.in_await_blocked - 1 \in Nat
    BY <1>8 DEF Destroy, BarrierStates
  <2>2. cond' \in BarrierStates /\ cond'.in_await = cond.in_await
    BY <1>8, <2>1 DEF Destroy, BarrierStates
  <2>3. th' \in [Threads -> ThreadStates] /\ th[t].pc = "free" /\ th'[t].pc = "out"
    BY <1>8 DEF Destroy, Goto, ThreadStates
  <2>. QED
    BY <2>2, <2>3 DEF OpStep, TypeOK
<1>. QED
  BY <1>1, <1>2, <1>3, <1>4, <1>5, <1>6, <1>7, <1>8 DEF Reset, Free

LEMMA TypeStep == TInv /\ [Next]_vars => TInv'
<1>. SUFFICES ASSUME TInv, [Next]_vars PROVE TInv'
  OBVIOUS
<1>1. CASE UNCHANGED vars
  BY <1>1 DEF TInv, TypeOK, AwaitCounted, Inside, vars
<1>2. ASSUME NEW t \in Threads,
             Enter(t) \/ AwaitStep(t) \/ Reset(t) \/ Free(t) \/ FreeStep(t)
      PROVE  TInv'
  <2>1. OpStep(t)
    BY <1>2, EnterType, LeaveType, OtherTypes DEF TInv, AwaitStep, FreeStep
  <2>2. AwaitCounted'
    BY <1>2, <2>1, OneThread, InsideStep DEF OpStep, AwaitCounted, TInv
  <2>. QED
    BY <2>1, <2>2 DEF OpStep, TInv
<1>. QED
  BY <1>1, <1>2 DEF Next

\* The state of a barrier keeps its types in every reachable state
\* (cbarrier.h:33); in particular in_await never drops below zero.
THEOREM TypeCorrect == Spec => []TypeOK
<1>1. TInv => TypeOK
  BY DEF TInv
<1>. QED
  BY <1>1, InitTInv, TypeStep, PTL DEF Spec
-----------------------------------------------------------------------------
(* The first rendezvous *)

Arrived == {t \in Threads : th[t].entered > 0}

\* Until the first reset begins, left counts the threads that have not called
\* await, and while it is positive nobody has got past the semaphore.
Meeting ==
  /\ cond.resets = 0
  /\ \A t \in Threads : th[t].entered <= 1 /\ th[t].pc \notin {"reset", "free"}
  /\ cond.left + Cardinality(Arrived) = Parties
  /\ cond.left > 0 =>
       /\ cond.blocked = 0
       /\ \A t \in Threads : th[t].pc \in {"out", "blocked"} /\ th[t].passed = 0

FirstUse == ~cond.is_broken => Meeting

LEMMA ArrivedFinite ==
  /\ IsFiniteSet(Arrived) /\ Cardinality(Arrived) \in Nat
  /\ Cardinality(Arrived) <= Parties
  /\ Cardinality(Arrived) = Parties => Arrived = Threads
<1>1. Arrived \in SUBSET Threads
  BY DEF Arrived
<1>. QED
  BY <1>1, FS_Subset, FS_CardinalityType, PartiesAssumption

\* Only Enter makes a thread arrive.
LEMMA ArrivedStep ==
  ASSUME TypeOK, NEW t \in Threads, AwaitStep(t) \/ FreeStep(t)
  PROVE  /\ \A u \in Threads : th'[u].entered = th[u].entered
         /\ Arrived' = Arrived
<1>1. \A u \in Threads : th'[u].entered = th[u].entered
  BY DEF TypeOK, ThreadStates, AwaitStep, FreeStep, Unblock, ReadBroken, Post, Released,
         Leave, PostHarm, ResetDone, Destroy, Goto
<1>. QED
  BY <1>1 DEF Arrived

LEMMA EnterMeeting ==
  ASSUME TInv, Meeting, NEW t \in Threads, Enter(t) PROVE Meeting'
<1>. TypeOK
  BY DEF TInv
<1>1. /\ th[t].entered = 0 /\ th'[t].entered = 1 /\ th'[t].passed = th[t].passed
      /\ th'[t].pc \in {"blocked", "finished"}
      /\ th[t].pc = "out"
  BY DEF TypeOK, ThreadStates, Meeting, Enter
<1>2. \A u \in Threads \ {t} : th'[u] = th[u]
  BY OneThread
<1>3. Arrived' = Arrived \cup {t} /\ t \notin Arrived
  BY <1>1, <1>2 DEF Arrived
<1>4. /\ Cardinality(Arrived \cup {t}) = Cardinality(Arrived) + 1
      /\ Cardinality(Arrived \cup {t}) <= Parties
  <2>1. Arrived \cup {t} \in SUBSET Threads
    BY DEF Arrived
  <2>. QED
    BY <1>3, <2>1, ArrivedFinite, FS_AddElement, FS_Subset, PartiesAssumption
<1>5. cond.left \in Nat /\ cond.left + Cardinality(Arrived) = Parties
  BY PartiesAssumption DEF TypeOK, BarrierStates, Meeting
<1>6. cond.left > 0
  BY <1>4, <1>5, ArrivedFinite, PartiesAssumption
<1>7. /\ cond'.left = cond.left - 1 /\ cond'.resets = cond.resets
      /\ cond'.blocked = cond.blocked
      /\ th'[t].pc = IF cond.left - 1 = 0 THEN "finished" ELSE "blocked"
  BY <1>6 DEF TypeOK, BarrierStates, ThreadStates, Enter
<1>8. cond'.left + Cardinality(Arrived') = Parties
  BY <1>3, <1>4, <1>5, <1>7, ArrivedFinite
<1>9. \A u \in Threads : th'[u].entered <= 1 /\ th'[u].pc \notin {"reset", "free"}
  BY <1>1, <1>2 DEF Meeting
<1>10. ASSUME cond'.left > 0
       PROVE  /\ cond'.blocked = 0
              /\ \A u \in Threads : th'[u].pc \in {"out", "blocked"} /\ th'[u].passed = 0
  <2>1. th'[t].pc = "blocked"
    BY <1>5, <1>7, <1>10
  <2>. QED
    BY <1>1, <1>2, <1>6, <1>7, <2>1 DEF Meeting
<1>. QED
  BY <1>7, <1>8, <1>9, <1>10 DEF Meeting

LEMMA AwaitMeeting ==
  ASSUME TInv, Meeting, NEW t \in Threads, AwaitStep(t) \/ FreeStep(t) PROVE Meeting'
<1>. TypeOK
  BY DEF TInv
<1>1. Arrived' = Arrived /\ \A u \in Threads : th'[u].entered = th[u].entered
  BY ArrivedStep
<1>2. \A u \in Threads \ {t} : th'[u] = th[u]
  BY OneThread
<1>3. /\ cond'.left = cond.left /\ cond'.resets = cond.resets
      /\ th'[t].pc \notin {"reset", "free"}
      /\ cond.left = 0
  BY DEF TypeOK, BarrierStates, ThreadStates, Meeting, AwaitStep, FreeStep, Unblock, ReadBroken,
         Post, Released, Leave, PostHarm, ResetDone, Destroy, Goto
<1>. QED
  BY <1>1, <1>2, <1>3 DEF Meeting

LEMMA FirstUseStep == TInv /\ FirstUse /\ [Next]_vars => FirstUse'
<1>. SUFFICES ASSUME TInv, FirstUse, [Next]_vars, ~cond'.is_broken PROVE Meeting'
  BY DEF FirstUse
<1>1. CASE UNCHANGED vars
  BY <1>1 DEF FirstUse, Meeting, Arrived, vars
<1>2. ASSUME NEW t \in Threads, Enter(t) PROVE Meeting'
  <2>1. ~cond.is_broken
    BY <1>2 DEF TInv, TypeOK, BarrierStates, Enter
  <2>. QED
    BY <1>2, <2>1, EnterMeeting DEF FirstUse
<1>3. ASSUME NEW t \in Threads, AwaitStep(t) \/ FreeStep(t) PROVE Meeting'
  <2>1. ~cond.is_broken
    BY <1>3 DEF TInv, TypeOK, BarrierStates, AwaitStep, FreeStep, Unblock, ReadBroken, Post,
                Released, Leave, PostHarm, ResetDone, Destroy
  <2>. QED
    BY <1>3, <2>1, AwaitMeeting DEF FirstUse
<1>4. ASSUME NEW t \in Threads, Reset(t) \/ Free(t) PROVE FALSE
  BY <1>4 DEF TInv, TypeOK, BarrierStates, Reset, Free, StartReset
<1>. QED
  BY <1>1, <1>2, <1>3, <1>4 DEF Next

LEMMA InitFirstUse == Init => FirstUse
<1>. SUFFICES ASSUME Init PROVE Meeting
  BY DEF FirstUse
<1>1. Arrived = {}
  BY DEF Init, Arrived
<1>. QED
  BY <1>1, FS_EmptySet, PartiesAssumption DEF Init, NewBarrier, Meeting

LEMMA FirstUseInvariant == Spec => [](TInv /\ FirstUse)
  BY InitTInv, TypeStep, InitFirstUse, FirstUseStep, PTL DEF Spec

\* No thread gets past its first await before all threads have called await,
\* whatever the number of threads and whoever resets and frees (cbarrier.h:70).
THEOREM Rendezvous == Spec => []NobodyContinuesEarly
<1>1. TInv /\ FirstUse => NobodyContinuesEarly
  <2>. SUFFICES ASSUME TInv, FirstUse, NEW t \in Threads, th[t].passed > 0,
                       ~cond.is_broken, NEW u \in Threads
                PROVE  th[u].entered > 0
    BY DEF NobodyContinuesEarly
  <2>1. cond.left \in Nat /\ ~(cond.left > 0)
    BY PartiesAssumption DEF FirstUse, Meeting, TInv, TypeOK, BarrierStates
  <2>2. Arrived = Threads
    BY <2>1, ArrivedFinite, PartiesAssumption DEF FirstUse, Meeting
  <2>. QED
    BY <2>2 DEF Arrived
<1>. QED
  BY <1>1, FirstUseInvariant, PTL

-----------------------------------------------------------------------------
(* A barrier that is used once: reset is called by free only *)

\* A thread calls await once and is past it, or in the middle of it.
Tally(t) ==
  /\ th[t].pc # "reset"
  /\ th[t].entered <= 1
  /\ IF th[t].pc \in {"out", "free"} THEN th[t].passed = th[t].entered
                                    ELSE th[t].entered = 1 /\ th[t].passed = 0

Met == \A t \in Threads : th[t].entered = 1

\* What cannot have happened before all threads have called await.
MetFirst ==
  cond.left = 0 \/ cond.is_broken \/ cond.in_await_blocked > 0 \/ cond.destroyed => Met

\* Whoever is in harm's way, or the post it leaves behind, or the destruction
\* that this post allows, is there only after everybody is out of await ...
LastIsLast ==
  \/ cond.in_await_blocked > 0 \/ cond.destroyed
  \/ \E t \in Threads : th[t].pc = "harm"
  => Inside = {}

\* ... and there is only one of the three at a time.
OneToken ==
  /\ \A t, u \in Threads : th[t].pc = "harm" /\ th[u].pc = "harm" => t = u
  /\ \A t \in Threads : th[t].pc = "harm" => cond.in_await_blocked = 0 /\ ~cond.destroyed
  /\ cond.in_await_blocked <= 1
  /\ cond.in_await_blocked = 1 => ~cond.destroyed

OneFree ==
  /\ \A t, u \in Threads : th[t].pc = "free" /\ th[u].pc = "free" => t = u
  /\ \A t \in Threads : th[t].pc = "free" => ~cond.destroyed

UsedOnce ==
  /\ cond.resets = 0
  /\ \A t \in Threads : Tally(t)
  /\ MetFirst
  /\ LastIsLast
  /\ OneToken
  /\ OneFree

OnceInv == TInv /\ FirstUse /\ UsedOnce

\* A thread that is neither outside nor blocked has met all others.
LEMMA BusyMeansMet ==
  ASSUME OnceInv, NEW t \in Threads, th[t].pc \notin {"out", "blocked"} PROVE Met
<1>1. CASE cond.is_broken
  BY <1>1 DEF OnceInv, UsedOnce, MetFirst
<1>2. CASE ~cond.is_broken
  <2>1. cond.left \in Nat /\ ~(cond.left > 0)
    BY <1>2, PartiesAssumption DEF OnceInv, FirstUse, Meeting, TInv, TypeOK, BarrierStates
  <2>. QED
    BY <2>1 DEF OnceInv, UsedOnce, MetFirst
<1>. QED
  BY <1>1, <1>2

LEMMA InitUsedOnce == Init => UsedOnce
  BY PartiesAssumption DEF Init, NewBarrier, UsedOnce, Tally, MetFirst, LastIsLast, OneToken, OneFree

LEMMA EnterOnce ==
  ASSUME OnceInv, FirstUse', TInv', NEW t \in Threads, Enter(t) PROVE UsedOnce'
<1>. TypeOK
  BY DEF OnceInv, TInv
<1>1. /\ th[t].entered = 0 /\ th'[t].entered = 1 /\ th'[t].passed = 0
      /\ th'[t].pc \in {"blocked", "finished"}
      /\ th[t].pc = "out"
  BY DEF TypeOK, ThreadStates, OnceInv, UsedOnce, Tally, Enter
<1>2. \A u \in Threads \ {t} : th'[u] = th[u]
  BY OneThread
<1>3. /\ cond'.resets = cond.resets /\ cond'.is_broken = cond.is_broken
      /\ cond'.in_await_blocked = cond.in_await_blocked /\ cond'.destroyed = cond.destroyed
  BY DEF TypeOK, BarrierStates, Enter
<1>4. ~Met
  BY <1>1 DEF Met
<1>5. ~cond.is_broken /\ ~(cond.in_await_blocked > 0) /\ ~cond.destroyed
  BY <1>4 DEF OnceInv, UsedOnce, MetFirst
<1>6. \A u \in Threads : th[u].pc \in {"out", "blocked"}
  BY <1>4, BusyMeansMet
<1>7. \A u \in Threads : Tally(u)'
  BY <1>1, <1>2 DEF OnceInv, UsedOnce, Tally
<1>8. MetFirst'
  <2>. SUFFICES ASSUME cond'.left = 0 PROVE Met'
    BY <1>3, <1>5 DEF MetFirst
  <2>1. Cardinality(Arrived') = Parties
    <3>1. cond'.left + Cardinality(Arrived') = Parties
      BY <1>3, <1>5 DEF FirstUse, Meeting
    <3>2. Cardinality(Arrived') \in Nat
      <4>1. Arrived' \in SUBSET Threads
        BY DEF Arrived
      <4>. QED
        BY <4>1, FS_Subset, FS_CardinalityType, PartiesAssumption
    <3>. QED
      BY <3>1, <3>2
  <2>2. Arrived' = Threads
    <3>1. Arrived' \in SUBSET Threads
      BY DEF Arrived
    <3>. QED
      BY <2>1, <3>1, FS_Subset, PartiesAssumption
  <2>3. \A u \in Threads : th'[u].entered > 0 /\ th'[u].entered <= 1 /\ th'[u].entered \in Nat
    BY <1>7, <2>2 DEF Arrived, Tally, TInv, TypeOK, ThreadStates
  <2>. QED
    BY <2>3 DEF Met
<1>9. LastIsLast' /\ OneToken' /\ OneFree'
  BY <1>1, <1>2, <1>3, <1>5, <1>6 DEF LastIsLast, OneToken, OneFree, OnceInv, UsedOnce
<1>. QED
  BY <1>3, <1>7, <1>8, <1>9 DEF OnceInv, UsedOnce

\* What an operation other than Enter leaves alone.
LEMMA AwaitFrame ==
  ASSUME OnceInv, NEW t \in Threads, AwaitStep(t) \/ FreeStep(t) \/ Free(t)
  PROVE  /\ cond'.resets = 0
         /\ \A u \in Threads : th'[u].entered = th[u].entered
         /\ \A u \in Threads \ {t} : th'[u] = th[u]
         /\ \A u \in Threads : Tally(u)'
<1>. TypeOK
  BY DEF OnceInv, TInv
<1>1. \A u \in Threads \ {t} : th'[u] = th[u]
  BY OneThread
<1>2. cond.resets = 0 /\ \A u \in Threads : Tally(u)
  BY DEF OnceInv, UsedOnce
<1>3. cond'.resets = 0 /\ th'[t].entered = th[t].entered /\ Tally(t)'
  <2>1. ~ResetDone(t) /\ Tally(t) /\ cond.resets = 0
    BY <1>2 DEF ResetDone, Goto, Tally
  <2>b. CASE ReadBroken(t)
    BY <2>1, <2>b DEF TypeOK, BarrierStates, ThreadStates, Tally, ReadBroken
  <2>2. CASE Unblock(t) \/ Post(t) \/ Released(t)
    BY <2>1, <2>2 DEF TypeOK, BarrierStates, ThreadStates, Tally, Unblock, Post,
                      Released, Goto
  <2>a. CASE Leave(t)
    BY <2>1, <2>a DEF TypeOK, BarrierStates, ThreadStates, Tally, Leave
  <2>3. CASE PostHarm(t)
    BY <2>1, <2>3 DEF TypeOK, BarrierStates, ThreadStates, Tally, PostHarm
  <2>4. CASE Free(t)
    BY <2>1, <2>4 DEF TypeOK, BarrierStates, ThreadStates, Tally, Free, StartReset
  <2>5. CASE Destroy(t)
    BY <2>1, <2>5 DEF TypeOK, BarrierStates, ThreadStates, Tally, Destroy, Goto
  <2>. QED
    BY <2>1, <2>b, <2>2, <2>a, <2>3, <2>4, <2>5 DEF AwaitStep, FreeStep
<1>. QED
  BY <1>1, <1>2, <1>3 DEF Tally

\* Steps that create neither a token nor a thread in harm's way.
LEMMA PlainOnce ==
  ASSUME OnceInv, NEW t \in Threads,
         Unblock(t) \/ ReadBroken(t) \/ Post(t) \/ Released(t)
  PROVE  UsedOnce'
<1>. TypeOK
  BY DEF OnceInv, TInv
<1>1. /\ cond'.resets = 0
      /\ \A u \in Threads : th'[u].entered = th[u].entered
      /\ \A u \in Threads \ {t} : th'[u] = th[u]
      /\ \A u \in Threads : Tally(u)'
  BY AwaitFrame DEF AwaitStep
<1>2. /\ cond'.left = cond.left /\ cond'.is_broken = cond.is_broken
      /\ cond'.in_await_blocked = cond.in_await_blocked /\ cond'.destroyed = cond.destroyed
  BY DEF TypeOK, BarrierStates, Unblock, ReadBroken, Post, Released
<1>3. /\ th'[t].pc = "harm" <=> th[t].pc = "harm"
      /\ th'[t].pc = "free" <=> th[t].pc = "free"
      /\ th'[t].pc \in InsidePc <=> th[t].pc \in InsidePc
  BY DEF TypeOK, ThreadStates, Unblock, ReadBroken, Post, Released, Goto, InsidePc
<1>4. Inside' = Inside
  BY <1>1, <1>3 DEF Inside, InsidePc
<1>. QED
  BY <1>1, <1>2, <1>3, <1>4 DEF OnceInv, UsedOnce, MetFirst, Met, LastIsLast, OneToken, OneFree

LEMMA LeaveOnce ==
  ASSUME OnceInv, NEW t \in Threads, Leave(t) PROVE UsedOnce'
<1>. TypeOK
  BY DEF OnceInv, TInv
<1>1. /\ cond'.resets = 0
      /\ \A u \in Threads : th'[u].entered = th[u].entered
      /\ \A u \in Threads \ {t} : th'[u] = th[u]
      /\ \A u \in Threads : Tally(u)'
  BY AwaitFrame DEF AwaitStep
<1>2. /\ cond'.left = cond.left /\ cond'.is_broken = cond.is_broken
      /\ cond'.in_await_blocked = cond.in_await_blocked /\ cond'.destroyed = cond.destroyed
      /\ th[t].pc = "leave"
      /\ th'[t].pc = IF cond.in_await = 1 THEN "harm" ELSE "out"
  BY DEF TypeOK, BarrierStates, ThreadStates, Leave
<1>3. t \in Inside
  BY <1>2 DEF Inside
<1>4. /\ cond.in_await_blocked = 0 /\ ~cond.destroyed
      /\ \A u \in Threads : th[u].pc # "harm"
  BY <1>3 DEF OnceInv, UsedOnce, LastIsLast, TypeOK, BarrierStates
<1>5. cond.in_await = 1 => Inside' = {}
  BY <1>1, <1>2, InsideStep DEF OnceInv, InsidePc
<1>6. MetFirst'
  BY <1>1, <1>2 DEF OnceInv, UsedOnce, MetFirst, Met
<1>7. LastIsLast'
  BY <1>1, <1>2, <1>4, <1>5 DEF LastIsLast
<1>8. OneToken'
  BY <1>1, <1>2, <1>4 DEF OneToken
<1>9. OneFree'
  BY <1>1, <1>2 DEF OnceInv, UsedOnce, OneFree
<1>. QED
  BY <1>1, <1>6, <1>7, <1>8, <1>9 DEF UsedOnce

LEMMA HarmOnce ==
  ASSUME OnceInv, NEW t \in Threads, PostHarm(t) PROVE UsedOnce'
<1>. TypeOK
  BY DEF OnceInv, TInv
<1>1. /\ cond'.resets = 0
      /\ \A u \in Threads : th'[u].entered = th[u].entered
      /\ \A u \in Threads \ {t} : th'[u] = th[u]
      /\ \A u \in Threads : Tally(u)'
  BY AwaitFrame DEF AwaitStep
<1>2. /\ cond'.left = cond.left /\ cond'.is_broken = cond.is_broken
      /\ cond'.in_await_blocked = cond.in_await_blocked + 1 /\ cond'.destroyed = cond.destroyed
      /\ th[t].pc = "harm" /\ th'[t].pc = "out"
  BY DEF TypeOK, BarrierStates, ThreadStates, PostHarm
<1>3. /\ cond.in_await_blocked = 0 /\ ~cond.destroyed
      /\ \A u \in Threads \ {t} : th[u].pc # "harm"
      /\ Inside = {}
  BY <1>2 DEF OnceInv, UsedOnce, OneToken, LastIsLast
<1>4. Inside' = {}
  BY <1>1, <1>2, <1>3 DEF Inside
<1>5. Met
  BY <1>2, BusyMeansMet
<1>6. MetFirst' /\ LastIsLast'
  BY <1>1, <1>4, <1>5 DEF MetFirst, Met, LastIsLast
<1>7. OneToken'
  BY <1>1, <1>2, <1>3 DEF OneToken
<1>8. OneFree'
  BY <1>1, <1>2 DEF OnceInv, UsedOnce, OneFree
<1>. QED
  BY <1>1, <1>6, <1>7, <1>8 DEF UsedOnce

LEMMA FreeOnce ==
  ASSUME OnceInv, NEW t \in Threads, Free(t) PROVE UsedOnce'
<1>. TypeOK
  BY DEF OnceInv, TInv
<1>1. /\ cond'.resets = 0
      /\ \A u \in Threads : th'[u].entered = th[u].entered
      /\ \A u \in Threads \ {t} : th'[u] = th[u]
      /\ \A u \in Threads : Tally(u)'
  BY AwaitFrame
<1>2. /\ cond'.in_await_blocked = cond.in_await_blocked /\ cond'.destroyed = cond.destroyed
      /\ th[t].pc = "out" /\ th'[t].pc = "free"
      /\ ~cond.destroyed /\ \A u \in Threads : th[u].pc # "free"
  BY DEF TypeOK, BarrierStates, ThreadStates, Free, StartReset
<1>3. Met
  BY RoundsAssumption DEF Free, OnceInv, UsedOnce, Tally, Met
<1>4. Inside' = Inside
  BY <1>1, <1>2 DEF Inside
<1>5. MetFirst'
  BY <1>1, <1>3 DEF MetFirst, Met
<1>6. LastIsLast' /\ OneToken' /\ OneFree'
  BY <1>1, <1>2, <1>4 DEF LastIsLast, OneToken, OneFree, OnceInv, UsedOnce
<1>. QED
  BY <1>1, <1>5, <1>6 DEF UsedOnce

LEMMA DestroyOnce ==
  ASSUME OnceInv, NEW t \in Threads, Destroy(t) PROVE UsedOnce'
<1>. TypeOK
  BY DEF OnceInv, TInv
<1>1. /\ cond'.resets = 0
      /\ \A u \in Threads : th'[u].entered = th[u].entered
      /\ \A u \in Threads \ {t} : th'[u] = th[u]
      /\ \A u \in Threads : Tally(u)'
  BY AwaitFrame DEF FreeStep
<1>2. /\ cond.in_await_blocked > 0 /\ cond'.in_await_blocked = cond.in_await_blocked - 1
      /\ th[t].pc = "free" /\ th'[t].pc = "out"
  BY DEF TypeOK, BarrierStates, ThreadStates, Destroy, Goto
<1>3. /\ cond.in_await_blocked = 1
      /\ Inside = {} /\ \A u \in Threads : th[u].pc # "harm"
  BY <1>2 DEF OnceInv, UsedOnce, OneToken, LastIsLast, TypeOK, BarrierStates
<1>4. \A u \in Threads \ {t} : th[u].pc # "free"
  BY <1>2 DEF OnceInv, UsedOnce, OneFree
<1>5. Met
  BY <1>2, BusyMeansMet
<1>6. Inside' = {}
  BY <1>1, <1>2, <1>3 DEF Inside
<1>7. MetFirst' /\ LastIsLast'
  BY <1>1, <1>5, <1>6 DEF MetFirst, Met, LastIsLast
<1>8. OneToken' /\ OneFree'
  BY <1>1, <1>2, <1>3, <1>4 DEF OneToken, OneFree
<1>. QED
  BY <1>1, <1>7, <1>8 DEF UsedOnce

LEMMA OnceStep ==
  ASSUME Cancellers = {}, Recyclers = {}, OnceInv, [Next]_vars
  PROVE  OnceInv'
<1>1. TInv' /\ FirstUse'
  BY TypeStep, FirstUseStep DEF OnceInv
<1>2. CASE UNCHANGED vars
  BY <1>1, <1>2 DEF OnceInv, UsedOnce, Tally, MetFirst, Met, LastIsLast, OneToken, OneFree, Inside, vars
<1>3. ASSUME NEW t \in Threads,
             Enter(t) \/ AwaitStep(t) \/ Reset(t) \/ Free(t) \/ FreeStep(t)
      PROVE  UsedOnce'
  <2>1. ~Reset(t)
    BY DEF Reset
  <2>2. ~ResetDone(t)
    BY DEF ResetDone, Goto, OnceInv, UsedOnce, Tally
  <2>. QED
    BY <1>1, <1>3, <2>1, <2>2, EnterOnce, PlainOnce, LeaveOnce, HarmOnce, FreeOnce, DestroyOnce
       DEF AwaitStep, FreeStep
<1>. QED
  BY <1>1, <1>2, <1>3 DEF OnceInv, Next

LEMMA OnceInvariant ==
  ASSUME Cancellers = {}, Recyclers = {} PROVE Spec => []OnceInv
<1>1. Init => OnceInv
  BY InitTInv, InitFirstUse, InitUsedOnce DEF OnceInv
<1>2. OnceInv /\ [Next]_vars => OnceInv'
  BY OnceStep
<1>. QED
  BY <1>1, <1>2, PTL DEF Spec

\* What a program that uses a barrier once can rely on.
LEMMA OnceMeans ==
  ASSUME OnceInv, NEW t \in Threads
  PROVE  /\ th[t].passed = 1 => \A u \in Threads : th[u].entered = 1
         /\ cond.destroyed => th[t].pc = "out" /\ th[t].passed = 1
<1>1. th[t].passed = 1 => \A u \in Threads : th[u].entered = 1
  <2>. SUFFICES ASSUME th[t].passed = 1 PROVE Met
    BY DEF Met
  <2>1. CASE cond.is_broken
    BY <2>1 DEF OnceInv, UsedOnce, MetFirst
  <2>2. CASE ~cond.is_broken
    <3>1. cond.left \in Nat /\ ~(cond.left > 0)
      BY <2>2, PartiesAssumption DEF OnceInv, FirstUse, Meeting, TInv, TypeOK, BarrierStates
    <3>. QED
      BY <3>1 DEF OnceInv, UsedOnce, MetFirst
  <2>. QED
    BY <2>1, <2>2
<1>2. ASSUME cond.destroyed PROVE th[t].pc = "out" /\ th[t].passed = 1
  <2>1. th[t].pc \in PcStates /\ th[t].pc \notin {"reset", "harm", "free"} /\ t \notin Inside
    BY <1>2 DEF OnceInv, UsedOnce, Tally, OneToken, OneFree, LastIsLast, TInv, TypeOK, ThreadStates
  <2>2. th[t].pc = "out" /\ th[t].entered = 1
    BY <1>2, <2>1 DEF Inside, PcStates, OnceInv, UsedOnce, MetFirst, Met
  <2>. QED
    BY <2>2 DEF OnceInv, UsedOnce, Tally
<1>. QED
  BY <1>1, <1>2

\* A call that has begun or returned stays so, and so does the destruction.
LEMMA OnceKeeps ==
  ASSUME OnceInv, NEW t \in Threads, Enter(t) \/ AwaitStep(t) \/ Free(t) \/ Destroy(t)
  PROVE  /\ \A u \in Threads \ {t} : th'[u] = th[u]
         /\ th[t].passed = 1 => th'[t].passed = 1
         /\ ~Enter(t) => th'[t].entered = th[t].entered
         /\ cond.destroyed => cond'.destroyed
<1>. TypeOK
  BY DEF OnceInv, TInv
<1>1. \A u \in Threads \ {t} : th'[u] = th[u]
  BY OneThread DEF FreeStep
<1>2. ~Enter(t) => th'[t].entered = th[t].entered
  BY AwaitFrame DEF FreeStep
<1>3. Tally(t)
  BY DEF OnceInv, UsedOnce
<1>4. cond.destroyed => cond'.destroyed
  BY DEF TypeOK, BarrierStates, AwaitStep, Enter, Free, StartReset, Unblock,
         ReadBroken, Post, Released, Leave, PostHarm, Destroy, Goto
<1>5. th[t].passed = 1 => th'[t].passed = 1
  BY <1>3 DEF Tally, TypeOK, ThreadStates, AwaitStep, Enter, Free, StartReset, Unblock,
         ReadBroken, Post, Released, Leave, PostHarm, Destroy, Goto
<1>. QED
  BY <1>1, <1>2, <1>4, <1>5

\* A barrier that only free resets is destroyed when no thread is left in await
\* or in free, not even one that is about to post (cbarrier.c:134).
THEOREM FreeWaits ==
  ASSUME Cancellers = {}, Recyclers = {} PROVE Spec => []DestroyedOnlyWhenQuiet
<1>1. OnceInv => DestroyedOnlyWhenQuiet
  BY OnceMeans DEF DestroyedOnlyWhenQuiet, Quiet
<1>. QED
  BY <1>1, OnceInvariant, PTL

\* A barrier that only free resets implements the abstract rendezvous.
THEOREM Implements ==
  ASSUME Cancellers = {}, Recyclers = {} PROVE Spec => ImplementsBarrier
<1> DEFINE departed == {t \in Threads : th[t].passed > 0}
<1>1. Init => Abstract!Init
  BY DEF Init, Abstract!Init
<1>2. ASSUME OnceInv, OnceInv', [Next]_vars
      PROVE  [Abstract!Next]_<<Arrived, departed>>
  <2>. TypeOK
    BY <1>2 DEF OnceInv, TInv
  <2>1. CASE UNCHANGED vars
    BY <2>1 DEF vars, Arrived
  <2>2. ASSUME NEW t \in Threads, Enter(t) PROVE Abstract!Arrive(t)
    <3>1. \A u \in Threads \ {t} : th'[u] = th[u]
      BY <2>2, OneThread
    <3>2. th[t].entered = 0 /\ th'[t].entered = 1 /\ th'[t].passed = th[t].passed
      BY <1>2, <2>2 DEF TypeOK, ThreadStates, Enter, OnceInv, UsedOnce
    <3>3. Arrived' = Arrived \cup {t} /\ t \notin Arrived /\ departed' = departed
      BY <3>1, <3>2 DEF Arrived
    <3>. QED
      BY <3>3 DEF Abstract!Arrive, Arrived
  <2>3. ASSUME NEW t \in Threads, AwaitStep(t) \/ FreeStep(t) \/ Free(t)
        PROVE  Abstract!Depart(t) \/ UNCHANGED <<Arrived, departed>>
    <3>1. /\ \A u \in Threads : th'[u].entered = th[u].entered
          /\ \A u \in Threads \ {t} : th'[u] = th[u]
      BY <1>2, <2>3, AwaitFrame
    <3>2. Arrived' = Arrived
      BY <3>1 DEF Arrived
    <3>3. CASE th'[t].passed = th[t].passed
      <4>1. departed' = departed
        BY <3>1, <3>3
      <4>. QED
        BY <3>2, <4>1
    <3>4. CASE th'[t].passed # th[t].passed
      <4>1. th[t].pc \in {"leave", "harm"} /\ th'[t].passed = th[t].passed + 1
        BY <2>3, <3>4 DEF TypeOK, ThreadStates, AwaitStep, FreeStep, Free, StartReset, Unblock,
           ReadBroken, Post, Released, Leave, PostHarm, ResetDone, Destroy, Goto
      <4>2. Met /\ th[t].passed = 0
        BY <1>2, <4>1, BusyMeansMet DEF OnceInv, UsedOnce, Tally
      <4>3. Arrived = Threads /\ departed' = departed \cup {t} /\ t \notin departed
        BY <3>1, <4>1, <4>2 DEF Met, Arrived
      <4>. QED
        BY <3>2, <4>3 DEF Abstract!Depart, Arrived
    <3>. QED
      BY <3>3, <3>4
  <2>4. ASSUME NEW t \in Threads, Reset(t) PROVE FALSE
    BY <2>4 DEF Reset
  <2>. QED
    BY <1>2, <2>1, <2>2, <2>3, <2>4 DEF Next, Abstract!Next
<1>3. OnceInv /\ OnceInv' /\ [Next]_vars => [Abstract!Next]_<<Arrived, departed>>
  BY <1>2
<1>. QED
  BY <1>1, <1>3, OnceInvariant, PTL DEF Spec, ImplementsBarrier, Abstract!Spec, Arrived
=============================================================================
