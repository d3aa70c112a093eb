---------------------------- MODULE TPoolProofs -----------------------------
(***************************************************************************)
(* Theorems about TPool, for any number of workers and senders: an open    *)
(* pool never loses its last worker, a request taken is handled once, and  *)
(* THREADPOOL_close waits for every worker.                                *)
(***************************************************************************)
EXTENDS TPool, Integers, SequenceTheorems, FiniteSetTheorems, TLAPS

Users == Workers \cup Senders \cup {Owner}

QueuePcs == {"idle", "wait_empty", "woken_empty", "wait_full", "woken_full"}

\* Who may be where inside the queue.
Places ==
  /\ qpc \in [Users -> QueuePcs]
  /\ arg = [t \in Users |-> arg[t]]
  /\ result = [t \in Users |-> result[t]]
  /\ wpc = [w \in Workers |-> wpc[w]]
  /\ \A w \in Workers : /\ qpc[w] \in {"idle", "wait_empty", "woken_empty"}
                        /\ wpc[w] # "popping" => qpc[w] = "idle"
  /\ \A s \in Senders : /\ qpc[s] \in {"idle", "wait_full", "woken_full"}
                        /\ qpc[s] # "idle" => arg[s] \in Items

\* A worker that serves and is not about to look at a queue somebody else may
\* have emptied.
Steady(w) ==
  \/ wpc[w] = "handling"
  \/ wpc[w] = "popping" /\ qpc[w] \in {"idle", "wait_empty"}

\* Before THREADPOOL_close no exit message is queued, and when every worker
\* that serves has been woken there is an entry for one of them.
Staffed ==
  /\ opc \in {"creating", "open"} => queue \in Seq(Items)
  /\ opc = "creating" => /\ queue = <<>>
                         /\ \A w \in Workers : wpc[w] = "none" \/ Steady(w)
  /\ opc = "open" => \/ \E w \in Workers : Steady(w)
                     \/ Serving # {} /\ queue # <<>>

SInv == Places /\ Staffed

-----------------------------------------------------------------------------
\* A signal moves threads that wait for it and no others.
LEMMA EmptySignal ==
  ASSUME NEW p \in [Users -> QueuePcs], NEW q \in Q!SignalEmpty(p)
  PROVE  /\ q \in [Users -> QueuePcs]
         /\ \A u \in Users : q[u] = p[u] \/ (p[u] = "wait_empty" /\ q[u] = "woken_empty")
<1>1. CASE q = p
  BY <1>1
<1>2. CASE q # p
  <2>1. PICK t \in Q!ThreadsAt(p, "wait_empty") : q = [p EXCEPT ![t] = "woken_empty"]
    BY <1>2 DEF Q!SignalEmpty, Q!Signalled
  <2>2. t \in Users /\ p[t] = "wait_empty" /\ "woken_empty" \in QueuePcs
    BY <2>1 DEF Q!ThreadsAt, Users, QueuePcs
  <2>. QED
    BY <2>1, <2>2
<1>. QED
  BY <1>1, <1>2

LEMMA FullSignal ==
  ASSUME NEW p \in [Users -> QueuePcs], NEW q \in Q!SignalFull(p)
  PROVE  /\ q \in [Users -> QueuePcs]
         /\ \A u \in Users : q[u] = p[u] \/ (p[u] = "wait_full" /\ q[u] = "woken_full")
<1>1. CASE q = p
  BY <1>1
<1>2. CASE q # p
  <2>1. PICK t \in Q!ThreadsAt(p, "wait_full") : q = [p EXCEPT ![t] = "woken_full"]
    BY <1>2 DEF Q!SignalFull, Q!Signalled
  <2>2. t \in Users /\ p[t] = "wait_full" /\ "woken_full" \in QueuePcs
    BY <2>1 DEF Q!ThreadsAt, Users, QueuePcs
  <2>. QED
    BY <2>1, <2>2
<1>. QED
  BY <1>1, <1>2

LEMMA InitSInv == Init => SInv
<1>. SUFFICES ASSUME Init PROVE SInv
  OBVIOUS
<1>1. Places
  BY DEF Init, Q!Init, Places, Users, QueuePcs
<1>2. Staffed
  BY DEF Init, Q!Init, Staffed, Steady
<1>. QED
  BY <1>1, <1>2 DEF SInv

-----------------------------------------------------------------------------
(* Pushing: the entry is in the queue when the signal is given *)

LEMMA PushKeepsStaff ==
  ASSUME SInv, opc = "open", NEW s \in Senders, NEW m \in Items,
         Q!PushEntry(s, m), UNCHANGED <<wpc, opc>>
  PROVE  /\ qpc' \in [Users -> QueuePcs]
         /\ \A w \in Workers : \/ qpc'[w] = qpc[w]
                               \/ qpc[w] = "wait_empty" /\ qpc'[w] = "woken_empty"
         /\ \A u \in Senders \ {s} : qpc'[u] = qpc[u]
         /\ qpc'[s] = "idle"
         /\ Staffed'
<1> DEFINE p == [qpc EXCEPT ![s] = "idle"]
<1>1. queue' = Append(queue, m) /\ qpc' \in Q!SignalEmpty(p)
  BY DEF Q!PushEntry
<1>2. p \in [Users -> QueuePcs] /\ s \in Users /\ s \notin Workers
  BY PoolAssumption DEF SInv, Places, Users, QueuePcs
<1>3. /\ qpc' \in [Users -> QueuePcs]
      /\ \A u \in Users : qpc'[u] = p[u] \/ (p[u] = "wait_empty" /\ qpc'[u] = "woken_empty")
  BY <1>1, <1>2, EmptySignal
<1>4. /\ \A w \in Workers : p[w] = qpc[w]
      /\ \A u \in Senders \ {s} : p[u] = qpc[u]
      /\ p[s] = "idle"
  BY <1>2 DEF SInv, Places
<1>5. \A w \in Workers : \/ qpc'[w] = qpc[w]
                         \/ qpc[w] = "wait_empty" /\ qpc'[w] = "woken_empty"
  BY <1>3, <1>4 DEF Users
<1>6. \A u \in Senders \ {s} : qpc'[u] = qpc[u]
  BY <1>3, <1>4 DEF Users, SInv, Places
<1>7. qpc'[s] = "idle"
  BY <1>2, <1>3, <1>4
<1>8. queue' \in Seq(Items) /\ queue' # <<>>
  <2>1. queue \in Seq(Items)
    BY DEF SInv, Staffed
  <2>2. Append(queue, m) \in Seq(Items) /\ Append(queue, m) # <<>>
    BY <2>1, AppendProperties
  <2>. QED
    BY <1>1, <2>2
<1>9. Serving # {}
  BY DEF SInv, Staffed, Steady, Serving
<1>10. Serving' # {}
  BY <1>9 DEF Serving
<1>11. Staffed'
  BY <1>8, <1>10 DEF Staffed
<1>. QED
  BY <1>3, <1>5, <1>6, <1>7, <1>11

LEMMA SendStep ==
  ASSUME SInv, NEW s \in Senders, Send(s) PROVE SInv'
<1>0. opc = "open" /\ opc' = opc /\ wpc' = wpc
  BY DEF Send, poolVars
<1>1. s \in Users /\ s \notin Workers /\ Workers \subseteq Users /\ Senders \subseteq Users
  BY PoolAssumption DEF Users
<1>2. ASSUME NEW m \in Items, Q!PushBlockWait(s, m) PROVE SInv'
  <2>1. /\ qpc' = [qpc EXCEPT ![s] = "wait_full"] /\ arg' = [arg EXCEPT ![s] = m]
        /\ queue' = queue /\ result' = result
    BY <1>2 DEF Q!PushBlockWait
  <2>2. Places'
    BY <1>0, <1>1, <2>1 DEF SInv, Places, QueuePcs
  <2>3. \A w \in Workers : qpc'[w] = qpc[w]
    BY <1>1, <2>1 DEF SInv, Places
  <2>4. Staffed'
    BY <1>0, <2>1, <2>3 DEF SInv, Staffed, Steady, Serving
  <2>. QED
    BY <2>2, <2>4 DEF SInv
<1>3. ASSUME NEW m \in Items, Q!PushEntry(s, m), result' = result,
             arg' = arg \/ arg' = [arg EXCEPT ![s] = NoItem]
      PROVE  SInv'
  <2>1. /\ qpc' \in [Users -> QueuePcs]
        /\ \A w \in Workers : \/ qpc'[w] = qpc[w]
                              \/ qpc[w] = "wait_empty" /\ qpc'[w] = "woken_empty"
        /\ \A u \in Senders \ {s} : qpc'[u] = qpc[u]
        /\ qpc'[s] = "idle"
        /\ Staffed'
    BY <1>0, <1>3, PushKeepsStaff
  <2>2. \A u \in Senders \ {s} : arg'[u] = arg[u]
    <3>1. CASE arg' = arg
      BY <3>1
    <3>2. CASE arg' = [arg EXCEPT ![s] = NoItem]
      BY <1>1, <3>2 DEF SInv, Places
    <3>. QED
      BY <1>3, <3>1, <3>2
  <2>3. arg' = [t \in Users |-> arg'[t]]
    BY <1>3 DEF SInv, Places
  <2>4. Places'
    BY <1>0, <1>1, <1>3, <2>1, <2>2, <2>3 DEF SInv, Places
  <2>. QED
    BY <2>1, <2>4 DEF SInv
<1>4. ASSUME UNCHANGED <<queue, qpc, arg, result>> PROVE SInv'
  BY <1>0, <1>4 DEF SInv, Places, Staffed, Steady, Serving
<1>5. ASSUME NEW m \in Items, Q!PushBlock(s, m) PROVE SInv'
  BY <1>3, <1>5 DEF Q!PushBlock
<1>6. ASSUME NEW m \in Items, Q!PushFail(s, m) PROVE SInv'
  BY <1>3, <1>4, <1>6 DEF Q!PushFail
<1>7. ASSUME Q!PushBlockResume(s) PROVE SInv'
  <2>1. arg[s] \in Items
    BY <1>7 DEF Q!PushBlockResume, SInv, Places
  <2>. QED
    BY <1>3, <1>7, <2>1 DEF Q!PushBlockResume
<1>. QED
  BY <1>2, <1>5, <1>6, <1>7 DEF Send

-----------------------------------------------------------------------------
(* Popping: a worker that gets nothing leaves another one behind *)

LEMMA PopWaitStep ==
  ASSUME SInv, NEW w \in Workers, wpc[w] = "popping", Q!PopWait(w), UNCHANGED <<wpc, opc>>
  PROVE  SInv'
<1>1. w \in Users /\ w \notin Senders
  BY PoolAssumption DEF Users
<1>2. /\ qpc' = [qpc EXCEPT ![w] = "wait_empty"]
      /\ queue' = queue /\ arg' = arg /\ result' = result
  BY DEF Q!PopWait
<1>3. Places'
  BY <1>1, <1>2 DEF SInv, Places, QueuePcs
<1>4. qpc'[w] = "wait_empty" /\ \A u \in Workers \ {w} : qpc'[u] = qpc[u]
  BY <1>1, <1>2 DEF SInv, Places
<1>5. Staffed'
  BY <1>2, <1>4 DEF SInv, Staffed, Steady, Serving
<1>. QED
  BY <1>3, <1>5 DEF SInv

LEMMA PopGetStep ==
  ASSUME SInv, NEW w \in Workers, wpc[w] = "popping",
         Q!Pop(w) \/ Q!PopResume(w), opc' = opc,
         wpc' = [wpc EXCEPT ![w] = IF result'[w] \in Items THEN "handling" ELSE "finishing"]
  PROVE  SInv'
<1>1. w \in Users /\ w \notin Senders /\ Workers \subseteq Users /\ Senders \subseteq Users
  BY PoolAssumption DEF Users
<1> DEFINE p == [qpc EXCEPT ![w] = "idle"]
<1>2. p \in [Users -> QueuePcs]
  BY <1>1 DEF SInv, Places, QueuePcs
<1>3. qpc' \in Q!SignalFull(p) /\ arg' = arg /\ Q!TakeEntry(w)
  <2>1. ASSUME Q!Pop(w) PROVE qpc = p
    BY <2>1 DEF Q!Pop, SInv, Places
  <2>. QED
    BY <2>1 DEF Q!Pop, Q!PopResume
<1>4. /\ qpc' \in [Users -> QueuePcs]
      /\ \A u \in Users : qpc'[u] = p[u] \/ (p[u] = "wait_full" /\ qpc'[u] = "woken_full")
  BY <1>2, <1>3, FullSignal
<1>5. /\ p[w] = "idle"
      /\ \A u \in Users \ {w} : p[u] = qpc[u]
  BY <1>1 DEF SInv, Places
<1>6. qpc'[w] = "idle" /\ \A u \in Workers \ {w} : qpc'[u] = qpc[u]
  BY <1>1, <1>4, <1>5 DEF SInv, Places
<1>7. \A u \in Senders : \/ qpc'[u] = qpc[u]
                         \/ qpc[u] = "wait_full" /\ qpc'[u] = "woken_full"
  BY <1>1, <1>4, <1>5
<1>8. /\ \A u \in Workers \ {w} : wpc'[u] = wpc[u]
      /\ wpc'[w] = IF result'[w] \in Items THEN "handling" ELSE "finishing"
      /\ wpc' = [u \in Workers |-> wpc'[u]]
  BY DEF SInv, Places
<1>9. /\ result' = [t \in Users |-> result'[t]]
      /\ result'[w] = IF queue = <<>> THEN Empty ELSE Head(queue)
      /\ queue' = IF queue = <<>> THEN queue ELSE Tail(queue)
  BY <1>1, <1>3 DEF Q!TakeEntry, SInv, Places
<1>10. Places'
  BY <1>3, <1>4, <1>6, <1>7, <1>8, <1>9, ZenonT(30) DEF SInv, Places
<1>11. opc \in {"creating", "open"} => queue' \in Seq(Items)
  BY <1>9, HeadTailProperties DEF SInv, Staffed
<1>12. opc # "creating"
  <2>1. ASSUME opc = "creating" PROVE FALSE
    <3>1. qpc[w] \in {"idle", "wait_empty"} /\ queue = <<>>
      BY <2>1 DEF SInv, Staffed, Steady
    <3>. QED
      BY <3>1 DEF Q!Pop, Q!PopResume
  <2>. QED
    BY <2>1
<1>13. ASSUME opc = "open" PROVE \E u \in Workers : Steady(u)'
  <2>1. CASE queue # <<>>
    <3>1. Head(queue) \in Items
      BY <1>13, <2>1, HeadTailProperties DEF SInv, Staffed
    <3>2. Steady(w)'
      BY <1>8, <1>9, <2>1, <3>1 DEF Steady
    <3>. QED
      BY <3>2
  <2>2. CASE queue = <<>>
    <3>1. Q!PopResume(w) /\ qpc[w] = "woken_empty"
      BY <2>2 DEF Q!Pop, Q!PopResume
    <3>2. PICK u \in Workers : Steady(u)
      BY <1>13, <2>2 DEF SInv, Staffed
    <3>3. u # w
      BY <3>1, <3>2 DEF Steady
    <3>4. Steady(u)'
      BY <1>6, <1>8, <3>2, <3>3 DEF Steady
    <3>. QED
      BY <3>4
  <2>. QED
    BY <2>1, <2>2
<1>14. Staffed'
  BY <1>11, <1>12, <1>13 DEF Staffed
<1>. QED
  BY <1>10, <1>14 DEF SInv

-----------------------------------------------------------------------------
LEMMA SStep == SInv /\ [Next]_vars => SInv'
<1>. SUFFICES ASSUME SInv, [Next]_vars PROVE SInv'
  OBVIOUS
<1>1. CASE UNCHANGED vars
  BY <1>1 DEF SInv, Places, Staffed, Steady, Serving, vars, queueVars, poolVars
<1>2. ASSUME NEW w \in Workers, CreateWorker(w) PROVE SInv'
  BY <1>2 DEF CreateWorker, queueVars, SInv, Places, Staffed, Steady, Serving
<1>3. ASSUME NEW w \in Workers, Pop(w) PROVE SInv'
  BY <1>3, PopWaitStep, PopGetStep DEF Pop
<1>4. ASSUME NEW w \in Workers, Handle(w) PROVE SInv'
  BY <1>4 DEF Handle, queueVars, SInv, Places, Staffed, Steady, Serving
<1>5. ASSUME NEW w \in Workers, Finish(w) PROVE SInv'
  BY <1>5 DEF Finish, queueVars, SInv, Places, Staffed, Steady, Serving
<1>6. ASSUME NEW w \in Workers, WorkerAwait(w) PROVE SInv'
  BY <1>6 DEF WorkerAwait, queueVars, poolVars, SInv, Places, Staffed, Steady, Serving
<1>7. CASE InitDone
  <2>1. PICK w \in Workers : wpc[w] # "none"
    BY <1>7, PoolAssumption DEF InitDone, Created
  <2>2. Steady(w)
    BY <1>7, <2>1 DEF InitDone, SInv, Staffed
  <2>. QED
    BY <1>7, <2>2 DEF InitDone, queueVars, SInv, Places, Staffed, Steady
<1>8. ASSUME opc' \in {"closing", "freed"}, UNCHANGED <<queueVars, wpc>> PROVE SInv'
  BY <1>8 DEF queueVars, SInv, Places, Staffed
<1>9. CASE CreateFailed \/ Close \/ FreePool
  BY <1>8, <1>9 DEF CreateFailed, Close, FreePool
<1>10. ASSUME NEW s \in Senders, Send(s) PROVE SInv'
  BY <1>10, SendStep
<1>11. CASE PushExit
  <2>1. /\ opc = "closing" /\ opc' = opc /\ wpc' = wpc /\ arg' = arg /\ result' = result
        /\ qpc' \in Q!SignalEmpty(qpc)
    BY <1>11 DEF PushExit, Q!PushExit, poolVars
  <2>2. /\ qpc' \in [Users -> QueuePcs]
        /\ \A u \in Users : qpc'[u] = qpc[u] \/ (qpc[u] = "wait_empty" /\ qpc'[u] = "woken_empty")
    BY <2>1, EmptySignal DEF SInv, Places
  <2>3. Places'
    BY <2>1, <2>2 DEF SInv, Places, Users
  <2>. QED
    BY <2>1, <2>3 DEF SInv, Staffed
<1>12. CASE OwnerAwait
  BY <1>12 DEF OwnerAwait, queueVars, poolVars, SInv, Places, Staffed, Steady, Serving
<1>. QED
  BY <1>1, <1>2, <1>3, <1>4, <1>5, <1>6, <1>7, <1>9, <1>10, <1>11, <1>12
     DEF Next, WorkerStep, CloseStep

\* A worker whose wakeup was stolen ends (tpool.c:37), but not the last one: an
\* open pool has a worker that serves, whatever the numbers of threads.
THEOREM PoolStaffed == Spec => []AlwaysAWorker
<1>1. SInv => AlwaysAWorker
  BY DEF SInv, Staffed, Steady, Serving, AlwaysAWorker
<1>. QED
  BY <1>1, InitSInv, SStep, PTL DEF Spec

-----------------------------------------------------------------------------
(* Each request that is taken is handled exactly once *)

TakenAt(m) == {i \in DOMAIN taken : taken[i] = m}
HeldBy(m)  == {w \in Workers : wpc[w] = "handling" /\ result[w] = m}

\* A worker that handles holds a request, and TakenIsHandled in other words.
Accounted ==
  /\ queue \in Seq(Items \cup {Exit})
  /\ taken \in Seq(Items)
  /\ handled \in [Items -> Nat]
  /\ \A s \in Senders : qpc[s] # "idle" => arg[s] \in Items
  /\ \A w \in Workers : wpc[w] = "handling" => result[w] \in Items
  /\ \A m \in Items : Cardinality(TakenAt(m)) = handled[m] + Cardinality(HeldBy(m))

LEMMA Counted ==
  ASSUME Accounted, NEW m \in Items
  PROVE  /\ IsFiniteSet(TakenAt(m)) /\ Cardinality(TakenAt(m)) \in Nat
         /\ IsFiniteSet(HeldBy(m)) /\ Cardinality(HeldBy(m)) \in Nat
<1>1. DOMAIN taken = 1 .. Len(taken) /\ Len(taken) \in Nat
  BY DEF Accounted
<1>2. IsFiniteSet(1 .. Len(taken))
  BY <1>1, FS_Interval
<1>3. TakenAt(m) \subseteq 1 .. Len(taken) /\ HeldBy(m) \subseteq Workers
  BY <1>1 DEF TakenAt, HeldBy
<1>. QED
  BY <1>2, <1>3, FS_Subset, FS_CardinalityType, PoolAssumption

LEMMA InitAccounted == Init => Accounted
<1>. SUFFICES ASSUME Init PROVE Accounted
  OBVIOUS
<1>1. \A m \in Items : TakenAt(m) = {} /\ HeldBy(m) = {}
  BY DEF Init, Q!Init, TakenAt, HeldBy
<1>2. Cardinality({}) = 0
  BY FS_EmptySet
<1>3. queue \in Seq(Items \cup {Exit}) /\ taken \in Seq(Items) /\ handled \in [Items -> Nat]
  BY DEF Init, Q!Init
<1>4. \A m \in Items : Cardinality(TakenAt(m)) = handled[m] + Cardinality(HeldBy(m))
  BY <1>1, <1>2 DEF Init
<1>5. /\ \A s \in Senders : qpc[s] = "idle"
      /\ \A w \in Workers : wpc[w] = "none"
  BY DEF Init, Q!Init
<1>. QED
  BY <1>3, <1>4, <1>5 DEF Accounted

\* A step that neither takes nor handles a request.
LEMMA IdleAccounted ==
  ASSUME Accounted, UNCHANGED <<taken, handled, result>>,
         queue' \in Seq(Items \cup {Exit}),
         \A s \in Senders : qpc'[s] # "idle" => arg'[s] \in Items,
         \A w \in Workers : wpc'[w] = "handling" <=> wpc[w] = "handling"
  PROVE  Accounted'
<1>1. \A m \in Items : TakenAt(m)' = TakenAt(m) /\ HeldBy(m)' = HeldBy(m)
  BY DEF TakenAt, HeldBy
<1>. QED
  BY <1>1 DEF Accounted

LEMMA SendAccounted ==
  ASSUME SInv, Accounted, NEW s \in Senders, Send(s) PROVE Accounted'
<1>1. /\ UNCHANGED <<taken, handled, result, wpc>>
      /\ queue' = queue \/ \E m \in Items : queue' = Append(queue, m)
  BY DEF Send, poolVars, Q!PushBlockWait, Q!PushBlock, Q!PushFail, Q!PushBlockResume,
         Q!PushEntry, Accounted, SInv, Places
<1>2. queue' \in Seq(Items \cup {Exit})
  <2>1. \A m \in Items : m \in Items \cup {Exit}
    OBVIOUS
  <2>2. \A m \in Items : Append(queue, m) \in Seq(Items \cup {Exit})
    BY <2>1, AppendProperties DEF Accounted
  <2>. QED
    BY <1>1, <2>2 DEF Accounted
<1>3. \A u \in Senders : qpc'[u] # "idle" => arg'[u] \in Items
  BY SendStep DEF SInv, Places
<1>. QED
  BY <1>1, <1>2, <1>3, IdleAccounted

\* Taking a request and becoming its handler is one step.
LEMMA PopAccounted ==
  ASSUME SInv, Accounted, NEW w \in Workers, wpc[w] = "popping",
         Q!Pop(w) \/ Q!PopResume(w), UNCHANGED <<opc, handled>>,
         wpc' = [wpc EXCEPT ![w] = IF result'[w] \in Items THEN "handling" ELSE "finishing"]
  PROVE  Accounted'
<1>1. w \in Users /\ Workers \subseteq Users /\ Q!TakeEntry(w)
  BY DEF Users, Q!Pop, Q!PopResume
<1>2. /\ \A u \in Workers \ {w} : wpc'[u] = wpc[u] /\ result'[u] = result[u]
      /\ wpc'[w] = IF result'[w] \in Items THEN "handling" ELSE "finishing"
      /\ result'[w] = IF queue = <<>> THEN Empty ELSE Head(queue)
  BY <1>1 DEF SInv, Places, Q!TakeEntry
<1>3. \A s \in Senders : qpc'[s] # "idle" => arg'[s] \in Items
  BY PopGetStep DEF SInv, Places
<1>4. queue' \in Seq(Items \cup {Exit})
  BY <1>1, HeadTailProperties DEF Accounted, Q!TakeEntry
<1>5. \A m \in Items : w \notin HeldBy(m)
  BY DEF HeldBy
<1>6. CASE result'[w] \notin Items
  <2>1. taken' = taken
    BY <1>1, <1>2, <1>6, HeadTailProperties DEF Q!TakeEntry, Accounted
  <2>2. \A m \in Items : TakenAt(m)' = TakenAt(m) /\ HeldBy(m)' = HeldBy(m)
    BY <1>2, <1>5, <1>6, <2>1 DEF TakenAt, HeldBy
  <2>3. \A u \in Workers : wpc'[u] = "handling" => result'[u] \in Items
    BY <1>2, <1>6 DEF Accounted
  <2>4. \A m \in Items : Cardinality(TakenAt(m)') = handled'[m] + Cardinality(HeldBy(m)')
    BY <2>2 DEF Accounted
  <2>. QED
    BY <1>3, <1>4, <2>1, <2>3, <2>4 DEF Accounted
<1>7. CASE result'[w] \in Items
  <2> DEFINE n == Len(taken) + 1
  <2>. PICK x \in Items : x = result'[w]
    BY <1>7
  <2>1. queue # <<>> /\ x = Head(queue) /\ x # Exit
    BY <1>2, <1>7, PoolAssumption
  <2>2. taken' = Append(taken, x)
    BY <1>1, <2>1 DEF Q!TakeEntry
  <2>3. /\ taken' \in Seq(Items) /\ DOMAIN taken = 1 .. Len(taken) /\ Len(taken) \in Nat
        /\ DOMAIN taken' = 1 .. n
        /\ taken'[n] = x /\ \A i \in 1 .. Len(taken) : taken'[i] = taken[i]
    BY <1>7, <2>2, AppendProperties DEF Accounted
  <2>4. ASSUME NEW m \in Items, m # x
        PROVE  TakenAt(m)' = TakenAt(m) /\ HeldBy(m)' = HeldBy(m)
    <3>1. TakenAt(m)' = TakenAt(m)
      BY <2>3, <2>4 DEF TakenAt
    <3>2. HeldBy(m)' = HeldBy(m)
      BY <1>2, <1>5, <2>4 DEF HeldBy
    <3>. QED
      BY <3>1, <3>2
  <2>5. TakenAt(x)' = TakenAt(x) \cup {n} /\ n \notin TakenAt(x)
    BY <2>3 DEF TakenAt
  <2>6. HeldBy(x)' = HeldBy(x) \cup {w} /\ w \notin HeldBy(x)
    BY <1>2, <1>5, <1>7 DEF HeldBy
  <2>7. /\ Cardinality(TakenAt(x)') = Cardinality(TakenAt(x)) + 1
        /\ Cardinality(HeldBy(x)') = Cardinality(HeldBy(x)) + 1
    BY <1>7, <2>5, <2>6, Counted, FS_AddElement
  <2>8. Cardinality(TakenAt(x)') = handled'[x] + Cardinality(HeldBy(x)')
    BY <1>7, <2>7, Counted DEF Accounted
  <2>9. \A m \in Items : Cardinality(TakenAt(m)') = handled'[m] + Cardinality(HeldBy(m)')
    BY <2>4, <2>8 DEF Accounted
  <2>10. \A u \in Workers : wpc'[u] = "handling" => result'[u] \in Items
    BY <1>2, <1>7 DEF Accounted
  <2>. QED
    BY <1>3, <1>4, <2>3, <2>9, <2>10 DEF Accounted
<1>. QED
  BY <1>6, <1>7

LEMMA HandleAccounted ==
  ASSUME SInv, Accounted, NEW w \in Workers, Handle(w) PROVE Accounted'
<1>1. result[w] \in Items /\ wpc[w] = "handling"
  BY DEF Handle, Accounted
<1>. PICK x \in Items : x = result[w]
  BY <1>1
<1>2. /\ UNCHANGED <<queue, taken, result, qpc, arg>>
      /\ handled' = [handled EXCEPT ![x] = @ + 1]
      /\ wpc'[w] = "popping" /\ \A u \in Workers \ {w} : wpc'[u] = wpc[u]
  BY DEF Handle, queueVars, SInv, Places
<1>3. HeldBy(x)' = HeldBy(x) \ {w} /\ w \in HeldBy(x)
  BY <1>1, <1>2 DEF HeldBy
<1>4. \A m \in Items : TakenAt(m)' = TakenAt(m) /\ (m # x => HeldBy(m)' = HeldBy(m))
  BY <1>2 DEF TakenAt, HeldBy
<1>5. Cardinality(HeldBy(x)') = Cardinality(HeldBy(x)) - 1
  BY <1>1, <1>3, Counted, FS_RemoveElement
<1>6. /\ handled' \in [Items -> Nat] /\ handled'[x] = handled[x] + 1
      /\ \A m \in Items : m # x => handled'[m] = handled[m]
  BY <1>1, <1>2 DEF Accounted
<1>7. Cardinality(TakenAt(x)) = handled'[x] + Cardinality(HeldBy(x)')
  BY <1>1, <1>5, <1>6, Counted DEF Accounted
<1>8. \A m \in Items : Cardinality(TakenAt(m)') = handled'[m] + Cardinality(HeldBy(m)')
  BY <1>4, <1>6, <1>7 DEF Accounted
<1>. QED
  BY <1>2, <1>6, <1>8 DEF Accounted

LEMMA AccountedStep == SInv /\ Accounted /\ [Next]_vars => Accounted'
<1>. SUFFICES ASSUME SInv, Accounted, [Next]_vars PROVE Accounted'
  OBVIOUS
<1>0. ASSUME UNCHANGED <<queueVars, handled>>,
             \A w \in Workers : wpc'[w] = "handling" <=> wpc[w] = "handling"
      PROVE  Accounted'
  BY <1>0, IdleAccounted DEF queueVars, Accounted
<1>1. CASE UNCHANGED vars
  BY <1>0, <1>1 DEF vars, poolVars
<1>2. ASSUME NEW w \in Workers, CreateWorker(w) \/ Finish(w) PROVE Accounted'
  BY <1>0, <1>2 DEF CreateWorker, Finish, SInv, Places
<1>3. ASSUME NEW w \in Workers, Pop(w) PROVE Accounted'
  <2>1. ASSUME Q!PopWait(w), UNCHANGED <<wpc, handled>> PROVE Accounted'
    <3>1. w \in Users /\ w \notin Senders /\ Senders \subseteq Users
      BY PoolAssumption DEF Users
    <3>. QED
      BY <2>1, <3>1, IdleAccounted DEF Q!PopWait, Accounted, SInv, Places
  <2>. QED
    BY <1>3, <2>1, PopAccounted DEF Pop
<1>4. ASSUME NEW w \in Workers, Handle(w) PROVE Accounted'
  BY <1>4, HandleAccounted
<1>5. ASSUME NEW w \in Workers, WorkerAwait(w) PROVE Accounted'
  BY <1>0, <1>5 DEF WorkerAwait, poolVars
<1>6. CASE InitDone \/ CreateFailed \/ Close \/ FreePool
  BY <1>0, <1>6 DEF InitDone, CreateFailed, Close, FreePool
<1>7. ASSUME NEW s \in Senders, Send(s) PROVE Accounted'
  BY <1>7, SendAccounted
<1>8. CASE PushExit
  <2>1. queue' = <<Exit>> \o queue /\ UNCHANGED <<taken, result, handled, wpc, arg>>
    BY <1>8 DEF PushExit, Q!PushExit, poolVars
  <2>2. queue' \in Seq(Items \cup {Exit})
    BY <2>1 DEF Accounted
  <2>3. \A s \in Senders : qpc'[s] # "idle" => arg'[s] \in Items
    BY <1>8, SStep DEF Next, CloseStep, SInv, Places
  <2>. QED
    BY <2>1, <2>2, <2>3, IdleAccounted
<1>9. CASE OwnerAwait
  BY <1>0, <1>9 DEF OwnerAwait, poolVars
<1>. QED
  BY <1>1, <1>2, <1>3, <1>4, <1>5, <1>6, <1>7, <1>8, <1>9 DEF Next, WorkerStep, CloseStep

\* A request that left the queue was handled once or is in the hands of one
\* worker, for any number of workers, senders and requests (tpool.c:37-44).
THEOREM HandledOnce == Spec => []TakenIsHandled
<1>1. Accounted => TakenIsHandled
  BY DEF Accounted, TakenIsHandled, TakenAt, HeldBy
<1>. QED
  BY <1>1, InitSInv, SStep, InitAccounted, AccountedStep, PTL DEF Spec

-----------------------------------------------------------------------------
(* THREADPOOL_close waits for every worker there is, also when               *)
(* pthread_create failed half way and the barrier was made for fewer threads *)
(* than the pool was asked for.                                              *)

Entered == {t \in Parties : bth[t].entered = 1}

AwaitPcs == {"out", "blocked", "finished", "release", "leave", "harm"}

CondShapes == [parties : Nat \ {0}, left : Nat, is_broken : BOOLEAN, in_await : Int,
               blocked : Nat, in_await_blocked : Int, resets : Nat, destroyed : BOOLEAN]
ThreadShapes == [pc : AwaitPcs, todo : Nat, entered : Nat, passed : Nat]

\* The shapes of the barrier and of the threads at it; nobody resets or frees it.
Shapes ==
  /\ cond \in CondShapes /\ bth \in [Parties -> ThreadShapes]
  /\ ~cond.is_broken /\ cond.resets = 0
  /\ \A t \in Parties : bth[t].entered <= 1

\* Nobody is at the barrier before it is initialised.
NotYet ==
  /\ Entered = {}
  /\ \A t \in Parties : bth[t].pc = "out" /\ bth[t].passed = 0

\* Once it is, left counts the threads of the pool that have not come, and while
\* it is positive nobody gets through.
Expected ==
  /\ cond.left + Cardinality(Entered) = Cardinality(Created) + 1
  /\ \A w \in Workers : bth[w].entered = 1 => wpc[w] = "awaiting"
  /\ cond.left > 0 =>
       /\ cond.blocked = 0
       /\ \A t \in Parties : bth[t].pc \in {"out", "blocked"} /\ bth[t].passed = 0

CInv ==
  /\ Shapes
  /\ IF opc = "creating" THEN NotYet ELSE Expected
  /\ opc = "freed" => cond.left = 0

-----------------------------------------------------------------------------
\* The threads that may come are the workers there are, and the owner.
LEMMA Comers ==
  ASSUME Expected
  PROVE  /\ Cardinality(Entered) \in Nat /\ Cardinality(Created) \in Nat
         /\ IsFiniteSet(Entered)
         /\ Entered \subseteq Created \cup {Owner}
         /\ IsFiniteSet(Created \cup {Owner})
         /\ Cardinality(Created \cup {Owner}) = Cardinality(Created) + 1
<1>1. Created \subseteq Workers /\ Owner \notin Created
  BY PoolAssumption DEF Created
<1>2. IsFiniteSet(Created) /\ Cardinality(Created) \in Nat
  BY <1>1, FS_Subset, FS_CardinalityType, PoolAssumption
<1>3. IsFiniteSet(Created \cup {Owner}) /\ Cardinality(Created \cup {Owner}) = Cardinality(Created) + 1
  BY <1>1, <1>2, FS_AddElement
<1>4. Entered \subseteq Created \cup {Owner}
  BY DEF Entered, Expected, Created, Parties
<1>5. IsFiniteSet(Entered) /\ Cardinality(Entered) \in Nat
  BY <1>3, <1>4, FS_Subset, FS_CardinalityType
<1>. QED
  BY <1>2, <1>3, <1>4, <1>5

\* When nobody is missing, every worker there is has come.
LEMMA AllCame ==
  ASSUME Expected, cond.left = 0
  PROVE  \A w \in Workers : wpc[w] \in {"none", "awaiting"}
<1>1. Cardinality(Entered) = Cardinality(Created \cup {Owner})
  BY Comers DEF Expected
<1>2. Entered = Created \cup {Owner}
  BY <1>1, Comers, FS_Subset
<1>3. ASSUME NEW w \in Workers, wpc[w] # "none" PROVE wpc[w] = "awaiting"
  <2>1. w \in Entered
    BY <1>2, <1>3 DEF Created
  <2>. QED
    BY <2>1 DEF Entered, Expected
<1>. QED
  BY <1>3

LEMMA InitCInv == Init => CInv
<1>. SUFFICES ASSUME Init PROVE CInv
  OBVIOUS
<1>1. num_threads + 1 \in Nat \ {0}
  BY FS_CardinalityType, PoolAssumption DEF num_threads
<1>2. cond = B!NewBarrier(num_threads + 1)
  BY DEF Init, B!Init
<1>3. bth = [t \in Parties |-> [pc |-> "out", todo |-> 0, entered |-> 0, passed |-> 0]]
  BY DEF Init, B!Init
<1>4. opc = "creating"
  BY DEF Init
<1>5. Shapes
  BY <1>1, <1>2, <1>3 DEF Shapes, CondShapes, ThreadShapes, AwaitPcs, B!NewBarrier
<1>6. NotYet
  BY <1>3 DEF NotYet, Entered
<1>. QED
  BY <1>4, <1>5, <1>6 DEF CInv

-----------------------------------------------------------------------------
(* At the barrier *)

LEMMA EnterExpected ==
  ASSUME CInv, opc # "creating", opc # "freed", NEW t \in Parties, B!Enter(t),
         t \in Workers => wpc[t] = "awaiting", t # Owner => t \in Workers,
         UNCHANGED <<wpc, opc>>
  PROVE  CInv'
<1> DEFINE left == IF cond.left > 0 THEN cond.left - 1 ELSE 0
           to == IF left = 0 THEN "finished" ELSE "blocked"
<1>. Shapes /\ Expected
  BY DEF CInv
<1>1. /\ bth[t].pc = "out" /\ bth[t].entered = 0
      /\ cond' = [cond EXCEPT !.in_await = @ + 1, !.left = left]
      /\ bth' = [bth EXCEPT ![t].pc = to, ![t].entered = @ + 1]
  BY DEF B!Enter, Shapes, CondShapes, ThreadShapes
<1>2. left \in Nat /\ to \in AwaitPcs
  BY DEF Shapes, CondShapes, AwaitPcs
<1>. HIDE DEF left, to
<1>3. Shapes'
  <2>1. cond' \in CondShapes /\ ~cond'.is_broken /\ cond'.resets = 0
    <3>1. cond.in_await + 1 \in Int
      BY DEF Shapes, CondShapes
    <3>2. cond' = [cond EXCEPT !.in_await = cond.in_await + 1, !.left = left]
      BY <1>1
    <3>. QED
      BY <1>2, <3>1, <3>2 DEF Shapes, CondShapes
  <2>2. bth' \in [Parties -> ThreadShapes]
    BY <1>1, <1>2 DEF Shapes, ThreadShapes
  <2>3. \A u \in Parties : bth'[u].entered <= 1
    BY <1>1 DEF Shapes, ThreadShapes
  <2>. QED
    BY <2>1, <2>2, <2>3 DEF Shapes
<1>4. /\ bth'[t].entered = 1 /\ bth'[t].pc = to /\ bth'[t].passed = bth[t].passed
      /\ \A u \in Parties \ {t} : bth'[u] = bth[u]
      /\ cond'.left = left /\ cond'.blocked = cond.blocked
  BY <1>1 DEF Shapes, CondShapes, ThreadShapes
<1>5. Entered' = Entered \cup {t} /\ t \notin Entered
  <2>1. \A u \in Parties : bth'[u].entered = 1 <=> bth[u].entered = 1 \/ u = t
    BY <1>4
  <2>2. \A u : u \in Entered' <=> u \in Parties /\ bth'[u].entered = 1
    BY DEF Entered
  <2>3. \A u : u \in Entered <=> u \in Parties /\ bth[u].entered = 1
    BY DEF Entered
  <2>4. t \notin Entered
    BY <1>1, <2>3
  <2>5. \A u : u \in Entered' <=> u \in Entered \cup {t}
    BY <2>1, <2>2, <2>3
  <2>. QED
    BY <2>4, <2>5
<1>6. Cardinality(Entered') = Cardinality(Entered) + 1
  BY <1>5, Comers, FS_AddElement
<1>7. Entered \cup {t} \subseteq Created \cup {Owner}
  BY Comers DEF Created
<1>8. Cardinality(Entered \cup {t}) <= Cardinality(Created) + 1
  BY <1>7, Comers, FS_Subset
<1>9. cond.left > 0
  <2>1. cond.left + Cardinality(Entered) = Cardinality(Created) + 1 /\ cond.left \in Nat
    BY DEF Expected, Shapes, CondShapes
  <2>. QED
    BY <1>5, <1>6, <1>8, <2>1, Comers
<1>10. left = cond.left - 1
  BY <1>9 DEF left
<1>11. cond'.left + Cardinality(Entered') = Cardinality(Created') + 1
  <2>1. Created' = Created
    BY DEF Created
  <2>2. cond.left + Cardinality(Entered) = Cardinality(Created) + 1 /\ cond.left \in Nat
    BY DEF Expected, Shapes, CondShapes
  <2>. QED
    BY <1>4, <1>6, <1>10, <2>1, <2>2, Comers
<1>12. \A w \in Workers : bth'[w].entered = 1 => wpc'[w] = "awaiting"
  BY <1>4 DEF Expected, Parties
<1>13. ASSUME cond'.left > 0
       PROVE  /\ cond'.blocked = 0
              /\ \A u \in Parties : bth'[u].pc \in {"out", "blocked"} /\ bth'[u].passed = 0
  <2>1. to = "blocked"
    BY <1>4, <1>13 DEF to
  <2>. QED
    BY <1>4, <1>9, <2>1 DEF Expected
<1>14. Expected'
  BY <1>11, <1>12, <1>13 DEF Expected
<1>. QED
  BY <1>3, <1>14 DEF CInv

LEMMA AwaitExpected ==
  ASSUME CInv, opc # "creating", NEW t \in Parties, B!AwaitStep(t), UNCHANGED <<wpc, opc>>
  PROVE  CInv'
<1>. Shapes /\ Expected
  BY DEF CInv
<1>1. /\ Shapes' /\ cond'.left = cond.left
      /\ \A u \in Parties : bth'[u].entered = bth[u].entered
  <2>0. ASSUME cond' \in CondShapes, UNCHANGED <<cond.is_broken, cond.resets, cond.left>>,
               bth' \in [Parties -> ThreadShapes],
               bth'[t].entered = bth[t].entered, \A u \in Parties \ {t} : bth'[u] = bth[u]
        PROVE  /\ Shapes' /\ cond'.left = cond.left
               /\ \A u \in Parties : bth'[u].entered = bth[u].entered
    BY <2>0 DEF Shapes
  <2>. cond \in CondShapes /\ bth \in [Parties -> ThreadShapes]
    BY DEF Shapes
  <2>1. CASE B!Unblock(t)
    BY <2>0, <2>1 DEF CondShapes, ThreadShapes, AwaitPcs, B!Unblock, B!Goto
  <2>2. CASE B!ReadBroken(t)
    <3>1. \E to \in AwaitPcs, n \in Nat : bth' = [bth EXCEPT ![t].pc = to, ![t].todo = n]
      <4>1. cond.parties - 1 \in Nat
        BY DEF CondShapes
      <4>2. bth' = [bth EXCEPT ![t].pc = "release", ![t].todo = cond.parties - 1]
        BY <2>2 DEF B!ReadBroken, Shapes
      <4>. QED
        BY <4>1, <4>2 DEF AwaitPcs
    <3>2. cond' = cond
      BY <2>2 DEF B!ReadBroken
    <3>. QED
      BY <2>0, <3>1, <3>2, ZenonT(30) DEF ThreadShapes
  <2>3. CASE B!Post(t)
    <3>1. bth[t].todo - 1 \in Nat
      BY <2>3 DEF B!Post, ThreadShapes
    <3>. QED
      BY <2>0, <2>3, <3>1 DEF CondShapes, ThreadShapes, B!Post
  <2>4. CASE B!Released(t)
    BY <2>0, <2>4 DEF ThreadShapes, AwaitPcs, B!Released, B!Goto
  <2>5. CASE B!Leave(t)
    <3> DEFINE to == IF cond.in_await = 1 THEN "harm" ELSE "out"
               n == IF cond.in_await = 1 THEN bth[t].passed ELSE bth[t].passed + 1
    <3>1. to \in AwaitPcs /\ n \in Nat
      BY DEF AwaitPcs, ThreadShapes
    <3>2. bth' = [bth EXCEPT ![t].pc = to, ![t].passed = n]
      BY <2>5 DEF B!Leave
    <3>. HIDE DEF to, n
    <3>3. /\ bth' \in [Parties -> ThreadShapes] /\ bth'[t].entered = bth[t].entered
          /\ \A u \in Parties \ {t} : bth'[u] = bth[u]
      BY <3>1, <3>2 DEF ThreadShapes
    <3>4. cond' \in CondShapes /\ UNCHANGED <<cond.is_broken, cond.resets, cond.left>>
      BY <2>5 DEF B!Leave, CondShapes
    <3>. QED
      BY <2>0, <3>3, <3>4
  <2>6. CASE B!PostHarm(t)
    BY <2>0, <2>6 DEF CondShapes, ThreadShapes, AwaitPcs, B!PostHarm
  <2>. QED
    BY <2>1, <2>2, <2>3, <2>4, <2>5, <2>6 DEF B!AwaitStep
<1>2. cond.left = 0
  <2>1. ASSUME cond.left > 0 PROVE FALSE
    <3>1. cond.blocked = 0 /\ bth[t].pc \in {"out", "blocked"}
      BY <2>1 DEF Expected
    <3>. QED
      BY <3>1 DEF B!AwaitStep, B!Unblock, B!ReadBroken, B!Post, B!Released, B!Leave,
                  B!PostHarm, B!Goto
  <2>. QED
    BY <2>1 DEF Shapes, CondShapes
<1>3. Entered' = Entered /\ Created' = Created
  BY <1>1 DEF Entered, Created
<1>4. Workers \subseteq Parties
  BY DEF Parties
<1>5. Expected'
  BY <1>1, <1>2, <1>3, <1>4 DEF Expected
<1>. QED
  BY <1>1, <1>2, <1>5 DEF CInv

-----------------------------------------------------------------------------
\* A step away from the barrier that leaves the set of workers alone, and moves
\* none that has come to the barrier.
LEMMA AwayKeeps ==
  ASSUME CInv, UNCHANGED <<barrierVars, opc>>, opc # "creating" => Created' = Created,
         \A w \in Workers : wpc[w] = "awaiting" => wpc'[w] = "awaiting"
  PROVE  CInv'
<1>1. UNCHANGED <<cond, bth, opc>> /\ Entered' = Entered
  BY DEF barrierVars, Entered
<1>2. Shapes'
  BY <1>1 DEF CInv, Shapes
<1>3. CASE opc = "creating"
  BY <1>1, <1>2, <1>3 DEF CInv, NotYet
<1>4. CASE opc # "creating"
  <2>1. Expected'
    BY <1>1, <1>4 DEF CInv, Expected
  <2>. QED
    BY <1>1, <1>2, <1>4, <2>1 DEF CInv
<1>. QED
  BY <1>3, <1>4

\* The barrier is made for the workers there are and the owner.
LEMMA Initialised ==
  ASSUME SInv, CInv, opc = "creating", opc' \in {"open", "closing"},
         cond' = B!NewBarrier(Cardinality(Created) + 1), UNCHANGED <<bth, wpc>>
  PROVE  CInv'
<1>1. Created \subseteq Workers
  BY DEF Created
<1>2. Cardinality(Created) \in Nat
  BY <1>1, FS_Subset, FS_CardinalityType, PoolAssumption
<1>3. Created' = Created /\ Entered' = {} /\ Entered = {}
  BY DEF Created, Entered, CInv, NotYet
<1>4. Shapes'
  BY <1>2 DEF CInv, Shapes, CondShapes, B!NewBarrier
<1>5. /\ cond'.left = Cardinality(Created) + 1 /\ cond'.blocked = 0
      /\ \A t \in Parties : bth'[t].pc = "out" /\ bth'[t].passed = 0
  BY DEF B!NewBarrier, CInv, NotYet
<1>6. \A w \in Workers : bth'[w].entered # 1
  BY <1>3 DEF Entered, Parties
<1>7. Expected'
  BY <1>2, <1>3, <1>5, <1>6, FS_EmptySet DEF Expected
<1>. QED
  BY <1>4, <1>7 DEF CInv

LEMMA CStep == SInv /\ CInv /\ [Next]_vars => CInv'
<1>. SUFFICES ASSUME SInv, CInv, [Next]_vars PROVE CInv'
  OBVIOUS
<1>0. ASSUME UNCHANGED <<barrierVars, wpc, opc>> PROVE CInv'
  BY <1>0, AwayKeeps DEF Created
<1>1. CASE UNCHANGED vars
  BY <1>0, <1>1 DEF vars, poolVars
<1>2. ASSUME NEW w \in Workers, CreateWorker(w) PROVE CInv'
  <2>1. \A u \in Workers : wpc[u] = "awaiting" => wpc'[u] = "awaiting"
    BY <1>2 DEF CreateWorker, SInv, Places
  <2>. QED
    BY <1>2, <2>1, AwayKeeps DEF CreateWorker
<1>3. ASSUME NEW w \in Workers, Pop(w) \/ Handle(w) \/ Finish(w) PROVE CInv'
  <2>1. /\ wpc' = wpc \/ \E to \in {"popping", "handling", "finishing", "awaiting"} :
                             wpc' = [wpc EXCEPT ![w] = to]
        /\ wpc[w] \in {"popping", "handling", "finishing"}
        /\ UNCHANGED <<barrierVars, opc>>
    BY <1>3 DEF Pop, Handle, Finish
  <2>2. /\ \A u \in Workers : wpc[u] = "awaiting" => wpc'[u] = "awaiting"
        /\ \A u \in Workers : wpc[u] # "none" <=> wpc'[u] # "none"
    BY <2>1 DEF SInv, Places
  <2>3. Created' = Created
    BY <2>2 DEF Created
  <2>. QED
    BY <2>1, <2>2, <2>3, AwayKeeps
<1>4. ASSUME NEW w \in Workers, WorkerAwait(w) PROVE CInv'
  <2>1. /\ wpc[w] = "awaiting"
        /\ B!Enter(w) \/ B!AwaitStep(w)
        /\ UNCHANGED <<wpc, opc>> /\ w \in Parties
    BY <1>4 DEF WorkerAwait, poolVars, Parties
  <2>2. opc # "creating"
    BY <2>1 DEF SInv, Staffed, Steady
  <2>3. B!Enter(w) => opc # "freed"
    <3>. SUFFICES ASSUME B!Enter(w), opc = "freed" PROVE FALSE
      OBVIOUS
    <3>1. Expected /\ cond.left = 0 /\ bth[w].entered = 0
      BY <2>1, <2>2 DEF CInv, B!Enter, Shapes, ThreadShapes
    <3>2. Entered = Created \cup {Owner}
      BY <3>1, Comers, FS_Subset DEF Expected
    <3>3. w \in Entered
      BY <2>1, <3>2 DEF Created
    <3>. QED
      BY <3>1, <3>3 DEF Entered
  <2>. QED
    BY <2>1, <2>2, <2>3, EnterExpected, AwaitExpected
<1>5. CASE InitDone
  BY <1>5, Initialised DEF InitDone, num_threads
<1>6. CASE CreateFailed
  BY <1>6, Initialised DEF CreateFailed
<1>7. ASSUME NEW s \in Senders, Send(s) PROVE CInv'
  BY <1>0, <1>7 DEF Send, poolVars
<1>8. CASE Close
  BY <1>8 DEF Close, barrierVars, CInv, Shapes, Expected, Entered, Created
<1>9. CASE PushExit
  BY <1>0, <1>9 DEF PushExit, poolVars
<1>10. CASE OwnerAwait
  <2>1. /\ opc = "closing"
        /\ B!Enter(Owner) \/ B!AwaitStep(Owner)
        /\ UNCHANGED <<wpc, opc>> /\ Owner \in Parties /\ Owner \notin Workers
    BY <1>10, PoolAssumption DEF OwnerAwait, poolVars, Parties
  <2>. QED
    BY <2>1, EnterExpected, AwaitExpected
<1>11. CASE FreePool
  <2>1. opc = "closing" /\ bth[Owner].passed = 1 /\ Owner \in Parties
    BY <1>11 DEF FreePool, Parties
  <2>2. cond.left = 0
    BY <2>1 DEF CInv, Expected, Shapes, CondShapes
  <2>. QED
    BY <1>11, <2>1, <2>2 DEF FreePool, barrierVars, CInv, Shapes, Expected, Entered, Created
<1>. QED
  BY <1>1, <1>2, <1>3, <1>4, <1>5, <1>6, <1>7, <1>8, <1>9, <1>10, <1>11
     DEF Next, WorkerStep, CloseStep

\* When THREADPOOL_close frees the pool no worker is in its loop, in a callback
\* or on its way to the barrier (tpool.c:131-134), for any number of workers,
\* also when only some of them could be created.
THEOREM CloseWaits == Spec => []NoCallbackAfterFree
<1>1. CInv => NoCallbackAfterFree
  BY AllCame DEF CInv, NoCallbackAfterFree
<1>. QED
  BY <1>1, InitSInv, SStep, InitCInv, CStep, PTL DEF Spec
=============================================================================
