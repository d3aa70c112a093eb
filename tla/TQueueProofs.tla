---------------------------- MODULE TQueueProofs ----------------------------
(***************************************************************************)
(* Theorems about TQueue, for any number of threads, items and slots: the  *)
(* waiters are counted and served, and TQueue implements FifoQueue.        *)
(***************************************************************************)
EXTENDS TQueue, FiniteSetTheorems, SequenceTheorems, TLAPS

-----------------------------------------------------------------------------
(* Counting threads *)

\* The number of threads that p puts in a state.
N(p, state) == Cardinality(ThreadsAt(p, state))

LEMMA CountType ==
  ASSUME NEW p, NEW s
  PROVE  /\ IsFiniteSet(ThreadsAt(p, s))
         /\ N(p, s) \in Nat
         /\ N(p, s) = 0 <=> ThreadsAt(p, s) = {}
<1>1. ThreadsAt(p, s) \subseteq Threads
  BY DEF ThreadsAt
<1>2. IsFiniteSet(ThreadsAt(p, s))
  BY <1>1, FS_Subset, ThreadsAssumption
<1>. QED
  BY <1>2, FS_CardinalityType, FS_EmptySet DEF N

Moved(p, t, state) == [p EXCEPT ![t] = state]

\* Moving one thread from one state to another changes the two counts by one.
LEMMA CountMove ==
  ASSUME NEW p \in [Threads -> PcStates], NEW t \in Threads, NEW s \in PcStates,
         p[t] # s
  PROVE  /\ Moved(p, t, s) \in [Threads -> PcStates]
         /\ N(Moved(p, t, s), p[t]) = N(p, p[t]) - 1
         /\ N(Moved(p, t, s), s) = N(p, s) + 1
         /\ \A x : x \notin {s, p[t]} => N(Moved(p, t, s), x) = N(p, x)
<1> DEFINE q == Moved(p, t, s)
<1>1. q \in [Threads -> PcStates]
  BY DEF Moved
<1>2. N(q, p[t]) = N(p, p[t]) - 1
  <2>1. ThreadsAt(q, p[t]) = ThreadsAt(p, p[t]) \ {t} /\ t \in ThreadsAt(p, p[t])
    BY DEF ThreadsAt, Moved
  <2>. QED
    BY <2>1, CountType, FS_RemoveElement, ZenonT(30) DEF N
<1>3. N(q, s) = N(p, s) + 1
  <2>1. ThreadsAt(q, s) = ThreadsAt(p, s) \cup {t} /\ t \notin ThreadsAt(p, s)
    BY DEF ThreadsAt, Moved
  <2>. QED
    BY <2>1, CountType, FS_AddElement DEF N
<1>4. ASSUME NEW x, x \notin {s, p[t]} PROVE N(q, x) = N(p, x)
  <2>1. ThreadsAt(q, x) = ThreadsAt(p, x)
    BY <1>4 DEF ThreadsAt, Moved
  <2>. QED
    BY <2>1 DEF N
<1>. QED
  BY <1>1, <1>2, <1>3, <1>4

\* A signal moves one thread when one is blocked and is lost otherwise.
LEMMA CountSignal ==
  ASSUME NEW p \in [Threads -> PcStates],
         NEW from \in PcStates, NEW to \in PcStates, from # to,
         NEW q \in Signalled(p, from, to)
  PROVE  /\ q \in [Threads -> PcStates]
         /\ \/ N(p, from) = 0 /\ q = p
            \/ /\ N(p, from) > 0
               /\ N(q, from) = N(p, from) - 1
               /\ N(q, to) = N(p, to) + 1
               /\ \A x : x \notin {from, to} => N(q, x) = N(p, x)
<1>1. CASE ThreadsAt(p, from) = {}
  BY <1>1, CountType DEF Signalled
<1>2. CASE ThreadsAt(p, from) # {}
  <2>1. PICK t \in ThreadsAt(p, from) : q = Moved(p, t, to)
    BY <1>2 DEF Signalled, Moved
  <2>2. t \in Threads /\ p[t] = from
    BY <2>1 DEF ThreadsAt
  <2>a. p[t] # to /\ t \in Threads
    BY <2>2
  <2>b. q = Moved(p, t, to)
    BY <2>1
  <2>3. /\ q \in [Threads -> PcStates]
        /\ N(q, p[t]) = N(p, p[t]) - 1
        /\ N(q, to) = N(p, to) + 1
        /\ \A x : x \notin {to, p[t]} => N(q, x) = N(p, x)
    BY <2>a, <2>b, CountMove
  <2>4. N(p, from) \in Nat /\ N(p, from) # 0
    BY <1>2, CountType
  <2>. QED
    BY <2>2, <2>3, <2>4
<1>. QED
  BY <1>1, <1>2

\* What the guarded signal of a pusher does to the counts.
LEMMA SignalEmptyEffect ==
  ASSUME NEW p \in [Threads -> PcStates], NEW q \in SignalEmpty(p),
         waiting_empty \in Nat, waiting_empty >= N(p, "wait_empty")
  PROVE  /\ q \in [Threads -> PcStates]
         /\ N(q, "wait_full") = N(p, "wait_full")
         /\ N(q, "woken_full") = N(p, "woken_full")
         /\ \/ N(p, "wait_empty") = 0 /\ q = p
            \/ /\ N(p, "wait_empty") > 0
               /\ N(q, "wait_empty") = N(p, "wait_empty") - 1
               /\ N(q, "woken_empty") = N(p, "woken_empty") + 1
<1>1. CASE waiting_empty > 0
  BY <1>1, CountSignal DEF SignalEmpty, PcStates
<1>2. CASE waiting_empty = 0
  BY <1>2, CountType DEF SignalEmpty
<1>. QED
  BY <1>1, <1>2

\* What the guarded signal of a popper does to the counts.
LEMMA SignalFullEffect ==
  ASSUME NEW p \in [Threads -> PcStates], NEW q \in SignalFull(p),
         waiting_full \in Nat, waiting_full >= N(p, "wait_full")
  PROVE  /\ q \in [Threads -> PcStates]
         /\ N(q, "wait_empty") = N(p, "wait_empty")
         /\ N(q, "woken_empty") = N(p, "woken_empty")
         /\ \/ N(p, "wait_full") = 0 /\ q = p
            \/ /\ N(p, "wait_full") > 0
               /\ N(q, "wait_full") = N(p, "wait_full") - 1
               /\ N(q, "woken_full") = N(p, "woken_full") + 1
<1>1. CASE waiting_full # 0
  BY <1>1, CountSignal DEF SignalFull, PcStates
<1>2. CASE waiting_full = 0
  BY <1>2, CountType DEF SignalFull
<1>. QED
  BY <1>1, <1>2

-----------------------------------------------------------------------------
(* Types *)

\* A producer inside pthread_cond_wait holds the item it came with.
Holding ==
  \A t \in Threads : pc[t] \in {"wait_full", "woken_full"} =>
                       t \in BlockPushers /\ arg[t] \in Items

\* A signal to cond_empty makes no thread a holder, one to cond_max only
\* threads that were.
LEMMA SignalKeepsHolders ==
  ASSUME NEW p \in [Threads -> PcStates],
         NEW q \in SignalEmpty(p) \cup SignalFull(p), NEW t \in Threads
  PROVE  /\ q \in [Threads -> PcStates]
         /\ q[t] \in {"wait_full", "woken_full"} => p[t] \in {"wait_full", "woken_full"}
<1>1. CASE q = p
  BY <1>1
<1>2. CASE \E u \in ThreadsAt(p, "wait_empty") : q = [p EXCEPT ![u] = "woken_empty"]
  BY <1>2 DEF ThreadsAt, PcStates
<1>3. CASE \E u \in ThreadsAt(p, "wait_full") : q = [p EXCEPT ![u] = "woken_full"]
  BY <1>3 DEF ThreadsAt, PcStates
<1>. QED
  BY <1>1, <1>2, <1>3 DEF SignalEmpty, SignalFull, Signalled

\* The list after a pop.
LEMMA TakeEntryType ==
  ASSUME TypeOK, NEW t \in Threads, TakeEntry(t)
  PROVE  /\ queue' \in Seq(Entries)
         /\ taken' \in Seq(Items)
         /\ result' \in [Threads -> Entries \cup {Empty, NoItem}]
<1>1. CASE queue = <<>>
  BY <1>1 DEF TypeOK, TakeEntry
<1>2. CASE queue # <<>>
  <2>1. Head(queue) \in Entries /\ Tail(queue) \in Seq(Entries)
    BY <1>2, HeadTailProperties DEF TypeOK
  <2>2. taken' \in Seq(Items)
    <3>1. CASE Head(queue) = Exit
      BY <1>2, <3>1 DEF TakeEntry, TypeOK
    <3>2. CASE Head(queue) # Exit
      <4>1. Head(queue) \in Items /\ taken \in Seq(Items)
        BY <2>1, <3>2 DEF Entries, TypeOK
      <4>2. taken' = Append(taken, Head(queue))
        BY <1>2, <3>2 DEF TakeEntry
      <4>. QED
        BY <4>1, <4>2, AppendProperties
    <3>. QED
      BY <3>1, <3>2
  <2>3. result' = [result EXCEPT ![t] = Head(queue)] /\ queue' = Tail(queue)
    BY <1>2 DEF TakeEntry
  <2>. QED
    BY <2>1, <2>2, <2>3 DEF TypeOK
<1>. QED
  BY <1>1, <1>2

\* The list after a push.
LEMMA PushEntryType ==
  ASSUME TypeOK, NEW t \in Threads, NEW m \in Items, PushEntry(t, m)
  PROVE  /\ queue' \in Seq(Entries)
         /\ pc' \in [Threads -> PcStates]
         /\ \A u \in Threads : pc'[u] \in {"wait_full", "woken_full"} =>
                                 u # t /\ pc[u] \in {"wait_full", "woken_full"}
<1> DEFINE p == [pc EXCEPT ![t] = "idle"]
<1>1. p \in [Threads -> PcStates]
  BY DEF TypeOK, PcStates
<1>2. pc' \in SignalEmpty(p) \/ pc' = p
  BY DEF PushEntry
<1>3. queue' \in Seq(Entries)
  <2>1. queue \in Seq(Entries) /\ m \in Entries
    BY DEF TypeOK, Entries
  <2>. QED
    BY <2>1, AppendProperties DEF PushEntry
<1>4. /\ pc' \in [Threads -> PcStates]
      /\ \A u \in Threads : pc'[u] \in {"wait_full", "woken_full"} =>
                              p[u] \in {"wait_full", "woken_full"}
  <2>1. CASE pc' = p
    BY <1>1, <2>1
  <2>2. CASE pc' \in SignalEmpty(p)
    <3> HIDE DEF p
    <3>. QED
      BY <1>1, <2>2, SignalKeepsHolders
  <2>. QED
    BY <1>2, <2>1, <2>2
<1>. QED
  BY <1>3, <1>4 DEF TypeOK

\* waiting_empty counts the threads between its increment and its decrement.
EmptyCounted ==
  waiting_empty = N(pc, "wait_empty") + N(pc, "woken_empty")

\* The list after an exit message.
LEMMA ExitInFront ==
  ASSUME NEW q \in Seq(Entries)
  PROVE  <<Exit>> \o q \in Seq(Entries) /\ Len(<<Exit>> \o q) = Len(q) + 1
<1>1. Exit \in Entries
  BY DEF Entries
<1> DEFINE e == <<Exit>>
<1>2. e \in Seq(Entries) /\ Len(e) = 1
  BY <1>1
<1> HIDE DEF e
<1>3. e \o q \in Seq(Entries) /\ Len(e \o q) = Len(e) + Len(q)
  BY <1>2, ConcatProperties
<1>4. Len(q) \in Nat
  BY LenProperties
<1>. QED
  BY <1>2, <1>3, <1>4 DEF e

\* Types and holders are preserved by every step.
LEMMA TypeStep ==
  ASSUME TypeOK, Holding, EmptyCounted, [Next]_vars
  PROVE  TypeOK' /\ Holding'
<1> USE DEF TypeOK, Holding
<1>1. ASSUME NEW t \in Threads, NEW m \in Items, PushBlockWait(t, m)
      PROVE  TypeOK' /\ Holding'
  BY <1>1 DEF PushBlockWait, NewItem, PcStates
<1>2. ASSUME NEW t \in Threads, NEW m \in Items, PushBlock(t, m)
      PROVE  TypeOK' /\ Holding'
  BY <1>2, PushEntryType DEF PushBlock, NewItem
<1>3. ASSUME NEW t \in Threads, NEW m \in Items, PushFail(t, m)
      PROVE  TypeOK' /\ Holding'
  <2>1. CASE ~Full /\ PushEntry(t, m)
    BY <1>3, <2>1, PushEntryType DEF PushFail, NewItem
  <2>2. CASE Full /\ UNCHANGED <<queue, pc>>
    BY <1>3, <2>2 DEF PushFail, NewItem
  <2>. QED
    BY <1>3, <2>1, <2>2 DEF PushFail
<1>4. ASSUME NEW t \in Threads, PushBlockResume(t)
      PROVE  TypeOK' /\ Holding'
  <2>1. arg[t] \in Items /\ PushEntry(t, arg[t])
    BY <1>4 DEF PushBlockResume
  <2>2. /\ queue' \in Seq(Entries)
        /\ pc' \in [Threads -> PcStates]
        /\ \A u \in Threads : pc'[u] \in {"wait_full", "woken_full"} =>
                                u # t /\ pc[u] \in {"wait_full", "woken_full"}
    BY <2>1, PushEntryType
  <2>3. /\ waiting_full' \in Nat
        /\ arg' \in [Threads -> Items \cup {NoItem}]
        /\ UNCHANGED <<waiting_empty, result, used, taken, exits>>
    BY <1>4 DEF PushBlockResume
  <2>4. TypeOK'
    BY <2>2, <2>3
  <2>5. \A u \in Threads : u # t => arg'[u] = arg[u]
    BY <1>4 DEF PushBlockResume
  <2>6. Holding'
    BY <2>2, <2>5
  <2>. QED
    BY <2>4, <2>6
<1>5. ASSUME NEW t \in Threads, PushExit(t)
      PROVE  TypeOK' /\ Holding'
  <2>1. queue' \in Seq(Entries)
    <3>1. queue \in Seq(Entries)
      BY DEF TypeOK
    <3>2. queue' = <<Exit>> \o queue
      BY <1>5 DEF PushExit
    <3>. QED
      BY ONLY <3>1, <3>2, ExitInFront, Zenon
  <2>2. /\ pc' \in [Threads -> PcStates]
        /\ \A u \in Threads : pc'[u] \in {"wait_full", "woken_full"} =>
                                pc[u] \in {"wait_full", "woken_full"}
    BY <1>5, SignalKeepsHolders DEF PushExit
  <2>. QED
    BY <1>5, <2>1, <2>2 DEF PushExit
<1>6. ASSUME NEW t \in Threads, PopWait(t)
      PROVE  TypeOK' /\ Holding'
  BY <1>6 DEF PopWait, PcStates
<1>7. ASSUME NEW t \in Threads, Pop(t)
      PROVE  TypeOK' /\ Holding'
  <2>1. /\ pc' \in [Threads -> PcStates]
        /\ \A u \in Threads : pc'[u] \in {"wait_full", "woken_full"} =>
                                pc[u] \in {"wait_full", "woken_full"}
    BY <1>7, SignalKeepsHolders DEF Pop
  <2>. QED
    BY <1>7, <2>1, TakeEntryType DEF Pop
<1>8. ASSUME NEW t \in Threads, PopResume(t)
      PROVE  TypeOK' /\ Holding'
  <2> DEFINE p == [pc EXCEPT ![t] = "idle"]
  <2>1. p \in [Threads -> PcStates]
    BY DEF PcStates
  <2>2. /\ pc' \in [Threads -> PcStates]
        /\ \A u \in Threads : pc'[u] \in {"wait_full", "woken_full"} =>
                                p[u] \in {"wait_full", "woken_full"}
    <3>1. pc' \in SignalFull(p)
      BY <1>8 DEF PopResume
    <3> HIDE DEF p
    <3>. QED
      BY <2>1, <3>1, SignalKeepsHolders
  <2>3. waiting_empty' \in Nat
    <3>1. t \in ThreadsAt(pc, "woken_empty")
      BY <1>8 DEF PopResume, ThreadsAt
    <3>2. N(pc, "wait_empty") \in Nat /\ N(pc, "woken_empty") \in Nat \ {0}
      BY <3>1, CountType
    <3>. QED
      BY <1>8, <3>2 DEF PopResume, EmptyCounted
  <2>. QED
    BY <1>8, <2>1, <2>2, <2>3, TakeEntryType DEF PopResume
<1>9. ASSUME NEW t \in Threads, PopNonBlocking(t)
      PROVE  TypeOK' /\ Holding'
  BY <1>9, TakeEntryType DEF PopNonBlocking
<1>10. ASSUME NEW t \in Threads, SpuriousWakeup(t)
       PROVE  TypeOK' /\ Holding'
  BY <1>10 DEF SpuriousWakeup, PcStates
<1>11. CASE UNCHANGED vars
  BY <1>11 DEF vars
<1>. QED
  BY <1>1, <1>2, <1>3, <1>4, <1>5, <1>6, <1>7, <1>8, <1>9, <1>10, <1>11
     DEF Next, PushStep, PopStep

-----------------------------------------------------------------------------
(* Wakeups, in numbers *)

FullCounted == waiting_full >= N(pc, "wait_full") + N(pc, "woken_full")

EmptyServed == N(pc, "wait_empty") > 0 => Len(queue) <= N(pc, "woken_empty")

FullServed ==
  Pollers = {} /\ ~AllocMayFail /\ N(pc, "wait_full") > 0 =>
    MaxCount <= Len(queue) + N(pc, "woken_full")

Overshoot ==
  MaxCount # 0 /\ ~SpuriousWakeups =>
    Len(queue) + N(pc, "woken_full") <= MaxCount + Cardinality(BlockPushers) + exits

CountInv == EmptyCounted /\ FullCounted /\ EmptyServed /\ FullServed /\ Overshoot

\* The inductive invariant.
IInv == TypeOK /\ Holding /\ CountInv

\* Everything the counting argument needs to know of a state.
LEMMA CountFacts ==
  ASSUME TypeOK, Holding
  PROVE  /\ Len(queue) \in Nat /\ waiting_empty \in Nat /\ waiting_full \in Nat
         /\ exits \in Nat /\ MaxCount \in Nat
         /\ Cardinality(BlockPushers) \in Nat
         /\ N(pc, "woken_full") <= Cardinality(BlockPushers)
         /\ \A s : N(pc, s) \in Nat
<1>1. IsFiniteSet(BlockPushers)
  BY ThreadsAssumption, FS_Subset
<1>2. ThreadsAt(pc, "woken_full") \subseteq BlockPushers
  BY DEF ThreadsAt, Holding
<1>3. N(pc, "woken_full") <= Cardinality(BlockPushers)
  BY <1>1, <1>2, FS_Subset DEF N
<1>. QED
  BY <1>1, <1>3, FS_CardinalityType, CountType, BoundsAssumption, LenProperties DEF TypeOK

\* The effect of a pop on the length of the list.
LEMMA TakeEntryLength ==
  ASSUME TypeOK, NEW t \in Threads, TakeEntry(t)
  PROVE  Len(queue') = IF queue = <<>> THEN 0 ELSE Len(queue) - 1
BY HeadTailProperties, EmptySeq DEF TypeOK, TakeEntry

\* A successful or failed push_entry, in numbers: the caller is idle in p.
LEMMA PushEntryCount ==
  ASSUME TypeOK, Holding, EmptyCounted, NEW t \in Threads, NEW m \in Items,
         PushEntry(t, m)
  PROVE  LET p == Moved(pc, t, "idle")
         IN  /\ N(pc', "wait_full") = N(p, "wait_full")
             /\ N(pc', "woken_full") = N(p, "woken_full")
             /\ \/ /\ Len(queue') = Len(queue) + 1
                   /\ \/ /\ N(p, "wait_empty") = 0
                         /\ N(pc', "wait_empty") = 0
                         /\ N(pc', "woken_empty") = N(p, "woken_empty")
                      \/ /\ N(p, "wait_empty") > 0
                         /\ N(pc', "wait_empty") = N(p, "wait_empty") - 1
                         /\ N(pc', "woken_empty") = N(p, "woken_empty") + 1
                \/ /\ AllocMayFail
                   /\ Len(queue') = Len(queue)
                   /\ N(pc', "wait_empty") = N(p, "wait_empty")
                   /\ N(pc', "woken_empty") = N(p, "woken_empty")
<1> DEFINE p == Moved(pc, t, "idle")
<1>1. p \in [Threads -> PcStates] /\ p = [pc EXCEPT ![t] = "idle"]
  BY DEF Moved, TypeOK, PcStates
<1>2. waiting_empty >= N(p, "wait_empty") /\ waiting_empty \in Nat
  <2>1. ThreadsAt(p, "wait_empty") \subseteq ThreadsAt(pc, "wait_empty")
    BY <1>1 DEF ThreadsAt, TypeOK
  <2>2. N(p, "wait_empty") <= N(pc, "wait_empty")
    BY <2>1, CountType, FS_Subset DEF N
  <2>. QED
    BY <2>2, CountFacts, CountType DEF EmptyCounted
<1>3. CASE queue' = Append(queue, m) /\ pc' \in SignalEmpty(p)
  <2>1. Len(queue') = Len(queue) + 1
    <3>1. queue \in Seq(Entries) /\ m \in Entries
      BY DEF TypeOK, Entries
    <3>. QED
      BY <1>3, <3>1, AppendProperties
  <2>2. /\ N(pc', "wait_full") = N(p, "wait_full")
        /\ N(pc', "woken_full") = N(p, "woken_full")
        /\ \/ N(p, "wait_empty") = 0 /\ pc' = p
           \/ /\ N(p, "wait_empty") > 0
              /\ N(pc', "wait_empty") = N(p, "wait_empty") - 1
              /\ N(pc', "woken_empty") = N(p, "woken_empty") + 1
    <3> HIDE DEF p
    <3>. QED
      BY <1>1, <1>2, <1>3, SignalEmptyEffect
  <2>. QED
    BY <2>1, <2>2
<1>4. CASE AllocMayFail /\ pc' = p /\ UNCHANGED queue
  BY <1>4
<1>. QED
  BY <1>1, <1>3, <1>4 DEF PushEntry

\* Pop and PopResume after the caller's own move to p.
LEMMA PopCount ==
  ASSUME NEW p \in [Threads -> PcStates], pc' \in SignalFull(p),
         waiting_full \in Nat, waiting_full >= N(p, "wait_full")
  PROVE  /\ N(pc', "wait_empty") = N(p, "wait_empty")
         /\ N(pc', "woken_empty") = N(p, "woken_empty")
         /\ N(pc', "wait_full") + N(pc', "woken_full")
              = N(p, "wait_full") + N(p, "woken_full")
         /\ \/ N(p, "wait_full") = 0 /\ pc' = p
            \/ /\ N(p, "wait_full") > 0
               /\ N(pc', "woken_full") = N(p, "woken_full") + 1
BY SignalFullEffect, CountType

\* Every step preserves the counting invariant.
LEMMA CountStep ==
  ASSUME IInv, Holding', TypeOK', [Next]_vars
  PROVE  CountInv'
<1>1. /\ Len(queue) \in Nat /\ waiting_empty \in Nat /\ waiting_full \in Nat
      /\ exits \in Nat /\ MaxCount \in Nat
      /\ Cardinality(BlockPushers) \in Nat
      /\ N(pc, "woken_full") <= Cardinality(BlockPushers)
      /\ N(pc, "wait_empty") \in Nat
      /\ N(pc, "woken_empty") \in Nat
      /\ N(pc, "wait_full") \in Nat
      /\ N(pc, "woken_full") \in Nat
  BY CountFacts DEF IInv
<1>2. /\ N(pc', "woken_full") <= Cardinality(BlockPushers)
      /\ N(pc', "wait_empty") \in Nat
      /\ N(pc', "woken_empty") \in Nat
      /\ N(pc', "wait_full") \in Nat
      /\ N(pc', "woken_full") \in Nat
      /\ Len(queue') \in Nat
  <2>1. ThreadsAt(pc', "woken_full") \subseteq BlockPushers /\ IsFiniteSet(BlockPushers)
    BY ThreadsAssumption, FS_Subset DEF ThreadsAt, Holding
  <2>2. N(pc', "woken_full") <= Cardinality(BlockPushers)
    BY <2>1, FS_Subset DEF N
  <2>. QED
    BY <2>2, CountType, LenProperties DEF TypeOK
<1>3. pc \in [Threads -> PcStates]
  BY DEF IInv, TypeOK
<1> USE DEF CountInv, EmptyCounted, FullCounted, EmptyServed, FullServed, Overshoot
<1>4. ASSUME NEW t \in Threads, NEW m \in Items, PushBlockWait(t, m)
      PROVE  CountInv'
  <2>1. pc' = Moved(pc, t, "wait_full") /\ pc[t] = "idle"
    BY <1>4 DEF PushBlockWait, Moved
  <2>2. /\ N(pc', "wait_full") = N(pc, "wait_full") + 1
        /\ N(pc', "wait_empty") = N(pc, "wait_empty")
        /\ N(pc', "woken_empty") = N(pc, "woken_empty")
        /\ N(pc', "woken_full") = N(pc, "woken_full")
    BY <1>3, <2>1, CountMove DEF PcStates
  <2>. QED
    BY <1>1, <1>2, <1>4, <2>2, SMTT(30) DEF PushBlockWait, IInv, Full
<1>5. ASSUME NEW t \in Threads, NEW m \in Items, pc[t] = "idle", ~Full, PushEntry(t, m),
             UNCHANGED <<waiting_empty, waiting_full, exits>>
      PROVE  CountInv'
  <2>1. Moved(pc, t, "idle") = pc
    BY <1>3, <1>5 DEF Moved
  <2>2. /\ N(pc', "wait_full") = N(pc, "wait_full")
        /\ N(pc', "woken_full") = N(pc, "woken_full")
        /\ \/ /\ Len(queue') = Len(queue) + 1
              /\ \/ /\ N(pc, "wait_empty") = 0
                    /\ N(pc', "wait_empty") = 0
                    /\ N(pc', "woken_empty") = N(pc, "woken_empty")
                 \/ /\ N(pc, "wait_empty") > 0
                    /\ N(pc', "wait_empty") = N(pc, "wait_empty") - 1
                    /\ N(pc', "woken_empty") = N(pc, "woken_empty") + 1
           \/ /\ AllocMayFail
              /\ Len(queue') = Len(queue)
              /\ N(pc', "wait_empty") = N(pc, "wait_empty")
              /\ N(pc', "woken_empty") = N(pc, "woken_empty")
    BY <1>5, <2>1, PushEntryCount DEF IInv
  <2>10. EmptyCounted'
    BY <1>1, <1>2, <1>5, <2>2, SMTT(30) DEF IInv, Full
  <2>11. FullCounted'
    BY <1>1, <1>2, <1>5, <2>2 DEF IInv, Full
  <2>12. EmptyServed'
    BY <1>1, <1>2, <1>5, <2>2, SMTT(30) DEF IInv, Full
  <2>13. FullServed'
    BY <1>1, <1>2, <1>5, <2>2 DEF IInv, Full
  <2>14. Overshoot'
    BY <1>1, <1>2, <1>5, <2>2, SMTT(30) DEF IInv, Full
  <2>. QED
    BY <2>10, <2>11, <2>12, <2>13, <2>14
<1>6. ASSUME NEW t \in Threads, NEW m \in Items, PushFail(t, m)
      PROVE  CountInv'
  <2>1. CASE Full /\ UNCHANGED <<queue, pc>>
    BY <1>6, <2>1 DEF PushFail, IInv
  <2>2. CASE ~Full /\ PushEntry(t, m)
    BY <1>5, <1>6, <2>2 DEF PushFail
  <2>. QED
    BY <1>6, <2>1, <2>2 DEF PushFail
<1>7. ASSUME NEW t \in Threads, PushBlockResume(t)
      PROVE  CountInv'
  <2> DEFINE p == Moved(pc, t, "idle")
  <2>1. pc[t] = "woken_full" /\ arg[t] \in Items /\ PushEntry(t, arg[t])
    BY <1>7 DEF PushBlockResume, IInv, Holding
  <2>2. /\ N(p, "woken_full") = N(pc, "woken_full") - 1
        /\ N(p, "wait_empty") = N(pc, "wait_empty")
        /\ N(p, "woken_empty") = N(pc, "woken_empty")
        /\ N(p, "wait_full") = N(pc, "wait_full")
    BY <1>3, <2>1, CountMove DEF PcStates
  <2>3. /\ N(pc', "wait_full") = N(p, "wait_full")
        /\ N(pc', "woken_full") = N(p, "woken_full")
        /\ \/ /\ Len(queue') = Len(queue) + 1
              /\ \/ /\ N(p, "wait_empty") = 0
                    /\ N(pc', "wait_empty") = 0
                    /\ N(pc', "woken_empty") = N(p, "woken_empty")
                 \/ /\ N(p, "wait_empty") > 0
                    /\ N(pc', "wait_empty") = N(p, "wait_empty") - 1
                    /\ N(pc', "woken_empty") = N(p, "woken_empty") + 1
           \/ /\ AllocMayFail
              /\ Len(queue') = Len(queue)
              /\ N(pc', "wait_empty") = N(p, "wait_empty")
              /\ N(pc', "woken_empty") = N(p, "woken_empty")
    BY <2>1, PushEntryCount DEF IInv
  <2> HIDE DEF p
  <2>10. EmptyCounted'
    BY <1>1, <1>2, <1>7, <2>2, <2>3, SMTT(30) DEF PushBlockResume, IInv
  <2>11. FullCounted'
    BY <1>1, <1>2, <1>7, <2>2, <2>3, SMTT(30) DEF PushBlockResume, IInv
  <2>12. EmptyServed'
    BY <1>1, <1>2, <1>7, <2>2, <2>3, SMTT(30) DEF PushBlockResume, IInv
  <2>13. FullServed'
    BY <1>1, <1>2, <1>7, <2>2, <2>3, SMTT(30) DEF PushBlockResume, IInv
  <2>9. Len(queue') + N(pc', "woken_full")
          <= Len(queue) + N(pc, "woken_full")
    <3>1. N(pc', "woken_full") = N(pc, "woken_full") - 1
      BY ONLY <2>2, <2>3
    <3>2. Len(queue') = Len(queue) + 1 \/ Len(queue') = Len(queue)
      BY ONLY <2>3
    <3>3. Len(queue) \in Nat /\ N(pc, "woken_full") \in Nat
      BY <1>1, <1>2
    <3>. QED
      BY ONLY <3>1, <3>2, <3>3
  <2>14. Overshoot'
    <3>1. exits' = exits
      BY <1>7 DEF PushBlockResume
    <3>2. Overshoot
      BY DEF IInv
    <3>3. ASSUME MaxCount # 0, ~SpuriousWakeups
          PROVE  Len(queue') + N(pc', "woken_full")
                   <= MaxCount + Cardinality(BlockPushers) + exits'
      <4>1. Len(queue) + N(pc, "woken_full") <= MaxCount + Cardinality(BlockPushers) + exits
        BY <3>2, <3>3
      <4>. QED
        BY ONLY <1>1, <1>2, <2>9, <3>1, <4>1
    <3>. QED
      BY <3>3
  <2>. QED
    BY <2>10, <2>11, <2>12, <2>13, <2>14
<1>8. ASSUME NEW t \in Threads, PushExit(t)
      PROVE  CountInv'
  <2>1. Len(queue') = Len(queue) + 1
    BY <1>8, ExitInFront DEF PushExit, IInv, TypeOK
  <2>2. waiting_empty >= N(pc, "wait_empty")
    BY <1>1 DEF IInv
  <2>3. /\ N(pc', "wait_full") = N(pc, "wait_full")
        /\ N(pc', "woken_full") = N(pc, "woken_full")
        /\ \/ N(pc, "wait_empty") = 0 /\ pc' = pc
           \/ /\ N(pc, "wait_empty") > 0
              /\ N(pc', "wait_empty") = N(pc, "wait_empty") - 1
              /\ N(pc', "woken_empty") = N(pc, "woken_empty") + 1
    BY <1>1, <1>3, <1>8, <2>2, SignalEmptyEffect DEF PushExit
  <2>10. EmptyCounted'
    BY <1>1, <1>2, <1>8, <2>1, <2>3 DEF PushExit, IInv
  <2>11. FullCounted'
    BY <1>1, <1>2, <1>8, <2>1, <2>3 DEF PushExit, IInv
  <2>12. EmptyServed'
    BY <1>1, <1>2, <1>8, <2>1, <2>3 DEF PushExit, IInv
  <2>13. FullServed'
    BY <1>1, <1>2, <1>8, <2>1, <2>3 DEF PushExit, IInv
  <2>14. Overshoot'
    BY <1>1, <1>2, <1>8, <2>1, <2>3, SMTT(30) DEF PushExit, IInv
  <2>. QED
    BY <2>10, <2>11, <2>12, <2>13, <2>14
<1>9. ASSUME NEW t \in Threads, PopWait(t)
      PROVE  CountInv'
  <2>1. pc' = Moved(pc, t, "wait_empty") /\ pc[t] = "idle"
    BY <1>9 DEF PopWait, Moved
  <2>2. /\ N(pc', "wait_empty") = N(pc, "wait_empty") + 1
        /\ N(pc', "woken_empty") = N(pc, "woken_empty")
        /\ N(pc', "wait_full") = N(pc, "wait_full")
        /\ N(pc', "woken_full") = N(pc, "woken_full")
    BY <1>3, <2>1, CountMove DEF PcStates
  <2>3. Len(queue) = 0
    BY <1>9, EmptySeq DEF PopWait
  <2>. QED
    BY <1>1, <1>2, <1>9, <2>2, <2>3, SMTT(30) DEF PopWait, IInv
<1>10. ASSUME NEW t \in Threads, Pop(t)
       PROVE  CountInv'
  <2>1. Len(queue') = Len(queue) - 1
    BY <1>10, TakeEntryLength DEF Pop, IInv
  <2>2. waiting_full >= N(pc, "wait_full")
    BY <1>1 DEF IInv
  <2>3. /\ N(pc', "wait_empty") = N(pc, "wait_empty")
        /\ N(pc', "woken_empty") = N(pc, "woken_empty")
        /\ N(pc', "wait_full") + N(pc', "woken_full")
             = N(pc, "wait_full") + N(pc, "woken_full")
        /\ \/ N(pc, "wait_full") = 0 /\ pc' = pc
           \/ /\ N(pc, "wait_full") > 0
              /\ N(pc', "woken_full") = N(pc, "woken_full") + 1
    BY <1>1, <1>3, <1>10, <2>2, PopCount DEF Pop
  <2>10. EmptyCounted'
    BY <1>1, <1>2, <1>10, <2>1, <2>3 DEF Pop, IInv
  <2>11. FullCounted'
    BY <1>1, <1>2, <1>10, <2>1, <2>3 DEF Pop, IInv
  <2>12. EmptyServed'
    BY <1>1, <1>2, <1>10, <2>1, <2>3 DEF Pop, IInv
  <2>13. FullServed'
    BY <1>1, <1>2, <1>10, <2>1, <2>3, SMTT(30) DEF Pop, IInv
  <2>9. Len(queue') + N(pc', "woken_full")
          <= Len(queue) + N(pc, "woken_full")
    BY <1>1, <1>2, <2>1, <2>3
  <2>14. Overshoot'
    BY <1>1, <1>2, <1>10, <2>9, SMTT(30) DEF Pop, IInv
  <2>. QED
    BY <2>10, <2>11, <2>12, <2>13, <2>14
<1>11. ASSUME NEW t \in Threads, PopResume(t)
       PROVE  CountInv'
  <2> DEFINE p == Moved(pc, t, "idle")
  <2>1. pc[t] = "woken_empty" /\ TakeEntry(t) /\ pc' \in SignalFull(p)
    BY <1>11 DEF PopResume, Moved
  <2>2. /\ p \in [Threads -> PcStates]
        /\ N(p, "woken_empty") = N(pc, "woken_empty") - 1
        /\ N(p, "wait_empty") = N(pc, "wait_empty")
        /\ N(p, "wait_full") = N(pc, "wait_full")
        /\ N(p, "woken_full") = N(pc, "woken_full")
    BY <1>3, <2>1, CountMove DEF PcStates
  <2>3. waiting_full >= N(p, "wait_full")
    BY <1>1, <2>2 DEF IInv
  <2>4. /\ N(pc', "wait_empty") = N(p, "wait_empty")
        /\ N(pc', "woken_empty") = N(p, "woken_empty")
        /\ N(pc', "wait_full") + N(pc', "woken_full")
             = N(p, "wait_full") + N(p, "woken_full")
        /\ \/ N(p, "wait_full") = 0 /\ pc' = p
           \/ /\ N(p, "wait_full") > 0
              /\ N(pc', "woken_full") = N(p, "woken_full") + 1
    <3> HIDE DEF p
    <3>. QED
      BY <1>1, <2>1, <2>2, <2>3, PopCount
  <2>5. \/ Len(queue) = 0 /\ Len(queue') = 0
        \/ Len(queue) > 0 /\ Len(queue') = Len(queue) - 1
    BY <1>1, <2>1, TakeEntryLength, EmptySeq, SMTT(30) DEF IInv, TypeOK
  <2> HIDE DEF p
  <2>10. EmptyCounted'
    BY <1>1, <1>2, <1>11, <2>2, <2>4, <2>5, SMTT(30) DEF PopResume, IInv
  <2>11. FullCounted'
    BY <1>1, <1>2, <1>11, <2>2, <2>4, <2>5 DEF PopResume, IInv
  <2>12. EmptyServed'
    BY <1>1, <1>2, <1>11, <2>2, <2>4, <2>5, SMTT(30) DEF PopResume, IInv
  <2>6. FullServed /\ Overshoot /\ exits' = exits
    BY <1>11 DEF PopResume, IInv
  <2>8. N(pc', "wait_full") > 0 =>
           /\ N(pc, "wait_full") > 0
           /\ Len(queue') + N(pc', "woken_full")
                >= Len(queue) + N(pc, "woken_full")
    BY <1>1, <1>2, <2>2, <2>4, <2>5, SMTT(30)
  <2>9. \/ Len(queue') + N(pc', "woken_full")
             <= Len(queue) + N(pc, "woken_full")
        \/ Len(queue') + N(pc', "woken_full") <= Cardinality(BlockPushers)
    BY <1>1, <1>2, <2>2, <2>4, <2>5, SMTT(30)
  <2>13. FullServed'
    BY ONLY <1>1, <1>2, <2>6, <2>8 DEF FullServed
  <2>14. Overshoot'
    BY ONLY <1>1, <1>2, <2>6, <2>9 DEF Overshoot
  <2>. QED
    BY <2>10, <2>11, <2>12, <2>13, <2>14
<1>12. ASSUME NEW t \in Threads, PopNonBlocking(t)
       PROVE  CountInv'
  <2>1. Len(queue') <= Len(queue)
    BY <1>1, <1>12, TakeEntryLength, EmptySeq DEF PopNonBlocking, IInv, TypeOK
  <2>2. Pollers # {} /\ UNCHANGED <<waiting_empty, waiting_full, pc, exits>>
    BY <1>12 DEF PopNonBlocking
  <2>. QED
    BY <1>1, <1>2, <2>1, <2>2 DEF IInv
<1>13. ASSUME NEW t \in Threads, SpuriousWakeup(t)
       PROVE  CountInv'
  <2>1. CASE pc[t] = "wait_empty" /\ pc' = Moved(pc, t, "woken_empty")
    <3>1. /\ N(pc', "wait_empty") = N(pc, "wait_empty") - 1
          /\ N(pc', "woken_empty") = N(pc, "woken_empty") + 1
          /\ N(pc', "wait_full") = N(pc, "wait_full")
          /\ N(pc', "woken_full") = N(pc, "woken_full")
      BY <1>3, <2>1, CountMove DEF PcStates
    <3>. QED
      BY <1>1, <1>2, <1>13, <3>1, SMTT(30) DEF SpuriousWakeup, IInv
  <2>2. CASE pc[t] = "wait_full" /\ pc' = Moved(pc, t, "woken_full")
    <3>1. /\ N(pc', "wait_full") = N(pc, "wait_full") - 1
          /\ N(pc', "woken_full") = N(pc, "woken_full") + 1
          /\ N(pc', "wait_empty") = N(pc, "wait_empty")
          /\ N(pc', "woken_empty") = N(pc, "woken_empty")
      BY <1>3, <2>2, CountMove DEF PcStates
    <3>. QED
      BY <1>1, <1>2, <1>13, <3>1, SMTT(30) DEF SpuriousWakeup, IInv
  <2>. QED
    BY <1>13, <2>1, <2>2 DEF SpuriousWakeup, Moved
<1>14. CASE UNCHANGED vars
  BY <1>14 DEF vars, IInv
<1>15. ASSUME NEW t \in Threads, NEW m \in Items, PushBlock(t, m)
       PROVE  CountInv'
  BY <1>5, <1>15 DEF PushBlock
<1> USE DEF Next, PushStep, PopStep
<1> HIDE DEF CountInv
<1>. QED
  BY <1>4, <1>6, <1>7, <1>8, <1>9, <1>10, <1>11, <1>12, <1>13, <1>14, <1>15

-----------------------------------------------------------------------------
(* The theorems *)

LEMMA InitIInv == Init => IInv
<1> SUFFICES ASSUME Init PROVE IInv
  OBVIOUS
<1>1. TypeOK /\ Holding
  BY EmptySeq DEF Init, TypeOK, Holding, PcStates, Entries
<1>2. \A s \in PcStates \ {"idle"} : ThreadsAt(pc, s) = {}
  BY DEF Init, ThreadsAt
<1>3. /\ N(pc, "wait_empty") = 0 /\ N(pc, "woken_empty") = 0
      /\ N(pc, "wait_full") = 0 /\ N(pc, "woken_full") = 0
  BY <1>2, CountType DEF PcStates
<1>4. /\ Len(queue) = 0 /\ waiting_empty = 0 /\ waiting_full = 0 /\ exits = 0
      /\ MaxCount \in Nat /\ Cardinality(BlockPushers) \in Nat
  BY <1>1, CountFacts, EmptySeq DEF Init
<1>. QED
  BY <1>1, <1>3, <1>4
     DEF IInv, CountInv, EmptyCounted, FullCounted, EmptyServed, FullServed, Overshoot

LEMMA InductiveInvariant == Spec => []IInv
<1>1. IInv /\ [Next]_vars => IInv'
  <2> SUFFICES ASSUME IInv, [Next]_vars PROVE IInv'
    OBVIOUS
  <2>1. TypeOK' /\ Holding'
    BY TypeStep DEF IInv, CountInv
  <2>2. CountInv'
    BY <2>1, CountStep
  <2>. QED
    BY <2>1, <2>2 DEF IInv
<1>. QED
  BY InitIInv, <1>1, PTL DEF Spec

\* The state of a queue keeps its types in every reachable state (tqueue.h:17).
THEOREM TypeCorrect == Spec => []TypeOK
<1>1. IInv => TypeOK
  BY DEF IInv
<1>. QED
  BY <1>1, InductiveInvariant, PTL

\* The counters that guard the calls of pthread_cond_signal never miss a
\* waiter, in spite of the second increment of waiting_full (tqueue.c:95).
THEOREM CountersSafe == Spec => []WaitersCounted
<1>1. IInv => WaitersCounted
  BY DEF IInv, CountInv, EmptyCounted, FullCounted, WaitersCounted, N,
         EmptyWaiters, EmptyWoken, FullWaiters, FullWoken
<1>. QED
  BY <1>1, InductiveInvariant, PTL

\* A consumer blocked in TQUEUE_pop never misses an entry, for any mix of
\* operations, with spurious wakeups and failing allocations.
THEOREM ConsumersNeverMissed == Spec => []NoLostEmptyWakeup
<1>1. IInv => NoLostEmptyWakeup
  BY CountType DEF IInv, CountInv, EmptyServed, NoLostEmptyWakeup, N,
                   EmptyWaiters, EmptyWoken
<1>. QED
  BY <1>1, InductiveInvariant, PTL

\* A producer blocked in TQUEUE_push_block_on_queue_full never misses a free
\* slot, as long as nobody calls TQUEUE_pop_non_blocking, which does not
\* signal, and as long as malloc does not fail in a producer that was woken.
THEOREM ProducersNeverMissed ==
  ASSUME Pollers = {}, ~AllocMayFail
  PROVE  Spec => []NoLostFullWakeup
<1>1. IInv => NoLostFullWakeup
  BY CountType DEF IInv, CountInv, FullServed, NoLostFullWakeup, N,
                   FullWaiters, FullWoken
<1>. QED
  BY <1>1, InductiveInvariant, PTL

\* However the threads interleave, the queue outgrows max_count by at most one
\* entry per blocking producer, exit messages apart.
THEOREM GrowthBounded == Spec => []OvershootBounded
<1>1. IInv => OvershootBounded
  BY DEF IInv, CountInv, Overshoot, OvershootBounded, N, FullWoken
<1>. QED
  BY <1>1, InductiveInvariant, PTL

-----------------------------------------------------------------------------
(* TQueue implements FifoQueue, whatever wakes up, fails or polls: exit      *)
(* messages are in front of all items, so the rest of the list is the queue  *)
(* that was promised.                                                        *)

\* The exit messages of q are its first k entries.
ExitsFirst(q, k) == k \in 0 .. Len(q) /\ \A i \in 1 .. Len(q) : q[i] = Exit <=> i <= k

FifoInv == \E k \in Nat : ExitsFirst(queue, k)

Exits(q) == Cardinality({i \in DOMAIN q : q[i] = Exit})
Rest(q)  == SubSeq(q, Exits(q) + 1, Len(q))

LEMMA ExitIsNoItem == Exit \notin Items
  BY EntriesAssumption

LEMMA CountExits ==
  ASSUME NEW q \in Seq(Entries), NEW k \in Nat, ExitsFirst(q, k)
  PROVE  Exits(q) = k
<1>1. {i \in DOMAIN q : q[i] = Exit} = 1 .. k
  BY DEF ExitsFirst
<1>2. Cardinality(1 .. k) = k
  BY FS_Interval
<1>. QED
  BY <1>1, <1>2 DEF Exits

\* What is behind the exit messages.
LEMMA RestShape ==
  ASSUME NEW q \in Seq(Entries), NEW k \in Nat, ExitsFirst(q, k)
  PROVE  /\ Rest(q) \in Seq(Entries) /\ Len(Rest(q)) = Len(q) - k
         /\ \A i \in 1 .. Len(q) - k : Rest(q)[i] = q[k + i]
<1>1. Rest(q) = SubSeq(q, k + 1, Len(q)) /\ Len(q) \in Nat /\ k <= Len(q)
  BY CountExits DEF Rest, ExitsFirst
<1>2. \A i \in k + 1 .. Len(q) : q[i] \in Entries
  OBVIOUS
<1>3. /\ SubSeq(q, k + 1, Len(q)) \in Seq(Entries)
      /\ Len(SubSeq(q, k + 1, Len(q))) = IF k + 1 <= Len(q) THEN Len(q) - (k + 1) + 1 ELSE 0
      /\ \A i \in 1 .. Len(q) - (k + 1) + 1 : SubSeq(q, k + 1, Len(q))[i] = q[k + 1 + i - 1]
  BY <1>1, <1>2, SubSeqProperties
<1>. QED
  BY <1>1, <1>3

\* An item goes behind everything.
LEMMA PutItem ==
  ASSUME NEW q \in Seq(Entries), NEW k \in Nat, ExitsFirst(q, k), NEW m \in Items
  PROVE  /\ ExitsFirst(Append(q, m), k)
         /\ Rest(Append(q, m)) = Append(Rest(q), m)
<1> DEFINE r == Append(q, m)
<1>1. /\ m \in Entries /\ m # Exit /\ r \in Seq(Entries)
      /\ Len(r) = Len(q) + 1 /\ Len(q) \in Nat
      /\ \A i \in 1 .. Len(q) : r[i] = q[i]
      /\ r[Len(q) + 1] = m
  BY ExitIsNoItem DEF Entries
<1>. HIDE DEF r
<1>2. ExitsFirst(r, k)
  BY <1>1 DEF ExitsFirst
<1>3. /\ Rest(q) \in Seq(Entries) /\ Len(Rest(q)) = Len(q) - k
      /\ \A i \in 1 .. Len(q) - k : Rest(q)[i] = q[k + i]
  BY RestShape
<1>4. /\ Rest(r) \in Seq(Entries) /\ Len(Rest(r)) = Len(r) - k
      /\ \A i \in 1 .. Len(r) - k : Rest(r)[i] = r[k + i]
  BY <1>1, <1>2, RestShape
<1>5. /\ Append(Rest(q), m) \in Seq(Entries) /\ Len(Append(Rest(q), m)) = Len(q) - k + 1
      /\ \A i \in 1 .. Len(q) - k : Append(Rest(q), m)[i] = q[k + i]
      /\ Append(Rest(q), m)[Len(q) - k + 1] = m
  BY <1>1, <1>3, AppendProperties
<1>6. k \in 0 .. Len(q)
  BY DEF ExitsFirst
<1>7. ASSUME NEW i \in 1 .. Len(Rest(r)) PROVE Rest(r)[i] = Append(Rest(q), m)[i]
  <2>1. CASE i = Len(q) - k + 1
    <3>1. k + i = Len(q) + 1 /\ i \in 1 .. Len(r) - k
      BY <1>1, <1>4, <1>6, <2>1
    <3>. QED
      BY <1>1, <1>4, <1>5, <2>1, <3>1
  <2>2. CASE i # Len(q) - k + 1
    <3>1. i \in 1 .. Len(q) - k /\ k + i \in 1 .. Len(q)
      BY <1>1, <1>4, <1>6, <1>7, <2>2
    <3>. QED
      BY <1>1, <1>4, <1>5, <3>1
  <2>. QED
    BY <2>1, <2>2
<1>8. Len(Rest(r)) = Len(Append(Rest(q), m))
  BY <1>1, <1>4, <1>5, <1>6
<1>9. Rest(r) = Append(Rest(q), m)
  BY <1>4, <1>5, <1>7, <1>8, SeqEqual
<1>. QED
  BY <1>2, <1>9 DEF r

\* An exit message goes to the front.
LEMMA PutExit ==
  ASSUME NEW q \in Seq(Entries), NEW k \in Nat, ExitsFirst(q, k)
  PROVE  /\ ExitsFirst(<<Exit>> \o q, k + 1)
         /\ Rest(<<Exit>> \o q) = Rest(q)
<1> DEFINE r == <<Exit>> \o q
<1>1. /\ r \in Seq(Entries) /\ Len(r) = Len(q) + 1 /\ Len(q) \in Nat
      /\ r[1] = Exit
      /\ \A i \in 1 .. Len(q) : r[i + 1] = q[i]
  BY DEF Entries
<1>2. k \in 0 .. Len(q)
  BY DEF ExitsFirst
<1>. HIDE DEF r
<1>3. ASSUME NEW i \in 1 .. Len(r) PROVE r[i] = Exit <=> i <= k + 1
  <2>1. CASE i = 1
    BY <1>1, <1>2, <2>1
  <2>2. CASE i # 1
    <3>1. i - 1 \in 1 .. Len(q) /\ r[(i - 1) + 1] = q[i - 1] /\ (i - 1) + 1 = i
      BY <1>1, <1>3, <2>2
    <3>. QED
      BY <1>2, <3>1 DEF ExitsFirst
  <2>. QED
    BY <2>1, <2>2
<1>4. ExitsFirst(r, k + 1)
  BY <1>1, <1>2, <1>3 DEF ExitsFirst
<1>5. /\ Rest(q) \in Seq(Entries) /\ Len(Rest(q)) = Len(q) - k
      /\ \A i \in 1 .. Len(q) - k : Rest(q)[i] = q[k + i]
  BY RestShape
<1>6. /\ Rest(r) \in Seq(Entries) /\ Len(Rest(r)) = Len(r) - (k + 1)
      /\ \A i \in 1 .. Len(r) - (k + 1) : Rest(r)[i] = r[(k + 1) + i]
  BY <1>1, <1>4, RestShape
<1>7. ASSUME NEW i \in 1 .. Len(Rest(r)) PROVE Rest(r)[i] = Rest(q)[i]
  <2>1. i \in 1 .. Len(q) - k /\ k + i \in 1 .. Len(q) /\ (k + 1) + i = (k + i) + 1
    BY <1>1, <1>2, <1>6, <1>7
  <2>. QED
    BY <1>1, <1>5, <1>6, <2>1
<1>8. Len(Rest(r)) = Len(Rest(q))
  BY <1>1, <1>2, <1>5, <1>6
<1>9. Rest(r) = Rest(q)
  BY <1>5, <1>6, <1>7, <1>8, SeqEqual
<1>. QED
  BY <1>4, <1>9 DEF r

\* Taking from the front: an exit message while there is one, else an item.
LEMMA TakeFirst ==
  ASSUME NEW q \in Seq(Entries), NEW k \in Nat, ExitsFirst(q, k), q # <<>>
  PROVE  /\ k > 0 => /\ Head(q) = Exit
                     /\ ExitsFirst(Tail(q), k - 1)
                     /\ Rest(Tail(q)) = Rest(q)
         /\ k = 0 => /\ Head(q) # Exit
                     /\ ExitsFirst(Tail(q), 0)
                     /\ Rest(q) = q /\ Rest(Tail(q)) = Tail(q)
<1> DEFINE r == Tail(q)
<1>1. /\ r \in Seq(Entries) /\ Len(r) = Len(q) - 1 /\ Len(q) \in Nat \ {0}
      /\ \A i \in 1 .. Len(r) : r[i] = q[i + 1]
      /\ Head(q) = q[1]
  BY HeadTailProperties, EmptySeq
<1>2. k \in 0 .. Len(q) /\ (q[1] = Exit <=> k >= 1)
  BY <1>1 DEF ExitsFirst
<1>. HIDE DEF r
<1>3. /\ Rest(q) \in Seq(Entries) /\ Len(Rest(q)) = Len(q) - k
      /\ \A i \in 1 .. Len(q) - k : Rest(q)[i] = q[k + i]
  BY RestShape
<1>4. CASE k > 0
  <2>1. ASSUME NEW i \in 1 .. Len(r) PROVE r[i] = Exit <=> i <= k - 1
    <3>1. i + 1 \in 1 .. Len(q) /\ r[i] = q[i + 1]
      BY <1>1, <2>1
    <3>. QED
      BY <3>1 DEF ExitsFirst
  <2>2. ExitsFirst(r, k - 1) /\ k - 1 \in Nat
    BY <1>1, <1>2, <1>4, <2>1 DEF ExitsFirst
  <2>3. /\ Rest(r) \in Seq(Entries) /\ Len(Rest(r)) = Len(r) - (k - 1)
        /\ \A i \in 1 .. Len(r) - (k - 1) : Rest(r)[i] = r[(k - 1) + i]
    BY <1>1, <2>2, RestShape
  <2>4. ASSUME NEW i \in 1 .. Len(Rest(r)) PROVE Rest(r)[i] = Rest(q)[i]
    <3>1. /\ i \in 1 .. Len(q) - k /\ (k - 1) + i \in 1 .. Len(r)
          /\ ((k - 1) + i) + 1 = k + i
      BY <1>1, <1>2, <1>4, <2>3, <2>4
    <3>. QED
      BY <1>1, <1>3, <2>3, <3>1
  <2>5. Len(Rest(r)) = Len(Rest(q))
    BY <1>1, <1>2, <1>3, <2>3
  <2>6. Rest(r) = Rest(q)
    BY <1>3, <2>3, <2>4, <2>5, SeqEqual
  <2>. QED
    BY <1>1, <1>2, <1>4, <2>2, <2>6 DEF r
<1>5. CASE k = 0
  <2>1. ASSUME NEW i \in 1 .. Len(r) PROVE r[i] = Exit <=> i <= 0
    <3>1. i + 1 \in 1 .. Len(q) /\ r[i] = q[i + 1]
      BY <1>1, <2>1
    <3>. QED
      BY <1>5, <3>1 DEF ExitsFirst
  <2>2. ExitsFirst(r, 0)
    BY <1>1, <2>1 DEF ExitsFirst
  <2>3. Exits(q) = 0 /\ Exits(r) = 0
    BY <1>1, <1>5, <2>2, CountExits
  <2>4. Rest(q) = q /\ Rest(r) = r
    BY <1>1, <2>3, SubSeqFull DEF Rest
  <2>. QED
    BY <1>1, <1>2, <1>5, <2>2, <2>4 DEF r
<1>. QED
  BY <1>4, <1>5

-----------------------------------------------------------------------------
(* Every step of a TQUEUE is a step of the FIFO, or none *)

FifoStep == /\ FifoInv'
            /\ [Fifo!Next]_<<Rest(queue), Exits(queue), taken>>

LEMMA SameQueue ==
  ASSUME FifoInv, UNCHANGED <<queue, taken>> PROVE FifoStep
  BY DEF FifoStep, FifoInv

LEMMA PushIsPut ==
  ASSUME TypeOK, FifoInv, NEW t, NEW m \in Items, PushEntry(t, m), UNCHANGED taken
  PROVE  FifoStep
<1>1. CASE queue' = Append(queue, m)
  <2>1. PICK k \in Nat : ExitsFirst(queue, k)
    BY DEF FifoInv
  <2>2. queue \in Seq(Entries) /\ queue' \in Seq(Entries)
    BY <1>1, AppendProperties DEF TypeOK, Entries
  <2>3. ExitsFirst(queue', k) /\ Rest(queue') = Append(Rest(queue), m)
    BY <1>1, <2>1, <2>2, PutItem
  <2>4. Exits(queue) = k /\ Exits(queue') = k
    BY <2>1, <2>2, <2>3, CountExits
  <2>. QED
    BY <2>3, <2>4 DEF FifoStep, FifoInv, Fifo!Next, Fifo!Put, Rest, Exits, QueuedExits
<1>. QED
  BY <1>1, SameQueue DEF PushEntry

LEMMA PushExitIsPut ==
  ASSUME TypeOK, FifoInv, NEW t, PushExit(t) PROVE FifoStep
<1>1. queue' = <<Exit>> \o queue /\ taken' = taken
  BY DEF PushExit
<1>2. PICK k \in Nat : ExitsFirst(queue, k)
  BY DEF FifoInv
<1>3. queue \in Seq(Entries) /\ queue' \in Seq(Entries)
  BY <1>1 DEF TypeOK, Entries
<1>4. ExitsFirst(queue', k + 1) /\ Rest(queue') = Rest(queue)
  BY <1>1, <1>2, <1>3, PutExit
<1>5. Exits(queue) = k /\ Exits(queue') = k + 1
  BY <1>2, <1>3, <1>4, CountExits
<1>6. Fifo!PutExit
  BY <1>1, <1>4, <1>5 DEF Fifo!PutExit, Rest, Exits, QueuedExits
<1>. QED
  BY <1>4, <1>6 DEF FifoStep, FifoInv, Fifo!Next

LEMMA TakeIsTake ==
  ASSUME TypeOK, FifoInv, NEW t, TakeEntry(t) PROVE FifoStep
<1>1. CASE queue = <<>>
  BY <1>1, SameQueue DEF TakeEntry
<1>2. CASE queue # <<>>
  <2>1. /\ queue' = Tail(queue)
        /\ taken' = IF Head(queue) = Exit THEN taken ELSE Append(taken, Head(queue))
    BY <1>2 DEF TakeEntry
  <2>2. PICK k \in Nat : ExitsFirst(queue, k)
    BY DEF FifoInv
  <2>3. queue \in Seq(Entries) /\ queue' \in Seq(Entries)
    BY <1>2, <2>1, HeadTailProperties DEF TypeOK
  <2>4. Exits(queue) = k
    BY <2>2, <2>3, CountExits
  <2>5. CASE k > 0
    <3>1. ExitsFirst(queue', k - 1) /\ Rest(queue') = Rest(queue) /\ taken' = taken
      BY <1>2, <2>1, <2>2, <2>3, <2>5, TakeFirst
    <3>2. Exits(queue') = k - 1 /\ k - 1 \in Nat
      BY <2>3, <2>5, <3>1, CountExits
    <3>. QED
      BY <2>4, <2>5, <3>1, <3>2
         DEF FifoStep, FifoInv, Fifo!Next, Fifo!TakeExit, Rest, Exits, QueuedExits
  <2>6. CASE k = 0
    <3>1. /\ ExitsFirst(queue', 0)
          /\ Rest(queue) = queue /\ Rest(queue') = Tail(queue)
          /\ taken' = Append(taken, Head(queue))
      BY <1>2, <2>1, <2>2, <2>3, <2>6, TakeFirst
    <3>2. Exits(queue') = 0
      BY <2>3, <3>1, CountExits
    <3>3. Fifo!Take
      BY <1>2, <2>4, <2>6, <3>1, <3>2 DEF Fifo!Take, Rest, Exits, QueuedExits
    <3>. QED
      BY <3>1, <3>3 DEF FifoStep, FifoInv, Fifo!Next
  <2>. QED
    BY <2>5, <2>6
<1>. QED
  BY <1>1, <1>2

LEMMA StepIsFifoStep == IInv /\ FifoInv /\ [Next]_vars => FifoStep
<1>. SUFFICES ASSUME IInv, FifoInv, [Next]_vars PROVE FifoStep
  OBVIOUS
<1>. TypeOK /\ Holding
  BY DEF IInv
<1>1. ASSUME UNCHANGED <<queue, taken>> PROVE FifoStep
  BY <1>1, SameQueue
<1>2. CASE UNCHANGED vars
  BY <1>1, <1>2 DEF vars
<1>3. ASSUME NEW t \in Threads, PushStep(t) PROVE FifoStep
  <2>1. ASSUME NEW m \in Items, PushBlockWait(t, m) \/ PushBlock(t, m) \/ PushFail(t, m)
        PROVE  FifoStep
    BY <1>1, <2>1, PushIsPut DEF PushBlockWait, PushBlock, PushFail
  <2>2. CASE PushBlockResume(t)
    <3>1. arg[t] \in Items
      BY <2>2 DEF PushBlockResume, Holding
    <3>. QED
      BY <2>2, <3>1, PushIsPut DEF PushBlockResume
  <2>3. CASE PushExit(t)
    BY <2>3, PushExitIsPut
  <2>. QED
    BY <1>3, <2>1, <2>2, <2>3 DEF PushStep
<1>4. ASSUME NEW t \in Threads, PopStep(t) PROVE FifoStep
  BY <1>1, <1>4, TakeIsTake DEF PopStep, PopWait, Pop, PopResume, PopNonBlocking
<1>5. ASSUME NEW t \in Threads, SpuriousWakeup(t) PROVE FifoStep
  BY <1>1, <1>5 DEF SpuriousWakeup
<1>. QED
  BY <1>2, <1>3, <1>4, <1>5 DEF Next

\* A TQUEUE is a FIFO queue that exit messages overtake: items come out in the
\* order they went in, each once (tqueue.h), whichever threads push and pop.
THEOREM Implements == Spec => ImplementsFifo
<1>1. Init => Fifo!Init /\ FifoInv
  <2>. SUFFICES ASSUME Init PROVE Fifo!Init /\ FifoInv
    OBVIOUS
  <2>1. queue = <<>> /\ queue \in Seq(Entries) /\ Len(queue) = 0 /\ taken = <<>>
    BY EmptySeq DEF Init
  <2>2. ExitsFirst(queue, 0)
    BY <2>1 DEF ExitsFirst
  <2>3. Exits(queue) = 0 /\ Rest(queue) = <<>>
    <3>1. Exits(queue) = 0
      BY <2>1, <2>2, CountExits
    <3>2. Rest(queue) \in Seq(Entries) /\ Len(Rest(queue)) = 0
      <4>1. Len(queue) \in Nat /\ Rest(queue) \in Seq(Entries) /\ Len(Rest(queue)) = Len(queue) - 0
        BY <2>1, <2>2, RestShape
      <4>. QED
        BY <2>1, <4>1
    <3>. QED
      BY <3>1, <3>2, EmptySeq
  <2>4. QueuedExits = 0 /\ SubSeq(queue, QueuedExits + 1, Len(queue)) = <<>>
    <3>1. QueuedExits = Exits(queue)
      BY Zenon DEF Exits, QueuedExits
    <3>. QED
      BY <2>3, <3>1 DEF Rest
  <2>5. FifoInv
    BY <2>2 DEF FifoInv
  <2>6. taken = <<>>
    BY <2>1
  <2>7. Fifo!Init
    BY <2>4, <2>6 DEF Fifo!Init
  <2>. QED
    BY <2>5, <2>7
<1>2. IInv /\ FifoInv /\ [Next]_vars => FifoInv'
  BY StepIsFifoStep DEF FifoStep
<1>3. IInv /\ FifoInv /\ [Next]_vars => [Fifo!Next]_(Fifo!fifoVars)
  BY StepIsFifoStep DEF FifoStep, Fifo!fifoVars, Rest, Exits, QueuedExits
<1>. QED
  BY <1>1, <1>2, <1>3, InductiveInvariant, PTL DEF Spec, ImplementsFifo, Fifo!Spec
=============================================================================
