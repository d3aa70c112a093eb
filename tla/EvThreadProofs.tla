-------------------------- MODULE EvThreadProofs --------------------------
(***************************************************************************)
(* Proofs about EvThread: no object is used after it was freed, every event *)
(* the loop can report is wanted, and a thread that ends leaves no timer   *)
(* and no open descriptor, for any number of threads, sockets and           *)
(* descriptors.                                                            *)
(*                                                                         *)
(* The invariant is a predicate of the record ev and of the calls that the  *)
(* threads wait in, World(w, wt, th), and not of the variables: a callback *)
(* or a call is a long sequence of functions from one record to the next,   *)
(* and each of them gets a lemma that says that it keeps World.  The step  *)
(* proofs only put these lemmas in a row.                                  *)
(***************************************************************************)
EXTENDS EvThread, SequenceTheorems, FiniteSetTheorems, TLAPS

IOCalls == {"connect", "recv", "recv_all", "send"}

CallState(op) ==
  CASE op = "connect" -> "CONNECTING" [] op = "send" -> "WRITING" [] OTHER -> "READING"

States == {"none", "INIT", "CONNECTED", "CONNECTING", "WRITING", "READING", "ERROR"}

SocketShapes == [state : States, owner : Threads \cup {None}, fd : Fds \cup {None},
                 open : BOOLEAN]
WaitShapes   == [op : IOCalls \cup {"none", "delay"}, sock : Sockets \cup {None},
                 left : 0 .. BufSize]
Events       == ({"timer"} \X Timers) \cup ({"delay"} \X Threads)
                \cup ({"read", "write"} \X Sockets)

Worlds == [socket  : [Sockets -> SocketShapes],
           timer   : [Timers -> {"none", "INIT", "SCHEDULED"}],
           objects : [Threads -> Seq(Objects)],
           pending : SUBSET Events,
           evread  : [Fds -> Sockets \cup {None}],
           evwrite : [Fds -> Sockets \cup {None}],
           watched : SUBSET Fds,
           corrupt : {FALSE}]

\* The owner of socket s waits for it.
Waits(w, wt, s) ==
  /\ wt[w.socket[s].owner].sock = s
  /\ wt[w.socket[s].owner].op \in IOCalls

\* Open sockets have different descriptors and a thread that lives; a socket is
\* open until a timeout has closed it.
SocketsOK(w, th) ==
  \A s \in Sockets :
    /\ w.socket[s].state = "none" => w.socket[s] = NoSocket
    /\ w.socket[s].state # "none" => w.socket[s].owner \in Threads /\ w.socket[s].fd \in Fds
    /\ w.socket[s].state \notin {"none", "ERROR"} => w.socket[s].open
    /\ w.socket[s].open => th[w.socket[s].owner] = "alive"
    /\ \A r \in Sockets :
         w.socket[s].open /\ w.socket[r].open /\ w.socket[s].fd = w.socket[r].fd => s = r

\* A timer belongs to a socket with a thread that lives; the timer of an I/O
\* call exists only during the call.
TimersOK(w, wt, th) ==
  /\ \A x \in Timers :
       /\ w.timer[x] # "none" =>
            w.socket[x[2]].state # "none" /\ th[w.socket[x[2]].owner] = "alive"
       /\ w.timer[x] = "SCHEDULED" <=> <<"timer", x>> \in w.pending
  /\ \A s \in Sockets : w.timer[io(s)] # "none" => Waits(w, wt, s)

\* The socket of an I/O call is open and in the state of the call.
WaitsOK(w, wt) ==
  \A t \in Threads : wt[t].op \in IOCalls =>
    LET s == wt[t].sock
    IN /\ s \in Sockets
       /\ w.socket[s].owner = t /\ w.socket[s].open
       /\ w.socket[s].state = CallState(wt[t].op)

Slot(w, dir) == IF dir = "read" THEN w.evread ELSE w.evwrite

\* A socket event is that of the call its thread is in, or it is left over from
\* a call that timed out: then its entry in the epoll back end stays, no event
\* can be added for the descriptor, and so the kernel never watches it again.
EventsOK(w, wt) ==
  /\ \A t \in Threads : <<"delay", t>> \in w.pending => wt[t].op = "delay"
  /\ \A s \in Sockets, dir \in {"read", "write"} : <<dir, s>> \in w.pending =>
       /\ w.socket[s].state # "none"
       /\ Slot(w, dir)[w.socket[s].fd] = s
       /\ \/ Waits(w, wt, s) /\ dir \in Directions(wt[w.socket[s].owner].op)
          \/ ~w.socket[s].open /\ w.socket[s].fd \notin w.watched

\* object_list of a thread is what the thread owns, each object once.
Enumerates(q, S) ==
  /\ q \in Seq(S)
  /\ \A i, j \in 1 .. Len(q) : q[i] = q[j] => i = j
  /\ \A x \in S : \E i \in 1 .. Len(q) : q[i] = x

Owned(w, t) == {x \in Objects : Allocated(w, x) /\ OwnerOf(w, x) = t}

ListsOK(w) == \A t \in Threads : Enumerates(w.objects[t], Owned(w, t))

World(w, wt, th) ==
  /\ w \in Worlds
  /\ SocketsOK(w, th) /\ TimersOK(w, wt, th) /\ WaitsOK(w, wt) /\ EventsOK(w, wt)
  /\ ListsOK(w)

Inv ==
  /\ thread \in [Threads -> {"unused", "alive", "ended", "lost"}]
  /\ current \in Threads \cup {None}
  /\ wait \in [Threads -> WaitShapes]
  /\ ControlKept
  /\ \A t \in Threads : wait[t].op = "none" => wait[t] = NoWait
  /\ World(ev, wait, thread)

-----------------------------------------------------------------------------
(* Timers, sockets and lists *)

\* Timers and sockets are different objects; every timer is one of the two of
\* its socket.
LEMMA TimerFacts ==
  /\ \A x \in Timers : x \notin Sockets /\ x[2] \in Sockets
                       /\ (x = idle(x[2]) \/ x = io(x[2]))
  /\ \A s \in Sockets : /\ idle(s) \in Timers /\ io(s) \in Timers
                        /\ s \notin Timers /\ idle(s)[2] = s /\ io(s)[2] = s
  /\ \A s, r \in Sockets : idle(s) # io(r)
<1>1. \A s, r \in Sockets : s # idle(r) /\ s # io(r)
  BY EvAssumption DEF idle, io
<1>2. \A s, r \in Sockets : idle(s) # io(r) /\ idle(s)[2] = s /\ io(s)[2] = s
  BY DEF idle, io
<1>3. \A s \in Sockets : idle(s) \in Timers /\ io(s) \in Timers
  BY DEF Timers
<1>4. \A x \in Timers : \E s \in Sockets : x = idle(s) \/ x = io(s)
  BY DEF Timers
<1> QED
  BY <1>1, <1>2, <1>3, <1>4

\* Appending a new object to the list of a set of objects.
LEMMA EnumeratesAppend ==
  ASSUME NEW q, NEW S, Enumerates(q, S), NEW x, x \notin S, NEW T, T = S \cup {x}
  PROVE  Enumerates(Append(q, x), T)
<1> DEFINE r == Append(q, x)
<1>1. q \in Seq(T) /\ Len(q) \in Nat
  BY SeqMonotonic DEF Enumerates
<1>2. r \in Seq(T) /\ Len(r) = Len(q) + 1
  BY <1>1
<1>3. r[Len(q) + 1] = x
  BY <1>1
<1>4. \A i \in 1 .. Len(q) : r[i] = q[i] /\ q[i] \in S
  BY <1>1 DEF Enumerates
<1> HIDE DEF r
<1>5. \A i \in 1 .. Len(r) : i \in 1 .. Len(q) \/ i = Len(q) + 1
  BY <1>1, <1>2
<1>6. \A i, j \in 1 .. Len(r) : r[i] = r[j] => i = j
  BY <1>3, <1>4, <1>5 DEF Enumerates
<1>7. \A i \in 1 .. Len(q) : i \in 1 .. Len(r)
  BY <1>1, <1>2
<1>8. Len(q) + 1 \in 1 .. Len(r)
  BY <1>1, <1>2
<1>9. \A y \in T : \E i \in 1 .. Len(r) : r[i] = y
  BY <1>3, <1>4, <1>7, <1>8 DEF Enumerates
<1>10. Enumerates(r, T)
  BY <1>2, <1>6, <1>9 DEF Enumerates
<1> QED
  BY <1>10 DEF r

\* Where an object of a list is, and what its removal leaves.
LEMMA EnumeratesRemove ==
  ASSUME NEW q, NEW S, Enumerates(q, S), NEW x \in S
  PROVE  LET p == Position(q, x)
             r == RemoveAt(q, p)
         IN /\ p \in 1 .. Len(q) /\ q[p] = x
            /\ Len(r) = Len(q) - 1
            /\ \A i \in 1 .. Len(r) : r[i] = IF i < p THEN q[i] ELSE q[i + 1]
            /\ Enumerates(r, S \ {x})
<1> DEFINE p == Position(q, x)
           r == RemoveAt(q, p)
           a == SubSeq(q, 1, p - 1)
           b == SubSeq(q, p + 1, Len(q))
<1>1. q \in Seq(S) /\ Len(q) \in Nat
  BY DEF Enumerates
<1>2. p \in 1 .. Len(q) /\ q[p] = x
  <2>1. \E i \in 1 .. Len(q) : q[i] = x
    BY DEF Enumerates
  <2> QED
    BY <2>1 DEF Position
<1> HIDE DEF p
<1>3. \A i \in 1 .. Len(q) : q[i] \in S
  BY <1>1
<1>4. /\ a \in Seq(S) /\ Len(a) = p - 1
      /\ \A i \in 1 .. p - 1 : a[i] = q[i]
  <2>1. \A i \in 1 .. p - 1 : q[i] \in S
    BY <1>1, <1>2, <1>3
  <2>2. a \in Seq(S)
    BY <2>1, <1>1, <1>2, SubSeqProperties
  <2>3. Len(a) = IF 1 <= p - 1 THEN (p - 1) - 1 + 1 ELSE 0
    BY <2>1, <1>1, <1>2, SubSeqProperties
  <2>4. \A i \in 1 .. (p - 1) - 1 + 1 : a[i] = q[1 + i - 1]
    BY <2>1, <1>1, <1>2, SubSeqProperties
  <2>5. \A i \in 1 .. p - 1 : 1 + i - 1 = i
    BY <1>1, <1>2
  <2>6. (p - 1) - 1 + 1 = p - 1
    BY <1>2
  <2> HIDE DEF a
  <2> QED
    BY <2>2, <2>3, <2>4, <2>5, <2>6, <1>1, <1>2
<1>5. /\ b \in Seq(S) /\ Len(b) = Len(q) - p
      /\ \A i \in 1 .. Len(q) - p : b[i] = q[p + i]
  <2>1. \A i \in p + 1 .. Len(q) : q[i] \in S
    BY <1>1, <1>2, <1>3
  <2>2. b \in Seq(S)
    BY <2>1, <1>1, <1>2, SubSeqProperties
  <2>3. Len(b) = IF p + 1 <= Len(q) THEN Len(q) - (p + 1) + 1 ELSE 0
    BY <2>1, <1>1, <1>2, SubSeqProperties
  <2>4. \A i \in 1 .. Len(q) - (p + 1) + 1 : b[i] = q[(p + 1) + i - 1]
    BY <2>1, <1>1, <1>2, SubSeqProperties
  <2>5. Len(q) - (p + 1) + 1 = Len(q) - p
    BY <1>1, <1>2
  <2>6. \A i \in 1 .. Len(q) - p : (p + 1) + i - 1 = p + i
    BY <1>1, <1>2
  <2> HIDE DEF b
  <2>7. Len(b) = Len(q) - p
    BY <2>3, <1>1, <1>2
  <2>8. \A i \in 1 .. Len(q) - p : b[i] = q[p + i]
    <3> TAKE i \in 1 .. Len(q) - p
    <3>1. b[i] = q[(p + 1) + i - 1]
      BY <2>4, <2>5
    <3> QED
      BY <3>1, <2>6
  <2> QED
    BY <2>2, <2>7, <2>8
<1>6. r = a \o b
  BY DEF RemoveAt
<1> HIDE DEF r, a, b
<1>7. /\ Len(r) = Len(q) - 1 /\ DOMAIN r = 1 .. Len(r)
      /\ \A i \in 1 .. p - 1 : r[i] = a[i]
      /\ \A i \in p .. Len(q) - 1 : r[i] = b[i - (p - 1)]
  <2>1. Len(r) = Len(a) + Len(b)
    BY <1>4, <1>5, <1>6, ConcatProperties
  <2>2. r \in Seq(S)
    BY <1>4, <1>5, <1>6, ConcatProperties
  <2>3. \A i \in 1 .. Len(a) + Len(b) : r[i] = IF i <= Len(a) THEN a[i] ELSE b[i - Len(a)]
    BY <1>4, <1>5, <1>6, ConcatProperties
  <2>4. Len(r) = Len(q) - 1 /\ DOMAIN r = 1 .. Len(r)
    BY <2>1, <2>2, <1>1, <1>2, <1>4, <1>5
  <2>5. \A i \in 1 .. p - 1 : i \in 1 .. Len(a) + Len(b) /\ i <= Len(a)
    BY <1>1, <1>2, <1>4, <1>5
  <2>6. \A i \in p .. Len(q) - 1 : i \in 1 .. Len(a) + Len(b) /\ ~(i <= Len(a))
    BY <1>1, <1>2, <1>4, <1>5
  <2>7. \A i \in 1 .. p - 1 : r[i] = a[i]
    BY <2>3, <2>5
  <2>8. \A i \in p .. Len(q) - 1 : r[i] = b[i - (p - 1)]
    <3> TAKE i \in p .. Len(q) - 1
    <3>1. r[i] = b[i - Len(a)]
      BY <2>3, <2>6
    <3> QED
      BY <3>1, <1>4
  <2> QED
    BY <2>4, <2>7, <2>8
<1>8. \A i \in 1 .. Len(r) : r[i] = IF i < p THEN q[i] ELSE q[i + 1]
  <2> TAKE i \in 1 .. Len(r)
  <2>1. CASE i < p
    <3>1. i \in 1 .. p - 1
      BY <2>1, <1>1, <1>2, <1>7
    <3> QED
      BY <2>1, <3>1, <1>4, <1>7
  <2>2. CASE ~(i < p)
    <3>1. i \in p .. Len(q) - 1 /\ i - (p - 1) \in 1 .. Len(q) - p
      BY <2>2, <1>1, <1>2, <1>7
    <3>2. p + (i - (p - 1)) = i + 1
      BY <3>1, <1>1, <1>2
    <3> QED
      BY <2>2, <3>1, <3>2, <1>5, <1>7
  <2> QED
    BY <2>1, <2>2
<1>9. Enumerates(r, S \ {x})
  <2>1. \A i \in 1 .. Len(r) : /\ i \in 1 .. Len(q) /\ i + 1 \in 1 .. Len(q)
    BY <1>1, <1>7
  <2>2. \A i \in 1 .. Len(q) : q[i] = x => i = p
    BY <1>2 DEF Enumerates
  <2>3. \A i \in 1 .. Len(r) : r[i] \in S \ {x}
    <3> TAKE i \in 1 .. Len(r)
    <3> DEFINE I == IF i < p THEN i ELSE i + 1
    <3>1. I \in 1 .. Len(q) /\ r[i] = q[I]
      BY <2>1, <1>8
    <3>2. I # p
      BY <1>1, <1>2
    <3> HIDE DEF I
    <3> QED
      BY <3>1, <3>2, <2>2, <1>3
  <2>4. r \in Seq(S \ {x})
    <3>1. r = [i \in 1 .. Len(r) |-> r[i]]
      <4>1. r \in Seq(S)
        BY <1>4, <1>5, <1>6, ConcatProperties
      <4> QED
        BY <4>1
    <3>2. Len(r) \in Nat
      BY <1>1, <1>2, <1>7
    <3> QED
      BY <2>3, <3>1, <3>2, SeqDef
  <2>5. ASSUME NEW i \in 1 .. Len(r), NEW j \in 1 .. Len(r), r[i] = r[j]
        PROVE  i = j
    <3> DEFINE I == IF i < p THEN i ELSE i + 1
               J == IF j < p THEN j ELSE j + 1
    <3>1. I \in 1 .. Len(q) /\ J \in 1 .. Len(q) /\ q[I] = r[i] /\ q[J] = r[j]
      BY <2>1, <1>8
    <3>2. I = J
      <4> HIDE DEF I, J
      <4> QED
        BY <3>1, <2>5 DEF Enumerates
    <3> QED
      BY <3>2, <1>1, <1>2
  <2>6. ASSUME NEW y \in S \ {x} PROVE \E i \in 1 .. Len(r) : r[i] = y
    <3>1. PICK k \in 1 .. Len(q) : q[k] = y
      BY DEF Enumerates
    <3>2. k # p
      BY <3>1, <1>2
    <3>3. CASE k < p
      <4>1. k \in 1 .. Len(r)
        BY <3>3, <1>1, <1>2, <1>7
      <4> QED
        BY <3>1, <3>3, <4>1, <1>8
    <3>4. CASE k > p
      <4>1. k - 1 \in 1 .. Len(r) /\ ~(k - 1 < p) /\ (k - 1) + 1 = k
        BY <3>4, <1>1, <1>2, <1>7
      <4> QED
        BY <3>1, <4>1, <1>8
    <3> QED
      BY <3>2, <3>3, <3>4, <1>1, <1>2
  <2> QED
    BY <2>4, <2>5, <2>6 DEF Enumerates
<1> QED
  BY <1>2, <1>7, <1>8, <1>9 DEF p, r

-----------------------------------------------------------------------------
(* What changes one part of the world and leaves the others alone *)

\* A list depends on what is allocated and who owns it, nothing else.
LEMMA OwnedFrame ==
  ASSUME NEW w, NEW v, NEW t,
         \A s \in Sockets : /\ v.socket[s].state = "none" <=> w.socket[s].state = "none"
                            /\ v.socket[s].owner = w.socket[s].owner,
         \A x \in Timers : v.timer[x] = "none" <=> w.timer[x] = "none"
  PROVE  Owned(v, t) = Owned(w, t)
<1>1. ASSUME NEW x \in Objects
      PROVE  Allocated(v, x) /\ OwnerOf(v, x) = t <=> Allocated(w, x) /\ OwnerOf(w, x) = t
  <2>1. CASE x \in Sockets
    BY <2>1, TimerFacts DEF Allocated, OwnerOf
  <2>2. CASE x \in Timers
    BY <2>2, TimerFacts DEF Allocated, OwnerOf
  <2> QED
    BY <2>1, <2>2 DEF Objects
<1> QED
  BY <1>1 DEF Owned

\* Timers are started and stopped, and none is made or freed.
LEMMA TimerFrame ==
  ASSUME NEW w, NEW wt, NEW th, World(w, wt, th), NEW v \in Worlds,
         v.socket = w.socket, v.objects = w.objects,
         v.evread = w.evread, v.evwrite = w.evwrite, v.watched = w.watched,
         \A y \in Timers : /\ v.timer[y] = "none" <=> w.timer[y] = "none"
                           /\ v.timer[y] = "SCHEDULED" <=> <<"timer", y>> \in v.pending,
         \A e \in v.pending : e[1] # "timer" => e \in w.pending
  PROVE  World(v, wt, th)
<1>1. SocketsOK(v, th) /\ WaitsOK(v, wt)
  BY DEF World, SocketsOK, WaitsOK
<1>2. TimersOK(v, wt, th)
  <2>1. TimersOK(w, wt, th)
    BY DEF World
  <2>2. \A y \in Timers : v.timer[y] # "none" =>
          v.socket[y[2]].state # "none" /\ th[v.socket[y[2]].owner] = "alive"
    BY <2>1 DEF TimersOK
  <2>3. ASSUME NEW s \in Sockets, v.timer[io(s)] # "none" PROVE Waits(v, wt, s)
    <3>1. io(s) \in Timers
      BY TimerFacts
    <3>2. w.timer[io(s)] # "none"
      BY <2>3, <3>1
    <3>3. Waits(w, wt, s)
      BY <2>1, <3>2 DEF TimersOK
    <3> QED
      BY <3>3 DEF Waits
  <2> QED
    BY <2>2, <2>3 DEF TimersOK
<1>3. EventsOK(v, wt)
  <2>1. EventsOK(w, wt)
    BY DEF World
  <2>2. \A t : <<"delay", t>> \in v.pending => <<"delay", t>> \in w.pending
    OBVIOUS
  <2>3. \A s, dir : dir \in {"read", "write"} /\ <<dir, s>> \in v.pending => <<dir, s>> \in w.pending
    OBVIOUS
  <2> QED
    BY <2>1, <2>2, <2>3 DEF EventsOK, Slot, Waits
<1>4. ListsOK(v)
  <2>1. \A t : Owned(v, t) = Owned(w, t)
    BY OwnedFrame
  <2> QED
    BY <2>1 DEF World, ListsOK
<1> QED
  BY <1>1, <1>2, <1>3, <1>4 DEF World

\* EVTIMER_cancel keeps the world and takes the event from the loop.
LEMMA CancelKeeps ==
  ASSUME NEW w, NEW wt, NEW th, World(w, wt, th), NEW x \in Timers
  PROVE  LET v == EVTIMER_cancel(w, x)
         IN /\ World(v, wt, th)
            /\ v.socket = w.socket /\ v.objects = w.objects
            /\ v.evread = w.evread /\ v.evwrite = w.evwrite /\ v.watched = w.watched
            /\ v.pending = w.pending \ {<<"timer", x>>}
            /\ v.timer = [w.timer EXCEPT ![x] = IF @ = "none" THEN "none" ELSE "INIT"]
<1> DEFINE v == EVTIMER_cancel(w, x)
<1>1. /\ w \in Worlds
      /\ w.timer \in [Timers -> {"none", "INIT", "SCHEDULED"}] /\ w.pending \subseteq Events
      /\ \A y \in Timers : w.timer[y] = "SCHEDULED" <=> <<"timer", y>> \in w.pending
  BY DEF World, TimersOK, Worlds
<1>2. /\ v \in Worlds
      /\ v.socket = w.socket /\ v.objects = w.objects
      /\ v.evread = w.evread /\ v.evwrite = w.evwrite /\ v.watched = w.watched
      /\ v.pending = w.pending \ {<<"timer", x>>}
      /\ v.timer = [w.timer EXCEPT ![x] = IF @ = "none" THEN "none" ELSE "INIT"]
  <2>1. CASE w.timer[x] # "SCHEDULED"
    <3>1. v = w
      BY <2>1 DEF EVTIMER_cancel
    <3>2. w.timer = [w.timer EXCEPT ![x] = IF @ = "none" THEN "none" ELSE "INIT"]
      BY <2>1, <1>1
    <3>3. w.pending = w.pending \ {<<"timer", x>>}
      BY <2>1, <1>1
    <3> QED
      BY <3>1, <3>2, <3>3, <1>1
  <2>2. CASE w.timer[x] = "SCHEDULED"
    <3>1. v = [w EXCEPT !.timer[x] = "INIT", !.pending = @ \ {<<"timer", x>>}]
      BY <2>2 DEF EVTIMER_cancel
    <3>2. /\ v.socket = w.socket /\ v.objects = w.objects
          /\ v.evread = w.evread /\ v.evwrite = w.evwrite /\ v.watched = w.watched
          /\ v.pending = w.pending \ {<<"timer", x>>}
          /\ v.timer = [w.timer EXCEPT ![x] = "INIT"]
      BY <3>1, <1>1 DEF Worlds
    <3>3. v.pending \in SUBSET Events /\ v.timer \in [Timers -> {"none", "INIT", "SCHEDULED"}]
      BY <3>2, <1>1
    <3>4. v \in Worlds
      BY <3>1, <3>2, <3>3, <1>1 DEF Worlds
    <3> QED
      BY <2>2, <3>2, <3>4
  <2> QED
    BY <2>1, <2>2
<1> HIDE DEF v
<1>3. \A y \in Timers : /\ v.timer[y] = "none" <=> w.timer[y] = "none"
                        /\ v.timer[y] = "SCHEDULED" <=> <<"timer", y>> \in v.pending
  BY <1>1, <1>2
<1>4. World(v, wt, th)
  BY <1>2, <1>3, TimerFrame
<1> QED
  BY <1>2, <1>4 DEF v

\* EVTIMER_start keeps the world.
LEMMA StartKeeps ==
  ASSUME NEW w, NEW wt, NEW th, World(w, wt, th), NEW x \in Timers
  PROVE  /\ World(EVTIMER_start(w, x), wt, th)
         /\ EVTIMER_start(w, x).socket = w.socket
<1> DEFINE v == EVTIMER_start(w, x)
<1>1. /\ w \in Worlds
      /\ w.timer \in [Timers -> {"none", "INIT", "SCHEDULED"}] /\ w.pending \subseteq Events
      /\ \A y \in Timers : w.timer[y] = "SCHEDULED" <=> <<"timer", y>> \in w.pending
  BY DEF World, TimersOK, Worlds
<1>2. CASE w.timer[x] # "INIT"
  BY <1>2 DEF EVTIMER_start
<1>3. CASE w.timer[x] = "INIT"
  <2>1. v = [w EXCEPT !.timer[x] = "SCHEDULED", !.pending = @ \cup {<<"timer", x>>}]
    BY <1>3 DEF EVTIMER_start
  <2>2. /\ v.socket = w.socket /\ v.objects = w.objects
        /\ v.evread = w.evread /\ v.evwrite = w.evwrite /\ v.watched = w.watched
        /\ v.pending = w.pending \cup {<<"timer", x>>}
        /\ v.timer = [w.timer EXCEPT ![x] = "SCHEDULED"]
    BY <2>1, <1>1 DEF Worlds
  <2>3. v.pending \in SUBSET Events
    BY <2>2, <1>1 DEF Events
  <2>4. v.timer \in [Timers -> {"none", "INIT", "SCHEDULED"}]
    BY <2>2, <1>1
  <2>8. v \in Worlds
    BY <2>1, <2>2, <2>3, <2>4, <1>1 DEF Worlds
  <2> HIDE DEF v
  <2>5. \A y \in Timers : /\ v.timer[y] = "none" <=> w.timer[y] = "none"
                          /\ v.timer[y] = "SCHEDULED" <=> <<"timer", y>> \in v.pending
    BY <2>2, <1>1, <1>3
  <2>6. \A e \in v.pending : e[1] # "timer" => e \in w.pending
    BY <2>2
  <2>7. World(v, wt, th)
    BY <2>2, <2>5, <2>6, <2>8, TimerFrame
  <2> QED
    BY <2>2, <2>7 DEF v
<1> QED
  BY <1>2, <1>3

\* A new timer of a socket, in the list of its thread
TimerMade(w, x) == Linked([w EXCEPT !.timer[x] = "INIT"], w.socket[x[2]].owner, x)

\* EVTIMER_init: a timer is made and linked to the list of its socket's thread.
LEMMA TimerMadeKeeps ==
  ASSUME NEW w, NEW wt, NEW th, World(w, wt, th), NEW x \in Timers,
         w.timer[x] = "none", w.socket[x[2]].state # "none",
         th[w.socket[x[2]].owner] = "alive", x = io(x[2]) => Waits(w, wt, x[2])
  PROVE  World(TimerMade(w, x), wt, th) /\ TimerMade(w, x).socket = w.socket
<1> DEFINE o == w.socket[x[2]].owner
           v == Linked([w EXCEPT !.timer[x] = "INIT"], o, x)
<1>1. /\ w \in Worlds /\ w.timer \in [Timers -> {"none", "INIT", "SCHEDULED"}]
      /\ w.objects \in [Threads -> Seq(Objects)] /\ x[2] \in Sockets
      /\ SocketsOK(w, th) /\ TimersOK(w, wt, th) /\ WaitsOK(w, wt) /\ EventsOK(w, wt)
      /\ ListsOK(w)
  BY TimerFacts DEF World, Worlds
<1>2. o \in Threads
  BY <1>1 DEF SocketsOK
<1>3. /\ v.socket = w.socket /\ v.pending = w.pending
      /\ v.evread = w.evread /\ v.evwrite = w.evwrite /\ v.watched = w.watched
      /\ v.timer = [w.timer EXCEPT ![x] = "INIT"]
      /\ v.objects = [w.objects EXCEPT ![o] = Append(@, x)]
  BY <1>1, <1>2 DEF Linked, Worlds
<1>4. /\ v.timer \in [Timers -> {"none", "INIT", "SCHEDULED"}]
      /\ v.objects \in [Threads -> Seq(Objects)]
  <2>1. Append(w.objects[o], x) \in Seq(Objects)
    BY <1>1, <1>2 DEF Objects
  <2> QED
    BY <1>1, <1>2, <1>3, <2>1
<1>5. v \in Worlds
  BY <1>1, <1>3, <1>4 DEF Linked, Worlds
<1> HIDE DEF v
<1>6. SocketsOK(v, th) /\ WaitsOK(v, wt) /\ EventsOK(v, wt)
  <2>1. SocketsOK(v, th)
    BY <1>1, <1>3 DEF SocketsOK
  <2>2. WaitsOK(v, wt)
    BY <1>1, <1>3 DEF WaitsOK
  <2>3. EventsOK(v, wt)
    <3>1. /\ v.socket = w.socket /\ v.pending = w.pending /\ v.watched = w.watched
          /\ \A dir \in {"read", "write"} : Slot(v, dir) = Slot(w, dir)
      BY <1>3 DEF Slot
    <3>2. \A s \in Sockets : Waits(v, wt, s) <=> Waits(w, wt, s)
      BY <3>1 DEF Waits
    <3>3. EventsOK(w, wt)
      BY <1>1
    <3>4. ASSUME NEW s \in Sockets, NEW dir \in {"read", "write"}, <<dir, s>> \in v.pending
          PROVE  /\ v.socket[s].state # "none"
                 /\ Slot(v, dir)[v.socket[s].fd] = s
                 /\ \/ Waits(v, wt, s) /\ dir \in Directions(wt[v.socket[s].owner].op)
                    \/ ~v.socket[s].open /\ v.socket[s].fd \notin v.watched
      <4>1. /\ w.socket[s].state # "none"
            /\ Slot(w, dir)[w.socket[s].fd] = s
            /\ \/ Waits(w, wt, s) /\ dir \in Directions(wt[w.socket[s].owner].op)
               \/ ~w.socket[s].open /\ w.socket[s].fd \notin w.watched
        BY <3>1, <3>3, <3>4 DEF EventsOK
      <4> QED
        BY <4>1, <3>1, <3>2
    <3>5. \A u \in Threads : <<"delay", u>> \in v.pending => wt[u].op = "delay"
      BY <3>1, <3>3 DEF EventsOK
    <3> QED
      BY <3>4, <3>5 DEF EventsOK
  <2> QED
    BY <2>1, <2>2, <2>3
<1>7. TimersOK(v, wt, th)
  <2>1. \A y \in Timers : y # x => v.timer[y] = w.timer[y]
    BY <1>1, <1>3
  <2>2. v.timer[x] = "INIT"
    BY <1>1, <1>3
  <2>3. \A y \in Timers :
          /\ v.timer[y] # "none" =>
               v.socket[y[2]].state # "none" /\ th[v.socket[y[2]].owner] = "alive"
          /\ v.timer[y] = "SCHEDULED" <=> <<"timer", y>> \in v.pending
    <3> TAKE y \in Timers
    <3>1. CASE y = x
      BY <3>1, <2>2, <1>1, <1>3 DEF TimersOK
    <3>2. CASE y # x
      BY <3>2, <2>1, <1>1, <1>3 DEF TimersOK
    <3> QED
      BY <3>1, <3>2
  <2>4. ASSUME NEW s \in Sockets, v.timer[io(s)] # "none" PROVE Waits(v, wt, s)
    <3>1. Waits(v, wt, s) <=> Waits(w, wt, s)
      BY <1>3 DEF Waits
    <3>2. CASE io(s) = x
      BY <3>1, <3>2, TimerFacts
    <3>3. CASE io(s) # x
      BY <2>1, <2>4, <3>1, <3>3, <1>1, TimerFacts DEF TimersOK
    <3> QED
      BY <3>2, <3>3
  <2> QED
    BY <2>3, <2>4 DEF TimersOK
<1>8. ListsOK(v)
  <2>1. x \in Objects /\ x \notin Sockets
    BY TimerFacts DEF Objects
  <2>2. \A y \in Objects : OwnerOf(v, y) = OwnerOf(w, y)
    BY <1>3 DEF OwnerOf
  <2>3. \A y \in Objects : y # x => (Allocated(v, y) <=> Allocated(w, y))
    BY <1>1, <1>3 DEF Allocated, Objects
  <2>4. Allocated(v, x) /\ ~Allocated(w, x) /\ OwnerOf(w, x) = o
    BY <2>1, <1>1, <1>3 DEF Allocated, OwnerOf
  <2>5. ASSUME NEW t \in Threads PROVE Enumerates(v.objects[t], Owned(v, t))
    <3>1. Enumerates(w.objects[t], Owned(w, t))
      BY <1>1 DEF ListsOK
    <3>2. CASE t = o
      <4>1. Owned(v, t) = Owned(w, t) \cup {x} /\ x \notin Owned(w, t)
        BY <2>1, <2>2, <2>3, <2>4, <3>2 DEF Owned
      <4>2. v.objects[t] = Append(w.objects[t], x)
        BY <1>1, <1>2, <1>3, <3>2
      <4> QED
        BY <3>1, <4>1, <4>2, EnumeratesAppend
    <3>3. CASE t # o
      <4>1. Owned(v, t) = Owned(w, t)
        BY <2>2, <2>3, <2>4, <3>3 DEF Owned
      <4>2. v.objects[t] = w.objects[t]
        BY <1>1, <1>3, <3>3
      <4> QED
        BY <3>1, <4>1, <4>2
    <3> QED
      BY <3>2, <3>3
  <2> QED
    BY <2>5 DEF ListsOK
<1>9. World(v, wt, th)
  BY <1>5, <1>6, <1>7, <1>8 DEF World
<1>10. TimerMade(w, x) = v
  BY DEF TimerMade, v, o
<1> QED
  BY <1>3, <1>9, <1>10

Without(q, x) == RemoveAt(q, Position(q, x))

\* EVTIMER_free: the timer leaves the loop, the list and the heap.
Freed(w, wt, th, x, v) ==
  /\ World(v, wt, th)
  /\ v.socket = w.socket /\ v.evread = w.evread /\ v.evwrite = w.evwrite
  /\ v.watched = w.watched /\ \A e \in v.pending : e \in w.pending
  /\ v.timer = [w.timer EXCEPT ![x] = "none"]
  /\ w.timer[x] # "none" =>
       v.objects[OwnerOf(w, x)] = Without(w.objects[OwnerOf(w, x)], x)
  /\ w.timer[x] = "none" => v = w

LEMMA FreeKeeps ==
  ASSUME NEW w, NEW wt, NEW th, World(w, wt, th), NEW x \in Timers
  PROVE  Freed(w, wt, th, x, EVTIMER_free(w, x))
<1> DEFINE u == EVTIMER_cancel(w, x)
           v == EVTIMER_free(w, x)
           o == OwnerOf(w, x)
<1>1. /\ w \in Worlds /\ w.timer \in [Timers -> {"none", "INIT", "SCHEDULED"}]
      /\ \A y \in Timers : w.timer[y] = "SCHEDULED" <=> <<"timer", y>> \in w.pending
  BY DEF World, Worlds, TimersOK
<1>2. CASE w.timer[x] = "none"
  <2>1. v = w
    BY <1>2 DEF EVTIMER_free
  <2>2. w.timer = [w.timer EXCEPT ![x] = "none"]
    BY <1>1, <1>2
  <2> QED
    BY <2>1, <2>2, <1>2 DEF Freed
<1>3. CASE w.timer[x] # "none"
  <2>1. /\ World(u, wt, th)
        /\ u.socket = w.socket /\ u.objects = w.objects
        /\ u.evread = w.evread /\ u.evwrite = w.evwrite /\ u.watched = w.watched
        /\ u.pending = w.pending \ {<<"timer", x>>}
        /\ u.timer = [w.timer EXCEPT ![x] = "INIT"]
    BY CancelKeeps, <1>3
  <2>2. v = Unlinked([u EXCEPT !.timer[x] = "none"], o, x)
    BY <1>3 DEF EVTIMER_free
  <2> HIDE DEF u, v
  <2>3. /\ u \in Worlds /\ u.timer \in [Timers -> {"none", "INIT", "SCHEDULED"}]
        /\ u.objects \in [Threads -> Seq(Objects)] /\ x[2] \in Sockets
        /\ SocketsOK(u, th) /\ TimersOK(u, wt, th) /\ WaitsOK(u, wt) /\ EventsOK(u, wt)
        /\ ListsOK(u)
    BY <2>1, TimerFacts DEF World, Worlds
  <2>4. o = u.socket[x[2]].owner /\ o \in Threads /\ u.timer[x] # "none"
    <3>1. u.timer[x] # "none"
      BY <2>1, <1>1
    <3>2. u.socket[x[2]].owner \in Threads
      BY <2>3, <3>1 DEF TimersOK, SocketsOK
    <3> QED
      BY <3>1, <3>2, <2>1 DEF OwnerOf
  <2>5. /\ v.socket = u.socket /\ v.pending = u.pending
        /\ v.evread = u.evread /\ v.evwrite = u.evwrite /\ v.watched = u.watched
        /\ v.timer = [u.timer EXCEPT ![x] = "none"]
        /\ v.objects = [u.objects EXCEPT ![o] = RemoveAt(@, Position(@, x))]
    BY <2>2, <2>3, <2>4 DEF Unlinked, Worlds
  <2>6. x \in Objects /\ x \notin Sockets
    BY TimerFacts DEF Objects
  <2>7. Allocated(u, x) /\ ~Allocated(v, x) /\ OwnerOf(u, x) = o
    BY <2>3, <2>4, <2>5, <2>6 DEF Allocated, OwnerOf
  <2>8. \A y \in Objects : OwnerOf(v, y) = OwnerOf(u, y)
    BY <2>5 DEF OwnerOf
  <2>9. \A y \in Objects : y # x => (Allocated(v, y) <=> Allocated(u, y))
    BY <2>3, <2>5 DEF Allocated, Objects
  <2>10. Enumerates(v.objects[o], Owned(u, o) \ {x})
    <3>1. x \in Owned(u, o)
      BY <2>6, <2>7 DEF Owned
    <3>2. Enumerates(u.objects[o], Owned(u, o))
      BY <2>3, <2>4 DEF ListsOK
    <3>3. v.objects[o] = RemoveAt(u.objects[o], Position(u.objects[o], x))
      BY <2>3, <2>4, <2>5
    <3> QED
      BY <3>1, <3>2, <3>3, EnumeratesRemove
  <2>11. ListsOK(v)
    <3>1. ASSUME NEW t \in Threads PROVE Enumerates(v.objects[t], Owned(v, t))
      <4>1. CASE t = o
        <5>1. Owned(v, t) = Owned(u, t) \ {x}
          BY <2>6, <2>7, <2>8, <2>9, <4>1 DEF Owned
        <5> QED
          BY <2>10, <4>1, <5>1
      <4>2. CASE t # o
        <5>1. Owned(v, t) = Owned(u, t)
          BY <2>7, <2>8, <2>9, <4>2 DEF Owned
        <5>2. v.objects[t] = u.objects[t]
          BY <2>3, <2>5, <4>2
        <5> QED
          BY <5>1, <5>2, <2>3 DEF ListsOK
      <4> QED
        BY <4>1, <4>2
    <3> QED
      BY <3>1 DEF ListsOK
  <2>12. v \in Worlds
    <3>1. v.timer \in [Timers -> {"none", "INIT", "SCHEDULED"}]
      BY <2>3, <2>5
    <3>2. v.objects[o] \in Seq(Objects)
      <4>1. v.objects[o] \in Seq(Owned(u, o) \ {x})
        BY <2>10 DEF Enumerates
      <4>2. Owned(u, o) \ {x} \subseteq Objects
        BY DEF Owned
      <4> QED
        BY <4>1, <4>2, SeqMonotonic
    <3>3. v.objects \in [Threads -> Seq(Objects)]
      <4>1. v.objects = [u.objects EXCEPT ![o] = v.objects[o]]
        BY <2>3, <2>4, <2>5
      <4> QED
        BY <4>1, <3>2, <2>3
    <3> QED
      BY <2>2, <2>3, <2>5, <3>1, <3>3 DEF Unlinked, Worlds
  <2>13. SocketsOK(v, th) /\ WaitsOK(v, wt) /\ EventsOK(v, wt)
    BY <2>3, <2>5 DEF SocketsOK, WaitsOK, EventsOK, Slot, Waits
  <2>14. TimersOK(v, wt, th)
    <3>1. \A y \in Timers : y # x => v.timer[y] = u.timer[y]
      BY <2>3, <2>5
    <3>2. v.timer[x] = "none" /\ <<"timer", x>> \notin v.pending
      BY <2>1, <2>3, <2>5
    <3>3. \A s \in Sockets : Waits(v, wt, s) <=> Waits(u, wt, s)
      BY <2>5 DEF Waits
    <3>4. \A s \in Sockets : io(s) \in Timers
      BY TimerFacts
    <3> QED
      BY <3>1, <3>2, <3>3, <3>4, <2>3, <2>5 DEF TimersOK
  <2>15. World(v, wt, th)
    BY <2>11, <2>12, <2>13, <2>14 DEF World
  <2>16. v.timer = [w.timer EXCEPT ![x] = "none"]
    BY <2>1, <2>5, <1>1
  <2>17. \A e \in v.pending : e \in w.pending
    BY <2>1, <2>5
  <2>18. v.objects[o] = Without(w.objects[o], x)
    BY <2>1, <2>3, <2>4, <2>5 DEF Without
  <2> QED
    BY <1>3, <2>1, <2>5, <2>15, <2>16, <2>17, <2>18 DEF v, Freed
<1> QED
  BY <1>2, <1>3

\* event_del keeps the world; the event is gone afterwards.
LEMMA EventDelKeeps ==
  ASSUME NEW w, NEW wt, NEW th, World(w, wt, th), NEW s \in Sockets,
         NEW dir \in {"read", "write"}
  PROVE  LET v == event_del(w, dir, s)
         IN /\ World(v, wt, th)
            /\ v.socket = w.socket /\ v.timer = w.timer /\ v.objects = w.objects
            /\ v.pending = w.pending \ {<<dir, s>>}
<1> DEFINE v == event_del(w, dir, s)
           f == w.socket[s].fd
           slot  == IF dir = "read" THEN "evread" ELSE "evwrite"
           other == IF dir = "read" THEN "evwrite" ELSE "evread"
<1>1. /\ w \in Worlds /\ SocketsOK(w, th) /\ TimersOK(w, wt, th) /\ WaitsOK(w, wt)
      /\ EventsOK(w, wt) /\ ListsOK(w)
  BY DEF World
<1>2. CASE <<dir, s>> \notin w.pending
  <2>1. v = w /\ w.pending = w.pending \ {<<dir, s>>}
    BY <1>2 DEF event_del
  <2> QED
    BY <2>1
<1>3. CASE <<dir, s>> \in w.pending
  <2>1. f \in Fds
    BY <1>1, <1>3 DEF EventsOK, SocketsOK
  <2>2. v = [w EXCEPT ![slot][f] = None, !.pending = @ \ {<<dir, s>>},
                      !.watched = IF w[other][f] = None THEN @ \ {f} ELSE @]
    BY <1>3 DEF event_del
  <2>3. /\ v \in Worlds
        /\ v.socket = w.socket /\ v.timer = w.timer /\ v.objects = w.objects
        /\ v.pending = w.pending \ {<<dir, s>>} /\ v.watched \subseteq w.watched
        /\ Slot(v, dir) = [Slot(w, dir) EXCEPT ![f] = None]
        /\ \A d \in {"read", "write"} : d # dir => Slot(v, d) = Slot(w, d)
    <3> DEFINE W == IF w[other][f] = None THEN w.watched \ {f} ELSE w.watched
    <3>1. W \subseteq w.watched
      OBVIOUS
    <3>2. CASE dir = "read"
      <4>1. v = [w EXCEPT !.evread[f] = None, !.pending = @ \ {<<dir, s>>}, !.watched = W]
        BY <2>2, <3>2
      <4> HIDE DEF W, v
      <4>2. /\ v.socket = w.socket /\ v.timer = w.timer /\ v.objects = w.objects
            /\ v.pending = w.pending \ {<<dir, s>>} /\ v.watched = W
            /\ v.evread = [w.evread EXCEPT ![f] = None] /\ v.evwrite = w.evwrite
        BY <4>1, <1>1 DEF Worlds
      <4>3. /\ v.pending \in SUBSET Events /\ v.watched \in SUBSET Fds
            /\ v.evread \in [Fds -> Sockets \cup {None}]
        BY <4>2, <3>1, <2>1, <1>1 DEF Worlds
      <4>4. v \in Worlds
        BY <4>1, <4>2, <4>3, <1>1 DEF Worlds
      <4> QED
        BY <4>2, <4>4, <3>1, <3>2 DEF Slot
    <3>3. CASE dir = "write"
      <4>1. v = [w EXCEPT !.evwrite[f] = None, !.pending = @ \ {<<dir, s>>}, !.watched = W]
        BY <2>2, <3>3
      <4> HIDE DEF W, v
      <4>2. /\ v.socket = w.socket /\ v.timer = w.timer /\ v.objects = w.objects
            /\ v.pending = w.pending \ {<<dir, s>>} /\ v.watched = W
            /\ v.evwrite = [w.evwrite EXCEPT ![f] = None] /\ v.evread = w.evread
        BY <4>1, <1>1 DEF Worlds
      <4>3. /\ v.pending \in SUBSET Events /\ v.watched \in SUBSET Fds
            /\ v.evwrite \in [Fds -> Sockets \cup {None}]
        BY <4>2, <3>1, <2>1, <1>1 DEF Worlds
      <4>4. v \in Worlds
        BY <4>1, <4>2, <4>3, <1>1 DEF Worlds
      <4> QED
        BY <4>2, <4>4, <3>1, <3>3 DEF Slot
    <3> QED
      BY <3>2, <3>3
  <2> HIDE DEF v
  <2>4. SocketsOK(v, th) /\ WaitsOK(v, wt)
    BY <2>3, <1>1 DEF SocketsOK, WaitsOK
  <2>5. TimersOK(v, wt, th)
    <3>1. \A x : <<"timer", x>> \in v.pending <=> <<"timer", x>> \in w.pending
      BY <2>3
    <3> QED
      BY <2>3, <3>1, <1>1 DEF TimersOK, Waits
  <2>6. EventsOK(v, wt)
    <3>1. \A t \in Threads : <<"delay", t>> \in v.pending => wt[t].op = "delay"
      BY <2>3, <1>1 DEF EventsOK
    <3>2. ASSUME NEW r \in Sockets, NEW d \in {"read", "write"}, <<d, r>> \in v.pending
          PROVE  /\ v.socket[r].state # "none"
                 /\ Slot(v, d)[v.socket[r].fd] = r
                 /\ \/ Waits(v, wt, r) /\ d \in Directions(wt[v.socket[r].owner].op)
                    \/ ~v.socket[r].open /\ v.socket[r].fd \notin v.watched
      <4>1. <<d, r>> \in w.pending /\ (d # dir \/ r # s)
        BY <3>2, <2>3
      <4>2. /\ w.socket[r].state # "none"
            /\ Slot(w, d)[w.socket[r].fd] = r
            /\ \/ Waits(w, wt, r) /\ d \in Directions(wt[w.socket[r].owner].op)
               \/ ~w.socket[r].open /\ w.socket[r].fd \notin w.watched
        BY <4>1, <1>1 DEF EventsOK
      <4>3. Slot(w, dir)[f] = s
        BY <1>1, <1>3 DEF EventsOK
      <4>4. Slot(v, d)[w.socket[r].fd] = r
        <5>1. CASE d # dir
          BY <5>1, <4>2, <2>3
        <5>2. CASE d = dir
          <6>1. w.socket[r].fd # f
            BY <5>2, <4>1, <4>2, <4>3
          <6>2. DOMAIN Slot(w, dir) = Fds
            BY <1>1 DEF Slot, Worlds
          <6> QED
            BY <5>2, <6>1, <6>2, <4>2, <2>3
        <5> QED
          BY <5>1, <5>2
      <4> QED
        BY <4>2, <4>4, <2>3 DEF Waits
    <3> QED
      BY <3>1, <3>2 DEF EventsOK
  <2>7. ListsOK(v)
    <3>1. \A t : Owned(v, t) = Owned(w, t)
      BY <2>3, OwnedFrame
    <3> QED
      BY <3>1, <2>3, <1>1 DEF ListsOK
  <2> QED
    BY <2>3, <2>4, <2>5, <2>6, <2>7 DEF World, v
<1> QED
  BY <1>2, <1>3

\* event_add for the call that the thread is in keeps the world: it fails on a
\* descriptor that still has the entry of a socket that timed out.
LEMMA EventAddKeeps ==
  ASSUME NEW w, NEW wt, NEW th, World(w, wt, th), NEW s \in Sockets,
         NEW dir \in {"read", "write"}, w.socket[s].open, Waits(w, wt, s),
         dir \in Directions(wt[w.socket[s].owner].op)
  PROVE  World(event_add(w, dir, s), wt, th)
<1> DEFINE v == event_add(w, dir, s)
           f == w.socket[s].fd
           slot == IF dir = "read" THEN "evread" ELSE "evwrite"
           fails == (w.evread[f] # None \/ w.evwrite[f] # None) /\ f \notin w.watched
<1>1. /\ w \in Worlds /\ SocketsOK(w, th) /\ TimersOK(w, wt, th) /\ WaitsOK(w, wt)
      /\ EventsOK(w, wt) /\ ListsOK(w)
  BY DEF World
<1>2. CASE fails
  BY <1>2 DEF event_add
<1>3. CASE ~fails
  <2>1. f \in Fds /\ w.socket[s].state # "none"
    BY <1>1 DEF SocketsOK, NoSocket
  <2>2. v = [w EXCEPT ![slot][f] = s, !.watched = @ \cup {f}, !.pending = @ \cup {<<dir, s>>}]
    BY <1>3 DEF event_add
  <2>3. /\ v \in Worlds
        /\ v.socket = w.socket /\ v.timer = w.timer /\ v.objects = w.objects
        /\ v.pending = w.pending \cup {<<dir, s>>} /\ v.watched = w.watched \cup {f}
        /\ Slot(v, dir) = [Slot(w, dir) EXCEPT ![f] = s]
        /\ \A d \in {"read", "write"} : d # dir => Slot(v, d) = Slot(w, d)
    <3>1. <<dir, s>> \in Events
      BY DEF Events
    <3>2. CASE dir = "read"
      <4>1. v = [w EXCEPT !.evread[f] = s, !.watched = @ \cup {f},
                          !.pending = @ \cup {<<dir, s>>}]
        BY <2>2, <3>2
      <4> HIDE DEF v
      <4>2. /\ v.socket = w.socket /\ v.timer = w.timer /\ v.objects = w.objects
            /\ v.pending = w.pending \cup {<<dir, s>>} /\ v.watched = w.watched \cup {f}
            /\ v.evread = [w.evread EXCEPT ![f] = s] /\ v.evwrite = w.evwrite
        BY <4>1, <1>1 DEF Worlds
      <4>3. /\ v.pending \in SUBSET Events /\ v.watched \in SUBSET Fds
            /\ v.evread \in [Fds -> Sockets \cup {None}]
        <5>1. /\ w.pending \in SUBSET Events /\ w.watched \in SUBSET Fds
              /\ w.evread \in [Fds -> Sockets \cup {None}]
          BY <1>1 DEF Worlds
        <5> QED
          BY <5>1, <4>2, <3>1, <2>1
      <4>4. v \in Worlds
        BY <4>1, <4>2, <4>3, <1>1 DEF Worlds
      <4> QED
        BY <4>2, <4>4, <3>1, <3>2 DEF Slot
    <3>3. CASE dir = "write"
      <4>1. v = [w EXCEPT !.evwrite[f] = s, !.watched = @ \cup {f},
                          !.pending = @ \cup {<<dir, s>>}]
        BY <2>2, <3>3
      <4> HIDE DEF v
      <4>2. /\ v.socket = w.socket /\ v.timer = w.timer /\ v.objects = w.objects
            /\ v.pending = w.pending \cup {<<dir, s>>} /\ v.watched = w.watched \cup {f}
            /\ v.evwrite = [w.evwrite EXCEPT ![f] = s] /\ v.evread = w.evread
        BY <4>1, <1>1 DEF Worlds
      <4>3. /\ v.pending \in SUBSET Events /\ v.watched \in SUBSET Fds
            /\ v.evwrite \in [Fds -> Sockets \cup {None}]
        <5>1. /\ w.pending \in SUBSET Events /\ w.watched \in SUBSET Fds
              /\ w.evwrite \in [Fds -> Sockets \cup {None}]
          BY <1>1 DEF Worlds
        <5> QED
          BY <5>1, <4>2, <3>1, <2>1
      <4>4. v \in Worlds
        BY <4>1, <4>2, <4>3, <1>1 DEF Worlds
      <4> QED
        BY <4>2, <4>4, <3>1, <3>3 DEF Slot
    <3> QED
      BY <3>2, <3>3
  <2> HIDE DEF v
  <2>4. SocketsOK(v, th) /\ WaitsOK(v, wt)
    BY <2>3, <1>1 DEF SocketsOK, WaitsOK
  <2>5. TimersOK(v, wt, th)
    <3>1. \A x : <<"timer", x>> \in v.pending <=> <<"timer", x>> \in w.pending
      BY <2>3
    <3> QED
      BY <2>3, <3>1, <1>1 DEF TimersOK, Waits
  <2>6. ASSUME NEW d \in {"read", "write"}, NEW g, g \in Fds, d # dir \/ g # f
        PROVE  Slot(v, d)[g] = Slot(w, d)[g]
    <3>1. DOMAIN Slot(w, dir) = Fds
      BY <1>1 DEF Slot, Worlds
    <3> QED
      BY <3>1, <2>6, <2>3
  <2>7. \A r \in Sockets : w.socket[r].state # "none" => w.socket[r].fd \in Fds
    BY <1>1 DEF SocketsOK
  <2>8. EventsOK(v, wt)
    <3>1. \A t \in Threads : <<"delay", t>> \in v.pending => wt[t].op = "delay"
      BY <2>3, <1>1 DEF EventsOK
    <3>2. ASSUME NEW r \in Sockets, NEW d \in {"read", "write"}, <<d, r>> \in v.pending
          PROVE  /\ v.socket[r].state # "none"
                 /\ Slot(v, d)[v.socket[r].fd] = r
                 /\ \/ Waits(v, wt, r) /\ d \in Directions(wt[v.socket[r].owner].op)
                    \/ ~v.socket[r].open /\ v.socket[r].fd \notin v.watched
      <4>1. CASE d = dir /\ r = s
        <5>1. DOMAIN Slot(w, dir) = Fds
          BY <1>1 DEF Slot, Worlds
        <5> QED
          BY <4>1, <5>1, <2>1, <2>3 DEF Waits
      <4>2. CASE ~(d = dir /\ r = s)
        <5>1. <<d, r>> \in w.pending
          BY <3>2, <4>2, <2>3
        <5>2. /\ w.socket[r].state # "none"
              /\ Slot(w, d)[w.socket[r].fd] = r
              /\ \/ Waits(w, wt, r) /\ d \in Directions(wt[w.socket[r].owner].op)
                 \/ ~w.socket[r].open /\ w.socket[r].fd \notin w.watched
          BY <5>1, <1>1 DEF EventsOK
        <5>3. CASE Waits(w, wt, r) /\ d \in Directions(wt[w.socket[r].owner].op)
          <6>1. w.socket[r].open
            BY <5>2, <5>3, <1>1 DEF WaitsOK, Waits, SocketsOK
          <6>2. w.socket[r].fd = f => r = s
            BY <6>1, <1>1 DEF SocketsOK
          <6>3. Slot(v, d)[w.socket[r].fd] = r
            BY <6>2, <5>2, <4>2, <2>6, <2>7
          <6> QED
            BY <5>2, <5>3, <6>3, <2>3 DEF Waits
        <5>4. CASE ~w.socket[r].open /\ w.socket[r].fd \notin w.watched
          <6>1. w.socket[r].fd # f
            <7>1. Slot(w, d)[w.socket[r].fd] # None
              BY <5>2, EvAssumption
            <7> QED
              BY <7>1, <5>4, <1>3 DEF Slot
          <6>2. Slot(v, d)[w.socket[r].fd] = r
            BY <6>1, <5>2, <2>6, <2>7
          <6> QED
            BY <5>2, <5>4, <6>1, <6>2, <2>3
        <5> QED
          BY <5>2, <5>3, <5>4
      <4> QED
        BY <4>1, <4>2
    <3> QED
      BY <3>1, <3>2 DEF EventsOK
  <2>9. ListsOK(v)
    <3>1. \A t : Owned(v, t) = Owned(w, t)
      BY <2>3, OwnedFrame
    <3> QED
      BY <3>1, <2>3, <1>1 DEF ListsOK
  <2> QED
    BY <2>3, <2>4, <2>5, <2>8, <2>9 DEF World, v
<1> QED
  BY <1>2, <1>3

StateSet(w, s, st) == [w EXCEPT !.socket[s].state = st]

\* Only the state of the socket is another.
LEMMA StateSetFrame ==
  ASSUME NEW w \in Worlds, NEW s \in Sockets, NEW st
  PROVE  LET v == StateSet(w, s, st)
         IN /\ v.timer = w.timer /\ v.socket[s].state = st
            /\ v.socket[s].owner = w.socket[s].owner /\ v.socket[s].open = w.socket[s].open
<1> DEFINE v == [w EXCEPT !.socket[s].state = st]
<1>1. v.timer = w.timer /\ v.socket = [w.socket EXCEPT ![s] = [@ EXCEPT !.state = st]]
  BY DEF Worlds
<1>2. w.socket \in [Sockets -> SocketShapes]
  BY DEF Worlds
<1> HIDE DEF v
<1>3. /\ v.socket[s].state = st
      /\ v.socket[s].owner = w.socket[s].owner /\ v.socket[s].open = w.socket[s].open
  BY <1>1, <1>2 DEF SocketShapes
<1> QED
  BY <1>1, <1>3 DEF v, StateSet

\* A call of a thread that waits for nothing sets the state of a socket, and
\* may begin to wait for it.
LEMMA SocketStateKeeps ==
  ASSUME NEW w, NEW wt \in [Threads -> WaitShapes], NEW th, World(w, wt, th),
         NEW s \in Sockets, w.socket[s].state # "none", w.socket[s].open,
         wt[w.socket[s].owner].op = "none",
         NEW st \in States, st # "none", NEW c \in WaitShapes,
         c.op \in IOCalls => c.sock = s /\ st = CallState(c.op)
  PROVE  LET v == StateSet(w, s, st)
         IN World(v, [wt EXCEPT ![w.socket[s].owner] = c], th)
<1> DEFINE v == [w EXCEPT !.socket[s].state = st]
           o == w.socket[s].owner
           nwt == [wt EXCEPT ![o] = c]
<1>1. /\ w \in Worlds /\ w.socket \in [Sockets -> SocketShapes]
      /\ SocketsOK(w, th) /\ TimersOK(w, wt, th) /\ WaitsOK(w, wt)
      /\ EventsOK(w, wt) /\ ListsOK(w)
  BY DEF World, Worlds
<1>2. o \in Threads
  BY <1>1 DEF SocketsOK
<1>3. /\ v.timer = w.timer /\ v.pending = w.pending /\ v.objects = w.objects
      /\ v.evread = w.evread /\ v.evwrite = w.evwrite /\ v.watched = w.watched
      /\ v.socket = [w.socket EXCEPT ![s] = [@ EXCEPT !.state = st]]
  BY <1>1 DEF Worlds
<1>4. v \in Worlds
  <2>1. [w.socket[s] EXCEPT !.state = st] \in SocketShapes
    BY <1>1 DEF SocketShapes
  <2>2. v.socket \in [Sockets -> SocketShapes]
    BY <1>1, <1>3, <2>1
  <2> QED
    BY <1>1, <1>3, <2>2 DEF Worlds
<1> HIDE DEF v
<1>5. \A r \in Sockets :
        /\ v.socket[r].owner = w.socket[r].owner /\ v.socket[r].fd = w.socket[r].fd
        /\ v.socket[r].open = w.socket[r].open
        /\ v.socket[r].state = "none" <=> w.socket[r].state = "none"
        /\ r # s => v.socket[r] = w.socket[r]
  BY <1>1, <1>3 DEF SocketShapes
<1>6. v.socket[s].state = st
  BY <1>1, <1>3 DEF SocketShapes
<1>7. \A r \in Sockets :
        /\ ~(w.socket[r].owner = o /\ Waits(w, wt, r))
        /\ w.socket[r].owner # o /\ w.socket[r].owner \in Threads =>
             /\ Waits(v, nwt, r) <=> Waits(w, wt, r)
             /\ nwt[w.socket[r].owner] = wt[w.socket[r].owner]
  BY <1>2, <1>5 DEF Waits, IOCalls
<1>8. SocketsOK(v, th)
  BY <1>1, <1>5 DEF SocketsOK
<1>9. TimersOK(v, nwt, th)
  <2>1. \A x \in Timers : x[2] \in Sockets
    BY TimerFacts
  <2>2. \A x \in Timers :
          /\ v.timer[x] # "none" =>
               v.socket[x[2]].state # "none" /\ th[v.socket[x[2]].owner] = "alive"
          /\ v.timer[x] = "SCHEDULED" <=> <<"timer", x>> \in v.pending
    <3> TAKE x \in Timers
    <3>1. /\ w.timer[x] # "none" =>
               w.socket[x[2]].state # "none" /\ th[w.socket[x[2]].owner] = "alive"
          /\ w.timer[x] = "SCHEDULED" <=> <<"timer", x>> \in w.pending
      BY <1>1 DEF TimersOK
    <3>2. PICK r \in Sockets : r = x[2]
      BY <2>1
    <3> QED
      BY <1>3, <1>5, <3>1, <3>2
  <2>3. \A r \in Sockets : v.timer[io(r)] # "none" => Waits(v, nwt, r)
    <3>1. \A r \in Sockets : w.timer[io(r)] # "none" => Waits(w, wt, r)
      BY <1>1 DEF TimersOK
    <3>2. ASSUME NEW r \in Sockets, w.timer[io(r)] # "none"
          PROVE  w.socket[r].owner \in Threads
      <4>1. io(r) \in Timers /\ io(r)[2] = r
        BY TimerFacts
      <4>2. w.socket[r].state # "none"
        BY <3>2, <4>1, <1>1 DEF TimersOK
      <4> QED
        BY <4>2, <1>1 DEF SocketsOK
    <3> QED
      BY <1>3, <1>7, <3>1, <3>2
  <2> QED
    BY <2>2, <2>3 DEF TimersOK
<1>10. WaitsOK(v, nwt)
  <2>1. ASSUME NEW t \in Threads, nwt[t].op \in IOCalls
        PROVE  LET r == nwt[t].sock
               IN /\ r \in Sockets
                  /\ v.socket[r].owner = t /\ v.socket[r].open
                  /\ v.socket[r].state = CallState(nwt[t].op)
    <3>1. CASE t = o
      <4>1. nwt[t] = c
        BY <1>2, <3>1
      <4> QED
        BY <2>1, <3>1, <4>1, <1>5, <1>6
    <3>2. CASE t # o
      <4>1. nwt[t] = wt[t]
        BY <3>2
      <4>2. /\ wt[t].sock \in Sockets /\ w.socket[wt[t].sock].owner = t
            /\ w.socket[wt[t].sock].open
            /\ w.socket[wt[t].sock].state = CallState(wt[t].op)
        BY <2>1, <4>1, <1>1 DEF WaitsOK
      <4>3. wt[t].sock # s
        BY <4>2, <3>2
      <4> QED
        BY <4>1, <4>2, <4>3, <1>5
    <3> QED
      BY <3>1, <3>2
  <2> QED
    BY <2>1 DEF WaitsOK
<1>11. EventsOK(v, nwt)
  <2>1. ASSUME NEW t \in Threads, <<"delay", t>> \in v.pending PROVE nwt[t].op = "delay"
    <3>1. wt[t].op = "delay"
      BY <2>1, <1>1, <1>3 DEF EventsOK
    <3>2. t # o
      BY <3>1
    <3> QED
      BY <3>1, <3>2
  <2>2. ASSUME NEW r \in Sockets, NEW d \in {"read", "write"}, <<d, r>> \in v.pending
        PROVE  /\ v.socket[r].state # "none"
               /\ Slot(v, d)[v.socket[r].fd] = r
               /\ \/ Waits(v, nwt, r) /\ d \in Directions(nwt[v.socket[r].owner].op)
                  \/ ~v.socket[r].open /\ v.socket[r].fd \notin v.watched
    <3>1. /\ w.socket[r].state # "none"
          /\ Slot(w, d)[w.socket[r].fd] = r
          /\ \/ Waits(w, wt, r) /\ d \in Directions(wt[w.socket[r].owner].op)
             \/ ~w.socket[r].open /\ w.socket[r].fd \notin w.watched
      <4>1. <<d, r>> \in w.pending /\ EventsOK(w, wt)
        BY <2>2, <1>1, <1>3
      <4> QED
        BY <4>1 DEF EventsOK
    <3>2. Slot(v, d) = Slot(w, d)
      BY <1>3 DEF Slot
    <3>3. Waits(w, wt, r) => /\ Waits(v, nwt, r)
                             /\ nwt[w.socket[r].owner] = wt[w.socket[r].owner]
      <4>1. Waits(w, wt, r) => w.socket[r].owner # o
        BY <1>7
      <4>2. w.socket[r].owner \in Threads
        BY <3>1, <1>1 DEF SocketsOK
      <4> QED
        BY <4>1, <4>2, <1>7
    <3> QED
      BY <3>1, <3>2, <3>3, <1>3, <1>5
  <2> QED
    BY <2>1, <2>2 DEF EventsOK
<1>12. ListsOK(v)
  <2>1. \A x \in Timers : v.timer[x] = "none" <=> w.timer[x] = "none"
    BY <1>3
  <2>2. \A t : Owned(v, t) = Owned(w, t)
    BY ONLY <2>1, <1>5, OwnedFrame
  <2> QED
    BY <2>2, <1>1, <1>3 DEF ListsOK
<1>13. World(v, nwt, th)
  BY <1>4, <1>8, <1>9, <1>10, <1>11, <1>12 DEF World
<1>14. StateSet(w, s, st) = v
  BY DEF StateSet, v
<1> QED
  BY <1>13, <1>14

\* A thread goes on when its events and its timer are gone.
LEMMA StopWaitKeeps ==
  ASSUME NEW w, NEW wt \in [Threads -> WaitShapes], NEW th, World(w, wt, th),
         NEW t \in Threads, <<"delay", t>> \notin w.pending,
         wt[t].op \in IOCalls => LET s == wt[t].sock
                                 IN /\ w.timer[io(s)] = "none"
                                    /\ <<"read", s>> \notin w.pending
                                    /\ <<"write", s>> \notin w.pending
  PROVE  World(w, [wt EXCEPT ![t] = NoWait], th)
<1> DEFINE nwt == [wt EXCEPT ![t] = NoWait]
<1>1. /\ w \in Worlds /\ SocketsOK(w, th) /\ TimersOK(w, wt, th) /\ WaitsOK(w, wt)
      /\ EventsOK(w, wt) /\ ListsOK(w)
  BY DEF World
<1>2. nwt[t].op = "none" /\ \A u \in Threads : u # t => nwt[u] = wt[u]
  BY DEF NoWait
<1> HIDE DEF nwt
<1>3. WaitsOK(w, nwt)
  BY <1>1, <1>2 DEF WaitsOK, IOCalls
<1>4. \A r \in Sockets :
        w.socket[r].owner \in Threads /\ Waits(w, wt, r) /\ w.socket[r].owner # t =>
          Waits(w, nwt, r) /\ nwt[w.socket[r].owner] = wt[w.socket[r].owner]
  BY <1>2 DEF Waits
<1>5. \A r \in Sockets : w.socket[r].owner = t /\ Waits(w, wt, r) =>
        /\ w.timer[io(r)] = "none"
        /\ <<"read", r>> \notin w.pending /\ <<"write", r>> \notin w.pending
  BY DEF Waits
<1>6. \A r \in Sockets : w.socket[r].state # "none" => w.socket[r].owner \in Threads
  BY <1>1 DEF SocketsOK
<1>7. TimersOK(w, nwt, th)
  <2>1. \A r \in Sockets : io(r) \in Timers /\ io(r)[2] = r
    BY TimerFacts
  <2>2. ASSUME NEW r \in Sockets, w.timer[io(r)] # "none" PROVE Waits(w, nwt, r)
    <3>1. Waits(w, wt, r)
      BY <2>2, <1>1 DEF TimersOK
    <3>2. w.socket[r].state # "none"
      <4>1. io(r) \in Timers /\ io(r)[2] = r
        BY <2>1
      <4>2. \A x \in Timers : w.timer[x] # "none" => w.socket[x[2]].state # "none"
        BY <1>1 DEF TimersOK
      <4>3. w.socket[io(r)[2]].state # "none"
        BY <4>1, <4>2, <2>2
      <4> QED
        BY <4>1, <4>3
    <3> QED
      BY <2>2, <3>1, <3>2, <1>4, <1>5, <1>6
  <2> QED
    BY <2>2, <1>1 DEF TimersOK
<1>8. EventsOK(w, nwt)
  <2>1. \A u \in Threads : <<"delay", u>> \in w.pending => nwt[u].op = "delay"
    BY <1>1, <1>2 DEF EventsOK
  <2>2. ASSUME NEW r \in Sockets, NEW d \in {"read", "write"}, <<d, r>> \in w.pending
        PROVE  /\ w.socket[r].state # "none"
               /\ Slot(w, d)[w.socket[r].fd] = r
               /\ \/ Waits(w, nwt, r) /\ d \in Directions(nwt[w.socket[r].owner].op)
                  \/ ~w.socket[r].open /\ w.socket[r].fd \notin w.watched
    <3>1. /\ w.socket[r].state # "none"
          /\ Slot(w, d)[w.socket[r].fd] = r
          /\ \/ Waits(w, wt, r) /\ d \in Directions(wt[w.socket[r].owner].op)
             \/ ~w.socket[r].open /\ w.socket[r].fd \notin w.watched
      BY <2>2, <1>1 DEF EventsOK
    <3>2. w.socket[r].owner \in Threads
      BY <3>1, <1>6
    <3>3. ~(w.socket[r].owner = t /\ Waits(w, wt, r))
      BY <2>2, <1>5
    <3> QED
      BY <3>1, <3>2, <3>3, <1>4
  <2> QED
    BY <2>1, <2>2 DEF EventsOK
<1>9. World(w, nwt, th)
  BY <1>1, <1>3, <1>7, <1>8 DEF World
<1> QED
  BY <1>9 DEF nwt

\* A call that is timed out closes the descriptor.  Its event may stay in the
\* loop: nobody waits for it and it is not watched.
LEMMA TimedOutKeeps ==
  ASSUME NEW w, NEW wt \in [Threads -> WaitShapes], NEW th, World(w, wt, th),
         NEW t \in Threads, wt[t].op \in IOCalls, NEW s, s = wt[t].sock,
         w.timer[io(s)] = "none"
  PROVE  World(TimedOut(w, s), [wt EXCEPT ![t] = NoWait], th)
<1> DEFINE v == TimedOut(w, s)
           f == w.socket[s].fd
           nwt == [wt EXCEPT ![t] = NoWait]
<1>1. /\ w \in Worlds /\ w.socket \in [Sockets -> SocketShapes]
      /\ SocketsOK(w, th) /\ TimersOK(w, wt, th) /\ WaitsOK(w, wt)
      /\ EventsOK(w, wt) /\ ListsOK(w)
  BY DEF World, Worlds
<1>2. s \in Sockets /\ w.socket[s].owner = t /\ w.socket[s].open /\ w.socket[s].state # "none"
  <2>1. s \in Sockets /\ w.socket[s].owner = t /\ w.socket[s].open
    BY <1>1 DEF WaitsOK
  <2> QED
    BY <2>1, <1>1 DEF SocketsOK, NoSocket
<1>3. /\ v.timer = w.timer /\ v.pending = w.pending /\ v.objects = w.objects
      /\ v.evread = w.evread /\ v.evwrite = w.evwrite /\ v.watched = w.watched \ {f}
      /\ v.socket = [w.socket EXCEPT ![s] = [@ EXCEPT !.state = "ERROR", !.open = FALSE]]
  BY <1>1, <1>2 DEF TimedOut, close, Worlds, SocketShapes
<1>4. v \in Worlds
  <2>1. [w.socket[s] EXCEPT !.state = "ERROR", !.open = FALSE] \in SocketShapes
    BY <1>1, <1>2 DEF SocketShapes, States
  <2>2. v.socket \in [Sockets -> SocketShapes]
    BY <1>1, <1>3, <2>1
  <2>3. v.watched \in SUBSET Fds
    BY <1>1, <1>3 DEF Worlds
  <2> QED
    BY <1>1, <1>3, <2>2, <2>3 DEF TimedOut, close, Worlds
<1> HIDE DEF v
<1>5. \A r \in Sockets :
        /\ v.socket[r].owner = w.socket[r].owner /\ v.socket[r].fd = w.socket[r].fd
        /\ v.socket[r].open => w.socket[r].open /\ r # s
        /\ v.socket[r].state = "none" <=> w.socket[r].state = "none"
        /\ r = s => v.socket[r].state = "ERROR"
        /\ r # s => v.socket[r] = w.socket[r]
  BY <1>1, <1>2, <1>3 DEF SocketShapes
<1>6. nwt[t].op = "none" /\ \A u \in Threads : u # t => nwt[u] = wt[u]
  BY DEF NoWait
<1> HIDE DEF nwt
<1>7. \A r \in Sockets : r # s /\ Waits(w, wt, r) /\ w.socket[r].owner \in Threads =>
        Waits(v, nwt, r) /\ nwt[w.socket[r].owner] = wt[w.socket[r].owner]
  BY <1>5, <1>6 DEF Waits
<1>8. \A r \in Sockets : w.socket[r].state # "none" => w.socket[r].owner \in Threads
  BY <1>1 DEF SocketsOK
<1>9. SocketsOK(v, th)
  <2>1. ASSUME NEW r \in Sockets
        PROVE  /\ v.socket[r].state = "none" => v.socket[r] = NoSocket
               /\ v.socket[r].state # "none" =>
                    v.socket[r].owner \in Threads /\ v.socket[r].fd \in Fds
               /\ v.socket[r].state \notin {"none", "ERROR"} => v.socket[r].open
               /\ v.socket[r].open => th[v.socket[r].owner] = "alive"
    <3>1. CASE r = s
      BY <3>1, <1>1, <1>2, <1>5 DEF SocketsOK
    <3>2. CASE r # s
      BY <3>2, <1>1, <1>5 DEF SocketsOK
    <3> QED
      BY <3>1, <3>2
  <2>2. \A r, q \in Sockets :
          v.socket[r].open /\ v.socket[q].open /\ v.socket[r].fd = v.socket[q].fd => r = q
    BY <1>1, <1>5 DEF SocketsOK
  <2> QED
    BY <2>1, <2>2 DEF SocketsOK
<1>10. TimersOK(v, nwt, th)
  <2>1. \A x \in Timers :
          /\ v.timer[x] # "none" =>
               v.socket[x[2]].state # "none" /\ th[v.socket[x[2]].owner] = "alive"
          /\ v.timer[x] = "SCHEDULED" <=> <<"timer", x>> \in v.pending
    <3> TAKE x \in Timers
    <3>1. /\ w.timer[x] # "none" =>
               w.socket[x[2]].state # "none" /\ th[w.socket[x[2]].owner] = "alive"
          /\ w.timer[x] = "SCHEDULED" <=> <<"timer", x>> \in w.pending
      BY <1>1 DEF TimersOK
    <3>2. PICK r \in Sockets : r = x[2]
      BY TimerFacts
    <3> QED
      BY <1>3, <1>5, <3>1, <3>2
  <2>2. ASSUME NEW r \in Sockets, v.timer[io(r)] # "none" PROVE Waits(v, nwt, r)
    <3>1. Waits(w, wt, r) /\ r # s
      BY <2>2, <1>1, <1>3 DEF TimersOK
    <3>2. io(r) \in Timers /\ io(r)[2] = r
      BY TimerFacts
    <3>3. w.socket[r].state # "none"
      <4>1. w.timer[io(r)] # "none"
        BY <2>2, <1>3
      <4> QED
        BY <3>2, <4>1, <1>1 DEF TimersOK
    <3> QED
      BY <3>1, <3>3, <1>7, <1>8
  <2> QED
    BY <2>1, <2>2 DEF TimersOK
<1>11. WaitsOK(v, nwt)
  <2>1. ASSUME NEW u \in Threads, nwt[u].op \in IOCalls
        PROVE  LET r == nwt[u].sock
               IN /\ r \in Sockets
                  /\ v.socket[r].owner = u /\ v.socket[r].open
                  /\ v.socket[r].state = CallState(nwt[u].op)
    <3>1. u # t /\ nwt[u] = wt[u]
      BY <2>1, <1>6 DEF IOCalls
    <3>2. /\ wt[u].sock \in Sockets /\ w.socket[wt[u].sock].owner = u
          /\ w.socket[wt[u].sock].open
          /\ w.socket[wt[u].sock].state = CallState(wt[u].op)
      BY <2>1, <3>1, <1>1 DEF WaitsOK
    <3>3. wt[u].sock # s
      BY <3>1, <3>2, <1>2
    <3> QED
      BY <3>1, <3>2, <3>3, <1>5
  <2> QED
    BY <2>1 DEF WaitsOK
<1>12. EventsOK(v, nwt)
  <2>1. \A u \in Threads : <<"delay", u>> \in v.pending => nwt[u].op = "delay"
    BY <1>1, <1>3, <1>6 DEF EventsOK, IOCalls
  <2>2. ASSUME NEW r \in Sockets, NEW d \in {"read", "write"}, <<d, r>> \in v.pending
        PROVE  /\ v.socket[r].state # "none"
               /\ Slot(v, d)[v.socket[r].fd] = r
               /\ \/ Waits(v, nwt, r) /\ d \in Directions(nwt[v.socket[r].owner].op)
                  \/ ~v.socket[r].open /\ v.socket[r].fd \notin v.watched
    <3>1. /\ w.socket[r].state # "none"
          /\ Slot(w, d)[w.socket[r].fd] = r
          /\ \/ Waits(w, wt, r) /\ d \in Directions(wt[w.socket[r].owner].op)
             \/ ~w.socket[r].open /\ w.socket[r].fd \notin w.watched
      BY <2>2, <1>1, <1>3 DEF EventsOK
    <3>2. Slot(v, d) = Slot(w, d)
      BY <1>3 DEF Slot
    <3>3. CASE r = s
      BY <3>1, <3>2, <3>3, <1>3, <1>5
    <3>4. CASE r # s
      <4>1. w.socket[r].owner \in Threads
        BY <3>1, <1>8
      <4> QED
        BY <3>1, <3>2, <3>4, <4>1, <1>3, <1>5, <1>7
    <3> QED
      BY <3>3, <3>4
  <2> QED
    BY <2>1, <2>2 DEF EventsOK
<1>13. ListsOK(v)
  <2>1. \A x \in Timers : v.timer[x] = "none" <=> w.timer[x] = "none"
    BY <1>3
  <2>2. \A u : Owned(v, u) = Owned(w, u)
    BY ONLY <2>1, <1>5, OwnedFrame
  <2> QED
    BY <2>2, <1>1, <1>3 DEF ListsOK
<1>14. World(v, nwt, th)
  BY <1>4, <1>9, <1>10, <1>11, <1>12, <1>13 DEF World
<1> QED
  BY <1>14 DEF v, nwt

SocketGone(w, s) ==
  [Unlinked(close(w, s), w.socket[s].owner, s) EXCEPT !.socket[s] = NoSocket]

\* The end of EVSOCKET_close: the descriptor and the object go.
LEMMA SocketGoneKeeps ==
  ASSUME NEW w, NEW wt, NEW th, World(w, wt, th), NEW s \in Sockets, w.socket[s].open,
         ~Waits(w, wt, s), w.timer[idle(s)] = "none", w.timer[io(s)] = "none",
         <<"read", s>> \notin w.pending, <<"write", s>> \notin w.pending
  PROVE  LET v == SocketGone(w, s)
             o == w.socket[s].owner
         IN /\ World(v, wt, th)
            /\ v.timer = w.timer /\ v.pending = w.pending
            /\ v.socket = [w.socket EXCEPT ![s] = NoSocket]
            /\ v.objects = [w.objects EXCEPT ![o] = RemoveAt(@, Position(@, s))]
<1> DEFINE v == SocketGone(w, s)
           f == w.socket[s].fd
           o == w.socket[s].owner
<1>1. /\ w \in Worlds /\ w.socket \in [Sockets -> SocketShapes]
      /\ w.objects \in [Threads -> Seq(Objects)]
      /\ SocketsOK(w, th) /\ TimersOK(w, wt, th) /\ WaitsOK(w, wt)
      /\ EventsOK(w, wt) /\ ListsOK(w)
  BY DEF World, Worlds
<1>2. w.socket[s].state # "none" /\ o \in Threads
  BY <1>1 DEF SocketsOK, NoSocket
<1>3. /\ v.timer = w.timer /\ v.pending = w.pending
      /\ v.evread = w.evread /\ v.evwrite = w.evwrite /\ v.watched = w.watched \ {f}
      /\ v.socket = [w.socket EXCEPT ![s] = NoSocket]
      /\ v.objects = [w.objects EXCEPT ![o] = RemoveAt(@, Position(@, s))]
  BY <1>1, <1>2 DEF SocketGone, Unlinked, close, Worlds, SocketShapes
<1>4. Enumerates(v.objects[o], Owned(w, o) \ {s})
  <2>1. s \in Owned(w, o)
    BY <1>2, TimerFacts DEF Owned, Objects, Allocated, OwnerOf
  <2>2. Enumerates(w.objects[o], Owned(w, o))
    BY <1>1, <1>2 DEF ListsOK
  <2>3. v.objects[o] = RemoveAt(w.objects[o], Position(w.objects[o], s))
    BY <1>1, <1>2, <1>3
  <2> QED
    BY <2>1, <2>2, <2>3, EnumeratesRemove
<1>5. v \in Worlds
  <2>1. NoSocket \in SocketShapes
    BY DEF SocketShapes, NoSocket, States
  <2>2. v.socket \in [Sockets -> SocketShapes]
    BY <1>1, <1>3, <2>1
  <2>3. v.objects[o] \in Seq(Objects)
    <3>1. v.objects[o] \in Seq(Owned(w, o) \ {s})
      BY <1>4 DEF Enumerates
    <3>2. Owned(w, o) \ {s} \subseteq Objects
      BY DEF Owned
    <3> QED
      BY <3>1, <3>2, SeqMonotonic
  <2>4. v.objects \in [Threads -> Seq(Objects)]
    <3>1. v.objects = [w.objects EXCEPT ![o] = v.objects[o]]
      BY <1>1, <1>2, <1>3
    <3> QED
      BY <3>1, <2>3, <1>1
  <2>5. v.watched \in SUBSET Fds
    BY <1>1, <1>3 DEF Worlds
  <2> QED
    BY <1>1, <1>3, <2>2, <2>4, <2>5 DEF SocketGone, Unlinked, close, Worlds
<1> HIDE DEF v
<1>6. \A r \in Sockets : r # s => v.socket[r] = w.socket[r]
  BY <1>1, <1>3
<1>7. v.socket[s].state = "none" /\ v.socket[s].open = FALSE /\ v.socket[s] = NoSocket
  BY <1>1, <1>3 DEF NoSocket
<1>8. \A r \in Sockets : r # s => (Waits(v, wt, r) <=> Waits(w, wt, r))
  BY <1>6 DEF Waits
<1>9. SocketsOK(v, th)
  <2>1. ASSUME NEW r \in Sockets
        PROVE  /\ v.socket[r].state = "none" => v.socket[r] = NoSocket
               /\ v.socket[r].state # "none" =>
                    v.socket[r].owner \in Threads /\ v.socket[r].fd \in Fds
               /\ v.socket[r].state \notin {"none", "ERROR"} => v.socket[r].open
               /\ v.socket[r].open => th[v.socket[r].owner] = "alive"
    <3>1. CASE r = s
      BY <1>7, <3>1
    <3>2. CASE r # s
      BY <1>1, <1>6, <3>2 DEF SocketsOK
    <3> QED
      BY <3>1, <3>2
  <2>2. \A r, q \in Sockets :
          v.socket[r].open /\ v.socket[q].open /\ v.socket[r].fd = v.socket[q].fd => r = q
    BY <1>1, <1>6, <1>7 DEF SocketsOK
  <2> QED
    BY <2>1, <2>2 DEF SocketsOK
<1>10. TimersOK(v, wt, th)
  <2>1. \A x \in Timers :
          /\ v.timer[x] # "none" =>
               v.socket[x[2]].state # "none" /\ th[v.socket[x[2]].owner] = "alive"
          /\ v.timer[x] = "SCHEDULED" <=> <<"timer", x>> \in v.pending
    <3> TAKE x \in Timers
    <3>1. /\ w.timer[x] # "none" =>
               w.socket[x[2]].state # "none" /\ th[w.socket[x[2]].owner] = "alive"
          /\ w.timer[x] = "SCHEDULED" <=> <<"timer", x>> \in w.pending
      BY <1>1 DEF TimersOK
    <3>2. PICK r \in Sockets : r = x[2] /\ (x = idle(r) \/ x = io(r))
      BY TimerFacts
    <3> QED
      BY <1>3, <1>6, <3>1, <3>2
  <2>2. \A r \in Sockets : v.timer[io(r)] # "none" => Waits(v, wt, r)
    BY <1>1, <1>3, <1>8 DEF TimersOK
  <2> QED
    BY <2>1, <2>2 DEF TimersOK
<1>11. WaitsOK(v, wt)
  <2>1. ASSUME NEW u \in Threads, wt[u].op \in IOCalls PROVE wt[u].sock # s
    BY <2>1, <1>1 DEF WaitsOK, Waits
  <2> QED
    BY <2>1, <1>1, <1>6 DEF WaitsOK
<1>12. EventsOK(v, wt)
  <2>1. \A u \in Threads : <<"delay", u>> \in v.pending => wt[u].op = "delay"
    BY <1>1, <1>3 DEF EventsOK
  <2>2. ASSUME NEW r \in Sockets, NEW d \in {"read", "write"}, <<d, r>> \in v.pending
        PROVE  /\ v.socket[r].state # "none"
               /\ Slot(v, d)[v.socket[r].fd] = r
               /\ \/ Waits(v, wt, r) /\ d \in Directions(wt[v.socket[r].owner].op)
                  \/ ~v.socket[r].open /\ v.socket[r].fd \notin v.watched
    <3>1. /\ w.socket[r].state # "none"
          /\ Slot(w, d)[w.socket[r].fd] = r
          /\ \/ Waits(w, wt, r) /\ d \in Directions(wt[w.socket[r].owner].op)
             \/ ~w.socket[r].open /\ w.socket[r].fd \notin w.watched
      BY <2>2, <1>1, <1>3 DEF EventsOK
    <3>2. Slot(v, d) = Slot(w, d)
      BY <1>3 DEF Slot
    <3>3. r # s
      BY <2>2, <1>3
    <3> QED
      BY <3>1, <3>2, <3>3, <1>3, <1>6, <1>8
  <2> QED
    BY <2>1, <2>2 DEF EventsOK
<1>13. ListsOK(v)
  <2>1. \A y \in Objects : y # s /\ Allocated(w, y) => OwnerOf(v, y) = OwnerOf(w, y)
    <3> TAKE y \in Objects
    <3> HAVE y # s /\ Allocated(w, y)
    <3>1. CASE y \in Sockets
      BY <3>1, <1>6, TimerFacts DEF OwnerOf
    <3>2. CASE y \in Timers
      <4>1. PICK r \in Sockets : r = y[2] /\ (y = idle(r) \/ y = io(r))
        BY <3>2, TimerFacts
      <4>2. y \notin Sockets
        BY <3>2, TimerFacts
      <4>3. r # s
        BY <4>1, <4>2 DEF Allocated
      <4> QED
        BY <3>2, <4>1, <4>3, <1>6 DEF OwnerOf
    <3> QED
      BY <3>1, <3>2 DEF Objects
  <2>2. \A y \in Objects : y # s => (Allocated(v, y) <=> Allocated(w, y))
    BY <1>3, <1>6 DEF Allocated, Objects
  <2>3. ~Allocated(v, s) /\ OwnerOf(w, s) = o
    BY <1>7, TimerFacts DEF Allocated, OwnerOf
  <2>4. ASSUME NEW u \in Threads PROVE Enumerates(v.objects[u], Owned(v, u))
    <3>1. CASE u = o
      <4>1. Owned(v, u) = Owned(w, u) \ {s}
        BY <2>1, <2>2, <2>3, <3>1 DEF Owned
      <4> QED
        BY <1>4, <3>1, <4>1
    <3>2. CASE u # o
      <4>1. Owned(v, u) = Owned(w, u)
        BY <2>1, <2>2, <2>3, <3>2 DEF Owned
      <4>2. v.objects[u] = w.objects[u]
        BY <1>1, <1>3, <3>2
      <4> QED
        BY <4>1, <4>2, <1>1 DEF ListsOK
    <3> QED
      BY <3>1, <3>2
  <2> QED
    BY <2>4 DEF ListsOK
<1>14. World(v, wt, th)
  BY <1>5, <1>9, <1>10, <1>11, <1>12, <1>13 DEF World
<1> QED
  BY <1>3, <1>14 DEF v

\* EVSOCKET_close of an open socket that no call waits for keeps the world.
LEMMA CloseKeeps ==
  ASSUME NEW w, NEW wt, NEW th, World(w, wt, th), NEW s \in Sockets, w.socket[s].open,
         ~Waits(w, wt, s)
  PROVE  LET v == EVSOCKET_close(w, s)
             o == w.socket[s].owner
         IN /\ World(v, wt, th)
            /\ \A r \in Sockets : /\ v.socket[r] = IF r = s THEN NoSocket ELSE w.socket[r]
                                  /\ w.timer[idle(r)] = "none" => v.timer[idle(r)] = "none"
            /\ w.timer[idle(s)] = "none" => v.objects[o] = Without(w.objects[o], s)
<1> DEFINE u == EVTIMER_free(w, idle(s))
           w1 == EVTIMER_free(u, io(s))
           z == event_del(w1, "read", s)
           w2 == event_del(z, "write", s)
           v == SocketGone(w2, s)
           o == w.socket[s].owner
<1>1. idle(s) \in Timers /\ io(s) \in Timers /\ idle(s) # io(s)
  BY TimerFacts
<1>2. w.timer \in [Timers -> {"none", "INIT", "SCHEDULED"}] /\ w.timer[io(s)] = "none"
  BY DEF World, Worlds, TimersOK
<1>3. /\ World(u, wt, th) /\ u.socket = w.socket
      /\ u.timer = [w.timer EXCEPT ![idle(s)] = "none"]
      /\ w.timer[idle(s)] = "none" => u = w
  <2>1. Freed(w, wt, th, idle(s), u)
    BY <1>1, FreeKeeps
  <2> HIDE DEF u
  <2> QED
    BY <2>1 DEF Freed
<1>4. EVSOCKET_close(w, s) = [Unlinked(close(w2, s), o, s) EXCEPT !.socket[s] = NoSocket]
  BY Zenon DEF EVSOCKET_close
<1> HIDE DEF u
<1>5. u.timer[io(s)] = "none"
  BY <1>1, <1>2, <1>3
<1>6. World(w1, wt, th) /\ w1 = u
  <2>1. w1 = u
    BY <1>5 DEF EVTIMER_free
  <2> QED
    BY <1>3, <2>1
<1> HIDE DEF w1
<1>7. /\ World(z, wt, th)
      /\ z.socket = w1.socket /\ z.timer = w1.timer /\ z.objects = w1.objects
      /\ z.pending = w1.pending \ {<<"read", s>>}
  BY <1>6, EventDelKeeps
<1> HIDE DEF z
<1>8. /\ World(w2, wt, th)
      /\ w2.socket = z.socket /\ w2.timer = z.timer /\ w2.objects = z.objects
      /\ w2.pending = z.pending \ {<<"write", s>>}
  BY <1>7, EventDelKeeps
<1> HIDE DEF w2
<1>9. /\ w2.socket = w.socket /\ w2.objects = u.objects
      /\ w2.timer = [w.timer EXCEPT ![idle(s)] = "none"]
      /\ <<"read", s>> \notin w2.pending /\ <<"write", s>> \notin w2.pending
  BY <1>3, <1>6, <1>7, <1>8
<1>10. /\ w2.timer[idle(s)] = "none" /\ w2.timer[io(s)] = "none" /\ w2.socket[s].open
       /\ ~Waits(w2, wt, s)
  BY <1>1, <1>2, <1>9 DEF Waits
<1>11. /\ World(v, wt, th) /\ v.timer = w2.timer
       /\ v.socket = [w2.socket EXCEPT ![s] = NoSocket]
       /\ v.objects = [w2.objects EXCEPT ![o] = RemoveAt(@, Position(@, s))]
  <2>1. w2.socket[s].owner = o
    BY <1>9
  <2>2. World(w2, wt, th)
    BY <1>8
  <2>3. <<"read", s>> \notin w2.pending /\ <<"write", s>> \notin w2.pending
    BY <1>9
  <2>4. /\ World(v, wt, th) /\ v.timer = w2.timer
        /\ v.socket = [w2.socket EXCEPT ![s] = NoSocket]
        /\ v.objects = [w2.objects EXCEPT ![w2.socket[s].owner] = RemoveAt(@, Position(@, s))]
    BY <1>10, <2>2, <2>3, SocketGoneKeeps
  <2> HIDE DEF v
  <2> QED
    BY <2>1, <2>4
<1>12. ASSUME NEW x \in Timers PROVE v.timer[x] = IF x[2] = s THEN "none" ELSE w.timer[x]
  <2>1. x[2] = s <=> x = idle(s) \/ x = io(s)
    BY TimerFacts
  <2>2. v.timer = [w.timer EXCEPT ![idle(s)] = "none"]
    BY <1>9, <1>11
  <2> HIDE DEF v
  <2> QED
    BY <2>1, <2>2, <1>1, <1>2
<1>13. EVSOCKET_close(w, s) = v
  <2>1. w2.socket[s].owner = o
    BY <1>9
  <2> QED
    BY <1>4, <2>1 DEF SocketGone
<1> HIDE DEF v
<1>14. w.timer[idle(s)] = "none" => v.objects[o] = Without(w.objects[o], s)
  <2>1. w.objects \in [Threads -> Seq(Objects)] /\ o \in Threads
    BY DEF World, Worlds, SocketsOK, NoSocket
  <2>2. w.timer[idle(s)] = "none" => w2.objects = w.objects
    BY <1>3, <1>6, <1>7, <1>8
  <2> QED
    BY <1>11, <2>1, <2>2 DEF Without
<1>15. ASSUME NEW r \in Sockets
       PROVE  /\ v.socket[r] = IF r = s THEN NoSocket ELSE w.socket[r]
              /\ w.timer[idle(r)] = "none" => v.timer[idle(r)] = "none"
  <2>1. w.socket \in [Sockets -> SocketShapes] /\ idle(r) \in Timers
    BY TimerFacts DEF World, Worlds
  <2> QED
    BY <1>9, <1>11, <1>12, <2>1
<1> QED
  BY <1>11, <1>13, <1>14, <1>15

\* EVSOCKET_init: a descriptor that no open socket has, for a thread that lives.
LEMMA SocketInitKeeps ==
  ASSUME NEW w, NEW wt, NEW th, World(w, wt, th), NEW s \in Sockets, NEW f \in Fds,
         NEW t \in Threads, th[t] = "alive", NEW st \in {"INIT", "CONNECTED"},
         w.socket[s].state = "none", Unused(w, f)
  PROVE  World(EVSOCKET_init(w, t, s, f, st), wt, th)
<1> DEFINE v == EVSOCKET_init(w, t, s, f, st)
           new == [state |-> st, owner |-> t, fd |-> f, open |-> TRUE]
<1>1. /\ w \in Worlds /\ w.socket \in [Sockets -> SocketShapes]
      /\ w.objects \in [Threads -> Seq(Objects)]
      /\ SocketsOK(w, th) /\ TimersOK(w, wt, th) /\ WaitsOK(w, wt)
      /\ EventsOK(w, wt) /\ ListsOK(w)
  BY DEF World, Worlds
<1>2. ~w.socket[s].open
  BY <1>1 DEF SocketsOK, NoSocket
<1>3. /\ v.timer = w.timer /\ v.pending = w.pending
      /\ v.evread = w.evread /\ v.evwrite = w.evwrite /\ v.watched = w.watched
      /\ v.socket = [w.socket EXCEPT ![s] = new]
      /\ v.objects = [w.objects EXCEPT ![t] = Append(@, s)]
  BY <1>1 DEF EVSOCKET_init, Linked, Worlds
<1>4. v \in Worlds
  <2>1. new \in SocketShapes
    BY DEF SocketShapes, States
  <2> HIDE DEF new
  <2>2. v.socket \in [Sockets -> SocketShapes]
    BY <1>1, <1>3, <2>1
  <2>3. Append(w.objects[t], s) \in Seq(Objects)
    BY <1>1 DEF Objects
  <2>4. v.objects \in [Threads -> Seq(Objects)]
    BY <2>3, <1>1, <1>3
  <2> QED
    BY <1>1, <1>3, <2>2, <2>4 DEF EVSOCKET_init, Linked, Worlds
<1>5. /\ new.owner = t /\ new.fd = f /\ new.open /\ new.state # "none"
  OBVIOUS
<1> HIDE DEF v, new
<1>6. v.socket[s] = new /\ \A r \in Sockets : r # s => v.socket[r] = w.socket[r]
  BY <1>1, <1>3
<1>7. \A r \in Sockets : r # s => (Waits(v, wt, r) <=> Waits(w, wt, r))
  BY <1>6 DEF Waits
<1>8. SocketsOK(v, th)
  <2>1. ASSUME NEW r \in Sockets
        PROVE  /\ v.socket[r].state = "none" => v.socket[r] = NoSocket
               /\ v.socket[r].state # "none" =>
                    v.socket[r].owner \in Threads /\ v.socket[r].fd \in Fds
               /\ v.socket[r].state \notin {"none", "ERROR"} => v.socket[r].open
               /\ v.socket[r].open => th[v.socket[r].owner] = "alive"
    BY <1>1, <1>5, <1>6 DEF SocketsOK
  <2>2. ASSUME NEW r \in Sockets, NEW q \in Sockets, v.socket[r].open, v.socket[q].open,
               v.socket[r].fd = v.socket[q].fd
        PROVE  r = q
    <3>1. \A a \in Sockets : w.socket[a].open => w.socket[a].fd # f
      BY DEF Unused
    <3> QED
      BY <2>2, <3>1, <1>1, <1>5, <1>6 DEF SocketsOK
  <2> QED
    BY <2>1, <2>2 DEF SocketsOK
<1>9. \A x \in Timers : w.timer[x] # "none" => x[2] # s
  BY <1>1 DEF TimersOK
<1>10. TimersOK(v, wt, th)
  <2>1. \A x \in Timers :
          /\ v.timer[x] # "none" =>
               v.socket[x[2]].state # "none" /\ th[v.socket[x[2]].owner] = "alive"
          /\ v.timer[x] = "SCHEDULED" <=> <<"timer", x>> \in v.pending
    <3> TAKE x \in Timers
    <3>1. /\ w.timer[x] # "none" =>
               w.socket[x[2]].state # "none" /\ th[w.socket[x[2]].owner] = "alive"
          /\ w.timer[x] = "SCHEDULED" <=> <<"timer", x>> \in w.pending
      BY <1>1 DEF TimersOK
    <3>2. PICK r \in Sockets : r = x[2]
      BY TimerFacts
    <3> QED
      BY <1>3, <1>6, <1>9, <3>1, <3>2
  <2>2. ASSUME NEW r \in Sockets, v.timer[io(r)] # "none" PROVE Waits(v, wt, r)
    <3>1. io(r) \in Timers /\ io(r)[2] = r
      BY TimerFacts
    <3>2. w.timer[io(r)] # "none"
      BY <2>2, <1>3
    <3>3. r # s
      BY <3>1, <3>2, <1>9
    <3> QED
      BY <3>2, <3>3, <1>1, <1>7 DEF TimersOK
  <2> QED
    BY <2>1, <2>2 DEF TimersOK
<1>11. WaitsOK(v, wt)
  <2>1. ASSUME NEW u \in Threads, wt[u].op \in IOCalls PROVE wt[u].sock # s
    BY <2>1, <1>1, <1>2 DEF WaitsOK
  <2> QED
    BY <2>1, <1>1, <1>6 DEF WaitsOK
<1>12. EventsOK(v, wt)
  <2>1. \A u \in Threads : <<"delay", u>> \in v.pending => wt[u].op = "delay"
    BY <1>1, <1>3 DEF EventsOK
  <2>2. ASSUME NEW r \in Sockets, NEW d \in {"read", "write"}, <<d, r>> \in v.pending
        PROVE  /\ v.socket[r].state # "none"
               /\ Slot(v, d)[v.socket[r].fd] = r
               /\ \/ Waits(v, wt, r) /\ d \in Directions(wt[v.socket[r].owner].op)
                  \/ ~v.socket[r].open /\ v.socket[r].fd \notin v.watched
    <3>1. /\ w.socket[r].state # "none"
          /\ Slot(w, d)[w.socket[r].fd] = r
          /\ \/ Waits(w, wt, r) /\ d \in Directions(wt[w.socket[r].owner].op)
             \/ ~w.socket[r].open /\ w.socket[r].fd \notin w.watched
      BY <2>2, <1>1, <1>3 DEF EventsOK
    <3>2. Slot(v, d) = Slot(w, d) /\ r # s
      BY <1>3, <3>1 DEF Slot
    <3> QED
      BY <3>1, <3>2, <1>3, <1>6, <1>7
  <2> QED
    BY <2>1, <2>2 DEF EventsOK
<1>13. ListsOK(v)
  <2>1. \A y \in Objects : y # s /\ Allocated(w, y) => OwnerOf(v, y) = OwnerOf(w, y)
    <3> TAKE y \in Objects
    <3> HAVE y # s /\ Allocated(w, y)
    <3>1. CASE y \in Sockets
      BY <3>1, <1>6, TimerFacts DEF OwnerOf
    <3>2. CASE y \in Timers
      <4>1. PICK r \in Sockets : r = y[2]
        BY <3>2, TimerFacts
      <4>2. y \notin Sockets
        BY <3>2, TimerFacts
      <4>3. r # s
        BY <3>2, <4>1, <4>2, <1>9 DEF Allocated
      <4> QED
        BY <3>2, <4>1, <4>3, <1>6 DEF OwnerOf
    <3> QED
      BY <3>1, <3>2 DEF Objects
  <2>2. \A y \in Objects : y # s => (Allocated(v, y) <=> Allocated(w, y))
    BY <1>3, <1>6 DEF Allocated, Objects
  <2>3. /\ Allocated(v, s) /\ ~Allocated(w, s) /\ OwnerOf(v, s) = t /\ s \in Objects
    BY <1>5, <1>6, TimerFacts DEF Allocated, OwnerOf, Objects
  <2>4. ASSUME NEW u \in Threads PROVE Enumerates(v.objects[u], Owned(v, u))
    <3>1. Enumerates(w.objects[u], Owned(w, u))
      BY <1>1 DEF ListsOK
    <3>2. CASE u = t
      <4>1. Owned(v, u) = Owned(w, u) \cup {s} /\ s \notin Owned(w, u)
        BY <2>1, <2>2, <2>3, <3>2 DEF Owned
      <4>2. v.objects[u] = Append(w.objects[u], s)
        BY <1>1, <1>3, <3>2
      <4> QED
        BY <3>1, <4>1, <4>2, EnumeratesAppend
    <3>3. CASE u # t
      <4>1. Owned(v, u) = Owned(w, u)
        BY <2>1, <2>2, <2>3, <3>3 DEF Owned
      <4>2. v.objects[u] = w.objects[u]
        BY <1>1, <1>3, <3>3
      <4> QED
        BY <3>1, <4>1, <4>2
    <3> QED
      BY <3>2, <3>3
  <2> QED
    BY <2>4 DEF ListsOK
<1>14. World(v, wt, th)
  BY <1>4, <1>8, <1>10, <1>11, <1>12, <1>13 DEF World
<1> QED
  BY <1>14 DEF v

\* The timer of a delay is set by a thread that waits for nothing.
LEMMA DelayKeeps ==
  ASSUME NEW w, NEW wt \in [Threads -> WaitShapes], NEW th, World(w, wt, th),
         NEW t \in Threads, wt[t].op = "none", NEW c, c.op = "delay"
  PROVE  World([w EXCEPT !.pending = @ \cup {<<"delay", t>>}], [wt EXCEPT ![t] = c], th)
<1> DEFINE v == [w EXCEPT !.pending = @ \cup {<<"delay", t>>}]
           nwt == [wt EXCEPT ![t] = c]
<1>1. /\ w \in Worlds /\ SocketsOK(w, th) /\ TimersOK(w, wt, th) /\ WaitsOK(w, wt)
      /\ EventsOK(w, wt) /\ ListsOK(w)
  BY DEF World
<1>2. /\ v.timer = w.timer /\ v.socket = w.socket /\ v.objects = w.objects
      /\ v.evread = w.evread /\ v.evwrite = w.evwrite /\ v.watched = w.watched
      /\ v.pending = w.pending \cup {<<"delay", t>>}
  BY <1>1 DEF Worlds
<1>3. v \in Worlds
  <2>1. <<"delay", t>> \in Events
    BY DEF Events
  <2>2. v.pending \in SUBSET Events
    BY <1>1, <1>2, <2>1 DEF Worlds
  <2> QED
    BY <1>1, <1>2, <2>2 DEF Worlds
<1>4. nwt[t] = c /\ \A u \in Threads : u # t => nwt[u] = wt[u]
  OBVIOUS
<1> HIDE DEF v, nwt
<1>5. ASSUME NEW r \in Sockets, Waits(w, wt, r), w.socket[r].owner \in Threads
      PROVE  Waits(v, nwt, r) /\ nwt[v.socket[r].owner] = wt[w.socket[r].owner]
  <2>1. w.socket[r].owner # t
    BY <1>5 DEF Waits, IOCalls
  <2> QED
    BY <1>2, <1>4, <1>5, <2>1 DEF Waits
<1>6. \A r \in Sockets : w.socket[r].state # "none" => w.socket[r].owner \in Threads
  BY <1>1 DEF SocketsOK
<1>7. SocketsOK(v, th)
  BY <1>1, <1>2 DEF SocketsOK
<1>8. TimersOK(v, nwt, th)
  <2>1. \A x : <<"timer", x>> \in v.pending <=> <<"timer", x>> \in w.pending
    BY <1>2
  <2>2. ASSUME NEW x \in Timers
        PROVE  /\ v.timer[x] # "none" =>
                    v.socket[x[2]].state # "none" /\ th[v.socket[x[2]].owner] = "alive"
               /\ v.timer[x] = "SCHEDULED" <=> <<"timer", x>> \in v.pending
    <3>1. /\ w.timer[x] # "none" =>
               w.socket[x[2]].state # "none" /\ th[w.socket[x[2]].owner] = "alive"
          /\ w.timer[x] = "SCHEDULED" <=> <<"timer", x>> \in w.pending
      BY <1>1 DEF TimersOK
    <3>2. v.timer = w.timer /\ v.socket = w.socket
      BY <1>2
    <3> QED
      BY <2>1, <3>1, <3>2
  <2>3. ASSUME NEW r \in Sockets, v.timer[io(r)] # "none" PROVE Waits(v, nwt, r)
    <3>1. io(r) \in Timers /\ io(r)[2] = r
      BY TimerFacts
    <3>2. w.timer[io(r)] # "none"
      BY <2>3, <1>2
    <3>3. w.socket[r].state # "none" /\ Waits(w, wt, r)
      BY <3>1, <3>2, <1>1 DEF TimersOK
    <3> QED
      BY <3>3, <1>5, <1>6
  <2> QED
    BY <2>2, <2>3 DEF TimersOK
<1>9. WaitsOK(v, nwt)
  <2>1. \A u \in Threads : nwt[u].op \in IOCalls => nwt[u] = wt[u]
    BY <1>4 DEF IOCalls
  <2> QED
    BY <2>1, <1>1, <1>2 DEF WaitsOK
<1>10. EventsOK(v, nwt)
  <2>1. ASSUME NEW u \in Threads, <<"delay", u>> \in v.pending PROVE nwt[u].op = "delay"
    <3>1. CASE u = t
      BY <3>1, <1>4
    <3>2. CASE u # t
      BY <2>1, <3>2, <1>1, <1>2, <1>4 DEF EventsOK
    <3> QED
      BY <3>1, <3>2
  <2>2. ASSUME NEW r \in Sockets, NEW d \in {"read", "write"}, <<d, r>> \in v.pending
        PROVE  /\ v.socket[r].state # "none"
               /\ Slot(v, d)[v.socket[r].fd] = r
               /\ \/ Waits(v, nwt, r) /\ d \in Directions(nwt[v.socket[r].owner].op)
                  \/ ~v.socket[r].open /\ v.socket[r].fd \notin v.watched
    <3>1. <<d, r>> \in w.pending
      BY <2>2, <1>2
    <3>2. /\ w.socket[r].state # "none"
          /\ Slot(w, d)[w.socket[r].fd] = r
          /\ \/ Waits(w, wt, r) /\ d \in Directions(wt[w.socket[r].owner].op)
             \/ ~w.socket[r].open /\ w.socket[r].fd \notin w.watched
      BY <3>1, <1>1 DEF EventsOK
    <3>3. Slot(v, d) = Slot(w, d)
      BY <1>2 DEF Slot
    <3> QED
      BY <3>2, <3>3, <1>2, <1>5, <1>6
  <2> QED
    BY <2>1, <2>2 DEF EventsOK
<1>11. ListsOK(v)
  <2>1. \A u : Owned(v, u) = Owned(w, u)
    BY <1>2, OwnedFrame
  <2> QED
    BY <2>1, <1>1, <1>2 DEF ListsOK
<1>12. World(v, nwt, th)
  BY <1>3, <1>7, <1>8, <1>9, <1>10, <1>11 DEF World
<1> QED
  BY <1>12 DEF v, nwt

\* The timer of a delay goes from the loop.
LEMMA DelayGoneKeeps ==
  ASSUME NEW w, NEW wt, NEW th, World(w, wt, th), NEW t \in Threads
  PROVE  LET v == [w EXCEPT !.pending = @ \ {<<"delay", t>>}]
         IN /\ World(v, wt, th) /\ v.socket = w.socket /\ v.timer = w.timer
            /\ v.pending = w.pending \ {<<"delay", t>>}
<1> DEFINE v == [w EXCEPT !.pending = @ \ {<<"delay", t>>}]
<1>1. /\ w \in Worlds
      /\ \A y \in Timers : w.timer[y] = "SCHEDULED" <=> <<"timer", y>> \in w.pending
  BY DEF World, TimersOK
<1>2. /\ v.timer = w.timer /\ v.socket = w.socket /\ v.objects = w.objects
      /\ v.evread = w.evread /\ v.evwrite = w.evwrite /\ v.watched = w.watched
      /\ v.pending = w.pending \ {<<"delay", t>>}
  BY <1>1 DEF Worlds
<1>3. v \in Worlds
  <2>1. v.pending \in SUBSET Events
    BY <1>1, <1>2 DEF Worlds
  <2> QED
    BY <1>1, <1>2, <2>1 DEF Worlds
<1> HIDE DEF v
<1>4. \A y \in Timers : /\ v.timer[y] = "none" <=> w.timer[y] = "none"
                        /\ v.timer[y] = "SCHEDULED" <=> <<"timer", y>> \in v.pending
  BY <1>1, <1>2
<1>5. \A e \in v.pending : e[1] # "timer" => e \in w.pending
  BY <1>2
<1>6. World(v, wt, th)
  BY <1>2, <1>3, <1>4, <1>5, TimerFrame
<1> QED
  BY <1>2, <1>6 DEF v

\* Threads that come to life do not disturb the world, and neither does the end
\* of a thread that has no open socket and no timer.
LEMMA ThreadsKeep ==
  ASSUME NEW w, NEW wt, NEW th, World(w, wt, th), NEW nth,
         \A s \in Sockets :
           w.socket[s].open \/ w.timer[idle(s)] # "none" \/ w.timer[io(s)] # "none" =>
             nth[w.socket[s].owner] = "alive"
  PROVE  World(w, wt, nth)
<1>1. SocketsOK(w, nth)
  BY DEF World, SocketsOK
<1>2. TimersOK(w, wt, nth)
  <2>1. ASSUME NEW x \in Timers, w.timer[x] # "none" PROVE nth[w.socket[x[2]].owner] = "alive"
    <3>1. PICK s \in Sockets : s = x[2] /\ (x = idle(s) \/ x = io(s))
      BY TimerFacts
    <3> QED
      BY <2>1, <3>1
  <2> QED
    BY <2>1 DEF World, TimersOK
<1> QED
  BY <1>1, <1>2 DEF World

\* A call of a thread that waits for nothing sets the state of a socket.
LEMMA SetStateKeeps ==
  ASSUME NEW w, NEW wt \in [Threads -> WaitShapes], NEW th, World(w, wt, th),
         NEW s \in Sockets, w.socket[s].state # "none", w.socket[s].open,
         wt[w.socket[s].owner].op = "none", NEW st \in States, st # "none"
  PROVE  World(StateSet(w, s, st), wt, th)
<1> DEFINE o == w.socket[s].owner
           c == wt[o]
<1>1. o \in Threads
  BY DEF World, SocketsOK
<1>2. c \in WaitShapes /\ c.op \notin IOCalls /\ [wt EXCEPT ![o] = c] = wt
  BY <1>1 DEF IOCalls
<1> HIDE DEF c
<1>3. World(StateSet(w, s, st), [wt EXCEPT ![w.socket[s].owner] = c], th)
  <2>1. c.op \in IOCalls => c.sock = s /\ st = CallState(c.op)
    BY <1>2
  <2> QED
    BY <1>2, <2>1, SocketStateKeeps
<1> QED
  BY <1>2, <1>3

-----------------------------------------------------------------------------
(* Calls and callbacks.  Going(t): the calls as they are when t has control *)

Going(t) == [wait EXCEPT ![t] = NoWait]

\* How a call of thread t leaves the world: t goes on, or waits in a call.
Outcome(t) ==
  /\ World(ev', wait', thread)
  /\ wait' \in [Threads -> WaitShapes]
  /\ \A u \in Threads : u # t => wait'[u] = wait[u]
  /\ \/ current' = t /\ wait'[t] = NoWait
     \/ current' = None /\ wait'[t].op \in IOCalls \cup {"delay"}

LEMMA GoingFacts ==
  ASSUME wait \in [Threads -> WaitShapes], NEW t \in Threads
  PROVE  /\ NoWait \in WaitShapes /\ Going(t) \in [Threads -> WaitShapes]
         /\ Going(t)[t] = NoWait /\ NoWait.op = "none"
         /\ \A u \in Threads : u # t => Going(t)[u] = wait[u]
<1>1. NoWait \in WaitShapes
  BY EvAssumption DEF NoWait, WaitShapes
<1> QED
  BY <1>1 DEF Going, NoWait

LEMMA ReturnsOutcome ==
  ASSUME wait \in [Threads -> WaitShapes], NEW t \in Threads, NEW w,
         World(w, Going(t), thread), Returns(t, w)
  PROVE  Outcome(t)
<1>1. ev' = w /\ current' = t /\ wait' = Going(t)
  BY DEF Returns, Going
<1> QED
  BY <1>1, GoingFacts DEF Outcome

\* A transfer sets the state of the socket and stops its idle timer.
LEMMA TransferredKeeps ==
  ASSUME NEW w, NEW wt \in [Threads -> WaitShapes], NEW th, World(w, wt, th),
         NEW s \in Sockets, w.socket[s].state # "none", w.socket[s].open,
         wt[w.socket[s].owner].op = "none",
         NEW dir \in {"read", "write"}, NEW has_event \in BOOLEAN
  PROVE  LET v == Transferred(w, s, dir, has_event)
         IN /\ World(v, wt, th)
            /\ v.socket[s].owner = w.socket[s].owner /\ v.socket[s].open = w.socket[s].open
            /\ v.socket[s].state # "none"
<1> DEFINE w1 == IF has_event THEN event_del(w, dir, s) ELSE w
           w2 == StateSet(w1, s, "CONNECTED")
           v == IF dir = "read" THEN EVTIMER_cancel(w2, idle(s)) ELSE w2
<1>1. World(w1, wt, th) /\ w1.socket = w.socket
  BY EventDelKeeps
<1>2. Transferred(w, s, dir, has_event) = v
  BY DEF Transferred, StateSet
<1> HIDE DEF w1
<1>3. /\ World(w2, wt, th) /\ w2.socket[s].state = "CONNECTED"
      /\ w2.socket[s].owner = w.socket[s].owner /\ w2.socket[s].open = w.socket[s].open
  <2>1. "CONNECTED" \in States /\ "CONNECTED" # "none"
    BY DEF States
  <2>2. w1.socket[s].state # "none" /\ w1.socket[s].open /\ wt[w1.socket[s].owner].op = "none"
    BY <1>1
  <2>3. World(w2, wt, th)
    BY <1>1, <2>1, <2>2, SetStateKeeps
  <2>4. w1 \in Worlds
    BY <1>1 DEF World
  <2>5. /\ w2.socket[s].state = "CONNECTED"
        /\ w2.socket[s].owner = w1.socket[s].owner /\ w2.socket[s].open = w1.socket[s].open
    BY <2>4, StateSetFrame
  <2> QED
    BY <1>1, <2>3, <2>5
<1> HIDE DEF w2
<1>4. World(v, wt, th) /\ v.socket = w2.socket
  <2> DEFINE x == idle(s)
  <2>1. x \in Timers
    BY TimerFacts
  <2> HIDE DEF x
  <2>2. World(EVTIMER_cancel(w2, x), wt, th)
    BY <1>3, <2>1, CancelKeeps
  <2>3. EVTIMER_cancel(w2, x).socket = w2.socket
    BY <1>3 DEF World, Worlds, EVTIMER_cancel
  <2> QED
    BY <1>3, <2>2, <2>3 DEF x
<1> QED
  BY <1>2, <1>3, <1>4

\* From EAGAIN to the yield.
LEMMA BlocksOutcome ==
  ASSUME wait \in [Threads -> WaitShapes], NEW t \in Threads, thread[t] = "alive",
         NEW w, World(w, Going(t), thread),
         NEW s \in Sockets, w.socket[s].owner = t, w.socket[s].open,
         NEW op \in IOCalls, NEW dir \in {"read", "write"}, dir \in Directions(op),
         NEW left \in 0 .. BufSize, NEW has_event \in BOOLEAN,
         Blocks(t, w, s, dir, CallState(op), op, left, has_event)
  PROVE  Outcome(t)
<1> DEFINE c == [op |-> op, sock |-> s, left |-> left]
           nwt == [wait EXCEPT ![t] = c]
           w1 == StateSet(w, s, CallState(op))
<1>1. /\ c \in WaitShapes /\ CallState(op) \in States /\ CallState(op) # "none"
      /\ c.op = op /\ c.sock = s
  BY DEF WaitShapes, CallState, States, IOCalls
<1>2. w.socket[s].state # "none"
  BY DEF World, SocketsOK, NoSocket
<1>3. /\ nwt = [Going(t) EXCEPT ![t] = c] /\ nwt[t] = c
      /\ nwt \in [Threads -> WaitShapes] /\ \A u \in Threads : u # t => nwt[u] = wait[u]
  BY <1>1 DEF Going
<1> HIDE DEF c, nwt
<1>4. /\ World(w1, nwt, thread) /\ w1.timer = w.timer
      /\ w1.socket[s].owner = t /\ w1.socket[s].open /\ w1.socket[s].state # "none"
  <2> DEFINE G == Going(t)
             o == w.socket[s].owner
  <2>1. G \in [Threads -> WaitShapes] /\ World(w, G, thread) /\ G[o].op = "none"
    BY GoingFacts
  <2>2. nwt = [G EXCEPT ![o] = c]
    BY <1>3
  <2>3. c.op \in IOCalls => c.sock = s /\ CallState(op) = CallState(c.op)
    BY <1>1
  <2> DEFINE st == CallState(op)
  <2>4. /\ st \in States /\ st # "none" /\ c \in WaitShapes
        /\ c.op \in IOCalls => c.sock = s /\ st = CallState(c.op)
        /\ G \in [Threads -> WaitShapes] /\ World(w, G, thread)
        /\ w.socket[s].state # "none" /\ G[w.socket[s].owner].op = "none"
    BY <1>1, <1>2, <2>1, <2>3
  <2>5. w1 = StateSet(w, s, st) /\ w \in Worlds
    BY DEF World
  <2> HIDE DEF G, w1, st, o
  <2>6. LET v == StateSet(w, s, st)
        IN /\ v.timer = w.timer /\ v.socket[s].state = st
           /\ v.socket[s].owner = w.socket[s].owner /\ v.socket[s].open = w.socket[s].open
    BY <2>5, StateSetFrame
  <2>7. World(StateSet(w, s, st), [G EXCEPT ![w.socket[s].owner] = c], thread)
    BY <2>4, SocketStateKeeps
  <2> QED
    BY <2>2, <2>4, <2>5, <2>6, <2>7 DEF o
<1>5. w1.timer[io(s)] = "none"
  <2>1. ~Waits(w, Going(t), s)
    BY GoingFacts DEF Waits, IOCalls
  <2> QED
    BY <1>4, <2>1 DEF World, TimersOK
<1>6. PICK malloc \in BOOLEAN :
         LET w2 == IF malloc THEN TimerStarted(w1, s, io(s)) ELSE w1
         IN /\ ev' = IF has_event THEN w2 ELSE event_add(w2, dir, s)
            /\ current' = None
            /\ wait' = [wait EXCEPT ![t] = [op |-> op, sock |-> s, left |-> left]]
  BY DEF Blocks, StateSet
<1> DEFINE w2 == IF malloc THEN TimerStarted(w1, s, io(s)) ELSE w1
<1> HIDE DEF w1
<1>7. World(w2, nwt, thread) /\ w2.socket = w1.socket
  <2> DEFINE x == io(s)
             u == TimerMade(w1, x)
  <2>1. x \in Timers /\ x[2] = s
    BY TimerFacts
  <2>2. Waits(w1, nwt, s)
    BY <1>1, <1>3, <1>4 DEF Waits
  <2>3. TimerStarted(w1, s, io(s)) = EVTIMER_start(u, x)
    BY <2>1 DEF TimerStarted, TimerMade
  <2> HIDE DEF x
  <2>4. World(u, nwt, thread) /\ u.socket = w1.socket
    BY <1>4, <1>5, <2>1, <2>2, TimerMadeKeeps DEF x
  <2> HIDE DEF u
  <2>5. World(EVTIMER_start(u, x), nwt, thread) /\ EVTIMER_start(u, x).socket = u.socket
    BY <2>1, <2>4, StartKeeps
  <2> QED
    BY <1>4, <2>3, <2>4, <2>5
<1> HIDE DEF w2
<1>8. World(event_add(w2, dir, s), nwt, thread)
  <2>1. /\ w2.socket[s].open /\ Waits(w2, nwt, s)
        /\ dir \in Directions(nwt[w2.socket[s].owner].op)
    BY <1>1, <1>3, <1>4, <1>7 DEF Waits
  <2> QED
    BY <1>7, <2>1, EventAddKeeps
<1>9. ev' = (IF has_event THEN w2 ELSE event_add(w2, dir, s)) /\ current' = None /\ wait' = nwt
  BY <1>6 DEF w2, nwt, c
<1> QED
  BY <1>1, <1>3, <1>7, <1>8, <1>9 DEF Outcome

\* EVSOCKET_recv, EVSOCKET_recv_all and EVSOCKET_send
LEMMA TransferOutcome ==
  ASSUME wait \in [Threads -> WaitShapes], NEW t \in Threads, thread[t] = "alive",
         NEW w, World(w, Going(t), thread),
         NEW s \in Sockets, w.socket[s].owner = t, w.socket[s].open,
         NEW op \in {"recv", "recv_all", "send"},
         NEW left \in 0 .. BufSize, NEW has_event \in BOOLEAN,
         Transfer(t, w, s, op, left, has_event)
  PROVE  Outcome(t)
<1> DEFINE dir == IF op = "send" THEN "write" ELSE "read"
           state == IF op = "send" THEN "WRITING" ELSE "READING"
<1>1. /\ dir \in {"read", "write"} /\ dir \in Directions(op) /\ op \in IOCalls
      /\ state = CallState(op)
  BY DEF Directions, IOCalls, CallState
<1>2. /\ Going(t) \in [Threads -> WaitShapes] /\ Going(t)[t].op = "none"
      /\ w.socket[s].state # "none" /\ idle(s) \in Timers
  BY GoingFacts, TimerFacts DEF World, SocketsOK, NoSocket
<1>3. PICK n \in 0 .. left :
        LET w1 == IF n > 0 THEN Transferred(w, s, dir, has_event) ELSE w
        IN \/ /\ n = left
              /\ Returns(t, IF dir = "read" THEN EVTIMER_start(w1, idle(s)) ELSE w1)
           \/ /\ n < left
              /\ Blocks(t, w1, s, dir, state, op, left - n, has_event /\ n = 0)
           \/ /\ n < left
              /\ LET w2 == Transferred(w1, s, dir, has_event /\ n = 0)
                 IN Returns(t, IF op = "recv" THEN EVTIMER_start(w2, idle(s)) ELSE w2)
           \/ /\ n < left
              /\ Returns(t, IF dir = "write" /\ has_event /\ n = 0
                            THEN event_del(w1, dir, s) ELSE w1)
  BY DEF Transfer
<1> DEFINE w1 == IF n > 0 THEN Transferred(w, s, dir, has_event) ELSE w
           still == has_event /\ n = 0
<1> HIDE DEF dir, state
<1>4. /\ World(w1, Going(t), thread) /\ w1.socket[s].owner = t /\ w1.socket[s].open
      /\ w1.socket[s].state # "none"
  BY <1>1, <1>2, TransferredKeeps
<1>5. still \in BOOLEAN
  OBVIOUS
<1> HIDE DEF w1, still
<1>6. CASE n = left /\ Returns(t, IF dir = "read" THEN EVTIMER_start(w1, idle(s)) ELSE w1)
  <2>1. World(IF dir = "read" THEN EVTIMER_start(w1, idle(s)) ELSE w1, Going(t), thread)
    BY <1>2, <1>4, StartKeeps
  <2> QED
    BY <1>6, <2>1, ReturnsOutcome
<1>7. CASE n < left /\ Blocks(t, w1, s, dir, state, op, left - n, still)
  <2>1. left - n \in 0 .. BufSize
    BY <1>7, EvAssumption
  <2>2. Blocks(t, w1, s, dir, CallState(op), op, left - n, still)
    BY <1>1, <1>7
  <2> QED
    BY <1>1, <1>4, <1>5, <2>1, <2>2, BlocksOutcome
<1>8. CASE LET w2 == Transferred(w1, s, dir, still)
           IN Returns(t, IF op = "recv" THEN EVTIMER_start(w2, idle(s)) ELSE w2)
  <2> DEFINE w2 == Transferred(w1, s, dir, still)
  <2>3. Going(t)[w1.socket[s].owner].op = "none"
    BY <1>2, <1>4
  <2>1. World(w2, Going(t), thread)
    BY <1>1, <1>2, <1>4, <1>5, <2>3, TransferredKeeps
  <2> HIDE DEF w2
  <2>2. World(IF op = "recv" THEN EVTIMER_start(w2, idle(s)) ELSE w2, Going(t), thread)
    BY <1>2, <2>1, StartKeeps
  <2>4. Returns(t, IF op = "recv" THEN EVTIMER_start(w2, idle(s)) ELSE w2)
    BY <1>8 DEF w2
  <2> QED
    BY <2>2, <2>4, ReturnsOutcome
<1>9. CASE Returns(t, IF dir = "write" /\ still THEN event_del(w1, dir, s) ELSE w1)
  <2>1. World(IF dir = "write" /\ still THEN event_del(w1, dir, s) ELSE w1, Going(t), thread)
    BY <1>1, <1>4, EventDelKeeps
  <2> QED
    BY <1>9, <2>1, ReturnsOutcome
<1> QED
  BY <1>3, <1>6, <1>7, <1>8, <1>9 DEF w1, still

\* A timer is freed and nothing is added to the loop.
LEMMA FreedTimer ==
  ASSUME NEW w, NEW wt, NEW th, World(w, wt, th), NEW x \in Timers
  PROVE  LET v == EVTIMER_free(w, x)
         IN /\ World(v, wt, th) /\ v.socket = w.socket /\ v.timer[x] = "none"
            /\ \A e \in v.pending : e \in w.pending
<1> DEFINE v == EVTIMER_free(w, x)
<1>1. w.timer \in [Timers -> {"none", "INIT", "SCHEDULED"}]
  BY DEF World, Worlds
<1>2. Freed(w, wt, th, x, v)
  BY FreeKeeps
<1> HIDE DEF v
<1>3. World(v, wt, th) /\ v.socket = w.socket /\ \A e \in v.pending : e \in w.pending
  BY <1>2 DEF Freed
<1>4. v.timer[x] = "none"
  BY <1>1, <1>2 DEF Freed
<1> QED
  BY <1>3, <1>4 DEF v

\* The same for a timer that a walk over the objects comes to.
LEMMA FreedEntry ==
  ASSUME NEW w, NEW wt, NEW th, World(w, wt, th), NEW x \in Timers, w.timer[x] # "none"
  PROVE  LET v == EVTIMER_free(w, x)
         IN /\ World(v, wt, th) /\ v.socket = w.socket
            /\ v.objects[OwnerOf(w, x)] = Without(w.objects[OwnerOf(w, x)], x)
            /\ \A y \in Timers : w.timer[y] = "none" => v.timer[y] = "none"
<1> DEFINE v == EVTIMER_free(w, x)
<1>1. w.timer \in [Timers -> {"none", "INIT", "SCHEDULED"}]
  BY DEF World, Worlds
<1>2. Freed(w, wt, th, x, v)
  BY FreeKeeps
<1> HIDE DEF v
<1>3. v.timer = [w.timer EXCEPT ![x] = "none"]
  BY <1>2 DEF Freed
<1>4. /\ World(v, wt, th) /\ v.socket = w.socket
      /\ v.objects[OwnerOf(w, x)] = Without(w.objects[OwnerOf(w, x)], x)
  BY <1>2 DEF Freed
<1>5. \A y \in Timers : w.timer[y] = "none" => v.timer[y] = "none"
  BY <1>1, <1>3
<1> QED
  BY <1>4, <1>5 DEF v

\* A callback that resumes a thread in its call
LEMMA ResumeOutcome ==
  ASSUME wait \in [Threads -> WaitShapes], NEW t \in Threads, thread[t] = "alive",
         wait[t].op # "none",
         NEW w, World(w, wait, thread), NEW io_event \in BOOLEAN,
         io_event => /\ wait[t].op \in IOCalls
                     /\ <<"read", wait[t].sock>> \notin w.pending
                     /\ <<"write", wait[t].sock>> \notin w.pending,
         Resume(t, w, io_event)
  PROVE  Outcome(t)
<1> DEFINE s == wait[t].sock
           w1 == EVTIMER_free(w, io(s))
           w2 == EVTIMER_free(event_del(w, "write", s), io(s))
           w3 == StateSet(w2, s, "CONNECTED")
<1>1. CASE wait[t].op = "delay" /\ Returns(t, [w EXCEPT !.pending = @ \ {<<"delay", t>>}])
  <2> DEFINE v == [w EXCEPT !.pending = @ \ {<<"delay", t>>}]
  <2>1. World(v, wait, thread) /\ v.pending = w.pending \ {<<"delay", t>>}
    BY DelayGoneKeeps
  <2> HIDE DEF v
  <2>2. wait[t].op \notin IOCalls /\ <<"delay", t>> \notin v.pending
    BY <1>1, <2>1 DEF IOCalls
  <2>3. World(v, Going(t), thread)
    BY <2>1, <2>2, StopWaitKeeps DEF Going
  <2> QED
    BY <1>1, <2>3, ReturnsOutcome DEF v
<1>2. ASSUME wait[t].op \in IOCalls
      PROVE  /\ s \in Sockets /\ io(s) \in Timers
             /\ w.socket[s].owner = t /\ w.socket[s].open
             /\ wait[t].left \in 0 .. BufSize
             /\ <<"delay", t>> \notin w.pending
  <2>1. wait[t] \in WaitShapes
    OBVIOUS
  <2>2. wait[t].left \in 0 .. BufSize
    BY <2>1 DEF WaitShapes
  <2>3. s \in Sockets /\ w.socket[s].owner = t /\ w.socket[s].open
    BY <1>2 DEF World, WaitsOK
  <2>4. <<"delay", t>> \notin w.pending
    BY <1>2 DEF World, EventsOK, IOCalls
  <2> QED
    BY <2>2, <2>3, <2>4, TimerFacts
<1>3. ASSUME wait[t].op \in IOCalls
      PROVE  /\ World(w1, wait, thread) /\ w1.socket = w.socket /\ w1.timer[io(s)] = "none"
             /\ \A e \in w1.pending : e \in w.pending
  BY <1>2, <1>3, FreedTimer
<1>4. CASE /\ wait[t].op = "connect"
           /\ Returns(t, IF io_event THEN w3 ELSE TimedOut(w2, s))
  <2>1. wait[t].op \in IOCalls
    BY <1>4 DEF IOCalls
  <2> DEFINE v == event_del(w, "write", s)
  <2>2. /\ World(v, wait, thread) /\ v.socket = w.socket
        /\ v.pending = w.pending \ {<<"write", s>>}
    BY <1>2, <2>1, EventDelKeeps
  <2> HIDE DEF v
  <2>3. /\ World(EVTIMER_free(v, io(s)), wait, thread) /\ EVTIMER_free(v, io(s)).socket = v.socket
        /\ EVTIMER_free(v, io(s)).timer[io(s)] = "none"
        /\ \A e \in EVTIMER_free(v, io(s)).pending : e \in v.pending
    BY <1>2, <2>1, <2>2, FreedTimer
  <2>4. w2 = EVTIMER_free(v, io(s))
    BY DEF v
  <2> HIDE DEF w2
  <2>6. /\ World(w2, wait, thread) /\ w2.socket = w.socket /\ w2.timer[io(s)] = "none"
        /\ \A e \in w2.pending : e \in w.pending
    BY <2>2, <2>3, <2>4
  <2>7. CASE io_event
    <3>1. World(w2, Going(t), thread)
      BY <1>2, <2>1, <2>6, <2>7, StopWaitKeeps DEF Going
    <3>2. /\ "CONNECTED" \in States /\ "CONNECTED" # "none"
          /\ w2.socket[s].state # "none" /\ w2.socket[s].open
          /\ Going(t)[w2.socket[s].owner].op = "none"
      BY <1>2, <2>1, <2>6, GoingFacts DEF World, SocketsOK, NoSocket, States
    <3>3. Going(t) \in [Threads -> WaitShapes]
      BY GoingFacts
    <3>4. World(w3, Going(t), thread)
      BY <1>2, <2>1, <3>1, <3>2, <3>3, SetStateKeeps
    <3> QED
      BY <1>4, <2>7, <3>4, ReturnsOutcome
  <2>8. CASE ~io_event
    <3>1. World(TimedOut(w2, s), Going(t), thread)
      BY <2>1, <2>6, TimedOutKeeps DEF Going
    <3> QED
      BY <1>4, <2>8, <3>1, ReturnsOutcome
  <2> QED
    BY <2>7, <2>8
<1>5. CASE /\ wait[t].op \in {"recv", "recv_all", "send"} /\ io_event
           /\ Transfer(t, w1, s, wait[t].op, wait[t].left, TRUE)
  <2>1. wait[t].op \in IOCalls
    BY <1>5 DEF IOCalls
  <2>2. World(w1, Going(t), thread)
    BY <1>2, <1>3, <1>5, <2>1, StopWaitKeeps DEF Going
  <2> HIDE DEF w1
  <2>3. w1.socket[s].owner = t /\ w1.socket[s].open /\ s \in Sockets
    BY <1>2, <1>3, <2>1
  <2> QED
    BY <1>2, <1>5, <2>1, <2>2, <2>3, TransferOutcome
<1>6. CASE wait[t].op \in {"recv", "recv_all"} /\ Returns(t, TimedOut(w1, s))
  <2>1. wait[t].op \in IOCalls
    BY <1>6 DEF IOCalls
  <2>2. World(TimedOut(w1, s), Going(t), thread)
    BY <1>3, <2>1, TimedOutKeeps DEF Going
  <2> QED
    BY <1>6, <2>2, ReturnsOutcome
<1>7. CASE /\ wait[t].op = "send"
           /\ Returns(t, event_del(TimedOut(w1, s), "write", s))
  <2>1. wait[t].op \in IOCalls
    BY <1>7 DEF IOCalls
  <2>2. World(TimedOut(w1, s), Going(t), thread)
    BY <1>3, <2>1, TimedOutKeeps DEF Going
  <2>3. World(event_del(TimedOut(w1, s), "write", s), Going(t), thread)
    BY <1>2, <2>1, <2>2, EventDelKeeps
  <2> QED
    BY <1>7, <2>3, ReturnsOutcome
<1> QED
  BY <1>1, <1>4, <1>5, <1>6, <1>7 DEF Resume, StateSet

-----------------------------------------------------------------------------
(* The walk of EVTHREAD_free.  It is a recursive function, so that an         *)
(* induction is needed to know that it exists; the library has this theorem  *)
(* for an operator parameter, so Induct is proved here by counting.         *)

\* A set of numbers with zero and all successors: otherwise the predecessor
\* would map the missing ones up to some bound into one less of them.
LEMMA Induct ==
  ASSUME NEW T \in SUBSET Nat, 0 \in T, \A n \in T : n + 1 \in T
  PROVE  T = Nat
<1>1. SUFFICES ASSUME NEW x \in Nat, x \notin T PROVE FALSE
  OBVIOUS
<1> DEFINE D == {y \in 0 .. x : y \notin T}
           pred == [y \in D |-> y - 1]
<1>2. IsFiniteSet(D) /\ Cardinality(D) \in Nat
  <2>1. \A y \in D : y <= x
    OBVIOUS
  <2>2. D \in SUBSET Nat
    OBVIOUS
  <2> HIDE DEF D
  <2> QED
    BY <2>1, <2>2, FS_BoundedSetOfNaturals, FS_CardinalityType
<1>3. x \in D
  BY <1>1
<1>4. IsFiniteSet(D \ {x}) /\ Cardinality(D \ {x}) < Cardinality(D)
  <2> HIDE DEF D
  <2>1. Cardinality(D \ {x}) = Cardinality(D) - 1
    BY <1>2, <1>3, FS_RemoveElement
  <2> QED
    BY <2>1, <1>2, FS_RemoveElement
<1>5. pred \in [D -> D \ {x}]
  <2> SUFFICES ASSUME NEW y \in D PROVE y - 1 \in D \ {x}
    OBVIOUS
  <2>1. y # 0 /\ y \in 0 .. x
    OBVIOUS
  <2>2. y - 1 \notin T
    <3> SUFFICES ASSUME y - 1 \in T PROVE FALSE
      OBVIOUS
    <3>1. (y - 1) + 1 = y /\ (y - 1) + 1 \in T
      OBVIOUS
    <3> QED
      BY <3>1
  <2> QED
    BY <2>1, <2>2
<1>6. PICK y, z \in D : y # z /\ pred[y] = pred[z]
  <2> HIDE DEF D, pred
  <2> QED
    BY <1>2, <1>4, <1>5, FS_PigeonHole
<1> QED
  BY <1>6

\* The states that the walk goes through, one for each entry it has freed.
LEMMA WalkExists ==
  ASSUME NEW w, NEW t, Len(w.objects[t]) \in Nat
  PROVE  LET n == Len(w.objects[t])
         IN \E g : /\ g[0] = [w |-> w, entry |-> IF n = 0 THEN None ELSE w.objects[t][1]]
                   /\ \A k \in 1 .. n : g[k] = FreeEntry(t, g[k - 1])
                   /\ EVTHREAD_free(w, t) = g[n].w
<1> DEFINE n == Len(w.objects[t])
           a == [w |-> w, entry |-> IF n = 0 THEN None ELSE w.objects[t][1]]
           F(g, k) == IF k = 0 THEN a ELSE FreeEntry(t, g[k - 1])
           T == {m \in Nat : \E g : g = [k \in 0 .. m |-> F(g, k)]}
           walk == CHOOSE g : g = [k \in 0 .. n |-> F(g, k)]
<1>1. EVTHREAD_free(w, t) = walk[n].w
  BY Zenon DEF EVTHREAD_free
<1> HIDE DEF a
<1>2. 0 \in T
  <2> DEFINE g == [k \in 0 .. 0 |-> a]
  <2>1. \A k \in 0 .. 0 : F(g, k) = a
    OBVIOUS
  <2>2. g = [k \in 0 .. 0 |-> F(g, k)]
    BY <2>1
  <2> QED
    BY <2>2
<1>3. ASSUME NEW m \in T PROVE m + 1 \in T
  <2>1. PICK g : g = [k \in 0 .. m |-> F(g, k)]
    OBVIOUS
  <2>2. m \in Nat
    OBVIOUS
  <2> DEFINE h == [k \in 0 .. m + 1 |-> F(g, k)]
  <2>3. \A k \in 0 .. m : g[k] = F(g, k)
    BY <2>1
  <2> HIDE DEF T
  <2>4. \A k \in 0 .. m + 1 : F(h, k) = F(g, k)
    <3> SUFFICES ASSUME NEW k \in 0 .. m + 1, k # 0 PROVE h[k - 1] = g[k - 1]
      OBVIOUS
    <3>1. k - 1 \in 0 .. m /\ k - 1 \in 0 .. m + 1
      BY <2>2
    <3> HIDE DEF F
    <3> QED
      BY <3>1, <2>3
  <2>5. h = [k \in 0 .. m + 1 |-> F(h, k)]
    BY <2>4
  <2> HIDE DEF F, h
  <2>6. \E f : f = [k \in 0 .. m + 1 |-> F(f, k)]
    BY <2>5
  <2> QED
    BY <2>2, <2>6 DEF T
<1>4. n \in T
  <2> HIDE DEF T
  <2>1. T \in SUBSET Nat
    BY DEF T
  <2> QED
    BY <1>2, <1>3, <2>1, Induct
<1>5. walk = [k \in 0 .. n |-> F(walk, k)]
  <2>1. \E g : g = [k \in 0 .. n |-> F(g, k)]
    <3> DEFINE N == n
    <3> HIDE DEF N
    <3>1. N \in T
      BY <1>4 DEF N
    <3> HIDE DEF F
    <3>2. \E g : g = [k \in 0 .. N |-> F(g, k)]
      BY <3>1
    <3> QED
      BY <3>2 DEF N
  <2> HIDE DEF F
  <2> QED
    BY <2>1, Zenon
<1> HIDE DEF walk
<1>6. \A k \in 0 .. n : walk[k] = F(walk, k)
  BY <1>5
<1>7. walk[0] = a /\ \A k \in 1 .. n : walk[k] = FreeEntry(t, walk[k - 1])
  BY <1>6
<1> QED
  BY <1>1, <1>7 DEF a

\* The walk over the list q0 of thread t after k of its entries: the ones it has
\* left in the list are sockets that a timeout has closed, and the rest of the
\* list is as it was.
Walking(t, wt, th, q0, at, k) ==
  LET q == at.w.objects[t]
  IN /\ World(at.w, wt, th)
     /\ \A s \in Sockets : at.w.socket[s].open /\ at.w.socket[s].owner = t =>
          at.w.timer[idle(s)] = "none"
     /\ at.entry = IF k < Len(q0) THEN q0[k + 1] ELSE None
     /\ \E m \in 0 .. k :
          /\ Len(q) = m + (Len(q0) - k)
          /\ \A j \in 1 .. Len(q0) - k : q[m + j] = q0[k + j]
          /\ \A i \in 1 .. m : q[i] \in Sockets /\ ~at.w.socket[q[i]].open

LEMMA WalkStep ==
  ASSUME NEW wt, NEW th, NEW t \in Threads, wt[t].op = "none",
         NEW q0 \in Seq(Objects), NEW k \in Nat, k < Len(q0), NEW at,
         Walking(t, wt, th, q0, at, k)
  PROVE  Walking(t, wt, th, q0, FreeEntry(t, at), k + 1)
<1> DEFINE w == at.w
           x == at.entry
           q == w.objects[t]
           n == Len(q0)
           v == IF x \in Sockets THEN EVSOCKET_close(w, x) ELSE EVTIMER_free(w, x)
           r == v.objects[t]
<1>1. /\ World(w, wt, th) /\ w \in Worlds /\ Enumerates(q, Owned(w, t))
      /\ x = q0[k + 1] /\ q \in Seq(Objects) /\ Len(q) \in Nat /\ n \in Nat /\ k < n
      /\ w.socket \in [Sockets -> SocketShapes]
      /\ w.timer \in [Timers -> {"none", "INIT", "SCHEDULED"}]
      /\ w.objects \in [Threads -> Seq(Objects)]
  <2>1. World(w, wt, th) /\ x = q0[k + 1]
    BY DEF Walking
  <2>2. w \in Worlds /\ Enumerates(q, Owned(w, t))
    BY <2>1 DEF World, ListsOK
  <2> HIDE DEF w, x
  <2>3. /\ w.socket \in [Sockets -> SocketShapes]
        /\ w.timer \in [Timers -> {"none", "INIT", "SCHEDULED"}]
        /\ w.objects \in [Threads -> Seq(Objects)]
    BY <2>2 DEF Worlds
  <2> QED
    BY <2>1, <2>2, <2>3
<1>2. PICK m \in 0 .. k :
        /\ Len(q) = m + (n - k)
        /\ \A j \in 1 .. n - k : q[m + j] = q0[k + j]
        /\ \A i \in 1 .. m : q[i] \in Sockets /\ ~w.socket[q[i]].open
  BY DEF Walking
<1>3. /\ m + 1 \in 1 .. Len(q) /\ q[m + 1] = x
      /\ m + 1 = Len(q) <=> k + 1 = n
      /\ k + 1 < n => q[m + 2] = q0[k + 2]
  <2> HIDE DEF q, x, n
  <2>1. m + 1 \in 1 .. Len(q) /\ (m + 1 = Len(q) <=> k + 1 = n) /\ 1 \in 1 .. n - k
    BY <1>1, <1>2
  <2>2. k + 1 < n => 2 \in 1 .. n - k
    BY <1>1
  <2> QED
    BY <1>1, <1>2, <2>1, <2>2
<1>4. x \in Owned(w, t)
  <2> DEFINE S == Owned(w, t)
  <2>1. Enumerates(q, S)
    BY <1>1
  <2> HIDE DEF q, S
  <2>2. \A i \in 1 .. Len(q) : q[i] \in S
    BY <2>1 DEF Enumerates
  <2> USE DEF S
  <2> HIDE DEF x, w
  <2> QED
    BY <1>3, <2>2
<1>5. Position(q, x) = m + 1
  <2>1. \A i, j \in 1 .. Len(q) : q[i] = q[j] => i = j
    BY <1>1 DEF Enumerates
  <2> HIDE DEF q, x
  <2>2. \A i \in 1 .. Len(q) : q[i] = x => i = m + 1
    BY <1>3, <2>1
  <2> QED
    BY <1>3, <2>2 DEF Position
<1>6. x # None /\ Allocated(w, x) /\ OwnerOf(w, x) = t /\ x \in Sockets \cup Timers
  <2>1. x \in Sockets \cup Timers /\ Allocated(w, x) /\ OwnerOf(w, x) = t
    BY <1>4 DEF Owned, Objects
  <2>2. None \notin Sockets \cup Timers
    BY EvAssumption DEF Timers, idle, io
  <2> QED
    BY <2>1, <2>2
<1>7. FreeEntry(t, at) = [w |-> v, entry |-> IF k + 1 < n THEN q0[k + 2] ELSE None]
  <2>1. FreeEntry(t, at) = [w |-> v, entry |-> IF m + 1 = Len(q) THEN None ELSE q[m + 2]]
    <3>1. q[(m + 1) + 1] = q[m + 2]
      BY <1>2
    <3> HIDE DEF v, w, x, q
    <3> QED
      BY <1>5, <1>6, <3>1, Zenon DEF FreeEntry, v, w, x, q
  <2> QED
    BY <1>1, <1>3, <2>1
<1>8. \A s \in Sockets : w.socket[s].owner = t => ~Waits(w, wt, s)
  BY DEF Waits, IOCalls
<1>9. \A s \in Sockets : w.socket[s].open /\ w.socket[s].owner = t => w.timer[idle(s)] = "none"
  BY DEF Walking
<1>10. SUFFICES
         /\ World(v, wt, th)
         /\ \A s \in Sockets : v.socket[s].open /\ v.socket[s].owner = t =>
              v.timer[idle(s)] = "none"
         /\ \E p \in 0 .. k + 1 :
              /\ Len(r) = p + (n - (k + 1))
              /\ \A j \in 1 .. n - (k + 1) : r[p + j] = q0[(k + 1) + j]
              /\ \A i \in 1 .. p : r[i] \in Sockets /\ ~v.socket[r[i]].open
  <2> DEFINE at2 == FreeEntry(t, at)
  <2>1. at2.w = v /\ at2.entry = IF k + 1 < n THEN q0[(k + 1) + 1] ELSE None
    <3>1. (k + 1) + 1 = k + 2
      <4> HIDE DEF n, w, v, q, x, r, at2
      <4> QED
        OBVIOUS
    <3> HIDE DEF v, n
    <3> QED
      BY <1>7, <3>1
  <2> HIDE DEF at2, v
  <2> QED
    BY <1>10, <2>1 DEF Walking, at2
\* The entry is freed and out of the list.
<1>11. ASSUME /\ World(v, wt, th)
              /\ r = RemoveAt(q, Position(q, x))
              /\ \A s \in Sockets : v.socket[s].open => v.socket[s] = w.socket[s]
              /\ \A s \in Sockets : w.timer[idle(s)] = "none" => v.timer[idle(s)] = "none"
              /\ \A s \in Sockets : ~w.socket[s].open => ~v.socket[s].open
       PROVE  /\ World(v, wt, th)
              /\ \A s \in Sockets : v.socket[s].open /\ v.socket[s].owner = t =>
                   v.timer[idle(s)] = "none"
              /\ \E p \in 0 .. k + 1 :
                   /\ Len(r) = p + (n - (k + 1))
                   /\ \A j \in 1 .. n - (k + 1) : r[p + j] = q0[(k + 1) + j]
                   /\ \A i \in 1 .. p : r[i] \in Sockets /\ ~v.socket[r[i]].open
  <2>1. /\ Len(r) = Len(q) - 1
        /\ \A i \in 1 .. Len(r) : r[i] = IF i < m + 1 THEN q[i] ELSE q[i + 1]
    <3>1. Enumerates(q, Owned(w, t)) /\ x \in Owned(w, t)
      BY <1>1, <1>4
    <3> HIDE DEF q, x, w, v
    <3> DEFINE S == Owned(w, t)
    <3> HIDE DEF S
    <3>2. Enumerates(q, S) /\ x \in S
      BY <3>1 DEF S
    <3>3. LET p == Position(q, x)
              u == RemoveAt(q, p)
          IN /\ p \in 1 .. Len(q) /\ q[p] = x
             /\ Len(u) = Len(q) - 1
             /\ \A i \in 1 .. Len(u) : u[i] = IF i < p THEN q[i] ELSE q[i + 1]
             /\ Enumerates(u, S \ {x})
      BY <3>2, EnumeratesRemove, Zenon
    <3> QED
      BY <1>5, <1>11, <3>3
  <2> HIDE DEF r, q, v, w, n, x
  <2>2. m \in 0 .. k + 1 /\ Len(r) = m + (n - (k + 1))
    BY <1>1, <1>2, <2>1
  <2>3. ASSUME NEW j \in 1 .. n - (k + 1) PROVE r[m + j] = q0[(k + 1) + j]
    <3>1. m + j \in 1 .. Len(r) /\ ~(m + j < m + 1) /\ (m + j) + 1 = m + (j + 1)
          /\ j + 1 \in 1 .. n - k /\ k + (j + 1) = (k + 1) + j
      BY <1>1, <1>2, <2>2
    <3> QED
      BY <1>2, <2>1, <3>1
  <2>4. ASSUME NEW i \in 1 .. m PROVE r[i] \in Sockets /\ ~v.socket[r[i]].open
    <3>1. i \in 1 .. Len(r) /\ i < m + 1
      BY <1>1, <1>2, <2>2
    <3> QED
      BY <1>2, <1>11, <2>1, <3>1
  <2> QED
    BY <1>9, <1>11, <2>2, <2>3, <2>4
<1>12. CASE x \in Timers
  <2>1. x \notin Sockets /\ w.timer[x] # "none"
    BY <1>6, <1>12, TimerFacts DEF Allocated
  <2>2. v = EVTIMER_free(w, x)
    BY <2>1
  <2> HIDE DEF w, x, v
  <2>3. /\ World(v, wt, th) /\ v.socket = w.socket
        /\ v.objects[OwnerOf(w, x)] = Without(w.objects[OwnerOf(w, x)], x)
        /\ \A y \in Timers : w.timer[y] = "none" => v.timer[y] = "none"
    <3>1. World(w, wt, th) /\ w.timer[x] # "none"
      BY <1>1, <2>1
    <3> QED
      BY <2>2, <3>1, <1>12, FreedEntry
  <2>4. r = RemoveAt(q, Position(q, x))
    BY <1>6, <2>3 DEF Without
  <2>5. \A s \in Sockets : w.timer[idle(s)] = "none" => v.timer[idle(s)] = "none"
    BY <2>3, TimerFacts
  <2> QED
    BY <1>11, <2>3, <2>4, <2>5
<1>13. CASE x \in Sockets /\ w.socket[x].open
  <2>1. w.socket[x].owner = t
    BY <1>6, <1>13, TimerFacts DEF OwnerOf
  <2>2. v = EVSOCKET_close(w, x)
    BY <1>13
  <2>3. ~Waits(w, wt, x) /\ w.timer[idle(x)] = "none"
    BY <1>8, <1>9, <1>13, <2>1
  <2> HIDE DEF w, x, v
  <2>4. /\ World(v, wt, th)
        /\ \A s \in Sockets : /\ v.socket[s] = IF s = x THEN NoSocket ELSE w.socket[s]
                              /\ w.timer[idle(s)] = "none" => v.timer[idle(s)] = "none"
        /\ v.objects[w.socket[x].owner] = Without(w.objects[w.socket[x].owner], x)
    BY <1>1, <1>13, <2>2, <2>3, CloseKeeps
  <2>5. r = RemoveAt(q, Position(q, x))
    BY <2>1, <2>4 DEF Without
  <2>6. \A s \in Sockets : /\ v.socket[s].open => v.socket[s] = w.socket[s]
                           /\ ~w.socket[s].open => ~v.socket[s].open
    BY <2>4 DEF NoSocket
  <2> QED
    BY <1>11, <2>4, <2>5, <2>6
\* A socket that a timeout has closed stays in the list.
<1>14. CASE x \in Sockets /\ ~w.socket[x].open
  <2>1. v = w
    BY <1>14 DEF EVSOCKET_close
  <2> HIDE DEF v, w, x, n, q
  <2>2. r = q
    BY <2>1 DEF q
  <2>3. m + 1 \in 0 .. k + 1 /\ Len(r) = (m + 1) + (n - (k + 1))
    BY <1>1, <1>2, <2>2
  <2>4. ASSUME NEW j \in 1 .. n - (k + 1) PROVE r[(m + 1) + j] = q0[(k + 1) + j]
    <3>1. j + 1 \in 1 .. n - k /\ k + (j + 1) = (k + 1) + j /\ m + (j + 1) = (m + 1) + j
      BY <1>1, <1>2
    <3> QED
      BY <1>2, <2>2, <3>1
  <2>5. ASSUME NEW i \in 1 .. m + 1 PROVE r[i] \in Sockets /\ ~v.socket[r[i]].open
    <3>1. CASE i = m + 1
      BY <1>3, <1>14, <2>1, <2>2, <3>1
    <3>2. CASE i # m + 1
      <4>1. i \in 1 .. m
        BY <1>2, <3>2
      <4> QED
        BY <1>2, <2>1, <2>2, <4>1
    <3> QED
      BY <3>1, <3>2
  <2> QED
    BY <1>1, <1>9, <2>1, <2>3, <2>4, <2>5
<1> QED
  BY <1>6, <1>12, <1>13, <1>14

\* After the walk the thread has no timer and no open socket, if its procedure
\* has closed the sockets with idle timers.
LEMMA ThreadFreed ==
  ASSUME NEW wt, NEW th, NEW t \in Threads, wt[t].op = "none",
         NEW w, World(w, wt, th),
         \A s \in Sockets : w.socket[s].open /\ w.socket[s].owner = t =>
           w.timer[idle(s)] = "none",
         NEW nth, \A u \in Threads : u # t => nth[u] = th[u]
  PROVE  World(EVTHREAD_free(w, t), wt, nth)
<1> DEFINE q0 == w.objects[t]
           n == Len(q0)
<1>1. q0 \in Seq(Objects) /\ n \in Nat
  <2>1. w.objects \in [Threads -> Seq(Objects)]
    BY DEF World, Worlds
  <2> QED
    BY <2>1
<1>2. PICK g : /\ g[0] = [w |-> w, entry |-> IF n = 0 THEN None ELSE q0[1]]
               /\ \A k \in 1 .. n : g[k] = FreeEntry(t, g[k - 1])
               /\ EVTHREAD_free(w, t) = g[n].w
  BY <1>1, WalkExists
<1> DEFINE T == {k \in Nat : k <= n => Walking(t, wt, th, q0, g[k], k)}
<1>3. 0 \in T
  <2>1. g[0].w = w /\ g[0].entry = IF 0 < n THEN q0[0 + 1] ELSE None
    BY <1>1, <1>2
  <2>2. /\ 0 \in 0 .. 0 /\ n = 0 + (n - 0)
        /\ \A j \in 1 .. n - 0 : q0[0 + j] = q0[0 + j]
        /\ \A i \in 1 .. 0 : q0[i] \in Sockets /\ ~w.socket[q0[i]].open
    BY <1>1
  <2> QED
    BY <2>1, <2>2 DEF Walking
<1>4. ASSUME NEW k \in T PROVE k + 1 \in T
  <2>1. SUFFICES ASSUME k + 1 <= n PROVE Walking(t, wt, th, q0, g[k + 1], k + 1)
    OBVIOUS
  <2>2. k \in Nat /\ k < n /\ k + 1 \in 1 .. n /\ (k + 1) - 1 = k
    BY <1>1, <2>1
  <2>3. Walking(t, wt, th, q0, g[k], k)
    BY <2>2
  <2>4. g[k + 1] = FreeEntry(t, g[k])
    BY <1>2, <2>2
  <2> QED
    BY <1>1, <2>2, <2>3, <2>4, WalkStep
<1>5. Walking(t, wt, th, q0, g[n], n)
  <2>1. T \in SUBSET Nat
    OBVIOUS
  <2> HIDE DEF T
  <2>2. T = Nat
    BY <1>3, <1>4, <2>1, Induct
  <2> QED
    BY <1>1, <2>2 DEF T
<1> DEFINE v == g[n].w
           q == v.objects[t]
<1>6. World(v, wt, th) /\ \A i \in 1 .. Len(q) : q[i] \in Sockets /\ ~v.socket[q[i]].open
  <2>1. PICK m \in 0 .. n :
          /\ Len(q) = m + (n - n)
          /\ \A i \in 1 .. m : q[i] \in Sockets /\ ~v.socket[q[i]].open
    BY <1>5 DEF Walking
  <2> HIDE DEF q
  <2>2. Len(q) = m
    BY <1>1, <2>1
  <2> USE DEF q
  <2> QED
    BY <1>5, <2>1, <2>2 DEF Walking
<1> HIDE DEF v
<1>7. \A x \in Owned(v, t) : x \in Sockets /\ ~v.socket[x].open
  <2>1. Enumerates(q, Owned(v, t))
    BY <1>6 DEF World, ListsOK
  <2>2. \A x \in Owned(v, t) : \E i \in 1 .. Len(q) : q[i] = x
    BY <2>1 DEF Enumerates
  <2> QED
    BY <1>6, <2>2
<1>8. ASSUME NEW s \in Sockets, v.socket[s].owner = t
      PROVE  ~v.socket[s].open /\ v.timer[idle(s)] = "none" /\ v.timer[io(s)] = "none"
  <2>1. ASSUME v.socket[s].open PROVE FALSE
    <3>1. s \in Owned(v, t)
      <4>1. v.socket[s].state # "none"
        BY <1>6, <2>1 DEF World, SocketsOK, NoSocket
      <4> QED
        BY <1>8, <4>1, TimerFacts DEF Owned, Objects, Allocated, OwnerOf
    <3> QED
      BY <1>7, <2>1, <3>1
  <2>2. ASSUME NEW x \in Timers, x[2] = s, v.timer[x] # "none" PROVE FALSE
    <3>1. x \in Owned(v, t) /\ x \notin Sockets
      BY <1>8, <2>2, TimerFacts DEF Owned, Objects, Allocated, OwnerOf
    <3> QED
      BY <1>7, <3>1
  <2> QED
    BY <2>1, <2>2, TimerFacts
<1>9. World(v, wt, nth)
  <2>1. ASSUME NEW s \in Sockets,
               v.socket[s].open \/ v.timer[idle(s)] # "none" \/ v.timer[io(s)] # "none"
        PROVE  nth[v.socket[s].owner] = "alive"
    <3>1. v.socket[s].owner # t
      BY <1>8, <2>1
    <3>2. idle(s) \in Timers /\ io(s) \in Timers /\ idle(s)[2] = s /\ io(s)[2] = s
      BY TimerFacts
    <3>3. v.socket[s].state # "none" /\ th[v.socket[s].owner] = "alive"
      <4>1. CASE v.socket[s].open
        BY <1>6, <4>1 DEF World, SocketsOK, NoSocket
      <4>2. CASE v.timer[idle(s)] # "none" \/ v.timer[io(s)] # "none"
        <5>1. \A x \in Timers : v.timer[x] # "none" =>
                /\ v.socket[x[2]].state # "none" /\ th[v.socket[x[2]].owner] = "alive"
          BY <1>6 DEF World, TimersOK
        <5> QED
          BY <3>2, <4>2, <5>1
      <4> QED
        BY <2>1, <4>1, <4>2
    <3>4. v.socket[s].owner \in Threads
      BY <1>6, <3>3 DEF World, SocketsOK
    <3> QED
      BY <3>1, <3>3, <3>4
  <2> QED
    BY <1>6, <2>1, ThreadsKeep
<1> QED
  BY <1>2, <1>9 DEF v

-----------------------------------------------------------------------------
(* The steps *)

\* The thread in control lives and waits for nothing.
LEMMA ControlFacts ==
  ASSUME Inv, current # None
  PROVE  /\ current \in Threads /\ thread[current] = "alive"
         /\ wait[current] = NoWait /\ wait[current].op = "none"
         /\ Going(current) = wait
  BY EvAssumption DEF Inv, ControlKept, Going, NoWait

\* A thread that lives waits in a call while the loop has control.
LEMMA LoopFacts ==
  ASSUME Inv, current = None, NEW t \in Threads, thread[t] = "alive"
  PROVE  wait[t].op # "none"
  BY EvAssumption DEF Inv, ControlKept

\* The invariant after a call or a callback
LEMMA OutcomeKeeps ==
  ASSUME Inv, NEW t \in Threads, thread[t] = "alive", current \in {t, None},
         Outcome(t), UNCHANGED thread
  PROVE  Inv'
<1>1. current' \in {t, None} /\ None \notin Threads
  BY EvAssumption DEF Outcome
<1>2. /\ wait'[t] = NoWait \/ wait'[t].op \in IOCalls \cup {"delay"}
      /\ current' = t => wait'[t] = NoWait
      /\ current' # t => wait'[t].op # "none"
  BY <1>1 DEF Outcome, IOCalls
<1>3. \A u \in Threads : u # t => wait'[u] = wait[u] /\ current # u /\ current' # u
  BY <1>1 DEF Outcome
<1>4. NoWait.op = "none"
  BY DEF NoWait
<1>5. ControlKept'
  BY <1>2, <1>3, <1>4 DEF Inv, ControlKept
<1>6. \A u \in Threads : wait'[u].op = "none" => wait'[u] = NoWait
  BY <1>2, <1>3 DEF Inv, IOCalls
<1>7. /\ thread' \in [Threads -> {"unused", "alive", "ended", "lost"}]
      /\ current' \in Threads \cup {None} /\ wait' \in [Threads -> WaitShapes]
      /\ World(ev', wait', thread')
  BY <1>1 DEF Inv, Outcome
<1> QED
  BY <1>5, <1>6, <1>7 DEF Inv

\* A step that changes only the world
LEMMA WorldKeeps ==
  ASSUME Inv, World(ev', wait, thread), UNCHANGED <<thread, current, wait>>
  PROVE  Inv'
  BY DEF Inv, ControlKept

LEMMA InitInv == Init => Inv
<1> SUFFICES ASSUME Init PROVE Inv
  OBVIOUS
<1>1. /\ NoWait \in WaitShapes /\ NoWait.op = "none" /\ NoSocket \in SocketShapes
      /\ NoSocket.state = "none" /\ NoSocket.open = FALSE
  BY EvAssumption DEF NoWait, WaitShapes, NoSocket, SocketShapes, States
<1>2. /\ ev.socket = [s \in Sockets |-> NoSocket] /\ ev.timer = [x \in Timers |-> "none"]
      /\ ev.objects = [t \in Threads |-> <<>>] /\ ev.pending = {} /\ ev.watched = {}
      /\ ev \in Worlds
  <2>1. \A t \in Threads : <<>> \in Seq(Objects)
    OBVIOUS
  <2> QED
    BY <1>1, <2>1 DEF Init, Worlds
<1>3. SocketsOK(ev, thread) /\ WaitsOK(ev, wait) /\ EventsOK(ev, wait)
  BY <1>1, <1>2 DEF Init, SocketsOK, WaitsOK, EventsOK, IOCalls
<1>4. TimersOK(ev, wait, thread)
  BY <1>1, <1>2, TimerFacts DEF Init, TimersOK
<1>5. ListsOK(ev)
  <2>1. \A t : Owned(ev, t) = {}
    BY <1>1, <1>2 DEF Owned, Objects, Allocated
  <2>2. Enumerates(<<>>, {})
    BY DEF Enumerates
  <2> QED
    BY <1>2, <2>1, <2>2 DEF ListsOK
<1>6. World(ev, wait, thread)
  BY <1>2, <1>3, <1>4, <1>5 DEF World
<1> QED
  BY <1>1, <1>6, EvAssumption DEF Inv, Init, ControlKept

LEMMA OpenSocketKeeps ==
  ASSUME Inv, NEW s \in Sockets, NEW f \in Fds, OpenSocket(s, f)
  PROVE  Inv'
<1>1. current \in Threads /\ thread[current] = "alive"
  BY ControlFacts DEF OpenSocket
<1>2. World(EVSOCKET_init(ev, current, s, f, "INIT"), wait, thread)
  BY <1>1, SocketInitKeeps DEF OpenSocket, Inv
<1> QED
  BY <1>2, WorldKeeps DEF OpenSocket

LEMMA SetIdleTimeoutKeeps ==
  ASSUME Inv, NEW s \in Sockets, EVSOCKET_set_idle_timeout(s)
  PROVE  Inv'
<1> DEFINE x == idle(s)
           u == TimerMade(ev, x)
<1>1. current \in Threads /\ thread[current] = "alive"
  BY ControlFacts DEF EVSOCKET_set_idle_timeout, Own
<1>2. x \in Timers /\ x[2] = s /\ x # io(s)
  BY TimerFacts
<1>3. TimerStarted(ev, s, x) = EVTIMER_start(u, x)
  BY <1>2 DEF TimerStarted, TimerMade
<1>4. ev' = EVTIMER_start(u, x) /\ UNCHANGED <<thread, current, wait>>
  BY <1>3 DEF EVSOCKET_set_idle_timeout
<1>5. /\ ev.timer[x] = "none" /\ ev.socket[s].state # "none"
      /\ thread[ev.socket[s].owner] = "alive" /\ World(ev, wait, thread)
  BY <1>1 DEF EVSOCKET_set_idle_timeout, Own, Inv
<1> HIDE DEF x
<1>6. World(u, wait, thread)
  BY <1>2, <1>5, TimerMadeKeeps
<1> HIDE DEF u
<1>7. World(EVTIMER_start(u, x), wait, thread)
  BY <1>2, <1>6, StartKeeps
<1> QED
  BY <1>4, <1>7, WorldKeeps

\* The socket of a call that the thread in control makes is its own and open.
LEMMA OwnFacts ==
  ASSUME Inv, NEW s \in Sockets, Own(s), ev.socket[s].state # "ERROR"
  PROVE  /\ current \in Threads /\ thread[current] = "alive"
         /\ wait[current].op = "none" /\ Going(current) = wait
         /\ World(ev, wait, thread) /\ wait \in [Threads -> WaitShapes]
         /\ ev.socket[s].owner = current /\ ev.socket[s].open
<1>1. ev.socket[s].open
  BY DEF Own, Inv, World, SocketsOK
<1> QED
  BY <1>1, ControlFacts DEF Own, Inv

LEMMA ConnectKeeps ==
  ASSUME Inv, NEW s \in Sockets, EVSOCKET_connect(s)
  PROVE  Inv'
<1>1. /\ current \in Threads /\ thread[current] = "alive"
      /\ wait[current].op = "none" /\ Going(current) = wait
      /\ World(ev, wait, thread) /\ wait \in [Threads -> WaitShapes]
      /\ ev.socket[s].owner = current /\ ev.socket[s].open
  BY OwnFacts DEF EVSOCKET_connect
<1>2. CASE Returns(current, [ev EXCEPT !.socket[s].state = "CONNECTED"])
  <2>1. /\ "CONNECTED" \in States /\ "CONNECTED" # "none" /\ ev.socket[s].state # "none"
        /\ wait[ev.socket[s].owner].op = "none"
    BY <1>1 DEF States, EVSOCKET_connect
  <2>2. World(StateSet(ev, s, "CONNECTED"), wait, thread)
    BY <1>1, <2>1, SetStateKeeps
  <2> QED
    BY <1>1, <1>2, <2>2, ReturnsOutcome, OutcomeKeeps DEF StateSet, EVSOCKET_connect
<1>3. CASE Blocks(current, ev, s, "write", "CONNECTING", "connect", 0, FALSE)
  <2>1. /\ "connect" \in IOCalls /\ CallState("connect") = "CONNECTING"
        /\ "write" \in Directions("connect") /\ 0 \in 0 .. BufSize
    BY EvAssumption DEF IOCalls, CallState, Directions
  <2>2. Outcome(current)
    BY <1>1, <1>3, <2>1, BlocksOutcome
  <2> QED
    BY <1>1, <2>2, OutcomeKeeps DEF EVSOCKET_connect
<1> QED
  BY <1>2, <1>3 DEF EVSOCKET_connect

LEMMA TransferKeeps ==
  ASSUME Inv, NEW s \in Sockets,
         EVSOCKET_recv(s) \/ EVSOCKET_recv_all(s) \/ EVSOCKET_send(s)
  PROVE  Inv'
<1>1. /\ current \in Threads /\ thread[current] = "alive" /\ Going(current) = wait
      /\ World(ev, wait, thread) /\ wait \in [Threads -> WaitShapes]
      /\ ev.socket[s].owner = current /\ ev.socket[s].open
  BY OwnFacts DEF EVSOCKET_recv, EVSOCKET_recv_all, EVSOCKET_send
<1>2. PICK op \in {"recv", "recv_all", "send"}, left \in 0 .. BufSize :
        Transfer(current, ev, s, op, left, FALSE)
  <2>1. 1 \in 0 .. BufSize /\ BufSize \in 0 .. BufSize
    BY EvAssumption
  <2>2. CASE EVSOCKET_recv(s)
    BY <2>1, <2>2 DEF EVSOCKET_recv
  <2>3. CASE EVSOCKET_recv_all(s)
    BY <2>1, <2>3 DEF EVSOCKET_recv_all
  <2>4. CASE EVSOCKET_send(s)
    BY <2>1, <2>4 DEF EVSOCKET_send
  <2> QED
    BY <2>2, <2>3, <2>4
<1>3. Outcome(current)
  BY <1>1, <1>2, TransferOutcome
<1>4. UNCHANGED thread
  BY DEF EVSOCKET_recv, EVSOCKET_recv_all, EVSOCKET_send
<1> QED
  BY <1>1, <1>3, <1>4, OutcomeKeeps

LEMMA DelayStepKeeps ==
  ASSUME Inv, EVTHREAD_delay
  PROVE  Inv'
<1> DEFINE c == [NoWait EXCEPT !.op = "delay"]
<1>1. /\ current \in Threads /\ thread[current] = "alive" /\ wait[current].op = "none"
      /\ World(ev, wait, thread) /\ wait \in [Threads -> WaitShapes]
  BY ControlFacts DEF EVTHREAD_delay, Inv
<1>2. c.op = "delay" /\ c \in WaitShapes
  BY EvAssumption DEF NoWait, WaitShapes
<1> HIDE DEF c
<1>3. World([ev EXCEPT !.pending = @ \cup {<<"delay", current>>}], [wait EXCEPT ![current] = c],
            thread)
  BY <1>1, <1>2, DelayKeeps
<1>4. /\ ev' = [ev EXCEPT !.pending = @ \cup {<<"delay", current>>}]
      /\ wait' = [wait EXCEPT ![current] = c] /\ current' = None /\ UNCHANGED thread
  BY DEF EVTHREAD_delay, c
<1>5. Outcome(current)
  <2>1. World(ev', wait', thread)
    BY <1>3, <1>4
  <2>2. /\ wait' \in [Threads -> WaitShapes] /\ wait'[current].op = "delay"
        /\ \A u \in Threads : u # current => wait'[u] = wait[u]
    BY <1>1, <1>2, <1>4
  <2> QED
    BY <1>4, <2>1, <2>2 DEF Outcome
<1> QED
  BY <1>1, <1>4, <1>5, OutcomeKeeps

LEMMA CloseStepKeeps ==
  ASSUME Inv, NEW s \in Sockets, Close(s)
  PROVE  Inv'
<1>1. World(ev, wait, thread) /\ wait[ev.socket[s].owner].op = "none"
  BY ControlFacts DEF Close, Own, Inv
<1>2. World(EVSOCKET_close(ev, s), wait, thread)
  <2>1. CASE ev.socket[s].open
    BY <1>1, <2>1, CloseKeeps DEF Waits, IOCalls
  <2>2. CASE ~ev.socket[s].open
    BY <1>1, <2>2 DEF EVSOCKET_close
  <2> QED
    BY <2>1, <2>2
<1> QED
  BY <1>2, WorldKeeps DEF Close

LEMMA ThreadEndKeeps ==
  ASSUME ReturnsClean, Inv, evthread_proc
  PROVE  Inv'
<1>1. /\ current \in Threads /\ thread[current] = "alive"
      /\ wait[current] = NoWait /\ wait[current].op = "none"
  BY ControlFacts DEF evthread_proc
<1>2. /\ World(ev, wait, thread)
      /\ thread \in [Threads -> {"unused", "alive", "ended", "lost"}]
  BY DEF Inv
<1>3. \A s \in Sockets : ev.socket[s].open /\ ev.socket[s].owner = current =>
        ev.timer[idle(s)] = "none"
  <2>1. \A s \in Sockets : ev.socket[s].open => ev.socket[s].state # "none"
    BY <1>2 DEF World, SocketsOK, NoSocket
  <2> QED
    BY <2>1 DEF evthread_proc, Own
<1>4. \A u \in Threads : u # current => thread'[u] = thread[u]
  BY <1>2 DEF evthread_proc
<1>5. World(EVTHREAD_free(ev, current), wait, thread')
  BY <1>1, <1>2, <1>3, <1>4, ThreadFreed
<1>6. /\ thread' \in [Threads -> {"unused", "alive", "ended", "lost"}]
      /\ thread'[current] = "ended"
  BY <1>1, <1>2 DEF evthread_proc
<1>7. ControlKept'
  BY <1>1, <1>4, <1>6, EvAssumption DEF evthread_proc, Inv, ControlKept
<1> QED
  BY <1>5, <1>6, <1>7 DEF evthread_proc, Inv

\* EVTHREAD_start and the thread of a new connection: the thread is new.
LEMMA NewThreadKeeps ==
  ASSUME Inv, current = None, NEW t \in Threads, thread[t] = "unused",
         NEW st \in {"alive", "lost"}, thread' = [thread EXCEPT ![t] = st],
         current' = (IF st = "alive" THEN t ELSE None), UNCHANGED wait,
         World(ev', wait, thread')
  PROVE  Inv'
<1>1. wait[t] = NoWait
  <2>1. wait[t].op = "none"
    BY DEF Inv, ControlKept
  <2> QED
    BY <2>1 DEF Inv
<1>2. /\ thread' \in [Threads -> {"unused", "alive", "ended", "lost"}]
      /\ thread'[t] = st /\ \A u \in Threads : u # t => thread'[u] = thread[u]
  BY DEF Inv
<1>3. current' \in Threads \cup {None} /\ None \notin Threads /\ NoWait.op = "none"
  BY EvAssumption DEF NoWait
<1>4. ControlKept'
  BY <1>1, <1>2, <1>3 DEF Inv, ControlKept
<1> QED
  BY <1>2, <1>3, <1>4 DEF Inv

\* A new thread takes nothing from the others.
LEMMA NewThreadWorld ==
  ASSUME Inv, NEW t \in Threads, thread[t] = "unused", NEW st,
         thread' = [thread EXCEPT ![t] = st]
  PROVE  World(ev, wait, thread')
<1>1. /\ World(ev, wait, thread)
      /\ \A u : thread[u] = "alive" /\ u \in Threads => thread'[u] = "alive"
  BY DEF Inv
<1>2. ASSUME NEW s \in Sockets,
             ev.socket[s].open \/ ev.timer[idle(s)] # "none" \/ ev.timer[io(s)] # "none"
      PROVE  ev.socket[s].state # "none" /\ thread[ev.socket[s].owner] = "alive"
  <2>1. CASE ev.socket[s].open
    BY <1>1, <2>1 DEF World, SocketsOK, NoSocket
  <2>2. CASE ev.timer[idle(s)] # "none" \/ ev.timer[io(s)] # "none"
    <3>1. \A x \in Timers : ev.timer[x] # "none" =>
            /\ ev.socket[x[2]].state # "none" /\ thread[ev.socket[x[2]].owner] = "alive"
      BY <1>1 DEF World, TimersOK
    <3>2. idle(s) \in Timers /\ io(s) \in Timers /\ idle(s)[2] = s /\ io(s)[2] = s
      BY TimerFacts
    <3> QED
      BY <2>2, <3>1, <3>2
  <2> QED
    BY <1>2, <2>1, <2>2
<1>3. \A s \in Sockets : ev.socket[s].state # "none" => ev.socket[s].owner \in Threads
  BY <1>1 DEF World, SocketsOK
<1>4. \A s \in Sockets :
        ev.socket[s].open \/ ev.timer[idle(s)] # "none" \/ ev.timer[io(s)] # "none" =>
          thread'[ev.socket[s].owner] = "alive"
  BY <1>1, <1>2, <1>3
<1> QED
  BY <1>1, <1>4, ThreadsKeep

LEMMA ThreadStartKeeps ==
  ASSUME Inv, NEW t \in Threads, EVTHREAD_start(t)
  PROVE  Inv'
<1>1. World(ev', wait, thread')
  BY NewThreadWorld DEF EVTHREAD_start
<1> QED
  BY <1>1, NewThreadKeeps DEF EVTHREAD_start

LEMMA ListenerKeeps ==
  ASSUME Inv, NEW t \in Threads, NEW s \in Sockets, NEW f \in Fds,
         socket_listener_cb(t, s, f)
  PROVE  Inv'
<1>1. /\ current = None /\ thread[t] = "unused" /\ ev.socket[s].state = "none"
      /\ Unused(ev, f) /\ wait' = wait
      /\ thread \in [Threads -> {"unused", "alive", "ended", "lost"}]
  BY DEF socket_listener_cb, Inv
<1>2. CASE /\ thread' = [thread EXCEPT ![t] = "alive"] /\ current' = t
           /\ ev' = EVSOCKET_init(ev, t, s, f, "CONNECTED")
  <2>1. World(ev, wait, thread') /\ thread'[t] = "alive"
    BY <1>1, <1>2, NewThreadWorld
  <2>2. World(EVSOCKET_init(ev, t, s, f, "CONNECTED"), wait, thread')
    BY <1>1, <2>1, SocketInitKeeps
  <2>3. World(ev', wait, thread')
    BY <1>2, <2>2
  <2> QED
    BY <1>1, <1>2, <2>3, NewThreadKeeps
<1>3. CASE thread' = [thread EXCEPT ![t] = "lost"] /\ UNCHANGED <<current, ev>>
  <2>1. World(ev', wait, thread')
    BY <1>1, <1>3, NewThreadWorld
  <2> QED
    BY <1>1, <1>3, <2>1, NewThreadKeeps
<1> QED
  BY <1>2, <1>3 DEF socket_listener_cb

LEMMA ThreadTimerKeeps ==
  ASSUME Inv, NEW t \in Threads, thread_timer_cb(t)
  PROVE  Inv'
<1> DEFINE w == [ev EXCEPT !.pending = @ \ {<<"delay", t>>}]
<1>1. /\ current = None /\ <<"delay", t>> \in ev.pending /\ Resume(t, w, FALSE)
      /\ UNCHANGED thread /\ World(ev, wait, thread) /\ wait \in [Threads -> WaitShapes]
  BY DEF thread_timer_cb, CanFire, Inv
<1>2. wait[t].op = "delay"
  BY <1>1 DEF World, EventsOK
<1>3. thread[t] = "alive"
  BY <1>2 DEF Inv, ControlKept
<1>4. World(w, wait, thread)
  BY <1>1, DelayGoneKeeps
<1> HIDE DEF w
<1>5. Outcome(t)
  BY <1>1, <1>2, <1>3, <1>4, ResumeOutcome
<1> QED
  BY <1>1, <1>3, <1>5, OutcomeKeeps

LEMMA TimerKeeps ==
  ASSUME Inv, NEW x \in Timers, timer_cb(x)
  PROVE  Inv'
<1> DEFINE w == EVTIMER_cancel(ev, x)
           t == OwnerOf(ev, x)
<1>1. /\ current = None /\ <<"timer", x>> \in ev.pending /\ Resume(t, w, FALSE)
      /\ UNCHANGED thread /\ World(ev, wait, thread) /\ wait \in [Threads -> WaitShapes]
  BY DEF timer_cb, CanFire, Inv
<1>2. t = ev.socket[x[2]].owner /\ x[2] \in Sockets
  BY TimerFacts DEF OwnerOf
<1>3. thread[t] = "alive" /\ t \in Threads
  <2>1. ev.timer[x] = "SCHEDULED"
    BY <1>1 DEF World, TimersOK
  <2>2. ev.socket[x[2]].state # "none" /\ thread[ev.socket[x[2]].owner] = "alive"
    BY <1>1, <2>1 DEF World, TimersOK
  <2> QED
    BY <1>1, <1>2, <2>2 DEF World, SocketsOK
<1>4. World(w, wait, thread)
  BY <1>1, CancelKeeps
<1> HIDE DEF w, t
<1>5. wait[t].op # "none"
  BY <1>1, <1>3, LoopFacts
<1>6. Outcome(t)
  BY <1>1, <1>3, <1>4, <1>5, ResumeOutcome
<1> QED
  BY <1>1, <1>3, <1>6, OutcomeKeeps

\* What the loop reports for a socket is the event of the call its thread is in.
LEMMA EventWanted ==
  ASSUME NEW w, NEW wt, NEW th, World(w, wt, th), NEW s \in Sockets,
         NEW dir \in {"read", "write"}, CanFire(w, <<dir, s>>)
  PROVE  LET t == w.socket[s].owner
         IN /\ t \in Threads /\ Waits(w, wt, s) /\ dir \in Directions(wt[t].op)
            /\ w.socket[s].open /\ w.socket[s].state = CallState(wt[t].op)
            /\ th[t] = "alive"
            /\ \A d \in {"read", "write"} : d # dir => <<d, s>> \notin w.pending
<1> DEFINE t == w.socket[s].owner
<1>1. <<dir, s>> \in w.pending /\ w.socket[s].fd \in w.watched
  BY DEF CanFire
<1>2. w.socket[s].state # "none" /\ Waits(w, wt, s) /\ dir \in Directions(wt[t].op)
  BY <1>1 DEF World, EventsOK
<1>3. t \in Threads
  BY <1>2 DEF World, SocketsOK
<1>4. w.socket[s].open /\ w.socket[s].state = CallState(wt[t].op)
  BY <1>2, <1>3 DEF World, WaitsOK, Waits
<1>5. th[t] = "alive"
  BY <1>4 DEF World, SocketsOK
<1>6. ASSUME NEW d \in {"read", "write"}, d # dir, <<d, s>> \in w.pending PROVE FALSE
  <2>1. d \in Directions(wt[t].op)
    BY <1>4, <1>6 DEF World, EventsOK
  <2> QED
    BY <1>2, <1>6, <2>1 DEF Directions
<1> QED
  BY <1>2, <1>3, <1>4, <1>5, <1>6

LEMMA SocketEventKeeps ==
  ASSUME Inv, NEW s \in Sockets, NEW dir \in {"read", "write"}, socket_cb(dir, s)
  PROVE  Inv'
<1> DEFINE w == event_del(ev, dir, s)
           t == ev.socket[s].owner
<1>1. /\ current = None /\ CanFire(ev, <<dir, s>>)
      /\ UNCHANGED thread /\ World(ev, wait, thread) /\ wait \in [Threads -> WaitShapes]
  BY DEF socket_cb, Inv
<1>2. World(w, wait, thread) /\ w.pending = ev.pending \ {<<dir, s>>}
  BY <1>1, EventDelKeeps
<1>3. Resume(t, w, TRUE) \/ (ev' = w /\ UNCHANGED <<current, wait>>)
  BY DEF socket_cb
<1> HIDE DEF w
<1>4. CASE Resume(t, w, TRUE)
  <2>1. /\ t \in Threads /\ Waits(ev, wait, s) /\ thread[t] = "alive"
        /\ \A d \in {"read", "write"} : d # dir => <<d, s>> \notin ev.pending
    BY <1>1, EventWanted
  <2>2. wait[t].sock = s /\ wait[t].op \in IOCalls /\ wait[t].op # "none"
    BY <2>1 DEF Waits, IOCalls
  <2>3. <<"read", s>> \notin w.pending /\ <<"write", s>> \notin w.pending
    BY <1>2, <2>1
  <2> HIDE DEF t
  <2>4. Outcome(t)
    BY <1>1, <1>2, <1>4, <2>1, <2>2, <2>3, ResumeOutcome
  <2> QED
    BY <1>1, <2>1, <2>4, OutcomeKeeps
<1>5. CASE ev' = w /\ UNCHANGED <<current, wait>>
  BY <1>1, <1>2, <1>5, WorldKeeps
<1> QED
  BY <1>3, <1>4, <1>5

-----------------------------------------------------------------------------
(* The theorems *)

LEMMA StepInv == ReturnsClean /\ Inv /\ [Next]_vars => Inv'
<1> SUFFICES ASSUME ReturnsClean, Inv, [Next]_vars PROVE Inv'
  OBVIOUS
<1>1. ASSUME NEW s \in Sockets, NEW f \in Fds, OpenSocket(s, f) PROVE Inv'
  BY <1>1, OpenSocketKeeps
<1>2. ASSUME NEW s \in Sockets, EVSOCKET_set_idle_timeout(s) PROVE Inv'
  BY <1>2, SetIdleTimeoutKeeps
<1>3. ASSUME NEW s \in Sockets, EVSOCKET_connect(s) PROVE Inv'
  BY <1>3, ConnectKeeps
<1>4. ASSUME NEW s \in Sockets, EVSOCKET_recv(s) \/ EVSOCKET_recv_all(s) \/ EVSOCKET_send(s)
      PROVE  Inv'
  BY <1>4, TransferKeeps
<1>5. ASSUME NEW s \in Sockets, Close(s) PROVE Inv'
  BY <1>5, CloseStepKeeps
<1>6. CASE EVTHREAD_delay
  BY <1>6, DelayStepKeeps
<1>7. CASE evthread_proc
  BY <1>7, ThreadEndKeeps
<1>8. ASSUME NEW t \in Threads, EVTHREAD_start(t) PROVE Inv'
  BY <1>8, ThreadStartKeeps
<1>9. ASSUME NEW t \in Threads, thread_timer_cb(t) PROVE Inv'
  BY <1>9, ThreadTimerKeeps
<1>10. ASSUME NEW t \in Threads, NEW s \in Sockets, NEW f \in Fds, socket_listener_cb(t, s, f)
       PROVE  Inv'
  BY <1>10, ListenerKeeps
<1>11. ASSUME NEW x \in Timers, timer_cb(x) PROVE Inv'
  BY <1>11, TimerKeeps
<1>12. ASSUME NEW s \in Sockets, NEW dir \in {"read", "write"}, socket_cb(dir, s) PROVE Inv'
  BY <1>12, SocketEventKeeps
<1>13. CASE UNCHANGED vars
  BY <1>13 DEF vars, Inv, ControlKept
<1>14. CASE ThreadStep
  BY <1>14, <1>1, <1>2, <1>3, <1>4, <1>5, <1>6, <1>7 DEF ThreadStep
<1>15. CASE LoopStep
  BY <1>15, <1>8, <1>9, <1>10, <1>11, <1>12 DEF LoopStep
<1> QED
  BY <1>13, <1>14, <1>15 DEF Next

LEMMA InvHolds == ReturnsClean => (Spec => []Inv)
<1> SUFFICES ASSUME ReturnsClean PROVE Spec => []Inv
  OBVIOUS
<1>1. Init => Inv
  BY InitInv
<1>2. Inv /\ [Next]_vars => Inv'
  BY StepInv
<1> QED
  BY <1>1, <1>2, PTL DEF Spec

\* A thread that lives has control or waits in one call, a timer is in the loop
\* exactly while it is scheduled, and object_list has every object at most once
\* and no object that was freed.
THEOREM TypesKept == ReturnsClean => (Spec => []TypeOK)
<1>1. Inv => TypeOK
  <2> SUFFICES ASSUME Inv PROVE TypeOK
    OBVIOUS
  <2>1. wait \in [Threads -> [op : {"none", "delay", "connect", "recv", "recv_all", "send"},
                              sock : Sockets \cup {None}, left : 0 .. BufSize]]
    <3>1. IOCalls \cup {"none", "delay"} =
            {"none", "delay", "connect", "recv", "recv_all", "send"}
      BY DEF IOCalls
    <3> QED
      BY <3>1 DEF Inv, WaitShapes
  <2>2. \A x \in Timers : ev.timer[x] = "SCHEDULED" <=> <<"timer", x>> \in ev.pending
    BY DEF Inv, World, TimersOK
  <2>3. ASSUME NEW t \in Threads, NEW i \in 1 .. Len(ev.objects[t]),
               NEW j \in 1 .. Len(ev.objects[t])
        PROVE  /\ Allocated(ev, ev.objects[t][i])
               /\ ev.objects[t][i] = ev.objects[t][j] => i = j
    <3>1. Enumerates(ev.objects[t], Owned(ev, t))
      BY DEF Inv, World, ListsOK
    <3>2. ev.objects[t][i] \in Owned(ev, t)
      BY <3>1 DEF Enumerates
    <3> QED
      BY <3>1, <3>2 DEF Enumerates, Owned
  <2> QED
    BY <2>1, <2>2, <2>3 DEF Inv, TypeOK
<1> QED
  BY <1>1, InvHolds, PTL

\* The loop never reports an event that nobody waits for: the thread it would
\* resume lives and is in the call the event belongs to, also after timeouts
\* that leave events behind in the loop (evthread.c:226, 309).
THEOREM OnlyExpectedEvents == ReturnsClean => (Spec => []EventsExpected)
<1>1. Inv => EventsExpected
  <2> SUFFICES ASSUME Inv, NEW e \in ev.pending, CanFire(ev, e)
               PROVE  CASE e[1] = "delay" -> wait[e[2]].op = "delay"
                        [] e[1] = "timer" -> /\ Allocated(ev, e[2])
                                             /\ thread[OwnerOf(ev, e[2])] = "alive"
                        [] OTHER ->
                             LET s == e[2]
                                 t == ev.socket[s].owner
                             IN /\ ev.socket[s].open
                                /\ wait[t].sock = s /\ e[1] \in Directions(wait[t].op)
                                /\ ev.socket[s].state =
                                     (CASE wait[t].op = "connect" -> "CONNECTING"
                                        [] wait[t].op = "send" -> "WRITING"
                                        [] OTHER -> "READING")
    BY DEF EventsExpected
  <2>1. World(ev, wait, thread) /\ e \in Events
    BY DEF Inv, World, Worlds
  <2>2. CASE \E t \in Threads : e = <<"delay", t>>
    BY <2>1, <2>2 DEF World, EventsOK
  <2>3. CASE \E x \in Timers : e = <<"timer", x>>
    <3>1. PICK x \in Timers : e = <<"timer", x>>
      BY <2>3
    <3>2. ev.timer[x] = "SCHEDULED"
      BY <2>1, <3>1 DEF World, TimersOK
    <3>3. thread[ev.socket[x[2]].owner] = "alive"
      BY <2>1, <3>2 DEF World, TimersOK
    <3> QED
      BY <3>1, <3>2, <3>3, TimerFacts DEF Allocated, OwnerOf
  <2>4. CASE \E s \in Sockets, dir \in {"read", "write"} : e = <<dir, s>>
    <3>1. PICK s \in Sockets, dir \in {"read", "write"} : e = <<dir, s>>
      BY <2>4
    <3>3. e[1] = dir /\ e[2] = s /\ dir # "delay" /\ dir # "timer"
      BY <3>1
    <3>2. LET t == ev.socket[s].owner
          IN /\ Waits(ev, wait, s) /\ dir \in Directions(wait[t].op)
             /\ ev.socket[s].open /\ ev.socket[s].state = CallState(wait[t].op)
      <4>1. CanFire(ev, <<dir, s>>)
        BY <3>1
      <4>2. Waits(ev, wait, s) /\ ev.socket[s].owner \in Threads
        BY <2>1, <4>1, EventWanted
      <4>3. dir \in Directions(wait[ev.socket[s].owner].op)
        <5>1. <<dir, s>> \in ev.pending /\ ev.socket[s].fd \in ev.watched
          BY <3>1, <3>3 DEF CanFire
        <5> QED
          BY <2>1, <5>1 DEF World, EventsOK
      <4> QED
        BY <2>1, <4>2, <4>3 DEF World, WaitsOK, Waits
    <3> DEFINE t == ev.socket[s].owner
    <3>4. CallState(wait[t].op) = CASE wait[t].op = "connect" -> "CONNECTING"
                                    [] wait[t].op = "send" -> "WRITING"
                                    [] OTHER -> "READING"
      BY DEF CallState
    <3>5. /\ ev.socket[s].open /\ wait[t].sock = s /\ dir \in Directions(wait[t].op)
          /\ ev.socket[s].state = CallState(wait[t].op)
      BY <3>2 DEF Waits
    <3> HIDE DEF t
    <3> QED
      BY <3>3, <3>4, <3>5 DEF t
  <2> QED
    BY <2>1, <2>2, <2>3, <2>4 DEF Events
<1> QED
  BY <1>1, InvHolds, PTL

\* No object is used after it was freed, in particular not by EVTHREAD_free,
\* which frees the objects of the list it walks over (evthread.c:62, 290).
THEOREM NothingUsedAfterFree == ReturnsClean => (Spec => []NoUseAfterFree)
<1>1. Inv => NoUseAfterFree
  BY DEF Inv, World, Worlds, NoUseAfterFree
<1> QED
  BY <1>1, InvHolds, PTL

\* When a thread ends, all its timers are freed and all its descriptors closed.
THEOREM EndedThreadsLeaveNothing == ReturnsClean => (Spec => []NothingLeftOpen)
<1>1. Inv => NothingLeftOpen
  <2> SUFFICES ASSUME Inv PROVE NothingLeftOpen
    OBVIOUS
  <2>1. World(ev, wait, thread)
    BY DEF Inv
  <2>2. ASSUME NEW x \in Timers, Allocated(ev, x) PROVE thread[OwnerOf(ev, x)] = "alive"
    <3>1. ev.timer[x] # "none" /\ OwnerOf(ev, x) = ev.socket[x[2]].owner
      BY <2>2, TimerFacts DEF Allocated, OwnerOf
    <3> QED
      BY <2>1, <3>1 DEF World, TimersOK
  <2>3. \A s \in Sockets : ev.socket[s].open => thread[ev.socket[s].owner] = "alive"
    BY <2>1 DEF World, SocketsOK
  <2> QED
    BY <2>2, <2>3 DEF NothingLeftOpen
<1> QED
  BY <1>1, InvHolds, PTL
=============================================================================
