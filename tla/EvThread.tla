------------------------------ MODULE EvThread ------------------------------
(***************************************************************************)
(* evcorothread/evthread.c: coroutines that block on sockets and timers of *)
(* an event loop.                                                          *)
(*                                                                         *)
(* One actor has control: the loop, or one thread.  A thread makes a call; *)
(* when the call blocks the thread yields to the loop, and the callback of *)
(* some event resumes it inside the call, with the number of the event.  An *)
(* action is all that happens while a thread or the loop keeps control up  *)
(* to the end of one library call.                                         *)
(*                                                                         *)
(* The library mutates the objects and the loop in long sequences of calls, *)
(* so these are one record, ev, and each function maps it to the next one. *)
(***************************************************************************)
EXTENDS Naturals, Sequences, FiniteSets, SequencesExt

CONSTANTS
  Threads, Sockets, Fds, None,
  BufSize,       \* bound on buf_size, in the units the peer sends and takes
  MallocFails,   \* the objects malloc may fail for: "socket", "timer"
  FalseAlarms,   \* whether a call may still block right after its I/O event
  ReturnsClean   \* whether thread procedures close a socket with an idle
                 \* timer themselves before they return

ASSUME EvAssumption ==
  /\ None \notin Threads \cup Sockets
  /\ \A s \in Sockets \cup {None}, r \in Sockets : s # <<"idle", r>> /\ s # <<"io", r>>
  /\ BufSize \in Nat \ {0}
  /\ MallocFails \subseteq {"socket", "timer"} /\ FalseAlarms \in BOOLEAN /\ ReturnsClean \in BOOLEAN

VARIABLES
  thread,   \* "unused", "alive", "ended", or "lost": never started nor freed
  current,  \* the thread in control, None for the loop
  wait,     \* the call each thread is suspended in
  ev        \* the objects and the event loop

vars == <<thread, current, wait, ev>>

idle(s) == <<"idle", s>>     \* socket->timer_idle_timeout
io(s)   == <<"io", s>>       \* socket->timer_io_timeout
Timers  == {idle(s) : s \in Sockets} \cup {io(s) : s \in Sockets}
Objects == Sockets \cup Timers

NoWait == [op |-> "none", sock |-> None, left |-> 0]

NoSocket == [state |-> "none", owner |-> None, fd |-> None, open |-> FALSE]

Init ==
  /\ thread = [t \in Threads |-> "unused"]
  /\ current = None
  /\ wait = [t \in Threads |-> NoWait]
  /\ ev = [socket  |-> [s \in Sockets |-> NoSocket],  \* open: socket->fd # -1
           timer   |-> [x \in Timers |-> "none"],     \* "none": no such object
           objects |-> [t \in Threads |-> <<>>],      \* object_list
           pending |-> {},           \* the events inserted in the loop
           evread  |-> [f \in Fds |-> None],  \* fds[f] of the epoll back end
           evwrite |-> [f \in Fds |-> None],
           watched |-> {},           \* the descriptors the kernel watches
           corrupt |-> FALSE]  \* a freed object has been used; the model goes on
                               \* as if it had not

Allocated(w, x) ==
  IF x \in Sockets THEN w.socket[x].state # "none" ELSE w.timer[x] # "none"
Unused(w, f) == \A s \in Sockets : ~(w.socket[s].open /\ w.socket[s].fd = f)

-----------------------------------------------------------------------------
(* libevent: a socket event is <<"read", s>> or <<"write", s>> *)

\* event_add asks epoll to modify the entry of a descriptor that has one, and
\* that fails when the kernel does not watch the descriptor any more.
event_add(w, dir, s) ==
  LET f == w.socket[s].fd
      modify == w.evread[f] # None \/ w.evwrite[f] # None
      slot == IF dir = "read" THEN "evread" ELSE "evwrite"
  IN IF modify /\ f \notin w.watched THEN w
     ELSE [w EXCEPT ![slot][f] = s, !.watched = @ \cup {f},
                    !.pending = @ \cup {<<dir, s>>}]

event_del(w, dir, s) ==
  LET f == w.socket[s].fd
      slot  == IF dir = "read" THEN "evread" ELSE "evwrite"
      other == IF dir = "read" THEN "evwrite" ELSE "evread"
  IN IF <<dir, s>> \notin w.pending THEN w
     ELSE [w EXCEPT ![slot][f] = None, !.pending = @ \ {<<dir, s>>},
                    !.watched = IF w[other][f] = None THEN @ \ {f} ELSE @]

\* close(2): the kernel forgets the descriptor, libevent does not.
close(w, s) ==
  [w EXCEPT !.socket[s].open = FALSE, !.watched = @ \ {w.socket[s].fd}]

\* The loop can report an event: timers always, I/O of watched descriptors.
CanFire(w, e) ==
  /\ e \in w.pending
  /\ e[1] = "read"  => w.socket[e[2]].fd \in w.watched
  /\ e[1] = "write" => w.socket[e[2]].fd \in w.watched

-----------------------------------------------------------------------------
(* Objects *)

OwnerOf(w, x) == w.socket[IF x \in Timers THEN x[2] ELSE x].owner

Position(q, x) == CHOOSE i \in 1 .. Len(q) : q[i] = x

Linked(w, t, x)   == [w EXCEPT !.objects[t] = Append(@, x)]
Unlinked(w, t, x) == [w EXCEPT !.objects[t] = RemoveAt(@, Position(@, x))]

EVTIMER_start(w, x) ==
  IF w.timer[x] # "INIT" THEN w
  ELSE [w EXCEPT !.timer[x] = "SCHEDULED", !.pending = @ \cup {<<"timer", x>>}]

EVTIMER_cancel_NoDel(w, x) ==
  IF w.timer[x] # "SCHEDULED" THEN w ELSE [w EXCEPT !.timer[x] = "INIT"]

EVTIMER_cancel(w, x) ==
  IF w.timer[x] # "SCHEDULED" THEN w
  ELSE [w EXCEPT !.timer[x] = "INIT", !.pending = @ \ {<<"timer", x>>}]

TimerStarted_OnlyInit(w, s, x) ==
  Linked([w EXCEPT !.timer[x] = "INIT"], w.socket[s].owner, x)

\* EVTIMER_init and EVTIMER_start of a timer of socket s
TimerStarted(w, s, x) ==
  EVTIMER_start(Linked([w EXCEPT !.timer[x] = "INIT"], w.socket[s].owner, x), x)

EVTIMER_free_StillLinked(w, x) ==
  IF w.timer[x] = "none" THEN w ELSE [EVTIMER_cancel(w, x) EXCEPT !.timer[x] = "none"]

EVTIMER_free(w, x) ==
  IF w.timer[x] = "none" THEN w
  ELSE Unlinked([EVTIMER_cancel(w, x) EXCEPT !.timer[x] = "none"], OwnerOf(w, x), x)

EVSOCKET_init(w, t, s, f, state) ==
  Linked([w EXCEPT !.socket[s] = [state |-> state, owner |-> t, fd |-> f, open |-> TRUE]],
         t, s)

\* EVSOCKET_close does nothing when a timeout has closed the descriptor.
EVSOCKET_close(w, s) ==
  IF ~w.socket[s].open THEN w
  ELSE LET w1 == EVTIMER_free(EVTIMER_free(w, idle(s)), io(s))
           w2 == event_del(event_del(w1, "read", s), "write", s)
           w3 == Unlinked(close(w2, s), w.socket[s].owner, s)
       IN [w3 EXCEPT !.socket[s] = NoSocket]

\* One step of the walk over object_list: the successor of the entry is saved
\* before the entry is freed.
FreeEntry(t, at) ==
  LET w == at.w
      x == at.entry
      q == w.objects[t]
      i == Position(q, x)
  IN CASE x = None -> at
       [] x # None /\ ~Allocated(w, x) ->
            [w |-> [w EXCEPT !.corrupt = TRUE], entry |-> None]
       [] OTHER ->
            [w     |-> IF x \in Sockets THEN EVSOCKET_close(w, x) ELSE EVTIMER_free(w, x),
             entry |-> IF i = Len(q) THEN None ELSE q[i + 1]]

EVTHREAD_free_NoWalk(w, t) == w

EVTHREAD_free(w, t) ==
  LET n == Len(w.objects[t])
      walk[k \in 0 .. n] ==
        IF k = 0 THEN [w |-> w, entry |-> IF n = 0 THEN None ELSE w.objects[t][1]]
        ELSE FreeEntry(t, walk[k - 1])
  IN walk[n].w

-----------------------------------------------------------------------------
(* Calls that may block *)

Returns(t, w) ==
  /\ ev' = w
  /\ current' = t
  /\ wait' = [wait EXCEPT ![t] = NoWait]

\* From EAGAIN or EINPROGRESS to the yield.
Blocks(t, w, s, dir, state, op, left, has_event) ==
  LET w1 == [w EXCEPT !.socket[s].state = state]
  IN \E malloc \in IF "timer" \in MallocFails THEN BOOLEAN ELSE {TRUE} :
       LET w2 == IF malloc THEN TimerStarted(w1, s, io(s)) ELSE w1
       IN /\ ev' = IF has_event THEN w2 ELSE event_add(w2, dir, s)
          /\ current' = None
          /\ wait' = [wait EXCEPT ![t] = [op |-> op, sock |-> s, left |-> left]]

\* What recv or send does with each part that it transfers.
Transferred(w, s, dir, has_event) ==
  LET w1 == IF has_event THEN event_del(w, dir, s) ELSE w
      w2 == [w1 EXCEPT !.socket[s].state = "CONNECTED"]
  IN IF dir = "read" THEN EVTIMER_cancel(w2, idle(s)) ELSE w2

\* EVSOCKET_recv (left = 1: any data will do), EVSOCKET_recv_all and
\* EVSOCKET_send, from their start or from r_again and w_again.  They transfer
\* n of the parts that are left, and then are done, block, or end otherwise.
Transfer(t, w, s, op, left, has_event) ==
  LET dir == IF op = "send" THEN "write" ELSE "read"
      state == IF op = "send" THEN "WRITING" ELSE "READING"
  IN \E n \in 0 .. left :
       LET w1 == IF n > 0 THEN Transferred(w, s, dir, has_event) ELSE w
       IN \/ /\ n = left
             /\ Returns(t, IF dir = "read" THEN EVTIMER_start(w1, idle(s)) ELSE w1)
          \/ /\ n < left     \* EAGAIN
             /\ FalseAlarms \/ ~has_event \/ n > 0
             /\ Blocks(t, w1, s, dir, state, op, left - n, has_event /\ n = 0)
          \/ /\ n < left     \* recv returns 0
             /\ dir = "read"
             /\ LET w2 == Transferred(w1, s, dir, has_event /\ n = 0)
                IN Returns(t, IF op = "recv" THEN EVTIMER_start(w2, idle(s)) ELSE w2)
          \/ /\ n < left     \* any other error
             /\ Returns(t, IF dir = "write" /\ has_event /\ n = 0
                           THEN event_del(w1, dir, s) ELSE w1)

TimedOut_StillOpen(w, s) == [w EXCEPT !.socket[s].state = "ERROR"]

\* A call that is resumed by anything but its I/O event has timed out.
TimedOut(w, s) == close([w EXCEPT !.socket[s].state = "ERROR"], s)

\* CTHREAD_resume by a callback: thread t goes on in the call it waits in, with
\* EVENT_ID_HAS_IO_EVENT or the id of a timer.
Resume(t, w, io_event) ==
  LET s == wait[t].sock
      w1 == EVTIMER_free(w, io(s))
  IN \/ /\ wait[t].op = "delay"
        /\ Returns(t, [w EXCEPT !.pending = @ \ {<<"delay", t>>}])
     \/ /\ wait[t].op = "connect"
        /\ LET w2 == EVTIMER_free(event_del(w, "write", s), io(s))
           IN Returns(t, IF io_event THEN [w2 EXCEPT !.socket[s].state = "CONNECTED"]
                         ELSE TimedOut(w2, s))
     \/ /\ wait[t].op \in {"recv", "recv_all", "send"} /\ io_event
        /\ Transfer(t, w1, s, wait[t].op, wait[t].left, TRUE)
     \/ /\ wait[t].op \in {"recv", "recv_all"} /\ ~io_event
        /\ Returns(t, TimedOut(w1, s))
     \/ /\ wait[t].op = "send" /\ ~io_event
        /\ Returns(t, event_del(TimedOut(w1, s), "write", s))
     \/ /\ wait[t].op = "none"     \* CTHREAD_resume refuses, or the thread is gone
        /\ ev' = [w EXCEPT !.corrupt = @ \/ thread[t] # "alive"]
        /\ UNCHANGED <<current, wait>>

-----------------------------------------------------------------------------
(* The callbacks: the loop removes the event and calls *)

timer_cb(x) ==
  /\ current = None
  /\ CanFire(ev, <<"timer", x>>)
  /\ Resume(OwnerOf(ev, x), EVTIMER_cancel(ev, x), FALSE)
  /\ UNCHANGED thread

thread_timer_cb(t) ==
  /\ current = None
  /\ CanFire(ev, <<"delay", t>>)
  /\ Resume(t, [ev EXCEPT !.pending = @ \ {<<"delay", t>>}], FALSE)
  /\ UNCHANGED thread

\* An event that does not fit the state of the socket is ignored.
socket_cb(dir, s) ==
  LET w == event_del(ev, dir, s)
      expected == IF dir = "read" THEN {"READING"} ELSE {"CONNECTING", "WRITING"}
  IN /\ current = None
     /\ CanFire(ev, <<dir, s>>)
     /\ \/ ev.socket[s].state \in expected /\ Resume(ev.socket[s].owner, w, TRUE)
        \/ /\ ev.socket[s].state \notin expected
           /\ ev' = w
           /\ UNCHANGED <<current, wait>>
     /\ UNCHANGED thread

\* A connection is accepted: a thread with the socket is made and started.  When
\* EVSOCKET_init fails the thread is left behind.
socket_listener_cb(t, s, f) ==
  /\ current = None
  /\ thread[t] = "unused" /\ ev.socket[s].state = "none" /\ Unused(ev, f)
  /\ \/ /\ thread' = [thread EXCEPT ![t] = "alive"]
        /\ current' = t
        /\ ev' = EVSOCKET_init(ev, t, s, f, "CONNECTED")
     \/ /\ "socket" \in MallocFails
        /\ thread' = [thread EXCEPT ![t] = "lost"]
        /\ UNCHANGED <<current, ev>>
  /\ UNCHANGED wait

-----------------------------------------------------------------------------
(* What the thread in control calls *)

Own(s) ==
  current # None /\ ev.socket[s].state # "none" /\ ev.socket[s].owner = current

\* EVTHREAD_init and EVTHREAD_start by the code outside of the loop
EVTHREAD_start(t) ==
  /\ current = None /\ thread[t] = "unused"
  /\ thread' = [thread EXCEPT ![t] = "alive"]
  /\ current' = t
  /\ UNCHANGED <<wait, ev>>

OpenSocket(s, f) ==
  /\ current # None
  /\ ev.socket[s].state = "none" /\ Unused(ev, f)
  /\ ev' = EVSOCKET_init(ev, current, s, f, "INIT")
  /\ UNCHANGED <<thread, current, wait>>

\* Bound: once per socket.
EVSOCKET_set_idle_timeout(s) ==
  /\ Own(s)
  /\ ev.socket[s].state = "CONNECTED" /\ ev.timer[idle(s)] = "none"
  /\ ev' = TimerStarted(ev, s, idle(s))
  /\ UNCHANGED <<thread, current, wait>>

EVSOCKET_connect(s) ==
  /\ Own(s)
  /\ ev.socket[s].state = "INIT"
  /\ \/ Returns(current, [ev EXCEPT !.socket[s].state = "CONNECTED"])
     \/ Blocks(current, ev, s, "write", "CONNECTING", "connect", 0, FALSE)
  /\ UNCHANGED thread

EVSOCKET_recv(s) ==
  /\ Own(s) /\ ev.socket[s].state = "CONNECTED"
  /\ Transfer(current, ev, s, "recv", 1, FALSE)
  /\ UNCHANGED thread

EVSOCKET_recv_all(s) ==
  /\ Own(s) /\ ev.socket[s].state = "CONNECTED"
  /\ Transfer(current, ev, s, "recv_all", BufSize, FALSE)
  /\ UNCHANGED thread

EVSOCKET_send(s) ==
  /\ Own(s) /\ ev.socket[s].state = "CONNECTED"
  /\ Transfer(current, ev, s, "send", BufSize, FALSE)
  /\ UNCHANGED thread

EVTHREAD_delay ==
  /\ current # None
  /\ ev' = [ev EXCEPT !.pending = @ \cup {<<"delay", current>>}]
  /\ wait' = [wait EXCEPT ![current] = [NoWait EXCEPT !.op = "delay"]]
  /\ current' = None
  /\ UNCHANGED thread

Close(s) ==
  /\ Own(s)
  /\ ev' = EVSOCKET_close(ev, s)
  /\ UNCHANGED <<thread, current, wait>>

\* The end of evthread_proc: the thread procedure returns.  CTHREAD_free refuses
\* the thread it is called on, which then gives its stack back and is leaked.
evthread_proc ==
  /\ current # None
  /\ ReturnsClean =>
       \A s \in Sockets : Own(s) /\ ev.socket[s].open => ev.timer[idle(s)] = "none"
  /\ ev' = EVTHREAD_free(ev, current)
  /\ thread' = [thread EXCEPT ![current] = "ended"]
  /\ current' = None
  /\ UNCHANGED wait

-----------------------------------------------------------------------------
ThreadStep ==
  \/ \E s \in Sockets :
       \/ \E f \in Fds : OpenSocket(s, f)
       \/ EVSOCKET_set_idle_timeout(s) \/ EVSOCKET_connect(s)
       \/ EVSOCKET_recv(s) \/ EVSOCKET_recv_all(s) \/ EVSOCKET_send(s) \/ Close(s)
  \/ EVTHREAD_delay \/ evthread_proc

LoopStep ==
  \/ \E t \in Threads :
       \/ EVTHREAD_start(t) \/ thread_timer_cb(t)
       \/ \E s \in Sockets, f \in Fds : socket_listener_cb(t, s, f)
  \/ \E x \in Timers : timer_cb(x)
  \/ \E s \in Sockets, dir \in {"read", "write"} : socket_cb(dir, s)

Next == ThreadStep \/ LoopStep

Spec == Init /\ [][Next]_vars

\* The timer that ends the call thread t waits in
Timeout(t) == thread_timer_cb(t) \/ (\E s \in Sockets : wait[t].sock = s /\ timer_cb(io(s)))

\* The loop runs every expired timer before it polls again, and a thread
\* procedure blocks or returns sooner or later.
FairSpec ==
  /\ Spec
  /\ \A t \in Threads : SF_vars(Timeout(t))
  /\ SF_vars(ThreadStep /\ current' = None)

-----------------------------------------------------------------------------
(* Properties *)

Directions(op) ==
  CASE op \in {"recv", "recv_all"} -> {"read"} [] op \in {"send", "connect"} -> {"write"}
    [] OTHER -> {}

\* A thread that lives is in control or in one call, and a thread in control is
\* in none: whatever calls back, nothing is resumed that does not wait.
ControlKept ==
  \A t \in Threads :
    /\ thread[t] = "alive" <=> current = t \/ wait[t].op # "none"
    /\ current = t => wait[t] = NoWait

TypeOK ==
  /\ thread \in [Threads -> {"unused", "alive", "ended", "lost"}]
  /\ current \in Threads \cup {None}
  /\ wait \in [Threads -> [op : {"none", "delay", "connect", "recv", "recv_all", "send"},
                           sock : Sockets \cup {None}, left : 0 .. BufSize]]
  /\ ControlKept
  /\ \A x \in Timers : ev.timer[x] = "SCHEDULED" <=> <<"timer", x>> \in ev.pending
  /\ \A t \in Threads : \A i, j \in 1 .. Len(ev.objects[t]) :
       /\ Allocated(ev, ev.objects[t][i])
       /\ ev.objects[t][i] = ev.objects[t][j] => i = j

\* Whatever the loop can report is wanted: the object and its thread live, and
\* socket and thread are in the call the event belongs to.  So no callback
\* resumes a thread that is gone, and none is ignored (evthread.c:226, 309).
EventsExpected ==
  \A e \in ev.pending : CanFire(ev, e) =>
    CASE e[1] = "delay" -> wait[e[2]].op = "delay"
      [] e[1] = "timer" -> Allocated(ev, e[2]) /\ thread[OwnerOf(ev, e[2])] = "alive"
      [] OTHER ->
           LET s == e[2]
               t == ev.socket[s].owner
           IN /\ ev.socket[s].open
              /\ wait[t].sock = s /\ e[1] \in Directions(wait[t].op)
              /\ ev.socket[s].state = (CASE wait[t].op = "connect" -> "CONNECTING"
                                         [] wait[t].op = "send" -> "WRITING"
                                         [] OTHER -> "READING")

\* No object is used after it was freed, as long as the thread procedures close
\* their sockets with idle timers themselves (evthread.c:62, 290).
NoUseAfterFree == ~ev.corrupt

\* A thread that has ended leaves no timer and no open descriptor, whatever it
\* was doing and however its calls ended (evthread.c:134: "everything is hereby
\* closed").  Sockets that timed out stay allocated.
NothingLeftOpen ==
  /\ \A x \in Timers : Allocated(ev, x) => thread[OwnerOf(ev, x)] = "alive"
  /\ \A s \in Sockets : ev.socket[s].open => thread[ev.socket[s].owner] = "alive"

\* A call that blocks comes back, also when its I/O event is never reported,
\* comes too often or comes for nothing (evthread.c:445, 521).
CallsReturn == \A t \in Threads : wait[t].op # "none" ~> wait[t].op = "none"
=============================================================================
