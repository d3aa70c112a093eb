--------------------------- MODULE CThreadProofs ---------------------------
(***************************************************************************)
(* Proofs about CThread, for any number of coroutines and any pool.        *)
(*                                                                         *)
(* Inv0 == TypeOK /\ ControlNested is inductive.  Types alone are not: what *)
(* a thread that gives control away finds in the context of its caller is  *)
(* a call only because control is nested.  HasStack and Requested are added *)
(* for what a kill achieves, StacksExclusive and PreallocMade for the pool. *)
(***************************************************************************)
EXTENDS CThread, SequenceTheorems, FiniteSetTheorems, TLAPS

USE DEF Actors

Inv0 == TypeOK /\ ControlNested

LEMMA ControlInit == Init => Inv0
<1> SUFFICES ASSUME Init PROVE Inv0
  OBVIOUS
<1>1. made \in Nat
  BY PoolAssumption DEF Init
<1>2. free_stacks \in Seq(1 .. made)
  BY <1>1 DEF Init
<1>3. \A a \in Actors : place[a] = User /\ ~InCall(a)
  BY DEF Init, InCall, User, Calls
<1>4. TypeOK
  <2>1. place \in [Actors -> {User, InYield} \cup [call : Calls, thread : Threads, tls : Actors]]
    BY DEF Init
  <2>2. stack_entry \in [Threads -> 0 .. made]
    BY <1>1 DEF Init
  <2> QED
    BY <1>1, <1>2, <2>1, <2>2 DEF Init, TypeOK
<1>5. ControlNested
  BY <1>3, ThreadsAssumption DEF Init, ControlNested
<1> QED
  BY <1>4, <1>5 DEF Inv0

LEMMA CallType ==
  ASSUME Inv0, NEW a \in Actors, InCall(a)
  PROVE  place[a] \in [call : Calls, thread : Threads, tls : Actors]
<1>1. place[a] \notin {User, InYield}
  BY DEF InCall, User, InYield, Calls
<1> QED
  BY <1>1 DEF Inv0, TypeOK

\* What a running thread finds in its context_caller.
LEMMA CallerWaits ==
  ASSUME Inv0, tls # Main, state[tls] = "RUNNING"
  PROVE  LET c == context_caller[tls]
         IN /\ tls \in Threads /\ active = tls
            /\ c \in Actors /\ c # tls /\ InCall(c)
            /\ place[c] \in [call : Calls, thread : Threads, tls : Actors]
            /\ place[c].thread = tls /\ place[c].tls = c
<1> DEFINE c == context_caller[tls]
<1>1. tls \in Threads /\ active = tls
  BY DEF Inv0, TypeOK, ControlNested
<1>2. c \in Actors /\ c # tls /\ InCall(c) /\ place[c].thread = tls
  BY <1>1 DEF Inv0, ControlNested
<1>4. place[c].tls = c
  BY <1>2 DEF Inv0, ControlNested
<1>5. place[c] \in [call : Calls, thread : Threads, tls : Actors]
  BY <1>2, CallType
<1> QED
  BY <1>1, <1>2, <1>4, <1>5

-----------------------------------------------------------------------------
(* What the three transfers of control do to the control state. *)

\* Control goes back to the caller; the thread is left in newState.
Back(newState, newPlace) ==
  LET c == context_caller[tls]
  IN /\ tls # Main /\ state[tls] = "RUNNING"
     /\ active' = c
     /\ tls' = c
     /\ state' = [state EXCEPT ![tls] = newState]
     /\ place' = [a \in Actors |-> IF a = c THEN User
                                   ELSE IF a = tls THEN newPlace ELSE place[a]]

\* Control goes on to t, which was not running.
Forth(t, call) ==
  /\ state[t] \in {"INIT", "SUSPENDED"}
  /\ SwitchTo(t, call)

YieldEffect(value) ==
  /\ Back("SUSPENDED", InYield)
  /\ ~request_exit[tls]
  /\ UNCHANGED <<request_exit, context_caller, parent, stackVars>>

ExitEffect ==
  /\ Back("EXIT", place[tls])
  /\ STACKS_release(tls)
  /\ UNCHANGED <<request_exit, context_caller, parent>>

MessageTypes == [Threads -> {"none", "new", "old", "stale"}]

LEMMA MessagesDelivered ==
  ASSUME NEW val \in MessageTypes, NEW t \in Threads
  PROVE  [val EXCEPT ![t] = Delivered(@)] \in MessageTypes
BY DEF Delivered, MessageTypes

LEMMA ExitIsBack ==
  ASSUME Inv0, CTHREAD_exit
  PROVE  ExitEffect /\ to_caller' \in MessageTypes
<1> DEFINE c == context_caller[tls]
<1> DEFINE st == [state EXCEPT ![tls] = "EXIT"]
<1>1. tls # Main /\ state[tls] = "RUNNING"
  BY DEF CTHREAD_exit
<1>2. tls \in Threads /\ c \in Actors /\ c # tls
        /\ place[c].thread = tls /\ place[c].tls = c
  BY <1>1, CallerWaits
<1>3. st[tls] = "EXIT"
  BY <1>2 DEF Inv0, TypeOK
<1>4. /\ active' = c /\ tls' = c /\ state' = st
      /\ place' = [place EXCEPT ![c] = User]
      /\ \/ to_caller' = to_caller
         \/ to_caller' = [to_caller EXCEPT ![tls] = Delivered(@)]
  BY <1>2, <1>3 DEF CTHREAD_exit, BackIn
<1>5. place' = [a \in Actors |-> IF a = c THEN User
                                ELSE IF a = tls THEN place[tls] ELSE place[a]]
  BY <1>4 DEF Inv0, TypeOK
<1>6. to_caller' \in MessageTypes
  <2>1. to_caller \in MessageTypes
    BY DEF Inv0, TypeOK, MessageTypes
  <2> QED
    BY <1>2, <1>4, <2>1, MessagesDelivered
<1> QED
  BY <1>1, <1>4, <1>5, <1>6 DEF ExitEffect, Back, CTHREAD_exit

LEMMA YieldIsBack ==
  ASSUME Inv0, NEW value \in {"none", "new"}, CTHREAD_yield(value)
  PROVE  (YieldEffect(value) \/ ExitEffect) /\ to_caller' \in MessageTypes
<1> DEFINE c == context_caller[tls]
<1>1. CASE CTHREAD_exit
  BY <1>1, ExitIsBack
<1>2. CASE ~CTHREAD_exit
  <2> DEFINE val == [to_caller EXCEPT ![tls] = value]
  <2>1. /\ tls # Main /\ state[tls] = "RUNNING" /\ ~request_exit[tls]
        /\ BackIn(c, state, val, [place EXCEPT ![active] = InYield])
        /\ UNCHANGED <<request_exit, context_caller, parent, stackVars>>
    BY <1>2 DEF CTHREAD_yield
  <2>2. tls \in Threads /\ active = tls /\ c \in Actors /\ c # tls
          /\ place[c].thread = tls /\ place[c].tls = c
    BY <2>1, CallerWaits
  <2>3. /\ active' = c /\ tls' = c /\ state' = [state EXCEPT ![tls] = "SUSPENDED"]
        /\ place' = [[place EXCEPT ![tls] = InYield] EXCEPT ![c] = User]
        /\ \/ to_caller' = val
           \/ to_caller' = [val EXCEPT ![tls] = Delivered(@)]
    BY <2>1, <2>2 DEF BackIn
  <2>4. place' = [a \in Actors |-> IF a = c THEN User
                                  ELSE IF a = tls THEN InYield ELSE place[a]]
    BY <2>3, <2>2 DEF Inv0, TypeOK
  <2>5. val \in MessageTypes
    BY DEF Inv0, TypeOK, MessageTypes
  <2>6. to_caller' \in MessageTypes
    BY <2>2, <2>3, <2>5, MessagesDelivered
  <2> QED
    BY <2>1, <2>3, <2>4, <2>6 DEF YieldEffect, Back
<1> QED
  BY <1>1, <1>2

LEMMA ForthKeepsNested ==
  ASSUME Inv0, NEW t \in Threads, NEW call \in Calls, Forth(t, call)
  PROVE  ControlNested'
<1>1. t # active /\ active = tls /\ active \in Actors /\ ~InCall(t) /\ ~InCall(active)
  BY ThreadsAssumption DEF Inv0, TypeOK, ControlNested, Forth
<1>2. /\ context_caller' = [context_caller EXCEPT ![t] = active]
      /\ place' = [a \in Actors |-> IF a = t THEN User
                                    ELSE IF a = active THEN CallOn(call, t) ELSE place[a]]
      /\ active' = t /\ tls' = t
      /\ state' = [state EXCEPT ![t] = "RUNNING"]
  BY <1>1 DEF Forth, SwitchTo, Inv0, TypeOK
<1>3. \A a \in Actors : InCall(a)' <=> (a = active \/ InCall(a))
  BY <1>1, <1>2 DEF InCall, CallOn, User, Calls
<1>4. \A u \in Threads : state[u] = "RUNNING" <=> u = active \/ InCall(u)
  BY DEF Inv0, ControlNested
<1>5. \A u \in Threads : state'[u] = "RUNNING" <=> u = t \/ state[u] = "RUNNING"
  BY <1>2 DEF Inv0, TypeOK
<1>6. \A u \in Threads : state'[u] = "RUNNING" <=> u = active' \/ InCall(u)'
  BY <1>1, <1>2, <1>3, <1>4, <1>5
<1>7. ASSUME NEW u \in Threads, state'[u] = "RUNNING"
      PROVE  /\ context_caller'[u] \in Actors \ {u}
             /\ InCall(context_caller[u])'
             /\ place'[context_caller'[u]].thread = u
  <2>1. CASE u = t
    <3>1. context_caller'[u] = active
      BY <1>2, <2>1 DEF Inv0, TypeOK
    <3>2. place'[active].thread = t
      BY <1>1, <1>2 DEF CallOn
    <3>3. place'[active].call \in Calls
      BY <1>1, <1>2 DEF CallOn
    <3> QED
      BY <1>1, <2>1, <3>1, <3>2, <3>3 DEF InCall
  <2>2. CASE u # t
    <3> DEFINE d == context_caller[u]
    <3>1. context_caller'[u] = d
      BY <1>2, <2>2 DEF Inv0, TypeOK
    <3>2. d \in Actors \ {u} /\ InCall(d) /\ place[d].thread = u
      BY <1>5, <1>7, <2>2 DEF Inv0, ControlNested
    <3>3. d # t /\ d # active
      BY <1>1, <3>2
    <3>4. place'[d] = place[d]
      BY <1>2, <3>2, <3>3
    <3> QED
      BY <3>1, <3>2, <3>4 DEF InCall
  <2> QED
    BY <2>1, <2>2
<1>8. ASSUME NEW a \in Actors, InCall(a)'
      PROVE  /\ a # active' /\ place'[a].tls = a
             /\ state'[place'[a].thread] = "RUNNING"
             /\ context_caller'[place'[a].thread] = a
  <2>1. CASE a = active
    BY <1>1, <1>2, <2>1 DEF CallOn, Inv0, TypeOK
  <2>2. CASE a # active
    <3>1. InCall(a) /\ a # t
      BY <1>1, <1>3, <1>8, <2>2
    <3>2. place'[a] = place[a] /\ place[a].tls = a
            /\ state[place[a].thread] = "RUNNING" /\ context_caller[place[a].thread] = a
      BY <1>2, <2>2, <3>1 DEF Inv0, ControlNested
    <3>3. place[a].thread # t
      BY <3>2 DEF Forth
    <3> QED
      BY <1>2, <3>1, <3>2, <3>3 DEF Inv0, TypeOK
  <2> QED
    BY <2>1, <2>2
<1>9. tls' = active'
  BY <1>2
<1> QED
  BY <1>6, <1>7, <1>8, <1>9 DEF ControlNested

LEMMA BackKeepsNested ==
  ASSUME Inv0, NEW newState \in {"SUSPENDED", "EXIT"}, NEW newPlace,
         newPlace = InYield \/ newPlace = place[tls],
         Back(newState, newPlace), context_caller' = context_caller
  PROVE  ControlNested'
<1> DEFINE c == context_caller[tls]
<1>1. /\ tls \in Threads /\ active = tls
      /\ c \in Actors /\ c # tls /\ InCall(c) /\ place[c].thread = tls
  BY CallerWaits DEF Back
<1>2. /\ active' = c /\ tls' = c
      /\ state' = [state EXCEPT ![tls] = newState]
      /\ place' = [a \in Actors |-> IF a = c THEN User
                                    ELSE IF a = tls THEN newPlace ELSE place[a]]
  BY DEF Back
<1>3. ~InCall(tls)
  BY <1>1 DEF Inv0, ControlNested
<1>4. newPlace.call \notin Calls
  BY <1>3 DEF InCall, InYield, Calls
<1>5. \A a \in Actors : InCall(a)' <=> (a # c /\ InCall(a))
  BY <1>1, <1>2, <1>3, <1>4 DEF InCall, User, Calls
<1>6. \A u \in Threads : state'[u] = "RUNNING" <=> u # tls /\ state[u] = "RUNNING"
  BY <1>1, <1>2 DEF Inv0, TypeOK
<1>7. \A u \in Threads : state'[u] = "RUNNING" <=> u = active' \/ InCall(u)'
  BY <1>1, <1>2, <1>3, <1>5, <1>6 DEF Inv0, ControlNested
<1>8. ASSUME NEW u \in Threads, state'[u] = "RUNNING"
      PROVE  /\ context_caller'[u] \in Actors \ {u}
             /\ InCall(context_caller[u])'
             /\ place'[context_caller'[u]].thread = u
  <2> DEFINE d == context_caller[u]
  <2>1. u # tls /\ d \in Actors \ {u} /\ InCall(d) /\ place[d].thread = u
    BY <1>6, <1>8 DEF Inv0, ControlNested
  <2>2. d # c /\ d # tls
    BY <1>1, <1>3, <2>1
  <2>3. InCall(d)' /\ place'[d] = place[d]
    BY <1>2, <1>5, <2>1, <2>2
  <2> QED
    BY <2>1, <2>3 DEF InCall
<1>9. ASSUME NEW a \in Actors, InCall(a)'
      PROVE  /\ a # active' /\ place'[a].tls = a
             /\ state'[place'[a].thread] = "RUNNING"
             /\ context_caller'[place'[a].thread] = a
  <2>1. a # c /\ InCall(a) /\ a # tls
    BY <1>3, <1>5, <1>9
  <2>2. place'[a] = place[a] /\ place[a].tls = a
          /\ state[place[a].thread] = "RUNNING" /\ context_caller[place[a].thread] = a
    BY <1>2, <2>1 DEF Inv0, ControlNested
  <2>3. place[a].thread # tls
    BY <2>1, <2>2
  <2> QED
    BY <1>2, <2>1, <2>2, <2>3 DEF Inv0, TypeOK
<1>10. tls' = active'
  BY <1>2
<1> QED
  BY <1>7, <1>8, <1>9, <1>10 DEF ControlNested

-----------------------------------------------------------------------------
(* Types and nesting are preserved *)

States == {"none", "INIT", "RUNNING", "SUSPENDED", "EXIT", "freed"}
Places == {User, InYield} \cup [call : Calls, thread : Threads, tls : Actors]

ThreadTypes ==
  /\ state \in [Threads -> States]
  /\ request_exit \in [Threads -> BOOLEAN]
  /\ to_caller \in MessageTypes
  /\ context_caller \in [Threads -> Actors \cup {None}]
  /\ parent \in [Threads -> Threads \cup {None}]

ControlTypes == place \in [Actors -> Places] /\ tls \in Actors /\ active \in Actors

StackTypes ==
  /\ stack_mode \in Modes
  /\ made \in Nat
  /\ free_stacks \in Seq(1 .. made)
  /\ stack_entry \in [Threads -> 0 .. made]
  /\ destroyed \in BOOLEAN

LEMMA TypeParts == TypeOK <=> ThreadTypes /\ ControlTypes /\ StackTypes
BY DEF TypeOK, ThreadTypes, ControlTypes, StackTypes, States, Places, MessageTypes

LEMMA BackTypes ==
  ASSUME Inv0, NEW newState \in {"SUSPENDED", "EXIT"}, NEW newPlace,
         newPlace = InYield \/ newPlace = place[tls], Back(newState, newPlace)
  PROVE  state' \in [Threads -> States] /\ ControlTypes'
<1>1. tls \in Threads /\ context_caller[tls] \in Actors
  BY CallerWaits DEF Back
<1>2. ThreadTypes /\ ControlTypes
  BY TypeParts DEF Inv0
<1>3. newPlace \in Places
  BY <1>1, <1>2 DEF ControlTypes, Places
<1>4. place' \in [Actors -> Places]
  BY <1>1, <1>2, <1>3 DEF Back, ControlTypes, Places
<1>5. state' \in [Threads -> States]
  BY <1>1, <1>2 DEF Back, ThreadTypes, States
<1> QED
  BY <1>1, <1>4, <1>5 DEF Back, ControlTypes

LEMMA ForthTypes ==
  ASSUME Inv0, NEW t \in Threads, NEW call \in Calls, Forth(t, call)
  PROVE  /\ state' \in [Threads -> States] /\ ControlTypes'
         /\ context_caller' \in [Threads -> Actors \cup {None}]
<1>1. ThreadTypes /\ ControlTypes
  BY TypeParts DEF Inv0
<1>2. User \in Places /\ CallOn(call, t) \in Places
  BY <1>1 DEF Places, CallOn, ControlTypes
<1>3. place' \in [Actors -> Places]
  BY <1>1, <1>2 DEF Forth, SwitchTo, ControlTypes
<1>4. state' \in [Threads -> States]
  BY <1>1 DEF Forth, SwitchTo, ThreadTypes, States
<1>5. context_caller' \in [Threads -> Actors \cup {None}]
  BY <1>1 DEF Forth, SwitchTo, ThreadTypes, ControlTypes
<1> QED
  BY <1>3, <1>4, <1>5 DEF Forth, SwitchTo, ControlTypes

LEMMA ReleaseTypes ==
  ASSUME StackTypes, NEW t \in Threads, stack_entry[t] # 0, STACKS_release(t)
  PROVE  StackTypes'
<1>1. stack_entry[t] \in 1 .. made
  BY DEF StackTypes
<1>2. free_stacks' \in Seq(1 .. made)
  BY <1>1 DEF StackTypes, STACKS_release
<1> QED
  BY <1>2 DEF StackTypes, STACKS_release

LEMMA GetTypes ==
  ASSUME StackTypes, NEW t \in Threads, STACKS_get(t), UNCHANGED <<stack_mode, destroyed>>
  PROVE  StackTypes' /\ stack_entry'[t] # 0
<1>1. CASE free_stacks # <<>>
  <2>1. /\ stack_entry' = [stack_entry EXCEPT ![t] = Head(free_stacks)]
        /\ free_stacks' = Tail(free_stacks) /\ made' = made
    BY <1>1 DEF STACKS_get
  <2>2. Head(free_stacks) \in 1 .. made /\ Tail(free_stacks) \in Seq(1 .. made)
    BY <1>1, HeadTailProperties DEF StackTypes
  <2> QED
    BY <2>1, <2>2 DEF StackTypes
<1>2. CASE free_stacks = <<>>
  <2>1. /\ stack_entry' = [stack_entry EXCEPT ![t] = made + 1]
        /\ free_stacks' = <<>> /\ made' = made + 1
    BY <1>2 DEF STACKS_get
  <2>2. free_stacks' \in Seq(1 .. made')
    BY <2>1
  <2> QED
    BY <2>1, <2>2 DEF StackTypes
<1> QED
  BY <1>1, <1>2

\* Steps that leave control where it is.
LEMMA QuietKeepsNested ==
  ASSUME Inv0, UNCHANGED controlVars,
         \A u \in Threads : /\ state'[u] = "RUNNING" <=> state[u] = "RUNNING"
                            /\ state[u] = "RUNNING" => context_caller'[u] = context_caller[u]
  PROVE  ControlNested'
<1>1. place' = place /\ tls' = tls /\ active' = active
  BY DEF controlVars
<1>2. \A a \in Actors : InCall(a)' <=> InCall(a)
  BY <1>1 DEF InCall
<1>3. \A u \in Threads : state'[u] = "RUNNING" =>
        /\ context_caller'[u] \in Actors \ {u}
        /\ InCall(context_caller[u])'
        /\ place'[context_caller'[u]].thread = u
  BY <1>1, <1>2 DEF Inv0, ControlNested, InCall
<1>4. ASSUME NEW a \in Actors, InCall(a)'
      PROVE  /\ a # active' /\ place'[a].tls = a
             /\ state'[place'[a].thread] = "RUNNING"
             /\ context_caller'[place'[a].thread] = a
  <2>1. InCall(a)
    BY <1>2, <1>4
  <2>2. place[a].thread \in Threads
    BY <2>1, CallType
  <2> QED
    BY <1>1, <2>1, <2>2 DEF Inv0, ControlNested
<1>5. \A u \in Threads : state'[u] = "RUNNING" <=> u = active' \/ InCall(u)'
  BY <1>1, <1>2 DEF Inv0, ControlNested
<1>6. tls' = active'
  BY <1>1 DEF Inv0, ControlNested
<1> QED
  BY <1>3, <1>4, <1>5, <1>6 DEF ControlNested

\* A thread that has not exited has a stack.
HasStack == \A t \in Threads : Live(t) => stack_entry[t] # 0

\* Whoever waits in CTHREAD_kill has made the request.
Requested ==
  \A a \in Actors : place[a].call = "kill" => request_exit[place[a].thread]

Inv == Inv0 /\ HasStack /\ Requested

\* What a resuming operation is: start, resume, or a kill that gets through.
LEMMA ForthStep ==
  ASSUME Inv, NEW t \in Threads, NEW call \in Calls, Forth(t, call),
         request_exit' \in [Threads -> BOOLEAN],
         \A u \in Threads : request_exit[u] => request_exit'[u],
         call = "kill" => request_exit'[t],
         parent' \in [Threads -> Threads \cup {None}],
         UNCHANGED <<to_caller, stackVars>>
  PROVE  Inv'
<1>1. ThreadTypes /\ ControlTypes /\ StackTypes
  BY TypeParts DEF Inv, Inv0
<1>2. TypeOK'
  <2>1. state' \in [Threads -> States] /\ ControlTypes'
        /\ context_caller' \in [Threads -> Actors \cup {None}]
    BY ForthTypes DEF Inv
  <2>2. ThreadTypes'
    BY <1>1, <2>1 DEF ThreadTypes
  <2>3. StackTypes'
    BY <1>1 DEF StackTypes, stackVars
  <2> QED
    BY <2>1, <2>2, <2>3, TypeParts, PTL
<1>3. ControlNested'
  BY ForthKeepsNested DEF Inv
<1>4. HasStack'
  <2>1. \A u \in Threads : state'[u] = IF u = t THEN "RUNNING" ELSE state[u]
    BY <1>1 DEF Forth, SwitchTo, ThreadTypes
  <2>2. \A u \in Threads : Live(u)' => Live(u)
    BY <2>1 DEF Live, Forth
  <2> QED
    BY <2>2 DEF Inv, HasStack, stackVars
<1>5. Requested'
  <2> SUFFICES ASSUME NEW a \in Actors, place'[a].call = "kill"
               PROVE  request_exit'[place'[a].thread]
    BY DEF Requested
  <2>1. CASE a = t
    BY <1>1, <2>1 DEF Forth, SwitchTo, ControlTypes, User
  <2>2. CASE a = active /\ a # t
    BY <1>1, <2>2 DEF Forth, SwitchTo, ControlTypes, CallOn
  <2>3. CASE a # active /\ a # t
    <3>1. place'[a] = place[a]
      BY <1>1, <2>3 DEF Forth, SwitchTo, ControlTypes
    <3>2. place[a].thread \in Threads
      BY <1>1, <3>1 DEF ControlTypes, Places, User, InYield
    <3> QED
      BY <3>1, <3>2 DEF Inv, Requested
  <2> QED
    BY <2>1, <2>2, <2>3
<1> QED
  BY <1>2, <1>3, <1>4, <1>5 DEF Inv, Inv0

LEMMA BackStep ==
  ASSUME Inv, NEW newState \in {"SUSPENDED", "EXIT"}, NEW newPlace,
         newPlace = InYield \/ newPlace = place[tls], Back(newState, newPlace),
         to_caller' \in MessageTypes,
         newState = "SUSPENDED" => UNCHANGED stackVars,
         newState = "EXIT" => STACKS_release(tls),
         UNCHANGED <<request_exit, context_caller, parent>>
  PROVE  Inv'
<1>1. ThreadTypes /\ ControlTypes /\ StackTypes
  BY TypeParts DEF Inv, Inv0
<1>2. tls \in Threads /\ state[tls] = "RUNNING"
  BY CallerWaits DEF Inv, Back
<1>3. StackTypes' /\ UNCHANGED stack_entry
  <2>1. CASE newState = "SUSPENDED"
    BY <1>1, <2>1 DEF StackTypes, stackVars
  <2>2. CASE newState = "EXIT"
    <3>1. stack_entry[tls] # 0
      BY <1>2 DEF Inv, HasStack, Live
    <3> QED
      BY <1>1, <1>2, <2>2, <3>1, ReleaseTypes DEF STACKS_release
  <2> QED
    BY <2>1, <2>2
<1>4. TypeOK'
  <2>1. state' \in [Threads -> States] /\ ControlTypes'
    BY BackTypes DEF Inv
  <2>2. ThreadTypes'
    BY <1>1, <2>1 DEF ThreadTypes
  <2> QED
    BY <1>3, <2>1, <2>2, TypeParts, PTL
<1>5. ControlNested'
  BY BackKeepsNested DEF Inv
<1>6. HasStack'
  BY <1>1, <1>2, <1>3 DEF Inv, HasStack, Live, Back, ThreadTypes
<1>7. Requested'
  <2> SUFFICES ASSUME NEW a \in Actors, place'[a].call = "kill"
               PROVE  request_exit'[place'[a].thread]
    BY DEF Requested
  <2>1. place'[a] = place[a]
    BY DEF Back, User, InYield
  <2> QED
    BY <2>1 DEF Inv, Requested
<1> QED
  BY <1>4, <1>5, <1>6, <1>7 DEF Inv, Inv0

LEMMA InvInit == Init => Inv
BY ControlInit DEF Init, Inv, HasStack, Requested, Live, User

LEMMA InvStep == Inv /\ [Next]_vars => Inv'
<1> SUFFICES ASSUME Inv, [Next]_vars PROVE Inv'
  OBVIOUS
<1>t. ThreadTypes /\ ControlTypes /\ StackTypes
  BY TypeParts DEF Inv, Inv0
<1>1. ASSUME NEW t \in Threads, CTHREAD_init(t) PROVE Inv'
  <2>1. UNCHANGED <<stack_mode, destroyed>>
    BY <1>1 DEF CTHREAD_init
  <2>2. StackTypes' /\ stack_entry'[t] # 0
    BY <1>t, <1>1, <2>1, GetTypes DEF CTHREAD_init
  <2>3. \A u \in Threads : state'[u] = IF u = t THEN "INIT" ELSE state[u]
    BY <1>t, <1>1 DEF CTHREAD_init, ThreadTypes
  <2>4. TypeOK'
    <3>1. ThreadTypes' /\ ControlTypes'
      BY <1>t, <1>1 DEF CTHREAD_init, ThreadTypes, States, ControlTypes, controlVars
    <3> QED
      BY <2>2, <3>1, TypeParts, PTL
  <2>5. ControlNested'
    BY <1>1, <2>3, QuietKeepsNested DEF CTHREAD_init, Inv
  <2>6. HasStack'
    <3>1. \A u \in Threads : u # t => stack_entry'[u] = stack_entry[u]
      BY <1>t, <1>1 DEF CTHREAD_init, STACKS_get, StackTypes
    <3> QED
      BY <2>2, <2>3, <3>1 DEF Inv, HasStack, Live
  <2>7. Requested'
    BY <1>1 DEF CTHREAD_init, controlVars, Inv, Requested
  <2> QED
    BY <2>4, <2>5, <2>6, <2>7 DEF Inv, Inv0
<1>2. ASSUME NEW t \in Threads, CTHREAD_start(t) PROVE Inv'
  <2>1. Forth(t, "start")
    BY <1>2 DEF CTHREAD_start, Forth
  <2>2. parent' \in [Threads -> Threads \cup {None}]
    BY <1>t, <1>2 DEF CTHREAD_start, ThreadTypes, ControlTypes
  <2> QED
    BY <1>t, <1>2, <2>1, <2>2, ForthStep DEF CTHREAD_start, Calls, ThreadTypes
<1>3. ASSUME NEW t \in Threads, CTHREAD_resume(t) PROVE Inv'
  <2>1. Forth(t, "resume")
    BY <1>3 DEF CTHREAD_resume, Forth
  <2> QED
    BY <1>t, <1>3, <2>1, ForthStep DEF CTHREAD_resume, Calls, ThreadTypes
<1>4. ASSUME NEW t \in Threads, CTHREAD_kill(t) PROVE Inv'
  <2>1. /\ request_exit' = [request_exit EXCEPT ![t] = TRUE]
        /\ UNCHANGED <<to_caller, parent, stackVars>>
    BY <1>4 DEF CTHREAD_kill
  <2>2. /\ request_exit' \in [Threads -> BOOLEAN] /\ request_exit'[t]
        /\ \A u \in Threads : request_exit[u] => request_exit'[u]
    BY <1>t, <2>1 DEF ThreadTypes
  <2>3. CASE state[t] = "SUSPENDED" /\ tls # t
    <3>1. Forth(t, "kill")
      BY <1>4, <2>3 DEF CTHREAD_kill, Forth
    <3> QED
      BY <1>t, <2>1, <2>2, <3>1, ForthStep DEF Calls, ThreadTypes
  <2>4. CASE ~(state[t] = "SUSPENDED" /\ tls # t)
    <3>1. UNCHANGED <<place, active, tls, state, context_caller>>
      BY <1>4, <2>4 DEF CTHREAD_kill
    <3>2. TypeOK'
      <4>1. ThreadTypes' /\ ControlTypes' /\ StackTypes'
        BY <1>t, <2>1, <2>2, <3>1 DEF ThreadTypes, ControlTypes, StackTypes, stackVars
      <4> QED
        BY <4>1, TypeParts, PTL
    <3>3. ControlNested'
      BY <3>1, QuietKeepsNested DEF Inv, controlVars
    <3>4. HasStack'
      BY <2>1, <3>1 DEF Inv, HasStack, Live, stackVars
    <3>5. Requested'
      <4> SUFFICES ASSUME NEW a \in Actors, place[a].call = "kill"
                   PROVE  request_exit'[place[a].thread]
        BY <3>1 DEF Requested
      <4>1. place[a].thread \in Threads
        BY CallType DEF Inv, InCall, Calls
      <4> QED
        BY <2>2, <4>1 DEF Inv, Requested
    <3> QED
      BY <3>2, <3>3, <3>4, <3>5 DEF Inv, Inv0
  <2> QED
    BY <2>3, <2>4
<1>5. ASSUME NEW t \in Threads, CTHREAD_free(t) PROVE Inv'
  <2>1. \A u \in Threads : state'[u] = IF u = t THEN "freed" ELSE state[u]
    BY <1>t, <1>5 DEF CTHREAD_free, ThreadTypes
  <2>2. \A u \in Threads : u # t => /\ context_caller'[u] = context_caller[u]
                                   /\ stack_entry'[u] = stack_entry[u]
                                   /\ request_exit'[u] = request_exit[u]
    BY <1>t, <1>5 DEF CTHREAD_free, ThreadTypes, StackTypes
  <2>3. TypeOK'
    <3>1. ThreadTypes' /\ ControlTypes'
      BY <1>t, <1>5 DEF CTHREAD_free, ThreadTypes, States, MessageTypes,
                        ControlTypes, controlVars
    <3>2. StackTypes'
      BY <1>t, <1>5 DEF CTHREAD_free, StackTypes
    <3> QED
      BY <3>1, <3>2, TypeParts, PTL
  <2>4. ControlNested'
    BY <1>5, <2>1, <2>2, QuietKeepsNested DEF CTHREAD_free, Inv
  <2>5. HasStack'
    BY <2>1, <2>2 DEF Inv, HasStack, Live
  <2>6. Requested'
    <3> SUFFICES ASSUME NEW a \in Actors, place[a].call = "kill"
                 PROVE  request_exit'[place[a].thread]
      BY <1>5 DEF CTHREAD_free, controlVars, Requested
    <3>1. InCall(a)
      BY DEF InCall, Calls
    <3>2. place[a].thread \in Threads /\ state[place[a].thread] = "RUNNING"
      BY <3>1, CallType DEF Inv, Inv0, ControlNested
    <3> QED
      BY <1>5, <2>2, <3>2 DEF CTHREAD_free, Inv, Requested
  <2> QED
    BY <2>3, <2>4, <2>5, <2>6 DEF Inv, Inv0
<1>6. ASSUME CTHREAD_exit PROVE Inv'
  BY <1>6, ExitIsBack, BackStep DEF Inv, ExitEffect
<1>7. ASSUME NEW value \in {"none", "new"}, CTHREAD_yield(value) PROVE Inv'
  <2>1. to_caller' \in MessageTypes /\ (YieldEffect(value) \/ ExitEffect)
    BY <1>7, YieldIsBack DEF Inv
  <2>2. CASE YieldEffect(value)
    BY <2>1, <2>2, BackStep DEF YieldEffect
  <2>3. CASE ExitEffect
    BY <2>1, <2>3, BackStep DEF ExitEffect
  <2> QED
    BY <2>1, <2>2, <2>3
<1>8. ASSUME CTHREAD_set_return_value PROVE Inv'
  <2>1. TypeOK'
    <3>1. ThreadTypes' /\ ControlTypes' /\ StackTypes'
      BY <1>t, <1>8 DEF CTHREAD_set_return_value, ThreadTypes, MessageTypes, ControlTypes,
                        StackTypes, controlVars, stackVars
    <3> QED
      BY <3>1, TypeParts, PTL
  <2>2. ControlNested'
    BY <1>8, QuietKeepsNested DEF CTHREAD_set_return_value, Inv
  <2>3. HasStack' /\ Requested'
    BY <1>8 DEF CTHREAD_set_return_value, Inv, HasStack, Live, Requested, controlVars, stackVars
  <2> QED
    BY <2>1, <2>2, <2>3 DEF Inv, Inv0
<1>9. ASSUME STACKS_destroy PROVE Inv'
  <2>1. TypeOK'
    <3>1. ThreadTypes' /\ ControlTypes' /\ StackTypes'
      BY <1>t, <1>9 DEF STACKS_destroy, ThreadTypes, ControlTypes, StackTypes,
                        threadVars, controlVars
    <3> QED
      BY <3>1, TypeParts, PTL
  <2>2. ControlNested'
    BY <1>9, QuietKeepsNested DEF STACKS_destroy, Inv, threadVars
  <2>3. HasStack' /\ Requested'
    BY <1>9 DEF STACKS_destroy, Inv, HasStack, Live, Requested, threadVars, controlVars
  <2> QED
    BY <2>1, <2>2, <2>3 DEF Inv, Inv0
<1>10. ASSUME UNCHANGED vars PROVE Inv'
  BY <1>10 DEF vars, threadVars, controlVars, stackVars, Inv, Inv0, TypeOK, ControlNested,
               HasStack, Requested, Live, InCall
<1> QED
  BY <1>1, <1>2, <1>3, <1>4, <1>5, <1>6, <1>7, <1>8, <1>9, <1>10 DEF Next

\* The state of coroutines and pool keeps its types (CTHREAD, STACKS).
THEOREM TypeCorrect == Spec => []TypeOK
<1>1. Inv => TypeOK
  BY DEF Inv, Inv0
<1> QED
  BY InvInit, InvStep, <1>1, PTL DEF Spec

\* Starts, resumes and kills nest, and every yield and every exit goes back into
\* the call that waits for it, for any number of coroutines and any calls.
THEOREM Nested == Spec => []ControlNested
<1>1. Inv => ControlNested
  BY DEF Inv, Inv0
<1> QED
  BY InvInit, InvStep, <1>1, PTL DEF Spec

-----------------------------------------------------------------------------
(* CTHREAD_kill *)

LEMMA ForthNoReturn ==
  ASSUME Inv, NEW t \in Threads, NEW call \in Calls, Forth(t, call),
         NEW a \in Actors, InCall(a)
  PROVE  place'[a] = place[a]
<1>1. a # active /\ a # t
  BY DEF Inv, Inv0, ControlNested, Forth
<1> QED
  BY <1>1 DEF Forth, SwitchTo, Inv, Inv0, TypeOK

LEMMA BackReturn ==
  ASSUME Inv, NEW newState \in {"SUSPENDED", "EXIT"}, NEW newPlace, Back(newState, newPlace),
         NEW a \in Actors, InCall(a), place'[a] # place[a]
  PROVE  place[a].thread = tls /\ state'[tls] = newState
<1>1. tls \in Threads /\ active = tls /\ place[context_caller[tls]].thread = tls
  BY CallerWaits DEF Inv, Back
<1>2. a # tls
  BY <1>1 DEF Inv, Inv0, ControlNested
<1>3. a = context_caller[tls]
  BY <1>2 DEF Back
<1> QED
  BY <1>1, <1>3 DEF Back, Inv, Inv0, TypeOK

LEMMA KillStep ==
  ASSUME Inv, [Next]_vars, NEW a \in Actors, place[a].call = "kill", place'[a] # place[a]
  PROVE  state'[place[a].thread] = "EXIT"
<1>1. InCall(a)
  BY DEF InCall, Calls
<1>2. ASSUME NEW t \in Threads, CTHREAD_start(t) \/ CTHREAD_resume(t) \/ CTHREAD_kill(t)
      PROVE  FALSE
  <2>1. \/ \E call \in Calls : Forth(t, call)
        \/ UNCHANGED place
    BY <1>2 DEF CTHREAD_start, CTHREAD_resume, CTHREAD_kill, Forth, Calls
  <2> QED
    BY <1>1, <2>1, ForthNoReturn
<1>3. ASSUME ExitEffect PROVE state'[place[a].thread] = "EXIT"
  BY <1>1, <1>3, BackReturn DEF ExitEffect
<1>4. ASSUME NEW value \in {"none", "new"}, YieldEffect(value) PROVE FALSE
  <2>1. place[a].thread = tls /\ ~request_exit[tls]
    BY <1>1, <1>4, BackReturn DEF YieldEffect
  <2> QED
    BY <2>1 DEF Inv, Requested
<1>5. ASSUME NEW value \in {"none", "new"}, CTHREAD_yield(value)
      PROVE  state'[place[a].thread] = "EXIT"
  BY <1>3, <1>4, <1>5, YieldIsBack DEF Inv
<1>6. ASSUME CTHREAD_exit PROVE state'[place[a].thread] = "EXIT"
  BY <1>3, <1>6, ExitIsBack DEF Inv
<1>7. ASSUME \/ \E t \in Threads : CTHREAD_init(t) \/ CTHREAD_free(t)
             \/ CTHREAD_set_return_value \/ STACKS_destroy \/ UNCHANGED vars
      PROVE  FALSE
  BY <1>7 DEF CTHREAD_init, CTHREAD_free, CTHREAD_set_return_value, STACKS_destroy,
              vars, controlVars
<1> QED
  BY <1>2, <1>5, <1>6, <1>7 DEF Next

\* CTHREAD_kill of a suspended thread comes back only when it has exited.
THEOREM KillComplete == Spec => KillEndsThread
<1>1. Inv /\ [Next]_vars =>
        [\A a \in Actors : place[a].call = "kill" /\ place'[a] # place[a]
           => state'[place[a].thread] = "EXIT"]_vars
  BY KillStep
<1> QED
  BY InvInit, InvStep, <1>1, PTL DEF Spec, KillEndsThread

-----------------------------------------------------------------------------
(* The stacks *)

Distinct(s) == \A i, j \in DOMAIN s : s[i] = s[j] => i = j
NotIn(s, e) == \A i \in DOMAIN s : s[i] # e

LEMMA PushDistinct ==
  ASSUME NEW S, NEW s \in Seq(S), NEW e \in S, Distinct(s), NotIn(s, e)
  PROVE  Distinct(<<e>> \o s)
<1> DEFINE r == <<e>> \o s
<1>1. Len(r) = Len(s) + 1 /\ DOMAIN r = 1 .. Len(r) /\ DOMAIN s = 1 .. Len(s)
  OBVIOUS
<1>2. \A i \in DOMAIN r : r[i] = IF i = 1 THEN e ELSE s[i - 1]
  OBVIOUS
<1> QED
  BY <1>1, <1>2 DEF Distinct, NotIn

LEMMA TailDistinct ==
  ASSUME NEW S, NEW s \in Seq(S), s # <<>>, Distinct(s)
  PROVE  Distinct(Tail(s)) /\ NotIn(Tail(s), Head(s))
         /\ \A e : NotIn(s, e) => NotIn(Tail(s), e) /\ e # Head(s)
<1>1. DOMAIN s = 1 .. Len(s) /\ Len(s) \in Nat /\ Len(s) > 0 /\ Head(s) = s[1]
  OBVIOUS
<1>2. DOMAIN Tail(s) = 1 .. Len(s) - 1 /\ \A i \in DOMAIN Tail(s) : Tail(s)[i] = s[i + 1]
  BY <1>1
<1> QED
  BY <1>1, <1>2 DEF Distinct, NotIn

LEMMA ExclusiveParts ==
  StacksExclusive <=>
    /\ Distinct(free_stacks)
    /\ \A t \in Threads : Live(t) => NotIn(free_stacks, stack_entry[t])
    /\ \A t, u \in Threads : Live(t) /\ Live(u) /\ stack_entry[u] = stack_entry[t] => u = t
BY DEF StacksExclusive, Distinct, NotIn

\* Steps that neither take nor give back a stack, and revive no thread.
LEMMA StacksKept ==
  ASSUME StacksExclusive, UNCHANGED <<free_stacks>>,
         \A u \in Threads : Live(u)' => Live(u) /\ stack_entry'[u] = stack_entry[u]
  PROVE  StacksExclusive'
<1>1. /\ Distinct(free_stacks')
      /\ \A t \in Threads : Live(t)' => NotIn(free_stacks', stack_entry'[t])
      /\ \A t, u \in Threads :
            Live(t)' /\ Live(u)' /\ stack_entry'[u] = stack_entry'[t] => u = t
  BY ExclusiveParts
<1> QED
  BY <1>1 DEF StacksExclusive, Distinct, NotIn

LEMMA StacksGiven ==
  ASSUME Inv, StacksExclusive, ExitEffect
  PROVE  StacksExclusive'
<1>1. tls \in Threads /\ Live(tls) /\ ThreadTypes /\ StackTypes
  BY CallerWaits, TypeParts DEF ExitEffect, Back, Inv, Inv0, Live
<1>2. stack_entry' = stack_entry /\ free_stacks' = <<stack_entry[tls]>> \o free_stacks
  BY DEF ExitEffect, STACKS_release
<1>3. \A u \in Threads : Live(u)' <=> Live(u) /\ u # tls
  BY <1>1 DEF ExitEffect, Back, Live, ThreadTypes
<1>4. NotIn(free_stacks, stack_entry[tls]) /\ stack_entry[tls] \in 1 .. made
  BY <1>1, ExclusiveParts DEF Inv, HasStack, StackTypes
<1>5. Distinct(free_stacks')
  BY <1>1, <1>2, <1>4, ExclusiveParts, PushDistinct DEF StackTypes
<1>6. ASSUME NEW u \in Threads, Live(u)'
      PROVE  NotIn(free_stacks', stack_entry'[u])
  <2>1. NotIn(free_stacks, stack_entry[u]) /\ stack_entry[u] # stack_entry[tls]
    BY <1>1, <1>3, <1>6, ExclusiveParts
  <2>2. \A i \in DOMAIN free_stacks' :
          free_stacks'[i] = IF i = 1 THEN stack_entry[tls] ELSE free_stacks[i - 1]
    BY <1>1, <1>2, <1>4 DEF StackTypes
  <2>3. \A i \in DOMAIN free_stacks' : i # 1 => i - 1 \in DOMAIN free_stacks
    BY <1>1, <1>2, <1>4 DEF StackTypes
  <2> QED
    BY <1>2, <2>1, <2>2, <2>3 DEF NotIn
<1>7. \A t, u \in Threads :
        Live(t)' /\ Live(u)' /\ stack_entry'[u] = stack_entry'[t] => u = t
  BY <1>2, <1>3, ExclusiveParts
<1> QED
  BY <1>5, <1>6, <1>7 DEF StacksExclusive, Distinct, NotIn

LEMMA StacksTaken ==
  ASSUME Inv, StacksExclusive, NEW t \in Threads, CTHREAD_init(t)
  PROVE  StacksExclusive'
<1>1. ThreadTypes /\ StackTypes
  BY TypeParts DEF Inv, Inv0
<1>2. \A u \in Threads : Live(u)' <=> Live(u) \/ u = t
  BY <1>1 DEF CTHREAD_init, Live, ThreadTypes
<1>3. \A u \in Threads : u # t => stack_entry'[u] = stack_entry[u]
  BY <1>1 DEF CTHREAD_init, STACKS_get, StackTypes
<1>4. ~Live(t)
  BY DEF CTHREAD_init, Live
<1>5. /\ Distinct(free_stacks')
      /\ NotIn(free_stacks', stack_entry'[t])
      /\ \A u \in Threads : Live(u) =>
            NotIn(free_stacks', stack_entry[u]) /\ stack_entry[u] # stack_entry'[t]
  <2>1. CASE free_stacks # <<>>
    <3>1. stack_entry'[t] = Head(free_stacks) /\ free_stacks' = Tail(free_stacks)
      BY <1>1, <2>1 DEF CTHREAD_init, STACKS_get, StackTypes
    <3> QED
      BY <1>1, <2>1, <3>1, ExclusiveParts, TailDistinct DEF StackTypes
  <2>2. CASE free_stacks = <<>>
    <3>1. stack_entry'[t] = made + 1 /\ free_stacks' = <<>>
      BY <1>1, <2>2 DEF CTHREAD_init, STACKS_get, StackTypes
    <3>2. \A u \in Threads : stack_entry[u] # made + 1
      BY <1>1 DEF StackTypes
    <3> QED
      BY <3>1, <3>2 DEF Distinct, NotIn
  <2> QED
    BY <2>1, <2>2
<1>6. \A u \in Threads : Live(u)' => NotIn(free_stacks', stack_entry'[u])
  BY <1>2, <1>3, <1>4, <1>5
<1>7. \A v, u \in Threads :
        Live(v)' /\ Live(u)' /\ stack_entry'[u] = stack_entry'[v] => u = v
  BY <1>2, <1>3, <1>4, <1>5, ExclusiveParts
<1> QED
  BY <1>5, <1>6, <1>7 DEF StacksExclusive, Distinct, NotIn

\* Starts, resumes, kills, frees and yields make no thread live.
LEMMA StacksStep ==
  ASSUME Inv, StacksExclusive, [Next]_vars
  PROVE  StacksExclusive'
<1>t. ThreadTypes /\ StackTypes
  BY TypeParts DEF Inv, Inv0
<1>1. ASSUME NEW t \in Threads, CTHREAD_start(t) \/ CTHREAD_resume(t) \/ CTHREAD_kill(t)
      PROVE  StacksExclusive'
  <2>1. UNCHANGED stackVars
    BY <1>1 DEF CTHREAD_start, CTHREAD_resume, CTHREAD_kill
  <2>2. \/ state' = state
        \/ /\ state[t] \in {"INIT", "SUSPENDED"}
           /\ state' = [state EXCEPT ![t] = "RUNNING"]
    BY <1>1 DEF CTHREAD_start, CTHREAD_resume, CTHREAD_kill, SwitchTo
  <2>3. \A u \in Threads : Live(u)' => Live(u)
    BY <1>t, <2>2 DEF Live, ThreadTypes
  <2> QED
    BY <2>1, <2>3, StacksKept DEF stackVars
<1>2. ASSUME NEW t \in Threads, CTHREAD_free(t) PROVE StacksExclusive'
  <2>1. \A u \in Threads : Live(u)' => Live(u) /\ stack_entry'[u] = stack_entry[u]
    BY <1>t, <1>2 DEF CTHREAD_free, Live, ThreadTypes, StackTypes
  <2> QED
    BY <1>2, <2>1, StacksKept DEF CTHREAD_free
<1>3. ASSUME NEW value \in {"none", "new"}, YieldEffect(value) PROVE StacksExclusive'
  <2>1. \A u \in Threads : Live(u)' => Live(u)
    BY <1>t, <1>3 DEF YieldEffect, Back, Live, ThreadTypes
  <2> QED
    BY <1>3, <2>1, StacksKept DEF YieldEffect, stackVars
<1>4. ASSUME \/ CTHREAD_exit
             \/ \E value \in {"none", "new"} : CTHREAD_yield(value)
      PROVE  StacksExclusive'
  BY <1>3, <1>4, ExitIsBack, YieldIsBack, StacksGiven DEF Inv
<1>5. ASSUME CTHREAD_set_return_value \/ STACKS_destroy \/ UNCHANGED vars
      PROVE  StacksExclusive'
  BY <1>5, StacksKept DEF CTHREAD_set_return_value, STACKS_destroy, Live, vars, threadVars,
                          stackVars
<1> QED
  BY <1>1, <1>2, <1>4, <1>5, StacksTaken DEF Next

LEMMA StacksInit == Init => StacksExclusive
<1> SUFFICES ASSUME Init PROVE StacksExclusive
  OBVIOUS
<1>1. \A i \in DOMAIN free_stacks : free_stacks[i] = i
  BY DEF Init
<1> QED
  BY <1>1 DEF Init, StacksExclusive, Live

\* No two live coroutines share a stack, and none runs on a free one.
THEOREM StacksOwned == Spec => []StacksExclusive
<1>1. Inv /\ StacksExclusive /\ [Next]_vars => StacksExclusive'
  BY StacksStep
<1> QED
  BY InvInit, InvStep, StacksInit, <1>1, PTL DEF Spec

\* When all stacks of a preallocated pool are in the free list, none is in use.
LEMMA FullPoolIdle ==
  ASSUME Inv, StacksExclusive, made = NumStacks, Len(free_stacks) = NumStacks,
         NEW t \in Threads
  PROVE  ~Live(t)
<1>1. SUFFICES ASSUME Live(t) PROVE FALSE
  OBVIOUS
<1>2. StackTypes /\ NumStacks \in Nat
  BY TypeParts, PoolAssumption DEF Inv, Inv0
<1>3. free_stacks \in [1 .. NumStacks -> 1 .. NumStacks]
  BY <1>2 DEF StackTypes
<1>4. free_stacks \in Injection(1 .. NumStacks, 1 .. NumStacks)
  BY <1>3 DEF StacksExclusive, Injection, IsInjective
<1>5. IsFiniteSet(1 .. NumStacks)
  BY <1>2, FS_Interval
<1>6. free_stacks \in Surjection(1 .. NumStacks, 1 .. NumStacks)
  BY <1>4, <1>5, FS_Injection
<1>7. stack_entry[t] \in 1 .. NumStacks
  BY <1>1, <1>2 DEF Inv, HasStack, StackTypes
<1>8. PICK i \in 1 .. NumStacks : free_stacks[i] = stack_entry[t]
  BY <1>6, <1>7 DEF Surjection
<1> QED
  BY <1>1, <1>3, <1>8 DEF StacksExclusive

PreallocMade == stack_mode = "PREALLOC" => made = NumStacks

\* STACKS_destroy unmaps a preallocated pool only when no coroutine needs it.
THEOREM DestroySafe == Spec => []UnmappedUnused
<1>1. Init => PreallocMade /\ UnmappedUnused
  BY DEF Init, PreallocMade, UnmappedUnused
<1>2. Inv /\ PreallocMade /\ [Next]_vars => PreallocMade'
  <2> SUFFICES ASSUME Inv, PreallocMade, [Next]_vars PROVE PreallocMade'
    OBVIOUS
  <2>1. stack_mode' = stack_mode /\ (stack_mode = "PREALLOC" => made' = made)
    <3>1. ASSUME CTHREAD_exit \/ \E value \in {"none", "new"} : CTHREAD_yield(value)
          PROVE  stack_mode' = stack_mode /\ made' = made
      BY <3>1 DEF CTHREAD_exit, CTHREAD_yield, STACKS_release, stackVars
    <3>2. ASSUME NEW t \in Threads, CTHREAD_init(t)
          PROVE  stack_mode' = stack_mode /\ (stack_mode = "PREALLOC" => made' = made)
      BY <3>2 DEF CTHREAD_init, STACKS_get
    <3>3. ASSUME \/ \E t \in Threads : CTHREAD_start(t) \/ CTHREAD_resume(t)
                                      \/ CTHREAD_kill(t) \/ CTHREAD_free(t)
                 \/ CTHREAD_set_return_value \/ STACKS_destroy \/ UNCHANGED vars
          PROVE  stack_mode' = stack_mode /\ made' = made
      BY <3>3 DEF CTHREAD_start, CTHREAD_resume, CTHREAD_kill, CTHREAD_free,
                  CTHREAD_set_return_value, STACKS_destroy, vars, stackVars
    <3> QED
      BY <3>1, <3>2, <3>3 DEF Next
  <2> QED
    BY <2>1 DEF PreallocMade
<1>3. Inv /\ StacksExclusive /\ PreallocMade /\ UnmappedUnused /\ [Next]_vars => UnmappedUnused'
  <2> SUFFICES ASSUME Inv, StacksExclusive, PreallocMade, UnmappedUnused, [Next]_vars
               PROVE  UnmappedUnused'
    OBVIOUS
  <2>1. ASSUME STACKS_destroy PROVE UnmappedUnused'
    BY <2>1, FullPoolIdle DEF STACKS_destroy, UnmappedUnused, PreallocMade, Live, threadVars
  <2>2. ASSUME UNCHANGED vars PROVE UnmappedUnused'
    BY <2>2 DEF UnmappedUnused, Live, vars, threadVars, stackVars
  <2>3. ASSUME Next, ~STACKS_destroy PROVE ~destroyed'
    <3>1. ~destroyed
      BY <2>3 DEF Next
    <3>2. destroyed' = destroyed
      BY <2>3 DEF Next, CTHREAD_init, CTHREAD_start, CTHREAD_resume, CTHREAD_kill,
                  CTHREAD_free, CTHREAD_exit, CTHREAD_yield, STACKS_release,
                  CTHREAD_set_return_value, stackVars
    <3> QED
      BY <3>1, <3>2
  <2> QED
    BY <2>1, <2>2, <2>3 DEF UnmappedUnused
<1> QED
  BY InvInit, InvStep, StacksInit, StacksStep, <1>1, <1>2, <1>3, PTL DEF Spec
-----------------------------------------------------------------------------
(* Messages *)

\* Both ways out of a coroutine change the state and the message of the running
\* thread only: the caller's call is the one that waits for that thread.
LEMMA ExitMessages ==
  ASSUME Inv, CTHREAD_exit
  PROVE  /\ tls \in Threads /\ state' = [state EXCEPT ![tls] = "EXIT"]
         /\ \A t \in Threads \ {tls} : to_caller'[t] = to_caller[t]
<1>1. ExitEffect
  BY ExitIsBack DEF Inv
<1>2. tls \in Threads /\ place[context_caller[tls]].thread = tls
  BY CallerWaits DEF Inv, CTHREAD_exit
<1>3. \/ to_caller' = to_caller
      \/ to_caller' = [to_caller EXCEPT ![tls] = Delivered(@)]
  BY <1>2 DEF CTHREAD_exit, BackIn
<1> QED
  BY <1>1, <1>2, <1>3 DEF ExitEffect, Back, Inv, Inv0, TypeOK

LEMMA YieldMessages ==
  ASSUME Inv, NEW value \in {"none", "new"}, CTHREAD_yield(value), ~CTHREAD_exit
  PROVE  /\ tls \in Threads /\ state' = [state EXCEPT ![tls] = "SUSPENDED"]
         /\ \A t \in Threads \ {tls} : to_caller'[t] = to_caller[t]
         /\ to_caller'[tls] # "stale"
<1> DEFINE val == [to_caller EXCEPT ![tls] = value]
<1>1. /\ tls # Main /\ state[tls] = "RUNNING"
      /\ BackIn(context_caller[tls], state, val, [place EXCEPT ![active] = InYield])
  BY DEF CTHREAD_yield
<1>2. tls \in Threads /\ place[context_caller[tls]].thread = tls
  BY <1>1, CallerWaits DEF Inv
<1>3. /\ state' = [state EXCEPT ![tls] = "SUSPENDED"]
      /\ \/ to_caller' = val
         \/ to_caller' = [val EXCEPT ![tls] = Delivered(@)]
  BY <1>1, <1>2 DEF BackIn
<1>4. /\ \A t \in Threads \ {tls} : val[t] = to_caller[t]
      /\ val[tls] = value /\ val \in MessageTypes
  BY <1>2 DEF Inv, Inv0, TypeOK, MessageTypes
<1>5. Delivered(val[tls]) # "stale"
  BY <1>4 DEF Delivered
<1>. HIDE DEF val
<1> QED
  BY <1>2, <1>3, <1>4, <1>5 DEF MessageTypes

LEMMA MessagesStep == Inv /\ YieldedOnce /\ [Next]_vars => YieldedOnce'
<1> SUFFICES ASSUME Inv, YieldedOnce, [Next]_vars PROVE YieldedOnce'
  OBVIOUS
<1>t. state \in [Threads -> States] /\ to_caller \in MessageTypes
  BY DEF Inv, Inv0, TypeOK, States, MessageTypes
<1>1. ASSUME to_caller' = to_caller,
             \A t \in Threads : state[t] = "EXIT" => state'[t] = "EXIT"
      PROVE  YieldedOnce'
  BY <1>1 DEF YieldedOnce
<1>2. ASSUME NEW t \in Threads, CTHREAD_init(t) PROVE YieldedOnce'
  BY <1>1, <1>2, <1>t DEF CTHREAD_init
<1>3. ASSUME NEW t \in Threads, CTHREAD_start(t) \/ CTHREAD_resume(t) \/ CTHREAD_kill(t)
      PROVE  YieldedOnce'
  <2>1. /\ to_caller' = to_caller
        /\ \/ state' = state
           \/ state[t] \in {"INIT", "SUSPENDED"} /\ state' = [state EXCEPT ![t] = "RUNNING"]
    BY <1>3 DEF CTHREAD_start, CTHREAD_resume, CTHREAD_kill, SwitchTo
  <2> QED
    BY <1>1, <1>t, <2>1
<1>4. ASSUME NEW t \in Threads, CTHREAD_free(t) PROVE YieldedOnce'
  BY <1>4, <1>t DEF CTHREAD_free, YieldedOnce, MessageTypes
<1>5. ASSUME CTHREAD_exit PROVE YieldedOnce'
  BY <1>5, <1>t, ExitMessages DEF YieldedOnce
<1>6. ASSUME NEW value \in {"none", "new"}, CTHREAD_yield(value) PROVE YieldedOnce'
  BY <1>5, <1>6, <1>t, YieldMessages DEF YieldedOnce
<1>7. ASSUME CTHREAD_set_return_value PROVE YieldedOnce'
  BY <1>7, <1>t DEF CTHREAD_set_return_value, YieldedOnce, MessageTypes
<1>8. ASSUME STACKS_destroy \/ UNCHANGED vars PROVE YieldedOnce'
  BY <1>1, <1>8 DEF STACKS_destroy, vars, threadVars
<1> QED
  BY <1>2, <1>3, <1>4, <1>5, <1>6, <1>7, <1>8 DEF Next

\* A caller gets a yielded message once while the thread goes on (cthread.c:736,
\* 637), whoever starts, resumes and kills whom.
THEOREM DeliveredOnce == Spec => []YieldedOnce
<1>1. Init => YieldedOnce
  BY DEF Init, YieldedOnce
<1> QED
  BY InvInit, InvStep, <1>1, MessagesStep, PTL DEF Spec
=============================================================================
