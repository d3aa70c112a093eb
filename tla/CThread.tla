------------------------------ MODULE CThread ------------------------------
(***************************************************************************)
(* The coroutines of corothread/cthread.c (the build with HAS_UCONTEXT) and *)
(* the pool of stacks of corothread/stacks.c that they run on.             *)
(*                                                                         *)
(* One actor has control at a time: a coroutine, or Main, the code outside *)
(* of every coroutine.  Control changes hands only inside a library call,  *)
(* so one action is one call up to the transfer of control, together with  *)
(* what the side that gains control does before it is back in its own code. *)
(***************************************************************************)
EXTENDS Naturals, Sequences, FiniteSets

CONSTANTS
  Threads,        \* the CTHREAD objects
  Main,           \* no coroutine: the null value of tls_thread
  None,
  NumStacks,      \* num_stacks, when the pool has a limit
  Modes           \* the pools there may be: "PREALLOC" is made by STACKS_init,
                  \* "LIMITED" and "UNLIMITED" by STACKS_init_on_demand

ASSUME ThreadsAssumption ==
  /\ IsFiniteSet(Threads)
  /\ Main \notin Threads /\ None \notin Threads \cup {Main}
ASSUME PoolAssumption ==
  /\ NumStacks \in Nat \ {0}
  /\ Modes \subseteq {"PREALLOC", "LIMITED", "UNLIMITED"}

Actors == Threads \cup {Main}

VARIABLES
  state,          \* of each object; "none" before CTHREAD_init, "freed" at the end
  request_exit,
  to_caller,      \* thread_to_caller_value: "none" when it is not set, then how
                  \* often the caller got it: "new", "old" (once), "stale" (again)
  context_caller, \* who saved this context
  place,          \* where each actor will go on when it gains control
  parent,         \* the thread whose child_threads the object is linked in
  tls,            \* tls_thread
  active,         \* who has control
  stack_mode,
  free_stacks,    \* root: the stacks nobody owns
  made,           \* how many stacks there are
  stack_entry,    \* the stack of each thread, 0 before it has one
  destroyed       \* STACKS_destroy has succeeded

threadVars  == <<state, request_exit, to_caller, context_caller, parent>>
controlVars == <<place, tls, active>>
stackVars   == <<stack_mode, free_stacks, made, stack_entry, destroyed>>
vars == <<threadVars, controlVars, stackVars>>

\* Places outside of a call that has given control away.
User    == [call |-> "user",  thread |-> None, tls |-> None]
InYield == [call |-> "yield", thread |-> None, tls |-> None]

\* A call of a that waits for thread t; tls is its local `parent' or `current'.
CallOn(c, t) == [call |-> c, thread |-> t, tls |-> tls]
Calls == {"start", "resume", "kill"}
InCall(a) == place[a].call \in Calls

Init ==
  /\ state = [t \in Threads |-> "none"]
  /\ request_exit = [t \in Threads |-> FALSE]
  /\ to_caller = [t \in Threads |-> "none"]
  /\ context_caller = [t \in Threads |-> None]
  /\ parent = [t \in Threads |-> None]
  /\ place = [a \in Actors |-> User]
  /\ tls = Main
  /\ active = Main
  /\ stack_mode \in Modes
  /\ made = IF stack_mode = "PREALLOC" THEN NumStacks ELSE 0
  /\ free_stacks = [i \in 1 .. made |-> i]
  /\ stack_entry = [t \in Threads |-> 0]
  /\ destroyed = FALSE

-----------------------------------------------------------------------------
(* The pool of stacks *)

STACKS_get_NotCounted(t) ==
  /\ free_stacks = <<>> /\ stack_mode # "PREALLOC"
  /\ stack_entry' = [stack_entry EXCEPT ![t] = made + 1]
  /\ UNCHANGED <<free_stacks, made>>

STACKS_get_NotUnlinked(t) ==
  /\ free_stacks # <<>>
  /\ stack_entry' = [stack_entry EXCEPT ![t] = Head(free_stacks)]
  /\ UNCHANGED <<free_stacks, made>>

\* STACKS_get: the stack that was released last, or on demand a new one.  The
\* limit is compared with the length of the free list, which is empty then.
STACKS_get(t) ==
  \/ /\ free_stacks # <<>>
     /\ stack_entry' = [stack_entry EXCEPT ![t] = Head(free_stacks)]
     /\ free_stacks' = Tail(free_stacks)
     /\ UNCHANGED made
  \/ /\ free_stacks = <<>>
     /\ stack_mode # "PREALLOC"
     /\ stack_mode = "LIMITED" => Len(free_stacks) < NumStacks
     /\ stack_entry' = [stack_entry EXCEPT ![t] = made + 1]
     /\ made' = made + 1
     /\ UNCHANGED free_stacks

STACKS_release(t) ==
  /\ free_stacks' = <<stack_entry[t]>> \o free_stacks
  /\ UNCHANGED <<stack_mode, made, stack_entry, destroyed>>

STACKS_destroy_Unchecked ==
  /\ destroyed' = TRUE
  /\ UNCHANGED <<threadVars, controlVars, stack_mode, free_stacks, made, stack_entry>>

\* STACKS_destroy: a pool with a limit must have all its stacks back.
STACKS_destroy ==
  /\ stack_mode # "UNLIMITED" => Len(free_stacks) = NumStacks
  /\ destroyed' = TRUE
  /\ UNCHANGED <<threadVars, controlVars, stack_mode, free_stacks, made, stack_entry>>

-----------------------------------------------------------------------------
(* Transfers of control *)

Delivered(value) ==
  CASE value = "none" -> "none" [] value = "new" -> "old" [] OTHER -> "stale"

\* setcontext to context_caller: the caller a is back in CTHREAD_start or
\* CTHREAD_resume at check_return, restores tls_thread, finds the thread in
\* RUNNING when it has yielded and in EXIT when it has exited, and returns the
\* thread's message; CTHREAD_kill asks for none.  st, val and from are state,
\* to_caller and place as the thread leaves them.
BackIn(a, st, val, from) ==
  LET t == place[a].thread
      yielded == st[t] = "RUNNING"
      killed == place[a].call = "kill"     \* its rvalue is null
  IN /\ active' = a
     /\ tls' = place[a].tls
     /\ place' = [from EXCEPT ![a] = User]
     /\ state' = IF yielded THEN [st EXCEPT ![t] = "SUSPENDED"] ELSE st
     /\ to_caller' = IF killed THEN val ELSE [val EXCEPT ![t] = Delivered(@)]

\* setcontext to context_coroutine of t: t is back in CTHREAD_yield.
SwitchTo(t, call) ==
  /\ context_caller' = [context_caller EXCEPT ![t] = active]
  /\ place' = [place EXCEPT ![active] = CallOn(call, t), ![t] = User]
  /\ active' = t
  /\ tls' = t
  /\ state' = [state EXCEPT ![t] = "RUNNING"]

-----------------------------------------------------------------------------
(* The operations, called by whoever has control *)

CTHREAD_init(t) ==
  /\ state[t] = "none"
  /\ STACKS_get(t)
  /\ state' = [state EXCEPT ![t] = "INIT"]
  /\ UNCHANGED <<request_exit, to_caller, context_caller, parent, controlVars,
                 stack_mode, destroyed>>

CTHREAD_start(t) ==
  /\ state[t] = "INIT"
  /\ SwitchTo(t, "start")
  /\ parent' = [parent EXCEPT ![t] = IF tls = Main THEN None ELSE tls]
  /\ UNCHANGED <<request_exit, to_caller, stackVars>>

CTHREAD_resume_Unguarded(t) ==
  /\ state[t] \in {"SUSPENDED", "RUNNING"} /\ tls # t
  /\ SwitchTo(t, "resume")
  /\ UNCHANGED <<request_exit, to_caller, parent, stackVars>>

\* CTHREAD_resume, when it does not refuse
CTHREAD_resume(t) ==
  /\ state[t] = "SUSPENDED" /\ tls # t
  /\ SwitchTo(t, "resume")
  /\ UNCHANGED <<request_exit, to_caller, parent, stackVars>>

CTHREAD_kill_NoRequest(t) ==
  /\ state[t] = "SUSPENDED" /\ tls # t
  /\ SwitchTo(t, "kill")
  /\ UNCHANGED <<request_exit, to_caller, parent, stackVars>>

\* CTHREAD_kill; the request stays when the thread could not be resumed.  On a
\* thread that has exited it sets a flag nobody reads again.
CTHREAD_kill(t) ==
  /\ state[t] \in {"INIT", "RUNNING", "SUSPENDED"}
  /\ request_exit' = [request_exit EXCEPT ![t] = TRUE]
  /\ \/ /\ state[t] = "SUSPENDED" /\ tls # t
        /\ SwitchTo(t, "kill")
     \/ /\ ~(state[t] = "SUSPENDED" /\ tls # t)
        /\ UNCHANGED <<place, active, tls, state, context_caller>>
  /\ UNCHANGED <<to_caller, parent, stackVars>>

\* CTHREAD_exit, and the return from the thread procedure.  The loop over
\* child_threads applies CTHREAD_kill to an address 16 bytes in front of each
\* child (the offset of child_threads is subtracted from the address of
\* `entry').  The word it takes for the state is the end of context_caller,
\* which nothing writes: the call finds no suspended thread there and fails.
CTHREAD_exit ==
  /\ tls # Main /\ state[tls] = "RUNNING"
  /\ BackIn(context_caller[tls], [state EXCEPT ![tls] = "EXIT"], to_caller, place)
  /\ STACKS_release(tls)
  /\ UNCHANGED <<request_exit, context_caller, parent>>

CTHREAD_yield_FlagKept(value) ==
  /\ tls # Main /\ state[tls] = "RUNNING" /\ ~request_exit[tls]
  /\ BackIn(context_caller[tls], state,
            IF value = "none" THEN to_caller ELSE [to_caller EXCEPT ![tls] = value],
            [place EXCEPT ![active] = InYield])
  /\ UNCHANGED <<request_exit, context_caller, parent, stackVars>>

\* CTHREAD_yield with a message or without; under a request to exit it is
\* CTHREAD_exit.
CTHREAD_yield(value) ==
  \/ /\ tls # Main /\ state[tls] = "RUNNING" /\ ~request_exit[tls]
     /\ BackIn(context_caller[tls], state, [to_caller EXCEPT ![tls] = value],
               [place EXCEPT ![active] = InYield])
     /\ UNCHANGED <<request_exit, context_caller, parent, stackVars>>
  \/ tls # Main /\ request_exit[tls] /\ CTHREAD_exit

CTHREAD_set_return_value ==
  /\ tls # Main
  /\ to_caller' = [to_caller EXCEPT ![tls] = "new"]
  /\ UNCHANGED <<state, request_exit, context_caller, parent, controlVars, stackVars>>

\* CTHREAD_free: the object is gone, with everything in it.  Children that were
\* not freed before stay linked to its child_threads.
CTHREAD_free(t) ==
  /\ tls # t /\ state[t] = "EXIT"
  /\ state' = [state EXCEPT ![t] = "freed"]
  /\ parent' = [parent EXCEPT ![t] = None]
  /\ request_exit' = [request_exit EXCEPT ![t] = FALSE]
  /\ to_caller' = [to_caller EXCEPT ![t] = "none"]
  /\ context_caller' = [context_caller EXCEPT ![t] = None]
  /\ stack_entry' = [stack_entry EXCEPT ![t] = 0]
  /\ UNCHANGED <<controlVars, stack_mode, free_stacks, made, destroyed>>

-----------------------------------------------------------------------------
\* Destroying the pool is the last thing its user does.
Next ==
  /\ ~destroyed
  /\ \/ \E t \in Threads :
          \/ CTHREAD_init(t) \/ CTHREAD_start(t) \/ CTHREAD_resume(t)
          \/ CTHREAD_kill(t) \/ CTHREAD_free(t)
     \/ CTHREAD_exit
     \/ \E value \in {"none", "new"} : CTHREAD_yield(value)
     \/ CTHREAD_set_return_value
     \/ STACKS_destroy

Spec == Init /\ [][Next]_vars

-----------------------------------------------------------------------------
(* Properties *)

Live(t) == state[t] \in {"INIT", "RUNNING", "SUSPENDED"}

TypeOK ==
  /\ state \in [Threads -> {"none", "INIT", "RUNNING", "SUSPENDED", "EXIT", "freed"}]
  /\ request_exit \in [Threads -> BOOLEAN]
  /\ to_caller \in [Threads -> {"none", "new", "old", "stale"}]
  /\ context_caller \in [Threads -> Actors \cup {None}]
  /\ parent \in [Threads -> Threads \cup {None}]
  /\ place \in [Actors -> {User, InYield}
                  \cup [call : Calls, thread : Threads, tls : Actors]]
  /\ tls \in Actors /\ active \in Actors
  /\ stack_mode \in Modes
  /\ made \in Nat
  /\ free_stacks \in Seq(1 .. made)
  /\ stack_entry \in [Threads -> 0 .. made]
  /\ destroyed \in BOOLEAN

\* Control is nested like procedure calls, although coroutines leave it in the
\* middle: tls_thread names the actor in control, every other RUNNING thread
\* waits in a call, each call waits for one RUNNING thread, and that thread's
\* context_caller leads back into the very same call (cthread.c:449, 563, 709).
ControlNested ==
  /\ tls = active
  /\ \A t \in Threads : state[t] = "RUNNING" <=> t = active \/ InCall(t)
  /\ \A t \in Threads : state[t] = "RUNNING" =>
       /\ context_caller[t] \in Actors \ {t}
       /\ InCall(context_caller[t])
       /\ place[context_caller[t]].thread = t
  /\ \A a \in Actors : InCall(a) =>
       /\ a # active
       /\ place[a].tls = a
       /\ state[place[a].thread] = "RUNNING"
       /\ context_caller[place[a].thread] = a

\* A stack serves one thread at a time: those in use are neither in the free
\* list nor shared, though CTHREAD_exit releases the stack it is running on
\* (cthread.c:684).
StacksExclusive ==
  /\ \A i, j \in DOMAIN free_stacks : free_stacks[i] = free_stacks[j] => i = j
  /\ \A t \in Threads : Live(t) =>
       /\ \A i \in DOMAIN free_stacks : free_stacks[i] # stack_entry[t]
       /\ \A u \in Threads : Live(u) /\ stack_entry[u] = stack_entry[t] => u = t

\* A preallocated pool is unmapped only when no thread that may run again has
\* a stack in it (stacks.c:196).
UnmappedUnused == destroyed /\ stack_mode = "PREALLOC" => \A t \in Threads : ~Live(t)

\* CTHREAD_kill comes back only when the thread has exited, however long the
\* thread goes on, whomever it calls, and whether or not it heeds the result of
\* CTHREAD_yield: its next yield is its exit (cthread.c:545, 725).
KillEndsThread ==
  [][\A a \in Actors : place[a].call = "kill" /\ place'[a] # place[a]
       => state'[place[a].thread] = "EXIT"]_vars

\* A caller never gets a yielded message twice while the thread goes on; only
\* the last one may come again, when the thread exits (cthread.c:736, 637).
YieldedOnce == \A t \in Threads : to_caller[t] = "stale" => state[t] = "EXIT"

\* cthread.h:149, CTHREAD_exit: "Action: stops all threads that were started by the
\* current thread."
ExitStopsChildren ==
  \A t \in Threads : parent[t] # None /\ state[parent[t]] = "EXIT"
                        => state[t] \in {"EXIT", "freed"}
=============================================================================
