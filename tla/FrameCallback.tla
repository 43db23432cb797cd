----------------------------- MODULE FrameCallback -----------------------------
(***************************************************************************)
(* The frame callback service of SCD3D11Service.cpp.  Plugins register one *)
(* callback; the render thread invokes it with every frame and before a    *)
(* device is destroyed.  A plugin unregisters before its code is unloaded, *)
(* so unregistering from outside the callback must wait until no           *)
(* invocation is left.  Everything under g_callbackMutex is one step.      *)
(***************************************************************************)
EXTENDS Naturals, Sequences

CONSTANTS
  Callbacks,  \* pairs of a callback and its userData
  Plugins,    \* threads that register and unregister
  Render,     \* the thread that invokes, and on which callbacks run
  None,
  MaxDepth    \* invocations on the render thread's stack: more than 1 when a
              \* callback calls back into the driver, which invokes again

ASSUME ThreadsAssumption == Render \notin Plugins
ASSUME NoneAssumption == None \notin Callbacks
ASSUME DepthAssumption == MaxDepth \in Nat \ {0}

VARIABLES
  callback,       \* g_callback and g_userData
  inFlight,       \* g_callbacksInFlight
  insideCallback, \* the render thread's g_insideCallback
  stack,          \* its invocations, outermost first: what was copied under the
                  \* lock, and how far the invocation has got
  waiter,         \* threads in Unregister's wait: what they unregistered, and
                  \* whether they have been notified
  unloaded        \* history: unregistered from outside, and not registered since

vars == <<callback, inFlight, insideCallback, stack, waiter, unloaded>>

Threads == Plugins \cup {Render}
NotWaiting == [on |-> None, notified |-> FALSE]
Phases == {"taken", "running", "returned"}
Invocation == [callback : Callbacks, phase : Phases]

TypeOK ==
  /\ callback \in Callbacks \cup {None}
  /\ inFlight \in Nat
  /\ insideCallback \in BOOLEAN
  /\ stack \in Seq(Invocation)
  /\ waiter \in [Threads -> [on : Callbacks \cup {None}, notified : BOOLEAN]]
  /\ unloaded \subseteq Callbacks

Init ==
  /\ callback = None
  /\ inFlight = 0
  /\ insideCallback = FALSE
  /\ stack = <<>>
  /\ waiter = [t \in Threads |-> NotWaiting]
  /\ unloaded = {}

Waits(t) == waiter[t].on # None
Top == stack[Len(stack)]
RunsCallback == stack # <<>> /\ Top.phase = "running"

\* The thread can call into the service: the render thread from SC4 between
\* invocations or from the callback it is running, a plugin's thread any time.
CanCall(t) == ~Waits(t) /\ (t = Render => stack = <<>> \/ RunsCallback)

-----------------------------------------------------------------------------
\* SCD3D11RegisterFrameCallback: there is room for one callback only.
Register(t, c) ==
  /\ CanCall(t)
  /\ callback = None
  /\ callback' = c
  /\ unloaded' = unloaded \ {c}
  /\ UNCHANGED <<inFlight, insideCallback, stack, waiter>>

\* g_insideCallback as thread t sees it: it is thread_local.
Inside(t) == t = Render /\ insideCallback

\* Mutant of Unregister: the registration is cleared, and nothing is waited for.
UnregisterAtOnce(t, c) ==
  /\ CanCall(t)
  /\ callback = c
  /\ callback' = None
  /\ unloaded' = IF Inside(t) THEN unloaded ELSE unloaded \cup {c}
  /\ UNCHANGED <<inFlight, insideCallback, stack, waiter>>

(***************************************************************************)
(* SCD3D11UnregisterFrameCallback: the registration is cleared, and unless *)
(* the caller is inside a callback it waits while one is in flight.  The   *)
(* wait gives the mutex up.                                                *)
(***************************************************************************)
Unregister(t, c) ==
  /\ CanCall(t)
  /\ callback = c
  /\ callback' = None
  /\ IF ~Inside(t) /\ inFlight # 0
       THEN /\ waiter' = [waiter EXCEPT ![t] = [on |-> c, notified |-> FALSE]]
            /\ UNCHANGED unloaded
       ELSE /\ unloaded' = IF Inside(t) THEN unloaded ELSE unloaded \cup {c}
            /\ UNCHANGED waiter
  /\ UNCHANGED <<inFlight, insideCallback, stack>>

\* A notified waiter takes the mutex and looks at its condition again.
WakeUp(t) ==
  /\ Waits(t)
  /\ waiter[t].notified
  /\ IF inFlight = 0
       THEN /\ waiter' = [waiter EXCEPT ![t] = NotWaiting]
            /\ unloaded' = IF callback = waiter[t].on THEN unloaded
                           ELSE unloaded \cup {waiter[t].on}
       ELSE /\ waiter' = [waiter EXCEPT ![t].notified = FALSE]
            /\ UNCHANGED unloaded
  /\ UNCHANGED <<callback, inFlight, insideCallback, stack>>

-----------------------------------------------------------------------------
(* InvokeD3D11FrameCallback, one step per critical section or write to     *)
(* g_insideCallback.                                                       *)

\* The callback is copied and counted under the mutex.
TakeCallback ==
  /\ CanCall(Render)
  /\ Len(stack) < MaxDepth
  /\ callback # None
  /\ stack' = Append(stack, [callback |-> callback, phase |-> "taken"])
  /\ inFlight' = inFlight + 1
  /\ UNCHANGED <<callback, insideCallback, waiter, unloaded>>

Advance(from, to) ==
  /\ ~Waits(Render)
  /\ stack # <<>>
  /\ Top.phase = from
  /\ stack' = [stack EXCEPT ![Len(stack)].phase = to]

\* ActiveCallbackGuard's constructor, and the call.
EnterCallback ==
  /\ Advance("taken", "running")
  /\ insideCallback' = TRUE
  /\ UNCHANGED <<callback, inFlight, waiter, unloaded>>

\* The callback returns: ActiveCallbackGuard's destructor.
ReturnFromCallback ==
  /\ Advance("running", "returned")
  /\ insideCallback' = FALSE
  /\ UNCHANGED <<callback, inFlight, waiter, unloaded>>

\* The threads that the end of an invocation leaves notified.
Notified(woken) ==
  waiter' = [t \in Threads |-> [waiter[t] EXCEPT !.notified = @ \/ (t \in woken /\ Waits(t))]]

\* Mutant of LeaveInvocation: nobody is told.
LeaveInvocationQuietly ==
  /\ stack # <<>>
  /\ Top.phase = "returned"
  /\ stack' = SubSeq(stack, 1, Len(stack) - 1)
  /\ inFlight' = inFlight - 1
  /\ UNCHANGED <<callback, insideCallback, waiter, unloaded>>

\* Mutant of LeaveInvocation: only one of the waiters is told (notify_one).
LeaveInvocationTellsOne ==
  /\ stack # <<>>
  /\ Top.phase = "returned"
  /\ stack' = SubSeq(stack, 1, Len(stack) - 1)
  /\ inFlight' = inFlight - 1
  /\ \E t \in Threads : ((\E u \in Threads : Waits(u)) => Waits(t)) /\ Notified({t})
  /\ UNCHANGED <<callback, insideCallback, unloaded>>

\* InvocationGuard's destructor: the invocation is over, and waiters are told.
LeaveInvocation ==
  /\ stack # <<>>
  /\ Top.phase = "returned"
  /\ stack' = SubSeq(stack, 1, Len(stack) - 1)
  /\ inFlight' = inFlight - 1
  /\ Notified(Threads)
  /\ UNCHANGED <<callback, insideCallback, unloaded>>

Next ==
  \/ \E t \in Threads, c \in Callbacks : Register(t, c)
  \/ \E t \in Threads, c \in Callbacks : Unregister(t, c)
  \/ \E t \in Threads : WakeUp(t)
  \/ TakeCallback
  \/ EnterCallback
  \/ ReturnFromCallback
  \/ LeaveInvocation

(***************************************************************************)
(* An invocation that has begun goes on, and a callback returns: the       *)
(* render thread runs it to its end.  A notified waiter gets the mutex.    *)
(***************************************************************************)
Fairness ==
  /\ WF_vars(EnterCallback)
  /\ WF_vars(ReturnFromCallback)
  /\ WF_vars(LeaveInvocation)
  /\ \A t \in Threads : WF_vars(WakeUp(t))

Spec == Init /\ [][Next]_vars
FairSpec == Spec /\ Fairness

-----------------------------------------------------------------------------
(* "An external unloader must still wait for its callback invocation to    *)
(* return before unloading": after an unregistration from outside has      *)
(* returned, no invocation is in, or on its way into, that callback.       *)
UnloadedNeverRuns ==
  \A i \in 1 .. Len(stack) :
    stack[i].callback \in unloaded => stack[i].phase = "returned"

\* The count the waiters look at is the number of invocations begun and not
\* ended, and only a waiter is ever notified.
InFlightIsExact == inFlight = Len(stack)

(***************************************************************************)
(* A waiter that no notification will reach: not notified, with nothing    *)
(* left in flight whose end would notify it.                               *)
(***************************************************************************)
NoWaiterForgotten ==
  \A t \in Threads : Waits(t) /\ ~waiter[t].notified => inFlight > 0

\* "A callback may unregister itself": the thread that runs callbacks does not
\* wait for their end while it is in one of them.
CallbackMayUnregisterItself == Waits(Render) => stack = <<>>

\* Once plugins stop registering, every unregistration returns.
UnregisterReturns ==
  <>[](callback = None) => \A t \in Threads : Waits(t) ~> ~Waits(t)
================================================================================
