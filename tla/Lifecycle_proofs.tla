--------------------------- MODULE Lifecycle_proofs ----------------------------
(***************************************************************************)
(* What comes and goes while SC4 draws.  What the frame callback service   *)
(* promises a plugin that is about to be unloaded, for any number of       *)
(* callbacks and threads and for any depth of nested invocations; when the *)
(* render watchdog reports a stall, for any of its times and limits; and   *)
(* what SC4 and its textures keep when the device is lost, for any textures*)
(* and stages and however often the device goes and creating it fails.     *)
(***************************************************************************)
EXTENDS FrameCallback, Watchdog, DeviceLifecycle, SequenceTheorems, TLAPS

-----------------------------------------------------------------------------
(* The frame callback service.                                             *)

(***************************************************************************)
(* The strengthening that is inductive.  A waiter sees only a count, so    *)
(* the count has to be exact, and what is registered now must not count as *)
(* unloaded, because the next invocation will run it.                      *)
(***************************************************************************)
SafeToUnload ==
  /\ TypeOK
  /\ InFlightIsExact
  /\ callback \notin unloaded
  /\ UnloadedNeverRuns

Waiters == [Threads -> [on : Callbacks \cup {None}, notified : BOOLEAN]]

\* A thread that starts or stops waiting leaves the others as they are.
LEMMA WaiterChanges ==
  ASSUME waiter \in Waiters, NEW t \in Threads,
         NEW on \in Callbacks \cup {None}, NEW notified \in BOOLEAN
  PROVE  /\ [waiter EXCEPT ![t] = [on |-> on, notified |-> notified]] \in Waiters
         /\ [waiter EXCEPT ![t].notified = notified] \in Waiters
BY DEF Waiters

\* Moving the top invocation to another phase leaves the stack well formed, and
\* every invocation with the callback it had.
LEMMA StepOfTop ==
  ASSUME stack \in Seq(Invocation), stack # <<>>,
         NEW to \in Phases
  PROVE  LET s == [stack EXCEPT ![Len(stack)].phase = to]
         IN /\ s \in Seq(Invocation)
            /\ Len(s) = Len(stack)
            /\ \A i \in 1 .. Len(stack) :
                 s[i] = IF i = Len(stack) THEN [stack[i] EXCEPT !.phase = to] ELSE stack[i]
<1> DEFINE top == [stack[Len(stack)] EXCEPT !.phase = to]
           s == [stack EXCEPT ![Len(stack)] = top]
<1>1. Len(stack) \in 1 .. Len(stack)
  BY EmptySeq
<1>2. stack[Len(stack)] \in Invocation
  BY <1>1, ElementOfSeq
<1>3. top \in Invocation
  BY <1>2 DEF Invocation
<1>4. /\ s \in Seq(Invocation)
      /\ Len(s) = Len(stack)
      /\ \A i \in 1 .. Len(stack) : s[i] = IF i = Len(stack) THEN top ELSE stack[i]
  BY <1>1, <1>3, ExceptSeq
<1> QED
  BY <1>1, <1>4

\* The service starts with nothing registered and nothing running.
LEMMA InitIsSafe == Init => SafeToUnload
<1> SUFFICES ASSUME Init PROVE SafeToUnload
  OBVIOUS
<1>1. TypeOK
  <2>1. stack \in Seq(Invocation)
    BY EmptySeq DEF Init
  <2>2. waiter \in Waiters
    BY DEF Init, NotWaiting, Waiters
  <2> QED
    BY <2>1, <2>2 DEF Init, TypeOK, Waiters
<1> QED
  BY <1>1, NoneAssumption
     DEF Init, SafeToUnload, InFlightIsExact, UnloadedNeverRuns

\* No step of a plugin, a waiter or the render thread breaks the invariant.
LEMMA StepIsSafe == SafeToUnload /\ [Next]_vars => SafeToUnload'
<1> SUFFICES ASSUME SafeToUnload, [Next]_vars PROVE SafeToUnload'
  OBVIOUS
<1> USE DEF SafeToUnload, InFlightIsExact, UnloadedNeverRuns
<1>1. ASSUME NEW t \in Threads, NEW c \in Callbacks, Register(t, c)
      PROVE SafeToUnload'
  BY <1>1, NoneAssumption DEF Register, TypeOK
<1>2. ASSUME NEW t \in Threads, NEW c \in Callbacks, Unregister(t, c)
      PROVE SafeToUnload'
  <2>1. TypeOK'
    <3>1. waiter' \in Waiters
      <4>1. waiter \in Waiters /\ c \in Callbacks \cup {None}
        BY DEF TypeOK, Waiters
      <4>2. [waiter EXCEPT ![t] = [on |-> c, notified |-> FALSE]] \in Waiters
        BY <4>1, WaiterChanges
      <4> QED
        BY <1>2, <4>1, <4>2 DEF Unregister
    <3> QED
      BY <1>2, <3>1 DEF Unregister, TypeOK, Waiters
  <2>2. InFlightIsExact'
    BY <1>2 DEF Unregister
  <2>3. (callback \notin unloaded)'
    BY <1>2, NoneAssumption DEF Unregister, TypeOK
  <2>4. UnloadedNeverRuns'
    <3>1. CASE unloaded' = unloaded
      BY <3>1, <1>2 DEF Unregister
    <3>2. CASE unloaded' # unloaded
      <4>1. stack = <<>>
        BY <3>2, <1>2, EmptySeq DEF Unregister, TypeOK
      <4> QED
        BY <4>1, <1>2 DEF Unregister
    <3> QED
      BY <3>1, <3>2
  <2> QED
    BY <2>1, <2>2, <2>3, <2>4
<1>3. ASSUME NEW t \in Threads, WakeUp(t)
      PROVE SafeToUnload'
  <2>1. TypeOK'
    <3>1. waiter' \in Waiters
      <4>1. waiter \in Waiters
        BY DEF TypeOK, Waiters
      <4>2. [waiter EXCEPT ![t] = NotWaiting] \in Waiters
        BY <4>1, WaiterChanges DEF NotWaiting
      <4>3. [waiter EXCEPT ![t].notified = FALSE] \in Waiters
        BY <4>1, WaiterChanges
      <4> QED
        BY <1>3, <4>2, <4>3 DEF WakeUp
    <3>2. waiter[t].on \in Callbacks
      BY <1>3 DEF WakeUp, Waits, TypeOK
    <3> QED
      BY <1>3, <3>1, <3>2 DEF WakeUp, TypeOK, Waiters
  <2>2. InFlightIsExact' /\ (callback \notin unloaded)'
    BY <1>3 DEF WakeUp
  <2>3. UnloadedNeverRuns'
    <3>1. CASE unloaded' = unloaded
      BY <3>1, <1>3 DEF WakeUp
    <3>2. CASE unloaded' # unloaded
      <4>1. stack = <<>>
        BY <3>2, <1>3, EmptySeq DEF WakeUp, TypeOK
      <4> QED
        BY <4>1, <1>3 DEF WakeUp
    <3> QED
      BY <3>1, <3>2
  <2> QED
    BY <2>1, <2>2, <2>3
<1>4. CASE TakeCallback
  <2> DEFINE taken == [callback |-> callback, phase |-> "taken"]
  <2>1. taken \in Invocation
    BY <1>4 DEF TakeCallback, TypeOK, Invocation, Phases
  <2>2. /\ stack' \in Seq(Invocation)
        /\ Len(stack') = Len(stack) + 1
        /\ \A i \in 1 .. Len(stack') :
             stack'[i] = IF i = Len(stack') THEN taken ELSE stack[i]
    BY <1>4, <2>1, AppendProperties DEF TakeCallback, TypeOK
  <2>3. TypeOK' /\ InFlightIsExact' /\ (callback \notin unloaded)'
    BY <1>4, <2>2 DEF TakeCallback, TypeOK
  <2>4. UnloadedNeverRuns'
    BY <1>4, <2>2, <2>3, LenProperties DEF TakeCallback, TypeOK
  <2> QED
    BY <2>3, <2>4
<1>5. ASSUME NEW from \in {"taken", "running"}, NEW to \in Phases, Advance(from, to),
             UNCHANGED <<callback, inFlight, waiter, unloaded>>, insideCallback' \in BOOLEAN
      PROVE SafeToUnload'
  <2>1. /\ stack' \in Seq(Invocation)
        /\ Len(stack') = Len(stack)
        /\ \A i \in 1 .. Len(stack) :
             stack'[i] = IF i = Len(stack) THEN [stack[i] EXCEPT !.phase = to] ELSE stack[i]
    BY <1>5, StepOfTop DEF Advance, TypeOK
  <2>2. TypeOK' /\ InFlightIsExact' /\ (callback \notin unloaded)'
    BY <1>5, <2>1 DEF TypeOK
  <2>3. \A i \in 1 .. Len(stack) : stack[i] \in Invocation
    BY ElementOfSeq DEF TypeOK
  <2>4. Top \in Invocation /\ Top.callback \notin unloaded
    <3>1. Len(stack) \in 1 .. Len(stack)
      BY <1>5, EmptySeq DEF Advance, TypeOK
    <3> QED
      BY <3>1, <2>3, <1>5 DEF Advance, Top
  <2>5. UnloadedNeverRuns'
    BY <1>5, <2>1, <2>3, <2>4 DEF Top, Invocation
  <2> QED
    BY <2>2, <2>5
<1>6. CASE EnterCallback
  BY <1>5, <1>6 DEF EnterCallback, Phases
<1>7. CASE ReturnFromCallback
  BY <1>5, <1>7 DEF ReturnFromCallback, Phases
<1>8. CASE LeaveInvocation
  <2>1. Len(stack) \in Nat \ {0}
    BY <1>8, EmptySeq, LenProperties DEF LeaveInvocation, TypeOK
  <2>2. /\ stack' \in Seq(Invocation)
        /\ Len(stack') = Len(stack) - 1
        /\ \A i \in 1 .. Len(stack') : stack'[i] = stack[i]
    BY <1>8, <2>1, SubSeqProperties DEF LeaveInvocation, TypeOK
  <2>3. waiter' \in [Threads -> [on : Callbacks \cup {None}, notified : BOOLEAN]]
    BY <1>8 DEF LeaveInvocation, Notified, TypeOK, Waits
  <2>4. TypeOK' /\ InFlightIsExact' /\ (callback \notin unloaded)'
    BY <1>8, <2>1, <2>2, <2>3 DEF LeaveInvocation, TypeOK
  <2>5. UnloadedNeverRuns'
    BY <1>8, <2>1, <2>2 DEF LeaveInvocation
  <2> QED
    BY <2>4, <2>5
<1>9. CASE UNCHANGED vars
  BY <1>9 DEF vars, TypeOK, Waits, Top
<1> QED
  BY <1>1, <1>2, <1>3, <1>4, <1>6, <1>7, <1>8, <1>9 DEF Next

\* The strengthening holds throughout: types, the exact count and what is unloaded.
THEOREM SafeToUnloadAlways == Spec => []SafeToUnload
<1> QED
  BY InitIsSafe, StepIsSafe, PTL DEF Spec

\* Every state of the service is well typed.
THEOREM TypeCorrect == Spec => []TypeOK
<1>1. SafeToUnload => TypeOK
  BY DEF SafeToUnload
<1> QED
  BY <1>1, SafeToUnloadAlways, PTL

\* "An external unloader must still wait for its callback invocation to return":
\* once a thread's unregistration has returned, its callback does not run, and no
\* invocation is on its way into it (SCD3D11UnregisterFrameCallback).
THEOREM UnloadedNeverRunsAlways == Spec => []UnloadedNeverRuns
<1>1. SafeToUnload => UnloadedNeverRuns
  BY DEF SafeToUnload
<1> QED
  BY <1>1, SafeToUnloadAlways, PTL

-----------------------------------------------------------------------------
(***************************************************************************)
(* A thread starts to wait only while an invocation is in flight, and      *)
(* every end of one notifies all that wait; a waiter that is notified and  *)
(* waits on has seen another in flight.                                    *)
(***************************************************************************)
LEMMA StepForgetsNoWaiter ==
  ASSUME TypeOK, InFlightIsExact, NoWaiterForgotten, [Next]_vars
  PROVE  NoWaiterForgotten'
<1> SUFFICES ASSUME NEW w \in Threads, Waits(w)', ~waiter'[w].notified
             PROVE  inFlight' > 0
  BY DEF NoWaiterForgotten
<1> DEFINE Begun == Waits(w) /\ ~waiter[w].notified
<1>1. Begun => inFlight \in Nat /\ inFlight > 0
  BY DEF NoWaiterForgotten, TypeOK
<1>2. CASE UNCHANGED <<inFlight, waiter>>
  BY <1>1, <1>2 DEF Waits
<1>3. ASSUME NEW t \in Threads, NEW c \in Callbacks, Unregister(t, c)
      PROVE  inFlight' > 0
  <2>1. CASE ~Inside(t) /\ inFlight # 0
    BY <1>3, <2>1 DEF Unregister, TypeOK
  <2>2. CASE ~(~Inside(t) /\ inFlight # 0)
    BY <1>2, <1>3, <2>2 DEF Unregister
  <2> QED
    BY <2>1, <2>2
<1>4. ASSUME NEW t \in Threads, WakeUp(t)
      PROVE  inFlight' > 0
  <2>1. CASE inFlight = 0
    <3>1. waiter' = [waiter EXCEPT ![t] = NotWaiting] /\ inFlight' = inFlight
      BY <1>4, <2>1 DEF WakeUp
    <3>2. w # t
      BY <3>1 DEF Waits, NotWaiting, TypeOK
    <3>3. waiter'[w] = waiter[w]
      BY <3>1, <3>2 DEF TypeOK
    <3> QED
      BY <1>1, <3>1, <3>3 DEF Waits
  <2>2. CASE inFlight # 0
    BY <1>4, <2>2 DEF WakeUp, TypeOK
  <2> QED
    BY <2>1, <2>2
<1>5. CASE TakeCallback
  BY <1>5 DEF TakeCallback, TypeOK
<1>6. CASE LeaveInvocation
  <2>1. waiter'[w] = [waiter[w] EXCEPT !.notified = waiter[w].notified \/ Waits(w)]
    BY <1>6 DEF LeaveInvocation, Notified
  <2>2. waiter[w] \in [on : Callbacks \cup {None}, notified : BOOLEAN]
    BY DEF TypeOK
  <2>3. waiter'[w].on = waiter[w].on
    BY <2>1, <2>2
  <2>4. waiter'[w].notified = (waiter[w].notified \/ Waits(w))
    BY <2>1, <2>2
  <2> QED
    BY <2>3, <2>4 DEF Waits
<1> QED
  BY <1>2, <1>3, <1>4, <1>5, <1>6
     DEF Next, Register, EnterCallback, ReturnFromCallback, vars

\* Nobody who waits in SCD3D11UnregisterFrameCallback is left without an invocation
\* whose end will notify it, however many threads wait and callbacks nest.
THEOREM NoWaiterForgottenAlways == Spec => []NoWaiterForgotten
<1>1. Init => NoWaiterForgotten
  BY DEF Init, NoWaiterForgotten, Waits, NotWaiting
<1>2. SafeToUnload /\ NoWaiterForgotten /\ [Next]_vars => NoWaiterForgotten'
  BY StepForgetsNoWaiter DEF SafeToUnload
<1> QED
  BY <1>1, <1>2, SafeToUnloadAlways, PTL DEF Spec

-----------------------------------------------------------------------------
(* The render watchdog.                                                    *)

Locals == [frame : Nat, now : Nat, wakeAt : Nat, stalledFrame : Nat, nextReport : Nat,
           reports : Nat, previousFrame : Nat, framesFlowing : Nat]

\* The steps in which the thread has a frame to judge, and the time it is judged at.
Judging == {"look", "resumed", "check", "logging"} \cup Reporting

WatchdogTypeOK ==
  /\ clock \in Nat \ {0} /\ lastRenderFrame \in 0 .. clock
  /\ logLock \in {"free", "render", "watchdog"}
  /\ render \in {"game", "log", "logging", "join", "stop"}
  /\ suspended \in BOOLEAN
  /\ watchdog \in {"none", "wait", "exited"} \cup Judging
  /\ locals \in Locals
  /\ noted \in BOOLEAN /\ flow \in 0 .. ArmingTicks
  /\ reported \in Seq((Nat \ {0}) \X Nat)

\* The render thread is held for the copy of its registers alone, and whoever
\* holds the log is writing to it: the watchdog takes no lock, nor waits for
\* one, while the thread it holds may have it.
HeldToCopyOnly ==
  /\ suspended <=> watchdog = "copy"
  /\ logLock = "watchdog" <=> watchdog = "logging"
  /\ logLock = "render" <=> render = "logging"

\* A thread that is gone has left nothing behind.
Joined ==
  /\ watchdog = "none" => locals = NoLocals
  /\ render = "stop" => watchdog = "none"

\* The thread counts no more frames than came, and judges none before it has
\* counted enough; the frame it found last is not counted again.
FlowIsCounted ==
  /\ watchdog \in Judging => Armed(locals) /\ locals.frame \in 1 .. lastRenderFrame
  /\ IF Armed(locals) THEN flow = ArmingTicks ELSE locals.framesFlowing <= flow
  /\ lastRenderFrame = 0 => locals.framesFlowing = 0
  /\ ~noted /\ ~Armed(locals) /\ render # "stop" =>
       lastRenderFrame \in {0, locals.previousFrame}

LastReport == reported[Len(reported)][2]

\* The reports there were are of the stall that goes on, as many as are counted,
\* or of a frame that is past; the next one is due RepeatTime after the last.
StallIsKnown ==
  /\ watchdog \in {"check", "resumed"} \cup Reporting =>
       locals.stalledFrame \in {0, locals.frame}
  /\ watchdog = "resumed" => locals.stalledFrame = 0
  /\ locals.stalledFrame # 0 =>
       /\ locals.stalledFrame <= lastRenderFrame
       /\ watchdog \in Judging => locals.stalledFrame <= locals.frame
       /\ reported # <<>> /\ reported[1][1] = locals.stalledFrame
       /\ locals.reports <= MaxReports
  /\ watchdog \in Reporting =>
       /\ locals.stalledFrame = locals.frame
       /\ locals.reports < MaxReports
       /\ Len(reported) = locals.reports + 1 /\ LastReport = locals.now
  /\ watchdog \notin Reporting /\ locals.stalledFrame # 0 =>
       Len(reported) = locals.reports /\ locals.nextReport = LastReport + RepeatTime
  /\ watchdog # "none" /\ locals.stalledFrame = 0 /\ reported # <<>> =>
       /\ reported[1][1] < lastRenderFrame
       /\ watchdog \in Judging => reported[1][1] < locals.frame

WatchdogInv ==
  /\ WatchdogTypeOK /\ HeldToCopyOnly /\ Joined
  /\ FlowIsCounted /\ StallIsKnown /\ ReportsAreSpaced

-----------------------------------------------------------------------------

\* A watchdog that is about to start satisfies its invariant.
LEMMA WatchdogInitially == WatchdogInit /\ ParametersAssumption => WatchdogInv
<1> SUFFICES ASSUME WatchdogInit, ParametersAssumption PROVE WatchdogInv
  OBVIOUS
<1>1. reported \in Seq((Nat \ {0}) \X Nat) /\ Len(reported) = 0
  BY EmptySeq DEF WatchdogInit
<1>2. NoLocals \in Locals
  BY DEF Locals, NoLocals
<1>3. WatchdogTypeOK
  <2>1. ArmingTicks \in Nat
    BY DEF ParametersAssumption
  <2>2. clock \in Nat \ {0} /\ lastRenderFrame \in 0 .. clock /\ flow \in 0 .. ArmingTicks
    BY <2>1 DEF WatchdogInit
  <2>3. locals \in Locals
    BY <1>2 DEF WatchdogInit
  <2> QED
    BY <1>1, <2>2, <2>3 DEF WatchdogInit, WatchdogTypeOK
<1>4. FlowIsCounted
  BY DEF WatchdogInit, FlowIsCounted, Judging, Reporting, Armed, NoLocals,
     ParametersAssumption
<1>5. StallIsKnown
  BY <1>1 DEF WatchdogInit, StallIsKnown, Judging, Reporting, NoLocals
<1>6. ReportsAreSpaced
  BY <1>1 DEF ReportsAreSpaced, ParametersAssumption
<1> QED
  BY <1>3, <1>4, <1>5, <1>6 DEF WatchdogInit, WatchdogInv, HeldToCopyOnly, Joined

\* What the next round of the loop starts with.
LEMMA SleepKeeps ==
  ASSUME NEW l \in Locals, clock \in Nat, Sleep(l)
  PROVE  /\ watchdog' = "wait" /\ locals' \in Locals
         /\ locals'.stalledFrame = l.stalledFrame /\ locals'.nextReport = l.nextReport
         /\ locals'.reports = l.reports
         /\ locals'.previousFrame = l.previousFrame /\ locals'.framesFlowing = l.framesFlowing
<1> DEFINE L == [l EXCEPT !.wakeAt = clock + 1, !.frame = 0, !.now = 0]
<1>1. watchdog' = "wait" /\ locals' = L
  BY DEF Sleep
<1>2. L \in Locals
  <2>1. clock + 1 \in Nat
    OBVIOUS
  <2> QED
    BY <2>1 DEF Locals
<1>3. /\ L.stalledFrame = l.stalledFrame /\ L.nextReport = l.nextReport
      /\ L.reports = l.reports
      /\ L.previousFrame = l.previousFrame /\ L.framesFlowing = l.framesFlowing
  BY DEF Locals
<1> HIDE DEF L
<1> QED
  BY <1>1, <1>2, <1>3

\* Steps of the game, the clock and the log, and of the watchdog where it only
\* goes on to another step of the same report.
LEMMA WatchdogGoesOn ==
  ASSUME WatchdogInv, ParametersAssumption, WatchdogTypeOK',
         UNCHANGED <<locals, reported, flow>>,
         lastRenderFrame <= lastRenderFrame' /\ (lastRenderFrame' # lastRenderFrame => noted'),
         noted' = noted \/ noted' = TRUE,
         \/ UNCHANGED watchdog
         \/ watchdog \in Reporting /\ watchdog' \in Reporting
         \/ watchdog = "wait" /\ watchdog' = "exited"
         \/ watchdog = "resumed" /\ watchdog' = "logging"
         \/ watchdog = "logging" /\ watchdog' = "check" /\ locals.stalledFrame = 0,
         render' = "stop" => render = "stop" \/ watchdog = "none",
         render = "stop" => render' = "stop"
  PROVE  Joined' /\ FlowIsCounted' /\ StallIsKnown' /\ ReportsAreSpaced'
<1> USE DEF WatchdogInv, Judging, Reporting
<1>1. /\ lastRenderFrame \in Nat /\ lastRenderFrame' \in Nat
      /\ locals.frame \in Nat /\ locals.stalledFrame \in Nat
  BY DEF WatchdogTypeOK, Locals
<1>2. Joined'
  BY DEF Joined
<1>3. FlowIsCounted'
  BY <1>1 DEF FlowIsCounted, Armed
<1>4. reported # <<>> => reported[1][1] \in Nat
  BY EmptySeq, LenProperties, ElementOfSeq DEF WatchdogTypeOK
<1>5. StallIsKnown'
  BY <1>1, <1>4 DEF StallIsKnown, LastReport
<1>6. ReportsAreSpaced'
  BY DEF ReportsAreSpaced
<1> QED  BY <1>2, <1>3, <1>5, <1>6

\* What arming and the start of a stall make of the locals.
LEMMA ArmingKeeps ==
  ASSUME NEW l \in Locals, NEW frame \in Nat
  PROVE  /\ Arming(l, frame) \in Locals
         /\ Arming(l, frame).previousFrame = frame
         /\ Arming(l, frame).framesFlowing
              = IF frame # l.previousFrame THEN l.framesFlowing + 1 ELSE 0
         /\ Arming(l, frame).stalledFrame = l.stalledFrame
         /\ Arming(l, frame).nextReport = l.nextReport
         /\ Arming(l, frame).reports = l.reports
<1> DEFINE flowing == IF frame # l.previousFrame THEN l.framesFlowing + 1 ELSE 0
           armed == [l EXCEPT !.framesFlowing = flowing, !.previousFrame = frame]
<1>1. flowing \in Nat
  BY DEF Locals
<1>2. Arming(l, frame) = armed
  BY DEF Arming, Locals
<1> HIDE DEF flowing
<1>3. armed \in Locals /\ armed.previousFrame = frame /\ armed.framesFlowing = flowing
  BY <1>1 DEF Locals
<1>4. /\ armed.stalledFrame = l.stalledFrame /\ armed.nextReport = l.nextReport
      /\ armed.reports = l.reports
  BY DEF Locals
<1> QED
  BY <1>2, <1>3, <1>4 DEF flowing

\* Noticing a stall keeps the types, and starts the count of reports only for a new one.
LEMMA StallStarts ==
  ASSUME NEW l \in Locals
  PROVE  /\ Stalled(l) \in Locals
         /\ Stalled(l).frame = l.frame /\ Stalled(l).now = l.now
         /\ Stalled(l).previousFrame = l.previousFrame
         /\ Stalled(l).framesFlowing = l.framesFlowing
         /\ l.stalledFrame # 0 => Stalled(l) = l
         /\ l.stalledFrame = 0 => /\ Stalled(l).stalledFrame = l.frame
                                  /\ Stalled(l).reports = 0
                                  /\ Stalled(l).nextReport = l.now
<1>1. CASE l.stalledFrame # 0
  BY <1>1 DEF Stalled
<1>2. CASE l.stalledFrame = 0
  <2> DEFINE stall == [l EXCEPT !.stalledFrame = l.frame, !.reports = 0, !.nextReport = l.now]
  <2>1. Stalled(l) = stall
    BY <1>2 DEF Stalled
  <2>2. stall \in Locals
    BY DEF Locals
  <2>3. /\ stall.frame = l.frame /\ stall.now = l.now
        /\ stall.previousFrame = l.previousFrame /\ stall.framesFlowing = l.framesFlowing
        /\ stall.stalledFrame = l.frame /\ stall.reports = 0 /\ stall.nextReport = l.now
    BY DEF Locals
  <2> HIDE DEF stall
  <2> QED
    BY <1>2, <2>1, <2>2, <2>3
<1> QED
  BY <1>1, <1>2

\* The frame last reported and the times it was reported at.
LEMMA ReportsAreTyped ==
  ASSUME WatchdogTypeOK
  PROVE  /\ Len(reported) \in Nat /\ (reported = <<>> <=> Len(reported) = 0)
         /\ \A i \in 1 .. Len(reported) :
              reported[i][1] \in Nat \ {0} /\ reported[i][2] \in Nat
<1>1. reported \in Seq((Nat \ {0}) \X Nat)
  BY DEF WatchdogTypeOK
<1>2. \A i \in 1 .. Len(reported) : reported[i] \in (Nat \ {0}) \X Nat
  BY <1>1, ElementOfSeq
<1>3. Len(reported) \in Nat /\ (reported = <<>> <=> Len(reported) = 0)
  BY <1>1, EmptySeq, LenProperties
<1> QED
  BY <1>2, <1>3

\* Waking up, the thread sleeps on or has a frame to judge.
LEMMA WakeUpKeeps ==
  ASSUME WatchdogInv, ParametersAssumption, WatchdogWakesUp
  PROVE  /\ locals' \in Locals
         /\ locals'.stalledFrame = locals.stalledFrame
         /\ locals'.nextReport = locals.nextReport /\ locals'.reports = locals.reports
         /\ \/ /\ watchdog' = "look" /\ Armed(locals) /\ Armed(locals)'
               /\ lastRenderFrame # 0 /\ locals'.frame = lastRenderFrame
            \/ /\ watchdog' = "wait" /\ lastRenderFrame = 0
               /\ locals'.previousFrame = locals.previousFrame
               /\ locals'.framesFlowing = locals.framesFlowing
            \/ /\ watchdog' = "wait" /\ ~Armed(locals) /\ lastRenderFrame # 0
               /\ locals'.previousFrame = lastRenderFrame
               /\ locals'.framesFlowing = IF lastRenderFrame # locals.previousFrame
                                          THEN locals.framesFlowing + 1 ELSE 0
<1>1. locals \in Locals /\ clock \in Nat /\ lastRenderFrame \in Nat
  BY DEF WatchdogInv, WatchdogTypeOK
<1>2. CASE lastRenderFrame # 0 /\ Armed(locals)
  <2>1. watchdog' = "look" /\ locals' = [locals EXCEPT !.frame = lastRenderFrame]
    BY <1>2 DEF WatchdogWakesUp
  <2>2. locals' \in Locals /\ locals'.frame = lastRenderFrame
    BY <1>1, <2>1 DEF Locals
  <2>3. /\ locals'.stalledFrame = locals.stalledFrame
        /\ locals'.nextReport = locals.nextReport /\ locals'.reports = locals.reports
        /\ locals'.framesFlowing = locals.framesFlowing
    BY <1>1, <2>1 DEF Locals
  <2> QED
    BY <1>2, <2>1, <2>2, <2>3 DEF Armed
<1>3. CASE lastRenderFrame = 0
  <2>1. Sleep(locals)
    BY <1>3 DEF WatchdogWakesUp
  <2> QED
    BY <1>1, <1>3, <2>1, SleepKeeps
<1>4. CASE lastRenderFrame # 0 /\ ~Armed(locals)
  <2> DEFINE arming == Arming(locals, lastRenderFrame)
  <2>1. Sleep(arming)
    BY <1>4 DEF WatchdogWakesUp
  <2>2. /\ arming \in Locals /\ arming.previousFrame = lastRenderFrame
        /\ arming.framesFlowing = IF lastRenderFrame # locals.previousFrame
                                  THEN locals.framesFlowing + 1 ELSE 0
        /\ arming.stalledFrame = locals.stalledFrame
        /\ arming.nextReport = locals.nextReport /\ arming.reports = locals.reports
    BY <1>1, ArmingKeeps
  <2> HIDE DEF arming
  <2>3. /\ watchdog' = "wait" /\ locals' \in Locals
        /\ locals'.previousFrame = arming.previousFrame
        /\ locals'.framesFlowing = arming.framesFlowing
        /\ locals'.stalledFrame = arming.stalledFrame
        /\ locals'.nextReport = arming.nextReport /\ locals'.reports = arming.reports
    BY <1>1, <2>1, <2>2, SleepKeeps
  <2> QED
    BY <1>4, <2>2, <2>3
<1> QED
  BY <1>2, <1>3, <1>4

\* Looking, the thread notes the time, and forgets a stall that is over.
LEMMA LookKeeps ==
  ASSUME WatchdogInv, Look
  PROVE  /\ locals' \in Locals /\ locals'.now = clock /\ locals'.frame = locals.frame
         /\ locals'.stalledFrame = IF Resumed(locals) THEN 0 ELSE locals.stalledFrame
         /\ locals'.nextReport = locals.nextReport /\ locals'.reports = locals.reports
         /\ locals'.framesFlowing = locals.framesFlowing
         /\ locals'.previousFrame = locals.previousFrame
<1> DEFINE stalled == IF Resumed(locals) THEN 0 ELSE locals.stalledFrame
<1>1. locals \in Locals /\ clock \in Nat
  BY DEF WatchdogInv, WatchdogTypeOK
<1>2. stalled \in Nat
  BY <1>1 DEF Locals
<1>3. locals' = [locals EXCEPT !.now = clock, !.stalledFrame = stalled]
  BY <1>1 DEF Look, Locals
<1> HIDE DEF stalled
<1>4. locals' \in Locals /\ locals'.now = clock /\ locals'.stalledFrame = stalled
  BY <1>1, <1>2, <1>3 DEF Locals
<1>5. /\ locals'.frame = locals.frame
      /\ locals'.nextReport = locals.nextReport /\ locals'.reports = locals.reports
      /\ locals'.framesFlowing = locals.framesFlowing
      /\ locals'.previousFrame = locals.previousFrame
  BY <1>1, <1>3 DEF Locals
<1> QED
  BY <1>4, <1>5 DEF stalled

\* A report that is logged is counted, and the next one is put off.
LEMMA ReportKeeps ==
  ASSUME WatchdogInv, ParametersAssumption, WatchdogLogs, watchdog = "report"
  PROVE  /\ locals' \in Locals /\ locals'.frame = locals.frame
         /\ locals'.reports = locals.reports + 1
         /\ locals'.nextReport = locals.now + RepeatTime
         /\ locals'.stalledFrame = locals.stalledFrame
         /\ locals'.framesFlowing = locals.framesFlowing
         /\ locals'.previousFrame = locals.previousFrame
<1> DEFINE count == locals.reports + 1
           next == locals.now + RepeatTime
<1>1. locals \in Locals
  BY DEF WatchdogInv, WatchdogTypeOK
<1>2. count \in Nat /\ next \in Nat
  BY <1>1 DEF Locals, ParametersAssumption
<1>3. locals' = [locals EXCEPT !.reports = count, !.nextReport = next]
  BY <1>1 DEF WatchdogLogs, Locals
<1> HIDE DEF count, next
<1>4. locals' \in Locals /\ locals'.reports = count /\ locals'.nextReport = next
  BY <1>1, <1>2, <1>3 DEF Locals
<1>5. /\ locals'.frame = locals.frame /\ locals'.stalledFrame = locals.stalledFrame
      /\ locals'.framesFlowing = locals.framesFlowing
      /\ locals'.previousFrame = locals.previousFrame
  BY <1>1, <1>3 DEF Locals
<1> QED
  BY <1>4, <1>5 DEF count, next

\* What a look at a frame in time, a stall not due to be reported, and a report do.
LEMMA CheckKeeps ==
  ASSUME WatchdogInv, ParametersAssumption, Check
  PROVE  LET stall == Stalled(locals) IN
         /\ locals' \in Locals /\ reported' \in Seq((Nat \ {0}) \X Nat)
         /\ locals'.previousFrame = locals.previousFrame
         /\ locals'.framesFlowing = locals.framesFlowing
         /\ \/ /\ watchdog' = "wait" /\ reported' = reported
               /\ locals'.stalledFrame = locals.stalledFrame
               /\ locals'.nextReport = locals.nextReport /\ locals'.reports = locals.reports
            \/ /\ watchdog' = "wait" /\ reported' = reported /\ ~ReportDue(stall)
               /\ locals'.stalledFrame = stall.stalledFrame
               /\ locals'.nextReport = stall.nextReport /\ locals'.reports = stall.reports
            \/ /\ watchdog' = "locate" /\ ReportDue(stall) /\ locals' = stall
               /\ reported' = IF reported # <<>> /\ reported[1][1] = locals.frame
                              THEN Append(reported, <<locals.frame, locals.now>>)
                              ELSE << <<locals.frame, locals.now>> >>
<1> DEFINE stall == Stalled(locals)
           report == <<locals.frame, locals.now>>
<1>1. /\ locals \in Locals /\ clock \in Nat /\ reported \in Seq((Nat \ {0}) \X Nat)
  BY DEF WatchdogInv, WatchdogTypeOK
<1>2. report \in (Nat \ {0}) \X Nat
  <2>1. locals.frame \in Nat \ {0} /\ locals.now \in Nat
    BY <1>1 DEF WatchdogInv, WatchdogTypeOK, FlowIsCounted, Judging, Check, Locals
  <2> QED
    BY <2>1
<1>3. /\ stall \in Locals /\ stall.previousFrame = locals.previousFrame
      /\ stall.framesFlowing = locals.framesFlowing
  BY <1>1, StallStarts
<1> HIDE DEF report
<1>4. Append(reported, report) \in Seq((Nat \ {0}) \X Nat)
  BY <1>1, <1>2, AppendProperties
<1>5. << report >> \in Seq((Nat \ {0}) \X Nat)
  BY <1>2
<1>6. CASE locals.now - locals.frame < StallTime
  <2>1. Sleep(locals) /\ reported' = reported
    BY <1>6 DEF Check
  <2> QED
    BY <1>1, <2>1, SleepKeeps
<1>7. CASE ~(locals.now - locals.frame < StallTime) /\ ReportDue(stall)
  <2>1. /\ watchdog' = "locate" /\ locals' = stall
        /\ reported' = IF reported # <<>> /\ reported[1][1] = locals.frame
                       THEN Append(reported, report) ELSE << report >>
    BY <1>7 DEF Check, report
  <2> QED
    BY <1>3, <1>4, <1>5, <1>7, <2>1 DEF report
<1>8. CASE ~(locals.now - locals.frame < StallTime) /\ ~ReportDue(stall)
  <2>1. Sleep(stall) /\ reported' = reported
    BY <1>8 DEF Check
  <2> HIDE DEF stall
  <2>2. /\ watchdog' = "wait" /\ locals' \in Locals
        /\ locals'.stalledFrame = stall.stalledFrame
        /\ locals'.nextReport = stall.nextReport /\ locals'.reports = stall.reports
        /\ locals'.previousFrame = stall.previousFrame
        /\ locals'.framesFlowing = stall.framesFlowing
    BY <1>1, <1>3, <2>1, SleepKeeps
  <2> QED
    BY <1>1, <1>3, <1>8, <2>1, <2>2 DEF stall
<1> QED
  BY <1>6, <1>7, <1>8

\* Every step of the watchdog and of the render thread keeps the types.
LEMMA WatchdogTypes ==
  ASSUME WatchdogInv, ParametersAssumption, [WatchdogNext]_watchdogVars
  PROVE  WatchdogTypeOK'
<1>1. WatchdogTypeOK /\ locals \in Locals
  BY DEF WatchdogInv, WatchdogTypeOK
<1>2. ArmingTicks \in Nat \ {0}
  BY DEF ParametersAssumption
<1> USE DEF WatchdogTypeOK, Judging, Reporting
<1>3. CASE NoteRenderFrame
  BY <1>1, <1>3 DEF NoteRenderFrame
<1>4. CASE StartRenderWatchdog
  <2>1. CASE UNCHANGED <<watchdogStop, watchdog, locals, flow, reported>>
    BY <1>1, <1>4, <2>1 DEF StartRenderWatchdog
  <2>2. CASE /\ watchdog' = "wait" /\ flow' = 0 /\ reported' = <<>>
             /\ locals' = [NoLocals EXCEPT !.wakeAt = clock + 1]
    <3>1. locals' \in Locals
      <4>1. clock + 1 \in Nat /\ NoLocals \in Locals
        BY <1>1 DEF Locals, NoLocals
      <4> QED
        BY <2>2, <4>1 DEF Locals
    <3>2. reported' \in Seq((Nat \ {0}) \X Nat)
      BY <2>2, EmptySeq
    <3>3. flow' \in 0 .. ArmingTicks
      BY <1>2, <2>2
    <3> QED
      BY <1>1, <1>4, <2>2, <3>1, <3>2, <3>3 DEF StartRenderWatchdog
  <2> QED
    BY <1>4, <2>1, <2>2 DEF StartRenderWatchdog
<1>5. CASE StopRenderWatchdog
  BY <1>1, <1>5 DEF StopRenderWatchdog, history
<1>6. CASE Join
  <2>1. locals' \in Locals
    BY <1>6 DEF Join, NoLocals, Locals
  <2> QED
    BY <1>1, <1>6, <2>1 DEF Join, gameVars, history
<1>7. CASE Stopped
  <2>1. lastRenderFrame' \in 0 .. clock'
    BY <1>1, <1>7 DEF Stopped
  <2> QED
    BY <1>1, <1>7, <2>1 DEF Stopped
<1>8. CASE RenderLogs
  <2>1. logLock' \in {logLock, "render", "free"} /\ render' \in {"game", "log", "logging"}
    BY <1>8 DEF RenderLogs
  <2>2. UNCHANGED <<clock, lastRenderFrame, suspended, watchdog, locals, noted, flow, reported>>
    BY <1>8 DEF RenderLogs, gameVars, history
  <2> QED
    BY <1>1, <2>1, <2>2
<1>9. CASE Exit
  BY <1>1, <1>9 DEF Exit, gameVars, history
<1>10. CASE WatchdogWakesUp
  <2>1. locals' \in Locals /\ watchdog' \in {"wait", "look"}
    BY <1>10, WakeUpKeeps
  <2>2. flow' \in 0 .. ArmingTicks
    <3>1. \/ flow' = flow
          \/ flow' = flow + 1 /\ flow # ArmingTicks
          \/ flow' = 0
      BY <1>10 DEF WatchdogWakesUp
    <3> QED
      BY <1>1, <1>2, <3>1
  <2>3. noted' \in BOOLEAN
    BY <1>10 DEF WatchdogWakesUp
  <2>4. UNCHANGED <<clock, lastRenderFrame, logLock, render, suspended, reported>>
    BY <1>10 DEF WatchdogWakesUp, gameVars
  <2> QED
    BY <1>1, <2>1, <2>2, <2>3, <2>4
<1>11. CASE Look
  <2>1. locals' \in Locals
    BY <1>11, LookKeeps
  <2>2. watchdog' \in {"resumed", "check"}
    BY <1>11 DEF Look
  <2> QED
    BY <1>1, <1>11, <2>1, <2>2 DEF Look, gameVars, history
<1>12. CASE Check
  <2>1. locals' \in Locals /\ reported' \in Seq((Nat \ {0}) \X Nat)
    BY <1>12, CheckKeeps
  <2>2. watchdog' \in {"wait", "locate"}
    BY <1>12, CheckKeeps
  <2>3. UNCHANGED <<clock, lastRenderFrame, logLock, render, suspended, noted, flow>>
    BY <1>12 DEF Check, gameVars
  <2> QED
    BY <1>1, <2>1, <2>2, <2>3
<1>13. CASE Locate \/ CopyStack
  BY <1>1, <1>13 DEF Locate, CopyStack, gameVars, history
<1>14. CASE WatchdogLogs
  <2>1. locals' \in Locals
    <3>1. CASE watchdog = "report"
      BY <1>14, <3>1, ReportKeeps
    <3>2. CASE watchdog = "resumed"
      BY <1>1, <1>14, <3>2 DEF WatchdogLogs
    <3> QED
      BY <1>14, <3>1, <3>2 DEF WatchdogLogs
  <2> QED
    BY <1>1, <1>14, <2>1 DEF WatchdogLogs, gameVars, history
<1>15. CASE WatchdogLogged
  <2>1. locals' \in Locals /\ watchdog' \in {"check", "wait"}
    BY <1>1, <1>15, SleepKeeps DEF WatchdogLogged
  <2> QED
    BY <1>1, <1>15, <2>1 DEF WatchdogLogged, gameVars, history
<1>16. CASE ClockTicks
  BY <1>1, <1>16 DEF ClockTicks, gameVars, history
<1>17. CASE UNCHANGED watchdogVars
  BY <1>1, <1>17 DEF watchdogVars
<1> QED
  BY <1>3, <1>4, <1>5, <1>6, <1>7, <1>8, <1>9, <1>10, <1>11, <1>12, <1>13, <1>14, <1>15,
     <1>16, <1>17 DEF WatchdogNext

\* Everybody but the copy finds the render thread running, and nobody takes the
\* log from who holds it.
LEMMA HeldToCopyOnlyKept ==
  ASSUME WatchdogInv, [WatchdogNext]_watchdogVars
  PROVE  HeldToCopyOnly'
<1> USE DEF WatchdogInv, HeldToCopyOnly
<1>1. CASE NoteRenderFrame \/ StartRenderWatchdog \/ StopRenderWatchdog \/ Join
  BY <1>1 DEF NoteRenderFrame, StartRenderWatchdog, StopRenderWatchdog, Join,
     InGame, Joinable
<1>2. CASE Stopped \/ RenderLogs \/ ClockTicks \/ UNCHANGED watchdogVars
  BY <1>2 DEF Stopped, RenderLogs, ClockTicks, watchdogVars
<1>3. CASE Exit \/ WatchdogWakesUp \/ Look \/ Check
  BY <1>3 DEF Exit, WatchdogWakesUp, Sleep, Look, Check
<1>4. CASE Locate \/ CopyStack \/ WatchdogLogs \/ WatchdogLogged
  BY <1>4 DEF Locate, CopyStack, WatchdogLogs, WatchdogLogged, Sleep
<1> QED
  BY <1>1, <1>2, <1>3, <1>4 DEF WatchdogNext

WatchdogKept == Joined' /\ FlowIsCounted' /\ StallIsKnown' /\ ReportsAreSpaced'

\* A thread that starts, or is gone, has neither counted nor reported.
LEMMA AnewKeeps ==
  ASSUME WatchdogInv, ParametersAssumption, WatchdogTypeOK',
         \/ Join \/ Stopped
         \/ StartRenderWatchdog /\ watchdog' # watchdog
  PROVE  WatchdogKept
<1> USE DEF WatchdogInv, Judging, Reporting
<1>1. /\ locals' = NoLocals \/ locals' = [NoLocals EXCEPT !.wakeAt = clock + 1]
      /\ watchdog' = "none" \/ (watchdog' = "wait" /\ reported' = <<>>)
  <2>1. CASE Join
    BY <2>1 DEF Join
  <2>2. CASE Stopped
    BY <2>2 DEF Stopped, Joined
  <2>3. CASE StartRenderWatchdog /\ watchdog' # watchdog
    BY <2>3 DEF StartRenderWatchdog
  <2> QED
    BY <2>1, <2>2, <2>3
<1>2. /\ locals'.stalledFrame = 0 /\ locals'.framesFlowing = 0 /\ locals'.previousFrame = 0
  BY <1>1 DEF NoLocals
<1>3. Joined'
  BY DEF Join, Stopped, StartRenderWatchdog, Joined, Joinable, InGame
<1>4. FlowIsCounted'
  <2>1. ~Armed(locals)' /\ 0 <= flow'
    BY <1>2 DEF Armed, ParametersAssumption, WatchdogTypeOK
  <2>2. ~noted' /\ render' # "stop" => lastRenderFrame' \in {0, locals'.previousFrame}
    <3>1. CASE Join \/ Stopped
      BY <3>1 DEF Join, Stopped
    <3>2. CASE StartRenderWatchdog /\ watchdog' # watchdog
      <4>1. locals = NoLocals /\ ~Armed(locals) /\ render # "stop"
        BY <3>2 DEF StartRenderWatchdog, Joinable, InGame, Joined, Armed,
           NoLocals, ParametersAssumption
      <4>2. locals.previousFrame = 0
        BY <4>1 DEF NoLocals
      <4> QED
        BY <1>2, <3>2, <4>1, <4>2 DEF StartRenderWatchdog, FlowIsCounted
    <3> QED
      BY <3>1, <3>2
  <2> QED
    BY <1>1, <1>2, <2>1, <2>2 DEF FlowIsCounted
<1>5. StallIsKnown'
  BY <1>1, <1>2 DEF StallIsKnown
<1>6. ReportsAreSpaced'
  <2>1. reported' = reported \/ reported' = <<>>
    BY DEF Join, Stopped, StartRenderWatchdog, history
  <2>2. CASE reported' = <<>>
    BY <2>2 DEF ReportsAreSpaced, ParametersAssumption
  <2> QED
    BY <2>1, <2>2 DEF ReportsAreSpaced
<1> QED
  BY <1>3, <1>4, <1>5, <1>6 DEF WatchdogKept

\* A frame is counted where one came, and judged once enough have.
LEMMA WakeUpKept ==
  ASSUME WatchdogInv, ParametersAssumption, WatchdogTypeOK', WatchdogWakesUp
  PROVE  WatchdogKept
<1> USE DEF WatchdogInv, Judging, Reporting
<1>1. /\ lastRenderFrame \in Nat /\ locals \in Locals /\ flow \in 0 .. ArmingTicks
      /\ ArmingTicks \in Nat \ {0}
  BY DEF WatchdogTypeOK, ParametersAssumption
<1>2. /\ locals.framesFlowing \in Nat /\ locals.stalledFrame \in Nat
      /\ locals.previousFrame \in Nat
  BY <1>1 DEF Locals
<1>3. /\ UNCHANGED <<lastRenderFrame, render, reported>> /\ noted' = FALSE
      /\ watchdog = "wait" /\ render # "stop"
      /\ flow' = IF Armed(locals) \/ flow = ArmingTicks THEN flow
                 ELSE IF noted THEN flow + 1 ELSE 0
  BY DEF WatchdogWakesUp, gameVars, Joined
<1>4. reported # <<>> => reported[1][1] \in Nat
  BY ReportsAreTyped
<1>5. Joined'
  BY <1>3, WakeUpKeeps DEF Joined
<1>6. FlowIsCounted'
  <2>1. CASE watchdog' = "look"
    <3>1. /\ Armed(locals) /\ Armed(locals)' /\ lastRenderFrame # 0
          /\ locals'.frame = lastRenderFrame
      BY <2>1, WakeUpKeeps
    <3> QED
      BY <1>1, <1>3, <3>1 DEF FlowIsCounted
  <2>2. CASE watchdog' = "wait" /\ lastRenderFrame = 0
    <3>1. /\ locals'.previousFrame = locals.previousFrame
          /\ locals'.framesFlowing = locals.framesFlowing
      BY <1>1, <2>2, WakeUpKeeps
    <3> QED
      BY <1>1, <1>2, <1>3, <2>2, <3>1 DEF FlowIsCounted, Armed
  <2>3. CASE watchdog' = "wait" /\ lastRenderFrame # 0
    <3>1. /\ locals'.previousFrame = lastRenderFrame /\ ~Armed(locals)
          /\ locals'.framesFlowing = IF lastRenderFrame # locals.previousFrame
                                     THEN locals.framesFlowing + 1 ELSE 0
      BY <2>3, WakeUpKeeps
    <3>2. ~noted => lastRenderFrame = locals.previousFrame
      BY <1>3, <2>3, <3>1 DEF FlowIsCounted
    <3> QED
      BY <1>1, <1>2, <1>3, <2>3, <3>1, <3>2 DEF FlowIsCounted, Armed
  <2> QED
    BY <2>1, <2>2, <2>3, WakeUpKeeps
<1>7. StallIsKnown'
  <2>1. /\ locals'.stalledFrame = locals.stalledFrame
        /\ locals'.nextReport = locals.nextReport /\ locals'.reports = locals.reports
    BY WakeUpKeeps
  <2>2. watchdog' = "wait" \/ (watchdog' = "look" /\ locals'.frame = lastRenderFrame)
    BY WakeUpKeeps
  <2> QED
    BY <1>1, <1>2, <1>3, <1>4, <2>1, <2>2 DEF StallIsKnown, LastReport
<1>8. ReportsAreSpaced'
  BY <1>3 DEF ReportsAreSpaced
<1> QED
  BY <1>5, <1>6, <1>7, <1>8 DEF WatchdogKept

\* A stall that is over is of a frame before the one that ended it.
LEMMA LookKept ==
  ASSUME WatchdogInv, ParametersAssumption, WatchdogTypeOK', Look
  PROVE  WatchdogKept
<1> USE DEF WatchdogInv, Judging, Reporting
<1>1. /\ lastRenderFrame \in Nat /\ locals.frame \in Nat /\ locals.stalledFrame \in Nat
  BY DEF WatchdogTypeOK, Locals
<1>2. /\ UNCHANGED <<lastRenderFrame, render, noted, flow, reported>> /\ watchdog = "look"
      /\ watchdog' = IF Resumed(locals) THEN "resumed" ELSE "check"
  BY DEF Look, gameVars, history
<1>3. /\ locals'.frame = locals.frame
      /\ locals'.stalledFrame = IF Resumed(locals) THEN 0 ELSE locals.stalledFrame
      /\ locals'.nextReport = locals.nextReport /\ locals'.reports = locals.reports
      /\ locals'.framesFlowing = locals.framesFlowing
      /\ locals'.previousFrame = locals.previousFrame
  BY LookKeeps
<1>4. reported # <<>> => reported[1][1] \in Nat
  BY ReportsAreTyped
<1>5. Joined'
  BY <1>2 DEF Joined
<1>6. FlowIsCounted'
  BY <1>1, <1>2, <1>3 DEF FlowIsCounted, Armed
<1>7. StallIsKnown'
  <2>1. CASE Resumed(locals)
    <3>1. locals.stalledFrame # 0 /\ locals.stalledFrame < locals.frame
      BY <1>1, <1>2, <2>1 DEF Resumed, StallIsKnown
    <3>2. reported # <<>> /\ reported[1][1] = locals.stalledFrame
      BY <3>1 DEF StallIsKnown
    <3>3. locals.frame <= lastRenderFrame
      BY <1>1, <1>2 DEF FlowIsCounted
    <3>4. watchdog' = "resumed" /\ locals'.stalledFrame = 0
      BY <1>2, <1>3, <2>1
    <3> QED
      BY <1>1, <1>2, <1>3, <1>4, <3>1, <3>2, <3>3, <3>4 DEF StallIsKnown
  <2>2. CASE ~Resumed(locals)
    <3>1. locals.stalledFrame \in {0, locals.frame}
      BY <2>2 DEF Resumed
    <3>2. watchdog' = "check" /\ locals'.stalledFrame = locals.stalledFrame
      BY <1>2, <1>3, <2>2
    <3> QED
      BY <1>1, <1>2, <1>3, <1>4, <3>1, <3>2 DEF StallIsKnown, LastReport
  <2> QED
    BY <2>1, <2>2
<1>8. ReportsAreSpaced'
  BY <1>2 DEF ReportsAreSpaced
<1> QED
  BY <1>5, <1>6, <1>7, <1>8 DEF WatchdogKept

\* The first report of a stall is due at once, and each one that follows when
\* RepeatTime has passed.
LEMMA CheckKept ==
  ASSUME WatchdogInv, ParametersAssumption, WatchdogTypeOK', Check
  PROVE  WatchdogKept
<1> USE DEF WatchdogInv, Judging, Reporting
<1> DEFINE stall == Stalled(locals)
           report == <<locals.frame, locals.now>>
<1>1. /\ lastRenderFrame \in Nat /\ locals \in Locals /\ locals.frame \in Nat \ {0}
      /\ locals.now \in Nat /\ locals.stalledFrame \in {0, locals.frame}
      /\ locals.reports \in Nat /\ locals.nextReport \in Nat
      /\ MaxReports \in Nat \ {0} /\ RepeatTime \in Nat
  BY DEF WatchdogTypeOK, FlowIsCounted, StallIsKnown, Locals, Check, ParametersAssumption
<1>2. UNCHANGED <<lastRenderFrame, render, noted, flow>> /\ watchdog = "check"
  BY DEF Check, gameVars
<1>3. /\ locals'.framesFlowing = locals.framesFlowing
      /\ locals'.previousFrame = locals.previousFrame
  BY CheckKeeps
<1>4. /\ stall.frame = locals.frame /\ stall.now = locals.now
      /\ locals.stalledFrame # 0 => stall = locals
      /\ locals.stalledFrame = 0 => /\ stall.stalledFrame = locals.frame
                                    /\ stall.reports = 0 /\ stall.nextReport = locals.now
  BY <1>1, StallStarts
<1>5. /\ Len(reported) \in Nat /\ (reported = <<>> <=> Len(reported) = 0)
      /\ reported \in Seq((Nat \ {0}) \X Nat)
      /\ \A i \in 1 .. Len(reported) : reported[i][1] \in Nat /\ reported[i][2] \in Nat
  BY ReportsAreTyped DEF WatchdogTypeOK
<1> HIDE DEF stall
<1>6. CASE /\ watchdog' = "wait" /\ reported' = reported
           /\ locals'.stalledFrame = locals.stalledFrame
           /\ locals'.nextReport = locals.nextReport /\ locals'.reports = locals.reports
  <2>1. Joined' /\ ReportsAreSpaced'
    BY <1>2, <1>6 DEF Joined, ReportsAreSpaced
  <2>2. FlowIsCounted'
    BY <1>1, <1>2, <1>3, <1>6 DEF FlowIsCounted, Armed
  <2>3. StallIsKnown'
    BY <1>1, <1>2, <1>5, <1>6 DEF StallIsKnown, LastReport
  <2> QED
    BY <2>1, <2>2, <2>3 DEF WatchdogKept
<1>7. CASE /\ watchdog' = "wait" /\ reported' = reported /\ ~ReportDue(stall)
           /\ locals'.stalledFrame = stall.stalledFrame
           /\ locals'.nextReport = stall.nextReport /\ locals'.reports = stall.reports
  <2>1. CASE locals.stalledFrame = 0
    BY <1>1, <1>4, <1>7, <2>1 DEF ReportDue
  <2>2. CASE locals.stalledFrame # 0
    BY <1>4, <1>6, <1>7, <2>2
  <2> QED
    BY <2>1, <2>2
<1>8. CASE /\ watchdog' = "locate" /\ ReportDue(stall) /\ locals' = stall
           /\ reported' = IF reported # <<>> /\ reported[1][1] = locals.frame
                          THEN Append(reported, report) ELSE << report >>
  <2>1. Joined'
    BY <1>2, <1>8 DEF Joined
  <2>2. FlowIsCounted'
    BY <1>1, <1>2, <1>3, <1>4, <1>8 DEF FlowIsCounted, Armed
  <2>3. locals.frame <= lastRenderFrame
    BY <1>1, <1>2 DEF FlowIsCounted
  <2>4. CASE locals.stalledFrame = 0
    <3>1. reported' = << report >>
      BY <1>1, <1>2, <1>5, <1>8, <2>4 DEF StallIsKnown
    <3>2. Len(reported') = 1 /\ reported'[1] = report
      BY <3>1
    <3>3. reported' # <<>>
      BY <3>1
    <3>4. /\ locals'.stalledFrame = locals.frame /\ locals'.reports = 0
          /\ locals'.frame = locals.frame /\ locals'.now = locals.now
      BY <1>4, <1>8, <2>4
    <3>5. StallIsKnown'
      BY <1>1, <1>2, <1>8, <2>3, <3>2, <3>3, <3>4 DEF StallIsKnown, LastReport
    <3>6. ReportsAreSpaced'
      BY <1>1, <3>2 DEF ReportsAreSpaced
    <3> QED
      BY <2>1, <2>2, <3>5, <3>6 DEF WatchdogKept
  <2>5. CASE locals.stalledFrame # 0
    <3>1. /\ reported # <<>> /\ reported[1][1] = locals.frame
          /\ Len(reported) = locals.reports
          /\ locals.nextReport = LastReport + RepeatTime
      BY <1>1, <1>2, <2>5 DEF StallIsKnown
    <3>2. locals' = locals /\ locals.now >= locals.nextReport /\ locals.reports < MaxReports
      BY <1>4, <1>8, <2>5 DEF ReportDue
    <3>3. reported' = Append(reported, report) /\ report \in (Nat \ {0}) \X Nat
      BY <1>1, <1>8, <3>1
    <3>4. /\ Len(reported') = Len(reported) + 1
          /\ \A i \in 1 .. Len(reported) : reported'[i] = reported[i]
          /\ reported'[Len(reported) + 1] = report
      BY <1>5, <3>3, AppendProperties
    <3>5. Len(reported) \in 1 .. Len(reported) /\ 1 \in 1 .. Len(reported)
      BY <1>5, <3>1
    <3>6. reported'[1] = reported[1] /\ reported' # <<>> /\ LastReport' = locals.now
      <4>1. reported'[1] = reported[1]
        BY <3>4, <3>5
      <4>2. reported' # <<>>
        BY <1>5, <3>4, EmptySeq
      <4> QED
        BY <3>4, <4>1, <4>2 DEF LastReport
    <3>7. StallIsKnown'
      BY <1>1, <1>2, <1>5, <1>8, <2>3, <2>5, <3>1, <3>2, <3>4, <3>6 DEF StallIsKnown
    <3>8. ReportsAreSpaced'
      <4>1. locals.now - reported[Len(reported)][2] >= RepeatTime
        BY <1>1, <1>5, <3>1, <3>2, <3>5 DEF LastReport
      <4>2. reported'[Len(reported) + 1][2] = locals.now
        BY <3>4
      <4>3. Len(reported') <= MaxReports
        BY <1>1, <1>5, <3>1, <3>2, <3>4
      <4>4. ASSUME NEW i \in 1 .. (Len(reported') - 1)
            PROVE  reported'[i + 1][2] - reported'[i][2] >= RepeatTime
        <5>1. CASE i = Len(reported)
          BY <1>5, <3>4, <3>5, <4>1, <4>2, <5>1
        <5>2. CASE i # Len(reported)
          <6>1. i \in 1 .. (Len(reported) - 1) /\ i + 1 \in 1 .. Len(reported)
            BY <1>5, <3>4, <4>4, <5>2
          <6>2. reported'[i + 1] = reported[i + 1] /\ reported'[i] = reported[i]
            BY <1>5, <3>4, <6>1
          <6> QED
            BY <6>1, <6>2 DEF ReportsAreSpaced
        <5> QED
          BY <5>1, <5>2
      <4> QED
        BY <4>3, <4>4 DEF ReportsAreSpaced
    <3> QED
      BY <2>1, <2>2, <3>7, <3>8 DEF WatchdogKept
  <2> QED
    BY <2>4, <2>5
<1> QED
  BY <1>6, <1>7, <1>8, CheckKeeps DEF stall

\* A report that has been logged is counted, and the thread sleeps on.
LEMMA ReportKept ==
  ASSUME WatchdogInv, ParametersAssumption, WatchdogTypeOK',
         \/ WatchdogLogs /\ watchdog = "report"
         \/ WatchdogLogged /\ locals.stalledFrame # 0
  PROVE  WatchdogKept
<1> USE DEF WatchdogInv, Judging, Reporting
<1>1. /\ lastRenderFrame \in Nat /\ locals.frame \in Nat /\ locals.stalledFrame \in Nat
      /\ locals.reports \in Nat /\ MaxReports \in Nat
  BY DEF WatchdogTypeOK, Locals, ParametersAssumption
<1>2. /\ UNCHANGED <<lastRenderFrame, render, noted, flow, reported>>
      /\ watchdog \in Judging /\ watchdog' # "none"
  BY DEF WatchdogLogs, WatchdogLogged, Sleep, gameVars, history
<1>3. /\ locals'.stalledFrame = locals.stalledFrame
      /\ locals'.framesFlowing = locals.framesFlowing
      /\ locals'.previousFrame = locals.previousFrame
      /\ \/ /\ watchdog = "report" /\ watchdog' = "logging" /\ locals'.frame = locals.frame
            /\ locals'.reports = locals.reports + 1
            /\ locals'.nextReport = locals.now + RepeatTime
         \/ /\ watchdog = "logging" /\ watchdog' = "wait" /\ locals.stalledFrame # 0
            /\ locals'.reports = locals.reports /\ locals'.nextReport = locals.nextReport
  <2>1. CASE WatchdogLogs /\ watchdog = "report"
    BY <2>1, ReportKeeps DEF WatchdogLogs
  <2>2. CASE WatchdogLogged /\ locals.stalledFrame # 0
    <3>1. Sleep(locals) /\ watchdog = "logging" /\ clock \in Nat /\ locals \in Locals
      BY <2>2 DEF WatchdogLogged, WatchdogTypeOK
    <3> QED
      BY <2>2, <3>1, SleepKeeps
  <2> QED
    BY <2>1, <2>2
<1>4. reported # <<>> => reported[1][1] \in Nat
  BY ReportsAreTyped
<1>5. Joined' /\ ReportsAreSpaced'
  BY <1>2 DEF Joined, ReportsAreSpaced
<1>6. FlowIsCounted'
  BY <1>1, <1>2, <1>3 DEF FlowIsCounted, Armed
<1>7. StallIsKnown'
  BY <1>1, <1>2, <1>3, <1>4 DEF StallIsKnown, LastReport
<1> QED
  BY <1>5, <1>6, <1>7 DEF WatchdogKept

\* No step of either thread breaks the invariant.
LEMMA WatchdogStep ==
  WatchdogInv /\ ParametersAssumption /\ [WatchdogNext]_watchdogVars => WatchdogInv'
<1> SUFFICES ASSUME WatchdogInv, ParametersAssumption, [WatchdogNext]_watchdogVars
             PROVE  WatchdogInv'
  OBVIOUS
<1>1. WatchdogTypeOK' /\ HeldToCopyOnly'
  BY WatchdogTypes, HeldToCopyOnlyKept
<1>2. WatchdogKept
  <2>1. lastRenderFrame \in 0 .. clock /\ clock \in Nat /\ noted \in BOOLEAN
    BY DEF WatchdogInv, WatchdogTypeOK
  <2>2. CASE Join \/ Stopped \/ (StartRenderWatchdog /\ watchdog' # watchdog)
    BY <1>1, <2>2, AnewKeeps
  <2>3. CASE WatchdogWakesUp \/ Look \/ Check
    BY <1>1, <2>3, WakeUpKept, LookKept, CheckKept
  <2>4. CASE \/ WatchdogLogs /\ watchdog = "report"
             \/ WatchdogLogged /\ locals.stalledFrame # 0
    BY <1>1, <2>4, ReportKept
  <2>5. ASSUME \/ NoteRenderFrame \/ StopRenderWatchdog \/ RenderLogs \/ ClockTicks
               \/ UNCHANGED watchdogVars \/ (StartRenderWatchdog /\ watchdog' = watchdog)
        PROVE  WatchdogKept
    <3>1. /\ UNCHANGED <<locals, reported, flow, watchdog>>
          /\ lastRenderFrame <= lastRenderFrame'
          /\ lastRenderFrame' # lastRenderFrame => noted'
          /\ noted' = noted \/ noted' = TRUE
      <4>1. CASE NoteRenderFrame
        BY <2>1, <4>1 DEF NoteRenderFrame
      <4>2. CASE StartRenderWatchdog /\ watchdog' = watchdog
        BY <2>1, <4>2 DEF StartRenderWatchdog, Joinable
      <4>3. CASE StopRenderWatchdog \/ RenderLogs \/ ClockTicks \/ UNCHANGED watchdogVars
        BY <2>1, <4>3 DEF StopRenderWatchdog, RenderLogs, ClockTicks, watchdogVars, gameVars,
           history
      <4> QED
        BY <2>5, <4>1, <4>2, <4>3
    <3>2. /\ render' = "stop" => render = "stop" \/ watchdog = "none"
          /\ render = "stop" => render' = "stop"
      BY <2>5 DEF NoteRenderFrame, StopRenderWatchdog, RenderLogs, ClockTicks, watchdogVars,
         StartRenderWatchdog, InGame, Joinable
    <3> QED
      BY <1>1, <3>1, <3>2, WatchdogGoesOn DEF WatchdogKept
  <2>6. ASSUME \/ Exit \/ Locate \/ CopyStack \/ (WatchdogLogs /\ watchdog = "resumed")
               \/ (WatchdogLogged /\ locals.stalledFrame = 0)
        PROVE  WatchdogKept
    <3>1. /\ UNCHANGED <<reported, flow, lastRenderFrame, noted, render>>
      BY <2>6 DEF Exit, Locate, CopyStack, WatchdogLogs, WatchdogLogged, gameVars,
         history
    <3>2. locals' = locals
      BY <2>6 DEF Exit, Locate, CopyStack, WatchdogLogs, WatchdogLogged
    <3>3. \/ watchdog \in Reporting /\ watchdog' \in Reporting
          \/ watchdog = "wait" /\ watchdog' = "exited"
          \/ watchdog = "resumed" /\ watchdog' = "logging"
          \/ watchdog = "logging" /\ watchdog' = "check" /\ locals.stalledFrame = 0
      BY <2>6 DEF Exit, Locate, CopyStack, WatchdogLogs, WatchdogLogged, Reporting
    <3> QED
      BY <1>1, <2>1, <3>1, <3>2, <3>3, WatchdogGoesOn DEF WatchdogKept
  <2>7. WatchdogLogs => watchdog \in {"resumed", "report"}
    BY DEF WatchdogLogs
  <2> QED
    BY <2>2, <2>3, <2>4, <2>5, <2>6, <2>7 DEF WatchdogNext
<1> QED
  BY <1>1, <1>2 DEF WatchdogInv, WatchdogKept

\* The strengthening holds throughout: what the thread has counted, of which stall
\* its reports are, and who holds whom.
THEOREM WatchdogInvAlways ==
  ASSUME ParametersAssumption PROVE WatchdogSpec => []WatchdogInv
<1>1. WatchdogInit => WatchdogInv
  BY WatchdogInitially
<1>2. WatchdogInv /\ [WatchdogNext]_watchdogVars => WatchdogInv'
  BY WatchdogStep
<1> QED
  BY <1>1, <1>2, PTL DEF WatchdogSpec

\* "SC4 loads plugins on the render thread after its first Flush. That is not a
\* stall": no report is made before frames have come at ArmingTicks wake-ups in a row.
THEOREM ReportsFollowFlowingFramesAlways ==
  ASSUME ParametersAssumption PROVE WatchdogSpec => []ReportsFollowFlowingFrames
<1>1. WatchdogInv => ReportsFollowFlowingFrames
  BY DEF WatchdogInv, WatchdogTypeOK, FlowIsCounted, Judging, ReportsFollowFlowingFrames,
     ParametersAssumption
<1> QED
  BY <1>1, WatchdogInvAlways, PTL

\* However long one stall lasts, it is reported at most MaxReports times, and no two
\* reports of it are closer than RepeatTime (RunRenderWatchdog).
THEOREM ReportsAreSpacedAlways ==
  ASSUME ParametersAssumption PROVE WatchdogSpec => []ReportsAreSpaced
<1>1. WatchdogInv => ReportsAreSpaced
  BY DEF WatchdogInv
<1> QED
  BY <1>1, WatchdogInvAlways, PTL

\* While the watchdog holds the render thread it is at the copy of its registers and
\* neither has nor waits for the log, so that whatever lock the held thread has, the
\* next step of the watchdog lets it go on (LogRenderThreadLocation).
THEOREM HeldToCopyOnlyAlways ==
  ASSUME ParametersAssumption PROVE WatchdogSpec => []HeldToCopyOnly
<1>1. WatchdogInv => HeldToCopyOnly
  BY DEF WatchdogInv
<1> QED
  BY <1>1, WatchdogInvAlways, PTL

-----------------------------------------------------------------------------
(* The device and the textures: the inductive invariant and its parts.     *)

Texture == [named : BOOLEAN, shape : Shapes \cup {0}, resource : BOOLEAN,
            levels : Seq(Pixels \cup {Blank})]

TexturesTyped ==
  /\ textures \in [TextureNames -> Texture]
  /\ \A t \in TextureNames : Len(textures[t].levels) <= textures[t].shape
  /\ boundTextures \in [Stages -> TextureNames \cup {NoTexture}]
  /\ views \in [Stages -> [name : TextureNames \cup {NoTexture},
                           view : {"unknown", "null", "live", "gone"}]]
  /\ samplers \subseteq Stages

\* DeviceTypeOK without the delay, whose powers of two are a matter of arithmetic.
LifecycleTyped ==
  /\ initialized \in BOOLEAN
  /\ mode \in Modes \cup {NoMode}
  /\ device \in BOOLEAN /\ targets \in BOOLEAN
  /\ removed \in BOOLEAN /\ lost \in BOOLEAN
  /\ generation \in Generations
  /\ window \in Windows \cup {NoWindow}
  /\ client \in Sizes \cup {0} /\ size \in Sizes \cup {0}
  /\ TexturesTyped
  /\ failures \in 0 .. MaxFailures
  /\ shown \subseteq Generations
  /\ told \in [Generations -> 0 .. 2]

\* A name given back keeps nothing, and pixels are in resources only.
PixelsHaveResources ==
  \A t \in TextureNames :
    /\ ~textures[t].named => /\ textures[t].shape = 0 /\ ~textures[t].resource
                             /\ textures[t].levels = <<>>
    /\ ~textures[t].resource =>
         \A i \in 1 .. Len(textures[t].levels) : textures[t].levels[i] = Blank

\* A cached pointer is right about the name it was looked up for, whether that
\* is still bound or may be bound again.
ViewsAreCurrent ==
  \A s \in Stages : views[s].view # "unknown" => views[s].view = ViewOf(views[s].name)

\* A stage is bound to a name in the map, or to none.
BoundNamesExist ==
  \A s \in Stages : boundTextures[s] # NoTexture => textures[boundTextures[s]].named

\* What draws rely on.
TexturesServe ==
  /\ IsDeviceReady => \A t \in TextureNames : textures[t].shape # 0 => textures[t].resource
  /\ samplers # {} => device

\* The device there is has not been announced, nor has one that is yet to come.
AnnouncedInOrder ==
  /\ device => told[generation] = 0
  /\ \A g \in Generations : g > generation => told[g] = 0
  /\ ShownGenerationsAreAnnounced

\* The bound of the model: the last generation's device stays until SC4 leaves.
LastDeviceStays ==
  generation = MaxGeneration /\ mode # NoMode => IsDeviceReady /\ ~lost /\ ~removed

TexturesInv == TexturesTyped /\ PixelsHaveResources /\ ViewsAreCurrent /\ BoundNamesExist

DeviceInv ==
  /\ LifecycleTyped /\ TexturesInv /\ TexturesServe
  /\ AnnouncedInOrder /\ LastDeviceStays

\* What a draw can count on: every texture with a size has its resource.
AllServed == \A t \in TextureNames : textures[t].shape # 0 => textures[t].resource

\* A step on the textures forgets no name, and no filled level of a shape that stays.
NamesKept == \A t \in TextureNames : textures[t].named => textures'[t].named
LevelsKept ==
  \A t \in TextureNames : \A i \in 1 .. Len(textures[t].levels) :
    \/ textures[t].levels[i] = Blank
    \/ i <= Len(textures'[t].levels) /\ textures'[t].levels[i] # Blank
    \/ textures'[t].shape # textures[t].shape

\* A texture's blank levels are levels, as many as asked for.
LEMMA BlankLevelsAreTyped ==
  ASSUME NEW n \in Nat
  PROVE  /\ BlankLevels(n) \in Seq(Pixels \cup {Blank}) /\ Len(BlankLevels(n)) = n
         /\ \A i \in 1 .. n : BlankLevels(n)[i] = Blank
<1>1. \A i \in 1 .. n : Blank \in Pixels \cup {Blank}
  OBVIOUS
<1> QED
  BY <1>1, IsASeq, LenProperties DEF BlankLevels

\* A texture of the map.
LEMMA TextureIsTyped ==
  ASSUME TexturesTyped, NEW t \in TextureNames
  PROVE  /\ textures[t] \in Texture
         /\ textures[t].named \in BOOLEAN /\ textures[t].resource \in BOOLEAN
         /\ textures[t].shape \in Nat
         /\ textures[t].levels \in Seq(Pixels \cup {Blank})
         /\ Len(textures[t].levels) \in Nat /\ Len(textures[t].levels) <= textures[t].shape
<1>1. textures[t] \in Texture
  BY DEF TexturesTyped
<1>2. textures[t].levels \in Seq(Pixels \cup {Blank})
  BY <1>1 DEF Texture
<1>3. Len(textures[t].levels) \in Nat
  BY <1>2, LenProperties
<1>4. textures[t].shape \in Nat
  <2>1. textures[t].shape \in Shapes \cup {0}
    BY <1>1 DEF Texture
  <2>2. \A shape \in Shapes : shape \in Nat
    BY ShapesAssumption
  <2> QED
    BY <2>1, <2>2
<1>5. textures[t].named \in BOOLEAN /\ textures[t].resource \in BOOLEAN
  BY <1>1 DEF Texture
<1>6. Len(textures[t].levels) <= textures[t].shape
  BY DEF TexturesTyped
<1> QED
  BY <1>1, <1>2, <1>3, <1>4, <1>5, <1>6

\* Growing a texture adds blank levels and keeps the ones it has.
LEMMA GrownIsTyped ==
  ASSUME TexturesTyped, NEW t \in TextureNames
  PROVE  /\ Grown(t) \in Seq(Pixels \cup {Blank}) /\ Len(Grown(t)) = textures[t].shape
         /\ \A i \in 1 .. Len(textures[t].levels) :
              i \in 1 .. textures[t].shape /\ Grown(t)[i] = textures[t].levels[i]
<1>1. /\ textures[t].shape \in Nat
      /\ textures[t].levels \in Seq(Pixels \cup {Blank})
      /\ Len(textures[t].levels) \in Nat /\ Len(textures[t].levels) <= textures[t].shape
  BY TextureIsTyped
<1>2. \A i \in 1 .. Len(textures[t].levels) : textures[t].levels[i] \in Pixels \cup {Blank}
  BY <1>1, ElementOfSeq
<1>3. \A i \in 1 .. textures[t].shape : Grown(t)[i] \in Pixels \cup {Blank}
  BY <1>1, <1>2 DEF Grown
<1>4. Grown(t) \in Seq(Pixels \cup {Blank}) /\ Len(Grown(t)) = textures[t].shape
  BY <1>1, <1>3, IsASeq, LenProperties DEF Grown
<1> QED
  BY <1>1, <1>4 DEF Grown

\* An upload into one level of a texture.
LEMMA LoadedIsTyped ==
  ASSUME NEW entry \in Texture, NEW level \in Nat, NEW pixels \in Pixels \cup {Blank}
  PROVE  /\ Loaded(entry, level, pixels) \in Texture
         /\ Loaded(entry, level, pixels).named = entry.named
         /\ Loaded(entry, level, pixels).shape = entry.shape
         /\ Loaded(entry, level, pixels).resource = entry.resource
         /\ Len(Loaded(entry, level, pixels).levels) = Len(entry.levels)
         /\ \A i \in 1 .. Len(entry.levels) :
              \/ Loaded(entry, level, pixels).levels[i] = entry.levels[i]
              \/ Loaded(entry, level, pixels).levels[i] # Blank
<1>1. CASE pixels = Blank
  BY <1>1 DEF Loaded
<1>2. CASE pixels # Blank
  <2> DEFINE filled == [entry.levels EXCEPT ![level] = pixels]
             new == [entry EXCEPT !.levels = filled]
  <2>1. entry.levels \in Seq(Pixels \cup {Blank})
    BY DEF Texture
  <2>2. /\ filled \in Seq(Pixels \cup {Blank}) /\ Len(filled) = Len(entry.levels)
        /\ \A i \in 1 .. Len(entry.levels) :
             filled[i] = IF i = level THEN pixels ELSE entry.levels[i]
    <3>1. CASE level \in 1 .. Len(entry.levels)
      BY <2>1, <3>1, ExceptSeq
    <3>2. CASE level \notin 1 .. Len(entry.levels)
      <4>1. DOMAIN entry.levels = 1 .. Len(entry.levels)
        BY <2>1, LenProperties
      <4>2. filled = entry.levels
        BY <2>1, <3>2, <4>1, LenProperties
      <4> QED
        BY <2>1, <3>2, <4>2
    <3> QED
      BY <3>1, <3>2
  <2>3. Loaded(entry, level, pixels) = new
    BY <1>2 DEF Loaded
  <2> HIDE DEF filled
  <2>4. new \in Texture /\ new.levels = filled
    BY <2>2 DEF Texture
  <2>5. new.named = entry.named /\ new.shape = entry.shape /\ new.resource = entry.resource
    BY DEF Texture
  <2> QED
    BY <1>2, <2>2, <2>3, <2>4, <2>5
<1> QED
  BY <1>1, <1>2

\* One texture of the map gets a new entry.
LEMMA EntryChanges ==
  ASSUME TexturesTyped, NEW t \in TextureNames, NEW entry \in Texture,
         textures' = [textures EXCEPT ![t] = entry]
  PROVE  /\ textures' \in [TextureNames -> Texture]
         /\ textures'[t] = entry
         /\ \A u \in TextureNames \ {t} : textures'[u] = textures[u]
BY DEF TexturesTyped

\* What no step on the textures breaks, while the device stays.
TexturesKept == TexturesInv' /\ (AllServed => AllServed') /\ LevelsKept

\* Views that are forgotten are well typed, and none is taken for known.
LEMMA ForgottenViews ==
  /\ ForgetViews \in [Stages -> [name : TextureNames \cup {NoTexture},
                                 view : {"unknown", "null", "live", "gone"}]]
  /\ \A s \in Stages : ForgetViews[s].view = "unknown"
BY DEF ForgetViews, NotCached

\* One texture of the map becomes another one that has a name.
LEMMA EntryKept ==
  ASSUME TexturesInv, NEW t \in TextureNames, NEW entry \in Texture,
         textures' = [textures EXCEPT ![t] = entry],
         entry.named, Len(entry.levels) <= entry.shape,
         ~entry.resource => \A i \in 1 .. Len(entry.levels) : entry.levels[i] = Blank,
         entry.shape # 0 => entry.resource \/ (textures[t].shape # 0 /\ ~textures[t].resource),
         \A i \in 1 .. Len(textures[t].levels) :
           \/ textures[t].levels[i] = Blank
           \/ i <= Len(entry.levels) /\ entry.levels[i] # Blank
           \/ entry.shape # textures[t].shape,
         boundTextures' \in [Stages -> TextureNames \cup {NoTexture}],
         \A s \in Stages : boundTextures'[s] \in {boundTextures[s], t},
         \/ views' = ForgetViews
         \/ /\ views' = views
            /\ entry.resource <=> textures[t].named /\ textures[t].resource,
         samplers' \subseteq Stages
  PROVE  TexturesKept /\ NamesKept
<1>1. /\ textures' \in [TextureNames -> Texture] /\ textures'[t] = entry
      /\ \A u \in TextureNames \ {t} : textures'[u] = textures[u]
  BY EntryChanges DEF TexturesInv
<1>2. TexturesTyped'
  BY <1>1, ForgottenViews DEF TexturesInv, TexturesTyped
<1>3. PixelsHaveResources'
  <2> SUFFICES ASSUME NEW u \in TextureNames
               PROVE  /\ ~textures'[u].named =>
                           /\ textures'[u].shape = 0 /\ ~textures'[u].resource
                           /\ textures'[u].levels = <<>>
                      /\ ~textures'[u].resource =>
                           \A i \in 1 .. Len(textures'[u].levels) :
                             textures'[u].levels[i] = Blank
    BY DEF PixelsHaveResources
  <2>1. CASE u = t
    BY <1>1, <2>1
  <2>2. CASE u # t
    BY <1>1, <2>2 DEF TexturesInv, PixelsHaveResources
  <2> QED
    BY <2>1, <2>2
<1>4. ViewsAreCurrent'
  <2>1. CASE views' = ForgetViews
    BY <2>1, ForgottenViews DEF ViewsAreCurrent
  <2>2. CASE /\ views' = views
             /\ entry.resource <=> textures[t].named /\ textures[t].resource
    <3>1. \A u \in TextureNames \cup {NoTexture} : ViewOf(u)' = ViewOf(u)
      BY <1>1, <2>2, TextureNamesAssumption DEF ViewOf
    <3>2. \A s \in Stages : views[s].name \in TextureNames \cup {NoTexture}
      BY DEF TexturesInv, TexturesTyped
    <3> QED
      BY <2>2, <3>1, <3>2 DEF TexturesInv, ViewsAreCurrent
  <2> QED
    BY <2>1, <2>2
<1>5. AllServed => AllServed'
  BY <1>1 DEF AllServed
<1>6. NamesKept
  BY <1>1 DEF NamesKept
<1>7. BoundNamesExist'
  <2>1. ASSUME NEW s \in Stages, boundTextures'[s] # NoTexture
        PROVE  textures'[boundTextures'[s]].named
    <3>1. CASE boundTextures'[s] = t
      BY <1>1, <3>1
    <3>2. CASE boundTextures'[s] # t
      <4>1. boundTextures'[s] = boundTextures[s] /\ boundTextures[s] \in TextureNames
        BY <2>1, <3>2 DEF TexturesInv, TexturesTyped
      <4> QED
        BY <1>1, <2>1, <3>2, <4>1 DEF TexturesInv, BoundNamesExist
    <3> QED
      BY <3>1, <3>2
  <2> QED
    BY <2>1 DEF BoundNamesExist
<1>8. LevelsKept
  <2> SUFFICES ASSUME NEW u \in TextureNames, NEW i \in 1 .. Len(textures[u].levels)
               PROVE  \/ textures[u].levels[i] = Blank
                      \/ i <= Len(textures'[u].levels) /\ textures'[u].levels[i] # Blank
                      \/ textures'[u].shape # textures[u].shape
    BY DEF LevelsKept
  <2>1. CASE u = t
    BY <1>1, <2>1
  <2>2. CASE u # t
    <3>1. Len(textures[u].levels) \in Nat
      BY TextureIsTyped DEF TexturesInv
    <3> QED
      BY <1>1, <2>2, <3>1
  <2> QED
    BY <2>1, <2>2
<1> QED
  BY <1>2, <1>3, <1>4, <1>5, <1>6, <1>7, <1>8 DEF TexturesKept, TexturesInv

\* Steps on stages alone.
LEMMA StagesKept ==
  ASSUME TexturesInv, textures' = textures,
         boundTextures' \in [Stages -> TextureNames \cup {NoTexture}],
         \A s \in Stages : boundTextures'[s] # NoTexture => textures[boundTextures'[s]].named,
         views' = views \/ views' = ForgetViews,
         samplers' \subseteq Stages
  PROVE  TexturesKept /\ NamesKept
<1>1. TexturesTyped'
  BY ForgottenViews DEF TexturesInv, TexturesTyped
<1>2. PixelsHaveResources'
  BY DEF TexturesInv, PixelsHaveResources
<1>3. ViewsAreCurrent'
  BY ForgottenViews DEF TexturesInv, ViewsAreCurrent, ViewOf
<1>4. LevelsKept
  <2>1. \A u \in TextureNames : Len(textures[u].levels) \in Nat
    BY TextureIsTyped DEF TexturesInv
  <2> QED
    BY <2>1 DEF LevelsKept
<1>5. BoundNamesExist'
  BY DEF BoundNamesExist
<1> QED
  BY <1>1, <1>2, <1>3, <1>4, <1>5 DEF TexturesKept, TexturesInv, NamesKept, AllServed

\* GenTextures names an unused texture and leaves the others alone.
LEMMA GenTexturesKept ==
  ASSUME TexturesInv, NEW t \in TextureNames, GenTextures(t)
  PROVE  TexturesKept /\ NamesKept
<1>1. /\ textures' = [textures EXCEPT ![t] = Named] /\ ~textures[t].named
      /\ boundTextures' = boundTextures /\ views' = views /\ samplers' = samplers
  BY DEF GenTextures
<1>2. <<>> \in Seq(Pixels \cup {Blank}) /\ Len(<<>>) = 0
  BY EmptySeq
<1>3. Unused \in Texture
  BY <1>2 DEF Texture, Unused
<1>4. /\ Named \in Texture /\ Named.named /\ Named.shape = 0 /\ ~Named.resource
      /\ Named.levels = <<>>
  BY <1>3 DEF Named, Unused, Texture
<1>5. textures[t].levels = <<>>
  BY <1>1 DEF TexturesInv, PixelsHaveResources, Unused
<1>6. /\ Len(Named.levels) <= Named.shape
      /\ \A i \in 1 .. Len(Named.levels) : Named.levels[i] = Blank
      /\ \A i \in 1 .. Len(textures[t].levels) : textures[t].levels[i] = Blank
  BY <1>2, <1>4, <1>5
<1>7. boundTextures' \in [Stages -> TextureNames \cup {NoTexture}] /\ samplers' \subseteq Stages
  BY <1>1 DEF TexturesInv, TexturesTyped
<1>8. \A s \in Stages : boundTextures'[s] \in {boundTextures[s], t}
  BY <1>1
<1>9. Named.resource <=> textures[t].named /\ textures[t].resource
  BY <1>1, <1>4
<1> QED
  BY <1>1, <1>4, <1>6, <1>7, <1>8, <1>9, EntryKept

\* Deleting a texture is SC4's way to forget it.
LEMMA DeleteTexturesKept ==
  ASSUME TexturesInv, NEW t \in TextureNames, DeleteTextures({t})
  PROVE  TexturesKept
<1>1. /\ textures' = [u \in TextureNames |-> IF u = t THEN Unused ELSE textures[u]]
      /\ boundTextures' \in [Stages -> TextureNames \cup {NoTexture}]
      /\ views' = ForgetViews /\ samplers' = samplers
  BY DEF DeleteTextures, TexturesInv, TexturesTyped
<1>2. <<>> \in Seq(Pixels \cup {Blank}) /\ Len(<<>>) = 0
  BY EmptySeq
<1>3. /\ Unused \in Texture /\ Unused.shape = 0 /\ ~Unused.resource /\ ~Unused.named
      /\ Unused.levels = <<>> /\ Len(Unused.levels) = 0
  BY <1>2 DEF Unused, Texture
<1>4. \A u \in TextureNames : textures'[u] = IF u = t THEN Unused ELSE textures[u]
  BY <1>1
<1>5. TexturesTyped'
  <2>1. textures' \in [TextureNames -> Texture]
    BY <1>1, <1>3 DEF TexturesInv, TexturesTyped
  <2> QED
    BY <1>1, <1>3, <1>4, <2>1, ForgottenViews DEF TexturesInv, TexturesTyped
<1>6. PixelsHaveResources'
  BY <1>3, <1>4 DEF TexturesInv, PixelsHaveResources
<1>7. ViewsAreCurrent'
  BY <1>1, ForgottenViews DEF ViewsAreCurrent
<1>8. AllServed => AllServed'
  BY <1>3, <1>4 DEF AllServed
<1>9. LevelsKept
  <2>1. \A u \in TextureNames :
          /\ Len(textures[u].levels) \in Nat /\ textures[u].shape \in Nat
          /\ Len(textures[u].levels) <= textures[u].shape
    BY TextureIsTyped DEF TexturesInv
  <2> QED
    BY <1>3, <1>4, <2>1 DEF LevelsKept
<1>10. BoundNamesExist'
  <2>1. ASSUME NEW s \in Stages, boundTextures'[s] # NoTexture
        PROVE  textures'[boundTextures'[s]].named
    <3>1. boundTextures[s] \in TextureNames /\ boundTextures[s] # t
            /\ boundTextures'[s] = boundTextures[s]
      BY <2>1 DEF DeleteTextures, TexturesInv, TexturesTyped
    <3> QED
      BY <1>4, <2>1, <3>1 DEF TexturesInv, BoundNamesExist
  <2> QED
    BY <2>1 DEF BoundNamesExist
<1> QED
  BY <1>5, <1>6, <1>7, <1>8, <1>9, <1>10 DEF TexturesKept, TexturesInv

\* Binding a texture or setting its sampler changes no texture.
LEMMA BindTextureKept ==
  ASSUME TexturesInv, NEW s \in Stages,
         \/ \E t \in TextureNames \cup {NoTexture} : BindTexture(s, t)
         \/ TexParameter(s)
  PROVE  TexturesKept /\ NamesKept
<1>1. /\ boundTextures \in [Stages -> TextureNames \cup {NoTexture}] /\ samplers \subseteq Stages
  BY DEF TexturesInv, TexturesTyped
<1>2. /\ textures' = textures /\ views' = views /\ samplers' \subseteq Stages
      /\ boundTextures' \in [Stages -> TextureNames \cup {NoTexture}]
  BY <1>1 DEF BindTexture, TexParameter
<1>3. \A z \in Stages : boundTextures'[z] # NoTexture => textures[boundTextures'[z]].named
  BY <1>1 DEF BindTexture, TexParameter, TexturesInv, BoundNamesExist
<1> QED
  BY <1>2, <1>3, StagesKept

\* LoadTextureLevel changes the one level it loads, which is SC4's own doing.
LEMMA LoadTextureLevelKept ==
  ASSUME TexturesInv, NEW t \in TextureNames, NEW level \in Shapes, NEW pixels \in Pixels,
         LoadTextureLevel(t, level, pixels)
  PROVE  TexturesKept /\ NamesKept
<1> DEFINE entry == Loaded(textures[t], level, pixels)
<1>1. /\ textures' = [textures EXCEPT ![t] = entry] /\ textures[t].named /\ textures[t].resource
      /\ boundTextures' = boundTextures /\ views' = views /\ samplers' = samplers
  BY DEF LoadTextureLevel
<1>2. /\ textures[t] \in Texture /\ level \in Nat /\ Len(textures[t].levels) \in Nat
      /\ Len(textures[t].levels) <= textures[t].shape
  BY TextureIsTyped, ShapesAssumption DEF TexturesInv
<1>3. /\ entry \in Texture /\ entry.named = textures[t].named
      /\ entry.shape = textures[t].shape /\ entry.resource = textures[t].resource
      /\ Len(entry.levels) = Len(textures[t].levels)
      /\ \A i \in 1 .. Len(textures[t].levels) :
           entry.levels[i] = textures[t].levels[i] \/ entry.levels[i] # Blank
  BY <1>2, LoadedIsTyped
<1>4. /\ boundTextures' \in [Stages -> TextureNames \cup {NoTexture}]
      /\ samplers' \subseteq Stages
      /\ \A s \in Stages : boundTextures'[s] \in {boundTextures[s], t}
  BY <1>1 DEF TexturesInv, TexturesTyped
<1> HIDE DEF entry
<1>5. \A i \in 1 .. Len(textures[t].levels) :
        \/ textures[t].levels[i] = Blank
        \/ i <= Len(entry.levels) /\ entry.levels[i] # Blank
        \/ entry.shape # textures[t].shape
  BY <1>2, <1>3
<1> QED
  BY <1>1, <1>2, <1>3, <1>4, <1>5, EntryKept

\* A draw looks a name up, or relies on what it found for it before.
LEMMA UseTextureKept ==
  ASSUME TexturesInv, NEW s \in Stages, NEW made \in BOOLEAN, UseTexture(s, made)
  PROVE  TexturesKept /\ NamesKept
<1> DEFINE known == views[s].view # "unknown" /\ views[s].name = boundTextures[s]
           view == IF known THEN views[s].view ELSE ViewOf(boundTextures[s])
           looked == [name |-> boundTextures[s], view |-> view]
<1>1. /\ views' = [views EXCEPT ![s] = looked]
      /\ textures' = textures /\ boundTextures' = boundTextures
      /\ samplers' \subseteq samplers \cup {s}
  BY DEF UseTexture
<1>2. /\ boundTextures \in [Stages -> TextureNames \cup {NoTexture}]
      /\ samplers \subseteq Stages
      /\ views \in [Stages -> [name : TextureNames \cup {NoTexture},
                               view : {"unknown", "null", "live", "gone"}]]
  BY DEF TexturesInv, TexturesTyped
<1>3. view = ViewOf(boundTextures[s]) /\ view \in {"null", "live"}
  BY <1>2 DEF TexturesInv, ViewsAreCurrent, ViewOf
<1> HIDE DEF view
<1>4. views' \in [Stages -> [name : TextureNames \cup {NoTexture},
                             view : {"unknown", "null", "live", "gone"}]]
  BY <1>1, <1>2, <1>3
<1>5. TexturesTyped'
  BY <1>1, <1>2, <1>4 DEF TexturesInv, TexturesTyped
<1>6. PixelsHaveResources' /\ BoundNamesExist' /\ (AllServed => AllServed') /\ NamesKept
  BY <1>1 DEF TexturesInv, PixelsHaveResources, BoundNamesExist, AllServed, NamesKept
<1>7. ViewsAreCurrent'
  <2>1. \A t : ViewOf(t)' = ViewOf(t)
    BY <1>1 DEF ViewOf
  <2>2. ASSUME NEW z \in Stages, views'[z].view # "unknown"
        PROVE  views'[z].view = ViewOf(views'[z].name)
    <3>1. CASE z = s
      BY <1>1, <1>2, <1>3, <3>1
    <3>2. CASE z # s
      BY <1>1, <1>2, <2>2, <3>2 DEF TexturesInv, ViewsAreCurrent
    <3> QED
      BY <3>1, <3>2
  <2> QED
    BY <2>1, <2>2 DEF ViewsAreCurrent
<1>8. LevelsKept
  <2>1. \A u \in TextureNames : Len(textures[u].levels) \in Nat
    BY TextureIsTyped DEF TexturesInv
  <2> QED
    BY <1>1, <2>1 DEF LevelsKept
<1> QED
  BY <1>5, <1>6, <1>7, <1>8 DEF TexturesKept, TexturesInv

\* A name with its whole chain, or the name given back.
LEMMA CreateTextureKept ==
  ASSUME TexturesInv, NEW s \in Stages, NEW t \in TextureNames, NEW shape \in Shapes,
         NEW n \in 1 .. shape, NEW created \in BOOLEAN, CreateTexture(s, t, shape, n, created)
  PROVE  TexturesKept /\ NamesKept
<1>1. CASE created
  <2> DEFINE entry == [named |-> TRUE, shape |-> shape, resource |-> TRUE,
                       levels |-> BlankLevels(n)]
  <2>1. /\ textures' = [textures EXCEPT ![t] = entry] /\ ~textures[t].named
        /\ views' = ForgetViews /\ samplers' = samplers
        /\ boundTextures' = [boundTextures EXCEPT ![s] = t]
    BY <1>1 DEF CreateTexture, Created, ViewsAfterCreating
  <2>2. shape \in Nat /\ n \in Nat /\ n <= shape
    BY ShapesAssumption
  <2>3. BlankLevels(n) \in Seq(Pixels \cup {Blank}) /\ Len(BlankLevels(n)) = n
    BY <2>2, BlankLevelsAreTyped
  <2>4. /\ entry \in Texture /\ entry.named /\ entry.resource
        /\ Len(entry.levels) <= entry.shape
    BY <2>2, <2>3 DEF Texture
  <2>5. textures[t].levels = <<>> /\ Len(<<>>) = 0
    BY <2>1, EmptySeq DEF TexturesInv, PixelsHaveResources, Unused
  <2>6. \A i \in 1 .. Len(textures[t].levels) : textures[t].levels[i] = Blank
    BY <2>5
  <2>7. /\ boundTextures' \in [Stages -> TextureNames \cup {NoTexture}]
        /\ samplers' \subseteq Stages
        /\ \A z \in Stages : boundTextures'[z] \in {boundTextures[z], t}
    BY <2>1 DEF TexturesInv, TexturesTyped
  <2> HIDE DEF entry
  <2> QED
    BY <2>1, <2>4, <2>6, <2>7, EntryKept
<1>2. CASE ~created
  <2>1. textures' = textures /\ boundTextures' = boundTextures /\ views' = ForgetViews
    BY <1>2 DEF CreateTexture
  <2>2. samplers' = samplers
    BY DEF CreateTexture
  <2> QED
    BY <2>1, <2>2, StagesKept DEF TexturesInv, TexturesTyped, BoundNamesExist
<1> QED
  BY <1>1, <1>2

\* A level of the bound texture, of which a new resource keeps all there was.
LEMMA TexImage2DKept ==
  ASSUME TexturesInv, NEW s \in Stages, NEW level \in Nat, NEW shape \in Shapes,
         NEW pixels \in Pixels \cup {Blank}, NEW created \in BOOLEAN,
         TexImage2D(s, level, shape, pixels, created)
  PROVE  TexturesKept /\ NamesKept
<1> DEFINE t == boundTextures[s]
           levels == IF level = 1 THEN BlankLevels(1) ELSE Grown(t)
           recreated == [textures[t] EXCEPT !.shape = shape, !.resource = TRUE,
                                            !.levels = levels]
<1>1. /\ t # NoTexture /\ level \in 1 .. shape
      /\ level > 1 => textures[t].resource /\ textures[t].shape = shape
      /\ boundTextures' = boundTextures /\ samplers' = samplers
  BY DEF TexImage2D
<1>2. t \in TextureNames /\ textures[t].named
  BY <1>1 DEF TexturesInv, TexturesTyped, BoundNamesExist
<1>3. /\ textures[t] \in Texture /\ Len(textures[t].levels) \in Nat
      /\ textures[t].levels \in Seq(Pixels \cup {Blank})
      /\ Len(textures[t].levels) <= textures[t].shape /\ shape \in Nat
      /\ textures[t].shape \in Nat
  BY <1>2, TextureIsTyped, ShapesAssumption DEF TexturesInv
<1>4. /\ boundTextures' \in [Stages -> TextureNames \cup {NoTexture}]
      /\ samplers' \subseteq Stages
      /\ \A z \in Stages : boundTextures'[z] \in {boundTextures[z], t}
      /\ \A z \in Stages : boundTextures'[z] # NoTexture => textures[boundTextures'[z]].named
  BY <1>1 DEF TexturesInv, TexturesTyped, BoundNamesExist
<1>5. CASE ~NeedsResource(t, level, shape)
  <2> DEFINE entry == Loaded(textures[t], level, pixels)
  <2>1. textures' = [textures EXCEPT ![t] = entry] /\ views' = views
    BY <1>5 DEF TexImage2D
  <2>2. /\ entry \in Texture /\ entry.named = textures[t].named
        /\ entry.shape = textures[t].shape /\ entry.resource = textures[t].resource
        /\ Len(entry.levels) = Len(textures[t].levels)
        /\ \A i \in 1 .. Len(textures[t].levels) :
             entry.levels[i] = textures[t].levels[i] \/ entry.levels[i] # Blank
    BY <1>3, LoadedIsTyped
  <2>3. textures[t].resource
    BY <1>1, <1>3, <1>5 DEF NeedsResource
  <2> HIDE DEF entry
  <2>4. \A i \in 1 .. Len(textures[t].levels) :
          \/ textures[t].levels[i] = Blank
          \/ i <= Len(entry.levels) /\ entry.levels[i] # Blank
          \/ entry.shape # textures[t].shape
    BY <1>3, <2>2
  <2> QED
    BY <1>2, <1>3, <1>4, <2>1, <2>2, <2>3, <2>4, EntryKept
<1>6. CASE NeedsResource(t, level, shape) /\ created
  <2> DEFINE entry == Loaded(recreated, level, pixels)
  <2>1. textures' = [textures EXCEPT ![t] = entry] /\ views' = ForgetViews
    BY <1>6 DEF TexImage2D, ViewsAfterCreating
  <2>2. /\ levels \in Seq(Pixels \cup {Blank}) /\ Len(levels) \in Nat /\ Len(levels) <= shape
        /\ level # 1 => /\ Len(levels) = shape /\ Len(textures[t].levels) <= shape
                        /\ \A i \in 1 .. Len(textures[t].levels) :
                             levels[i] = textures[t].levels[i]
    <3>1. CASE level = 1
      BY <1>1, <1>3, <3>1, BlankLevelsAreTyped
    <3>2. CASE level # 1
      BY <1>1, <1>2, <1>3, <3>2, GrownIsTyped DEF TexturesInv
    <3> QED
      BY <3>1, <3>2
  <2> HIDE DEF levels
  <2>3. /\ recreated \in Texture /\ recreated.named = textures[t].named
        /\ recreated.shape = shape /\ recreated.resource /\ recreated.levels = levels
    BY <1>3, <2>2 DEF Texture
  <2> HIDE DEF recreated
  <2>4. /\ entry \in Texture /\ entry.named = recreated.named
        /\ entry.shape = shape /\ entry.resource = recreated.resource
        /\ Len(entry.levels) = Len(levels)
        /\ \A i \in 1 .. Len(levels) : entry.levels[i] = levels[i] \/ entry.levels[i] # Blank
    <3>1. /\ entry \in Texture /\ entry.named = recreated.named
          /\ entry.shape = recreated.shape /\ entry.resource = recreated.resource
          /\ Len(entry.levels) = Len(recreated.levels)
          /\ \A i \in 1 .. Len(recreated.levels) :
               entry.levels[i] = recreated.levels[i] \/ entry.levels[i] # Blank
      <4>1. recreated \in Texture
        BY <2>3
      <4> QED
        BY <4>1, LoadedIsTyped, Zenon
    <3> HIDE DEF entry
    <3> QED
      BY <2>3, <3>1
  <2> HIDE DEF entry
  <2>5. \A i \in 1 .. Len(textures[t].levels) :
          \/ textures[t].levels[i] = Blank
          \/ i <= Len(entry.levels) /\ entry.levels[i] # Blank
          \/ entry.shape # textures[t].shape
    <3>1. CASE level # 1
      BY <1>3, <2>2, <2>4, <3>1
    <3>2. CASE level = 1
      BY <1>2, <1>6, <2>4, <3>2 DEF NeedsResource, TexturesInv, PixelsHaveResources
    <3> QED
      BY <3>1, <3>2
  <2> QED
    BY <1>2, <1>4, <2>1, <2>2, <2>3, <2>4, <2>5, EntryKept
<1>7. CASE NeedsResource(t, level, shape) /\ ~created
  <2>1. textures' = textures /\ views' = views
    BY <1>7 DEF TexImage2D
  <2> QED
    BY <1>4, <2>1, StagesKept
<1> QED
  BY <1>5, <1>6, <1>7

\* What a texture keeps when the device goes: its name and its shape, or nothing.
LEMMA DestroyedIsTyped ==
  ASSUME TexturesInv, NEW keep \in BOOLEAN, NEW t \in TextureNames
  PROVE  LET gone == Destroyed(keep)[t] IN
         /\ gone \in Texture /\ gone.resource = FALSE
         /\ keep => gone.named = textures[t].named
         /\ Len(gone.levels) <= gone.shape
         /\ \A i \in 1 .. Len(gone.levels) : gone.levels[i] = Blank
         /\ ~gone.named => gone.shape = 0 /\ gone.levels = <<>>
<1> DEFINE gone == Destroyed(keep)[t]
           n == Len(textures[t].levels)
           levels == BlankLevels(n)
           kept == [textures[t] EXCEPT !.resource = FALSE, !.levels = levels]
<1>1. /\ textures[t] \in Texture /\ n \in Nat /\ n <= textures[t].shape
  BY TextureIsTyped DEF TexturesInv
<1>2. CASE ~keep
  <2>1. gone = Unused /\ <<>> \in Seq(Pixels \cup {Blank}) /\ Len(<<>>) = 0
    BY <1>2, EmptySeq DEF Destroyed
  <2> HIDE DEF gone
  <2>2. /\ gone \in Texture /\ gone.resource = FALSE /\ gone.shape = 0 /\ gone.levels = <<>>
    BY <2>1 DEF Unused, Texture
  <2> QED
    BY <1>2, <2>1, <2>2 DEF gone
<1>3. CASE keep
  <2>1. gone = kept
    BY <1>3 DEF Destroyed
  <2>2. /\ levels \in Seq(Pixels \cup {Blank}) /\ Len(levels) = n
        /\ \A i \in 1 .. n : levels[i] = Blank
    BY <1>1, BlankLevelsAreTyped
  <2> HIDE DEF gone, levels
  <2>3. /\ gone \in Texture /\ gone.resource = FALSE /\ gone.levels = levels
        /\ gone.named = textures[t].named /\ gone.shape = textures[t].shape
    BY <1>1, <2>1, <2>2 DEF Texture
  <2>4. ~gone.named => gone.shape = 0 /\ gone.levels = <<>>
    <3>1. ~gone.named => gone.shape = 0 /\ n = 0
      BY <2>3, EmptySeq DEF TexturesInv, PixelsHaveResources
    <3> QED
      BY <2>2, <2>3, <3>1, EmptySeq
  <2> QED
    BY <1>1, <1>3, <2>2, <2>3, <2>4 DEF gone
<1> QED
  BY <1>2, <1>3

\* The device goes, and with ok comes again: whatever the textures have left is
\* right, and after it came all have their resources.
LEMMA LostDeviceKept ==
  ASSUME TexturesInv, NEW keep \in BOOLEAN, NEW ok \in BOOLEAN,
         textures' = IF ok THEN Recreated(keep) ELSE Destroyed(keep),
         TexturesLoseDevice(keep)
  PROVE  TexturesInv' /\ samplers' = {} /\ (ok => AllServed') /\ (keep => NamesKept)
<1> DEFINE gone(t) == Destroyed(keep)[t]
<1>1. \A t \in TextureNames :
         /\ gone(t) \in Texture /\ gone(t).resource = FALSE
         /\ keep => gone(t).named = textures[t].named
         /\ Len(gone(t).levels) <= gone(t).shape
         /\ \A i \in 1 .. Len(gone(t).levels) : gone(t).levels[i] = Blank
         /\ ~gone(t).named => gone(t).shape = 0 /\ gone(t).levels = <<>>
  BY DestroyedIsTyped
<1>2. /\ boundTextures' = IF keep THEN boundTextures ELSE [s \in Stages |-> NoTexture]
      /\ views' = ForgetViews /\ samplers' = {}
  BY DEF TexturesLoseDevice
<1>3. /\ DOMAIN textures' = TextureNames
      /\ \A t \in TextureNames :
           textures'[t] = IF ok THEN [gone(t) EXCEPT !.resource = @ \/ gone(t).shape # 0]
                          ELSE gone(t)
  BY DEF Recreated, Destroyed
<1> HIDE DEF gone
<1>4. ASSUME NEW t \in TextureNames
      PROVE  /\ textures'[t] \in Texture
             /\ textures'[t].named = gone(t).named /\ textures'[t].shape = gone(t).shape
             /\ textures'[t].levels = gone(t).levels
             /\ textures'[t].resource = (ok /\ gone(t).shape # 0)
  <2>1. CASE ok
    <3> DEFINE resource == gone(t).resource \/ gone(t).shape # 0
    <3>1. textures'[t] = [gone(t) EXCEPT !.resource = resource]
      BY <1>3, <2>1
    <3>2. gone(t) \in Texture /\ resource = (gone(t).shape # 0) /\ resource \in BOOLEAN
      BY <1>1
    <3> HIDE DEF resource
    <3> QED
      BY <2>1, <3>1, <3>2 DEF Texture
  <2>2. CASE ~ok
    BY <1>1, <1>3, <2>2
  <2> QED
    BY <2>1, <2>2
<1>5. TexturesTyped'
  <2>1. textures' \in [TextureNames -> Texture]
    <3>1. textures' = [t \in TextureNames |-> textures'[t]]
      BY DEF Recreated, Destroyed
    <3> QED
      BY <1>4, <3>1
  <2>2. boundTextures' \in [Stages -> TextureNames \cup {NoTexture}]
    BY <1>2 DEF TexturesInv, TexturesTyped
  <2> QED
    BY <1>1, <1>2, <1>4, <2>1, <2>2, ForgottenViews DEF TexturesTyped
<1>6. PixelsHaveResources'
  BY <1>1, <1>4 DEF PixelsHaveResources
<1>7. ViewsAreCurrent'
  BY <1>2, ForgottenViews DEF ViewsAreCurrent
<1>8. BoundNamesExist'
  <2>1. ASSUME NEW s \in Stages, boundTextures'[s] # NoTexture
        PROVE  textures'[boundTextures'[s]].named
    <3>1. keep /\ boundTextures'[s] = boundTextures[s] /\ boundTextures[s] \in TextureNames
      BY <1>2, <2>1 DEF TexturesInv, TexturesTyped
    <3> QED
      BY <1>1, <1>4, <2>1, <3>1 DEF TexturesInv, BoundNamesExist
  <2> QED
    BY <2>1 DEF BoundNamesExist
<1>9. ok => AllServed'
  BY <1>4 DEF AllServed
<1>10. keep => NamesKept
  BY <1>1, <1>4 DEF NamesKept
<1> QED
  BY <1>2, <1>5, <1>6, <1>7, <1>8, <1>9, <1>10 DEF TexturesInv

\* Telling the callbacks counts for the generation that is told, and no other.
LEMMA AnnounceCounts ==
  ASSUME LifecycleTyped, NEW n \in 0 .. 2, Announce(n)
  PROVE  /\ told' \in [Generations -> 0 .. 2]
         /\ n = 0 => told' = told
         /\ n # 0 => told'[generation] # 0
         /\ \A g \in Generations \ {generation} : told'[g] = told[g]
<1> DEFINE count == IF told[generation] + n > 2 THEN 2 ELSE told[generation] + n
<1>1. /\ told \in [Generations -> 0 .. 2] /\ generation \in Generations
      /\ told[generation] \in 0 .. 2
  BY DEF LifecycleTyped
<1>2. told' = [told EXCEPT ![generation] = count]
  BY DEF Announce
<1>3. count \in 0 .. 2 /\ (n = 0 => count = told[generation]) /\ (n # 0 => count # 0)
  BY <1>1
<1> HIDE DEF count
<1> QED
  BY <1>1, <1>2, <1>3

\* Every device that goes is announced, and the next one is another: what becomes
\* of the announcements in SetVideoMode and when SC4 leaves.
LEMMA GenerationsKept ==
  ASSUME DeviceInv, NEW n \in 0 .. 2, Announce(n), device => n # 0,
         shown' = shown \/ (device /\ shown' = shown \cup {generation}),
         \/ device' = FALSE /\ generation' = generation
         \/ generation' = generation + 1 /\ generation < MaxGeneration /\ n <= 1
  PROVE  AnnouncedInOrder' /\ generation' \in Generations /\ shown' \subseteq Generations
<1>1. /\ generation \in Nat /\ generation <= MaxGeneration /\ MaxGeneration \in Nat
      /\ generation \in Generations /\ shown \subseteq Generations /\ device \in BOOLEAN
      /\ Generations \subseteq Nat
  BY BoundsAssumption DEF DeviceInv, LifecycleTyped, Generations
<1>2. /\ told' \in [Generations -> 0 .. 2]
      /\ n = 0 => told' = told
      /\ n # 0 => told'[generation] # 0
      /\ \A g \in Generations \ {generation} : told'[g] = told[g]
  BY AnnounceCounts DEF DeviceInv
<1>3. generation' \in Generations /\ shown' \subseteq Generations
  <2>1. shown' \subseteq Generations
    <3> HIDE DEF Generations
    <3> QED
      BY <1>1
  <2>2. generation' \in Generations
    <3>1. CASE generation' = generation
      BY <1>1, <3>1
    <3>2. CASE generation' = generation + 1 /\ generation < MaxGeneration
      BY <1>1, <3>2 DEF Generations
    <3> QED
      BY <3>1, <3>2
  <2> QED
    BY <2>1, <2>2
<1>4. \A g \in Generations : g > generation' => told'[g] = 0
  BY <1>1, <1>2 DEF DeviceInv, AnnouncedInOrder
<1>5. device' => told'[generation'] = 0
  <2>1. CASE generation' = generation + 1
    BY <1>1, <1>2, <1>3, <2>1 DEF DeviceInv, AnnouncedInOrder
  <2> QED
    BY <2>1
<1>6. ASSUME NEW g \in shown', told'[g] = 0
      PROVE  FALSE
  <2>1. CASE device
    <3>1. g # generation /\ g \in Generations
      BY <1>2, <1>3, <1>6, <2>1
    <3>2. g \in shown /\ told[g] = 0
      BY <1>2, <1>6, <3>1
    <3> QED
      BY <3>1, <3>2 DEF DeviceInv, AnnouncedInOrder, ShownGenerationsAreAnnounced
  <2>2. CASE ~device
    <3>1. g \in shown /\ g \in Generations
      BY <1>1, <1>6, <2>2
    <3>2. told[g] = 0
      BY <1>2, <1>6, <3>1
    <3> QED
      BY <2>2, <3>1, <3>2 DEF DeviceInv, AnnouncedInOrder, ShownGenerationsAreAnnounced
  <2> QED
    BY <2>1, <2>2
<1>7. ShownGenerationsAreAnnounced'
  BY <1>6 DEF ShownGenerationsAreAnnounced
<1> QED
  BY <1>3, <1>4, <1>5, <1>7 DEF AnnouncedInOrder

\* SetVideoMode by SC4 and by the recovery, with every way it may end.
LEMMA SetUpDeviceKept ==
  ASSUME DeviceInv, NEW m \in Modes, NEW keep \in BOOLEAN, NEW outcome \in Outcomes,
         generation < MaxGeneration, SetUpDevice(m, keep, outcome),
         shown' = shown \/ (device /\ shown' = shown \cup {generation}),
         initialized' \in BOOLEAN, failures' \in 0 .. MaxFailures,
         lost' \in BOOLEAN, outcome = "ok" => ~lost'
  PROVE  /\ DeviceInv'
         /\ device' => generation' # generation
         /\ keep => NamesKept /\ window \in {NoWindow, window'}
<1> DEFINE ok == outcome = "ok"
           before == IF device THEN 1 ELSE 0
           after == IF outcome \in {"setup", "textures"} THEN 1 ELSE 0
           n == before + after
<1>1. LifecycleTyped /\ TexturesInv
  BY DEF DeviceInv
<1>2. /\ device' = ok /\ targets' = ok /\ removed' = FALSE
      /\ mode' = IF ok THEN m ELSE mode
      /\ generation' = IF ok THEN generation + 1 ELSE generation
      /\ textures' = IF ok THEN Recreated(keep) ELSE Destroyed(keep)
      /\ TexturesLoseDevice(keep) /\ Announce(n)
  BY DEF SetUpDevice, NextGeneration
<1>3. n \in 0 .. 2 /\ (device => n # 0) /\ (ok => n <= 1)
  BY <1>1 DEF LifecycleTyped
<1>4. TexturesInv' /\ samplers' = {} /\ (ok => AllServed') /\ (keep => NamesKept)
  <2>1. ok \in BOOLEAN
    OBVIOUS
  <2> HIDE DEF ok
  <2> QED
    BY <1>1, <1>2, <2>1, LostDeviceKept
<1>5. told' \in [Generations -> 0 .. 2]
  BY <1>1, <1>2, <1>3, AnnounceCounts
<1>6. AnnouncedInOrder' /\ generation' \in Generations /\ shown' \subseteq Generations
  <2>1. \/ device' = FALSE /\ generation' = generation
        \/ generation' = generation + 1 /\ generation < MaxGeneration /\ n <= 1
    BY <1>2, <1>3
  <2> HIDE DEF n
  <2> QED
    BY <1>2, <1>3, <2>1, GenerationsKept
<1>7. /\ window' \in Windows \cup {NoWindow} /\ client' \in Sizes \cup {0}
      /\ keep => window \in {NoWindow, window'}
  <2>1. CASE KeepsWindow(keep)
    BY <1>1, <2>1 DEF SetUpDevice, LifecycleTyped
  <2>2. CASE ~KeepsWindow(keep) /\ LeavesWindow(keep, outcome)
    BY <1>1, <2>2 DEF SetUpDevice, LifecycleTyped, KeepsWindow, ModeSize, Sizes
  <2>3. CASE ~KeepsWindow(keep) /\ ~LeavesWindow(keep, outcome)
    BY <1>1, <2>3 DEF SetUpDevice, LifecycleTyped, KeepsWindow, ModeSize, Sizes
  <2> QED
    BY <2>1, <2>2, <2>3
<1>8. size' \in Sizes \cup {0}
  <2>1. size' \in {size, client, ModeSize}
    BY DEF SetUpDevice
  <2> QED
    BY <1>1, <2>1 DEF LifecycleTyped, ModeSize, Sizes
<1>9. mode' \in Modes \cup {NoMode}
  BY <1>1, <1>2 DEF LifecycleTyped
<1>10. LifecycleTyped'
  BY <1>2, <1>4, <1>5, <1>6, <1>7, <1>8, <1>9 DEF LifecycleTyped, TexturesInv
<1>11. TexturesServe'
  BY <1>2, <1>4 DEF TexturesServe, AllServed, IsDeviceReady
<1>12. generation \in Nat /\ generation # MaxGeneration /\ generation + 1 # generation
  BY <1>1, BoundsAssumption DEF LifecycleTyped, Generations
<1>13. LastDeviceStays'
  <2>1. CASE ok
    BY <1>2, <2>1 DEF LastDeviceStays, IsDeviceReady
  <2>2. CASE ~ok
    BY <1>2, <1>12, <2>2 DEF LastDeviceStays
  <2> QED
    BY <2>1, <2>2
<1>14. device' => generation' # generation
  BY <1>2, <1>12
<1>15. DeviceInv'
  BY <1>4, <1>6, <1>10, <1>11, <1>13 DEF DeviceInv
<1> QED
  BY <1>4, <1>7, <1>14, <1>15

\* What a step promises about the pixels there are, and about what SC4 holds.
PixelsStay == LevelsKept \/ ~device' \/ generation' # generation
HoldingsStay == window \in {NoWindow, window'} /\ NamesKept

\* A step that leaves the textures, the mode and the device's number alone.
LEMMA QuietStepKept ==
  ASSUME DeviceInv, UNCHANGED <<mode, device, generation, told, window, textureVars>>,
         shown' = shown \/ (device /\ shown' = shown \cup {generation}),
         initialized' \in BOOLEAN, removed' \in BOOLEAN, lost' \in BOOLEAN,
         targets' \in BOOLEAN, targets' => targets,
         client' \in Sizes \cup {0}, size' \in Sizes \cup {0}, failures' \in 0 .. MaxFailures,
         LastDeviceStays'
  PROVE  DeviceInv' /\ PixelsStay /\ HoldingsStay
<1>1. LifecycleTyped /\ TexturesInv /\ TexturesServe /\ AnnouncedInOrder
  BY DEF DeviceInv
<1>2. /\ textures' = textures /\ boundTextures' = boundTextures
      /\ views' = views /\ samplers' = samplers
  BY DEF textureVars
<1>3. TexturesKept /\ NamesKept
  <2>1. /\ boundTextures' \in [Stages -> TextureNames \cup {NoTexture}] /\ samplers' \subseteq Stages
        /\ \A s \in Stages : boundTextures'[s] # NoTexture => textures[boundTextures'[s]].named
    BY <1>1, <1>2 DEF TexturesInv, TexturesTyped, BoundNamesExist
  <2> QED
    BY <1>1, <1>2, <2>1, StagesKept
<1>4. LifecycleTyped'
  <2>1. shown' \subseteq Generations
    BY <1>1 DEF LifecycleTyped
  <2> QED
    BY <1>1, <1>3, <2>1 DEF LifecycleTyped, TexturesKept, TexturesInv
<1>5. TexturesServe'
  BY <1>1, <1>2 DEF TexturesServe, IsDeviceReady
<1>6. AnnouncedInOrder'
  BY <1>1 DEF AnnouncedInOrder, ShownGenerationsAreAnnounced
<1> QED
  BY <1>3, <1>4, <1>5, <1>6 DEF DeviceInv, PixelsStay, HoldingsStay, TexturesKept

\* RecoverFromDeviceLoss.  The last generation of the model has nothing to recover.
LEMMA RecoverKept ==
  ASSUME DeviceInv, NEW outcome \in Outcomes, Recover(outcome),
         lost \/ ~IsDeviceReady \/ removed, initialized' = initialized,
         shown' = shown \/ (device /\ shown' = shown \cup {generation})
  PROVE  DeviceInv' /\ PixelsStay /\ HoldingsStay
<1>1. LifecycleTyped
  BY DEF DeviceInv
<1>2. failures' \in 0 .. MaxFailures
  BY <1>1, BoundsAssumption DEF Recover, FailuresAfterThis, LifecycleTyped
<1>3. lost' \in BOOLEAN
  BY DEF Recover
<1>4. CASE mode = NoMode
  <2>1. UNCHANGED <<mode, device, targets, removed, generation, window, client, size, told,
                    textureVars>>
    BY <1>4 DEF Recover
  <2>2. LastDeviceStays'
    BY <1>4, <2>1 DEF LastDeviceStays
  <2>3. /\ initialized' \in BOOLEAN /\ removed' \in BOOLEAN /\ targets' \in BOOLEAN
        /\ client' \in Sizes \cup {0} /\ size' \in Sizes \cup {0}
    BY <1>1, <2>1 DEF LifecycleTyped
  <2> QED
    BY <1>2, <1>3, <2>1, <2>2, <2>3, QuietStepKept
<1>5. CASE mode # NoMode
  <2>1. mode \in Modes /\ SetUpDevice(mode, TRUE, outcome) /\ (outcome = "ok" => ~lost')
        /\ initialized' \in BOOLEAN
    BY <1>1, <1>5 DEF Recover, LifecycleTyped
  <2>2. generation < MaxGeneration
    <3>1. generation # MaxGeneration
      BY <1>5 DEF DeviceInv, LastDeviceStays
    <3> QED
      BY <1>1, <3>1, BoundsAssumption DEF LifecycleTyped, Generations
  <2>3. /\ DeviceInv' /\ (device' => generation' # generation)
        /\ TRUE => NamesKept /\ window \in {NoWindow, window'}
    BY <1>2, <1>3, <2>1, <2>2, SetUpDeviceKept
  <2> QED
    BY <2>3 DEF PixelsStay, HoldingsStay
<1> QED
  BY <1>4, <1>5

\* DestroyD3D11Context(false), by SetVideoMode(-1) and Shutdown.
LEMMA LeaveDeviceKept ==
  ASSUME DeviceInv, LeaveDevice, initialized' \in BOOLEAN
  PROVE  DeviceInv' /\ ~device'
<1> DEFINE n == IF device THEN 1 ELSE 0
<1>1. LifecycleTyped /\ TexturesInv
  BY DEF DeviceInv
<1>2. /\ Announce(n) /\ device' = FALSE /\ targets' = FALSE /\ removed' = FALSE
      /\ textures' = Destroyed(FALSE) /\ TexturesLoseDevice(FALSE)
      /\ window' = NoWindow /\ client' = 0 /\ mode' = NoMode /\ size' = 0
      /\ lost' = lost /\ generation' = generation /\ failures' = failures /\ shown' = shown
  BY DEF LeaveDevice
<1>3. n \in 0 .. 2 /\ (device => n # 0)
  OBVIOUS
<1>4. TexturesInv' /\ samplers' = {}
  BY <1>1, <1>2, LostDeviceKept
<1> HIDE DEF n
<1>5. told' \in [Generations -> 0 .. 2]
  BY <1>1, <1>2, <1>3, AnnounceCounts
<1>6. AnnouncedInOrder'
  BY <1>2, <1>3, GenerationsKept
<1>7. LifecycleTyped'
  BY <1>1, <1>2, <1>4, <1>5 DEF LifecycleTyped, TexturesInv
<1>8. TexturesServe' /\ LastDeviceStays'
  BY <1>2, <1>4 DEF TexturesServe, LastDeviceStays, IsDeviceReady
<1> QED
  BY <1>2, <1>4, <1>6, <1>7, <1>8 DEF DeviceInv

\* A call on the textures, which leaves all but the loss of the device alone.
LEMMA TextureStepKept ==
  ASSUME DeviceInv, TexturesKept, lost' \in BOOLEAN,
         lost' = lost \/ (device /\ removed),
         UNCHANGED <<initialized, mode, device, targets, removed, generation, window, client,
                     size, failures, wait, shown, told>>,
         samplers' \subseteq samplers \/ device
  PROVE  DeviceInv' /\ PixelsStay
<1>1. LifecycleTyped /\ TexturesServe /\ AnnouncedInOrder /\ LastDeviceStays
  BY DEF DeviceInv
<1>2. LifecycleTyped'
  BY <1>1 DEF LifecycleTyped, TexturesKept, TexturesInv
<1>3. TexturesServe'
  BY <1>1 DEF TexturesServe, IsDeviceReady, TexturesKept, AllServed
<1>4. AnnouncedInOrder' /\ LastDeviceStays'
  BY <1>1 DEF AnnouncedInOrder, ShownGenerationsAreAnnounced, LastDeviceStays, IsDeviceReady
<1> QED
  BY <1>2, <1>3, <1>4 DEF DeviceInv, PixelsStay, TexturesKept

\* SC4's texture calls keep the invariant, and only DeleteTextures takes a texture away.
LEMMA TextureCallsKept ==
  ASSUME DeviceInv, TextureCalls
  PROVE  /\ DeviceInv' /\ PixelsStay
         /\ HoldingsStay \/ \E t \in TextureNames : DeleteTextures({t})
<1>1. TexturesInv
  BY DEF DeviceInv
<1>2. UNCHANGED deviceVars
  BY DEF TextureCalls
<1>3. /\ TexturesKept /\ (samplers' \subseteq samplers \/ device)
      /\ NamesKept \/ \E t \in TextureNames : DeleteTextures({t})
  <2>1. CASE \E t \in TextureNames : GenTextures(t)
    BY <1>1, <2>1, GenTexturesKept DEF GenTextures
  <2>2. CASE \E t \in TextureNames : DeleteTextures({t})
    BY <1>1, <2>2, DeleteTexturesKept DEF DeleteTextures
  <2>3. ASSUME NEW s \in Stages, (\E t \in TextureNames \cup {NoTexture} : BindTexture(s, t))
                                 \/ TexParameter(s)
        PROVE  TexturesKept /\ NamesKept /\ samplers' \subseteq samplers
    <3>1. samplers' \subseteq samplers
      BY <2>3 DEF BindTexture, TexParameter
    <3> QED
      BY <1>1, <2>3, <3>1, BindTextureKept
  <2>4. ASSUME NEW t \in TextureNames, NEW level \in Shapes, NEW pixels \in Pixels,
               LoadTextureLevel(t, level, pixels)
        PROVE  TexturesKept /\ NamesKept /\ samplers' \subseteq samplers
    BY <1>1, <2>4, LoadTextureLevelKept DEF LoadTextureLevel
  <2>5. ASSUME NEW s \in Stages, NEW made \in BOOLEAN, UseTexture(s, made)
        PROVE  TexturesKept /\ NamesKept
    BY <1>1, <2>5, UseTextureKept
  <2> QED
    BY <2>1, <2>2, <2>3, <2>4, <2>5 DEF TextureCalls, IsDeviceReady
<1>4. DeviceInv' /\ PixelsStay
  <2>1. lost' \in BOOLEAN /\ lost' = lost
    BY <1>2 DEF deviceVars, DeviceInv, LifecycleTyped
  <2> QED
    BY <1>2, <1>3, <2>1, TextureStepKept DEF deviceVars
<1>5. window \in {NoWindow, window'}
  BY <1>2 DEF deviceVars
<1> QED
  BY <1>3, <1>4, <1>5 DEF HoldingsStay

\* Creating a texture's resources again keeps every pixel SC4 loaded.
LEMMA TextureResourcesKept ==
  ASSUME DeviceInv, NEW created \in BOOLEAN, TextureResources(created)
  PROVE  DeviceInv' /\ PixelsStay /\ HoldingsStay
<1>1. TexturesInv /\ LifecycleTyped
  BY DEF DeviceInv
<1>2. TexturesKept /\ NamesKept /\ samplers' = samplers
  <2>1. PICK s \in Stages, shape \in Shapes :
          \/ \E t \in TextureNames, n \in 1..shape : CreateTexture(s, t, shape, n, created)
          \/ \E level \in 1..shape, pixels \in Pixels \cup {Blank} :
               TexImage2D(s, level, shape, pixels, created)
    BY DEF TextureResources
  <2>2. ASSUME NEW t \in TextureNames, NEW n \in 1..shape, CreateTexture(s, t, shape, n, created)
        PROVE  TexturesKept /\ NamesKept /\ samplers' = samplers
    BY <1>1, <2>2, CreateTextureKept DEF CreateTexture
  <2>3. ASSUME NEW level \in 1..shape, NEW pixels \in Pixels \cup {Blank},
               TexImage2D(s, level, shape, pixels, created)
        PROVE  TexturesKept /\ NamesKept /\ samplers' = samplers
    <3>1. level \in Nat
      BY ShapesAssumption
    <3>2. samplers' = samplers
      BY <2>3 DEF TexImage2D
    <3> QED
      BY <1>1, <2>3, <3>1, <3>2, TexImage2DKept
  <2> QED
    BY <2>1, <2>2, <2>3
<1>3. MakesResource(created)
  BY DEF TextureResources
<1>4. lost' \in BOOLEAN /\ (lost' = lost \/ (device /\ removed))
  BY <1>1, <1>3 DEF MakesResource, LifecycleTyped
<1>5. DeviceInv' /\ PixelsStay
  BY <1>2, <1>3, <1>4, TextureStepKept DEF MakesResource
<1>6. window \in {NoWindow, window'}
  BY <1>3 DEF MakesResource
<1> QED
  BY <1>2, <1>5, <1>6 DEF HoldingsStay

\* SC4's own calls that take what it holds.
SC4LetsGo ==
  \/ \E m \in Modes, outcome \in Outcomes : SetVideoMode(m, outcome)
  \/ LeaveVideoMode
  \/ Shutdown
  \/ \E t \in TextureNames : DeleteTextures({t})

\* Every step keeps the invariant, with the pixels and, but for SC4's own calls,
\* with all that SC4 holds.
LEMMA DeviceStepKept ==
  ASSUME DeviceInv, DeviceNext
  PROVE  DeviceInv' /\ PixelsStay /\ (HoldingsStay \/ SC4LetsGo)
<1> DEFINE Promised == DeviceInv' /\ PixelsStay /\ (HoldingsStay \/ SC4LetsGo)
<1> USE DEF SC4LetsGo
<1>1. LifecycleTyped /\ LastDeviceStays /\ generation \in Nat
  BY DEF DeviceInv, LifecycleTyped, Generations
<1>2. CanBreak => generation < MaxGeneration /\ generation # MaxGeneration
  BY <1>1, BoundsAssumption DEF CanBreak
<1>3. CASE Initialize
  <2>1. LastDeviceStays'
    BY <1>1, <1>3 DEF Initialize, LastDeviceStays, IsDeviceReady
  <2> QED
    BY <1>1, <1>3, <2>1, QuietStepKept DEF Initialize, LifecycleTyped
<1>4. ASSUME NEW m \in Modes, NEW outcome \in Outcomes, SetVideoMode(m, outcome)
      PROVE  Promised
  <2>1. /\ generation < MaxGeneration /\ SetUpDevice(m, FALSE, outcome)
        /\ initialized' \in BOOLEAN /\ failures' \in 0 .. MaxFailures /\ lost' \in BOOLEAN
        /\ outcome = "ok" => ~lost'
    BY <1>1, <1>2, <1>4 DEF SetVideoMode, LifecycleTyped
  <2>2. shown' = shown
    BY <1>4 DEF SetVideoMode
  <2>3. DeviceInv' /\ (device' => generation' # generation)
    BY <2>1, <2>2, SetUpDeviceKept
  <2> QED
    BY <1>4, <2>3 DEF PixelsStay
<1>5. CASE LeaveVideoMode \/ Shutdown
  <2>1. LeaveDevice /\ initialized' \in BOOLEAN
    BY <1>1, <1>5 DEF LeaveVideoMode, Shutdown, LifecycleTyped
  <2> QED
    BY <1>5, <2>1, LeaveDeviceKept DEF PixelsStay
<1>6. CASE NoteDeviceLoss
  <2>1. LastDeviceStays'
    BY <1>1, <1>6 DEF NoteDeviceLoss, LastDeviceStays
  <2> QED
    BY <1>1, <1>6, <2>1, QuietStepKept DEF NoteDeviceLoss, LifecycleTyped
<1>7. CASE TextureCalls
  BY <1>7, TextureCallsKept
<1>8. ASSUME NEW created \in BOOLEAN, TextureResources(created)
      PROVE  Promised
  BY <1>8, TextureResourcesKept
<1>9. ASSUME NEW outcome \in Outcomes, FlushRecovers(outcome)
      PROVE  Promised
  BY <1>9, RecoverKept DEF FlushRecovers
<1>10. CASE FlushPresents
  <2>1. LastDeviceStays'
    BY <1>1, <1>10 DEF FlushPresents, LastDeviceStays, IsDeviceReady
  <2>2. device
    BY <1>10 DEF FlushPresents, Draws, IsDeviceReady
  <2> QED
    BY <1>1, <1>10, <2>1, <2>2, QuietStepKept DEF FlushPresents, LifecycleTyped
<1>11. ASSUME NEW resized \in BOOLEAN, NEW outcome \in {"none", "no regions", "all"},
              FlushCannotResize(resized, outcome)
       PROVE  Promised
  <2>1. LastDeviceStays'
    BY <1>2, <1>11 DEF FlushCannotResize, LastDeviceStays
  <2>2. targets' \in BOOLEAN /\ targets /\ size' \in Sizes \cup {0}
    BY <1>1, <1>11 DEF FlushCannotResize, BackBufferTargets, Draws, IsDeviceReady, LifecycleTyped
  <2> QED
    BY <1>1, <1>11, <2>1, <2>2, QuietStepKept DEF FlushCannotResize, LifecycleTyped
<1>12. ASSUME NEW outcome \in Outcomes, FlushFindsLoss(outcome)
       PROVE  Promised
  <2>1. /\ device /\ targets /\ removed /\ initialized' = initialized
        /\ shown' = shown \/ shown' = shown \cup {generation}
    BY <1>12 DEF FlushFindsLoss, Draws, IsDeviceReady
  <2>2. CASE wait = 0
    BY <1>12, <2>1, <2>2, RecoverKept DEF FlushFindsLoss
  <2>3. CASE wait # 0
    <3>1. /\ lost' = TRUE /\ targets' \in BOOLEAN
          /\ UNCHANGED <<mode, device, removed, generation, window, client, size, textureVars,
                         failures, wait, told>>
      BY <1>12, <2>3 DEF FlushFindsLoss
    <3>2. LastDeviceStays'
      BY <1>1, <2>1, <3>1 DEF LastDeviceStays
    <3> QED
      BY <1>1, <2>1, <3>1, <3>2, QuietStepKept DEF LifecycleTyped
  <2> QED
    BY <2>2, <2>3
<1>13. CASE RemoveDevice
  <2>1. LastDeviceStays'
    BY <1>2, <1>13 DEF RemoveDevice, LastDeviceStays
  <2> QED
    BY <1>1, <1>13, <2>1, QuietStepKept DEF RemoveDevice, LifecycleTyped
<1>14. ASSUME NEW s \in Sizes \cup {0}, ResizeWindow(s)
       PROVE  Promised
  <2>1. LastDeviceStays'
    BY <1>1, <1>14 DEF ResizeWindow, LastDeviceStays, IsDeviceReady
  <2> QED
    BY <1>1, <1>14, <2>1, QuietStepKept DEF ResizeWindow, LifecycleTyped
<1>15. CASE Tick
  <2>1. LastDeviceStays'
    BY <1>1, <1>15 DEF Tick, LastDeviceStays, IsDeviceReady
  <2> QED
    BY <1>1, <1>15, <2>1, QuietStepKept DEF Tick, LifecycleTyped
<1> QED
  BY <1>3, <1>4, <1>5, <1>6, <1>7, <1>8, <1>9, <1>10, <1>11, <1>12, <1>13, <1>14, <1>15
     DEF DeviceNext

\* A step of nothing keeps the invariant.
LEMMA DeviceStutterKept ==
  ASSUME DeviceInv, UNCHANGED lifecycleVars
  PROVE  DeviceInv'
<1>1. LifecycleTyped /\ LastDeviceStays
  BY DEF DeviceInv
<1>2. LastDeviceStays'
  BY <1>1 DEF lifecycleVars, deviceVars, LastDeviceStays, IsDeviceReady
<1> QED
  BY <1>1, <1>2, QuietStepKept DEF lifecycleVars, deviceVars, LifecycleTyped

\* A driver without a device satisfies the invariant.
LEMMA DeviceStarts ==
  ASSUME DeviceInit
  PROVE  DeviceInv
<1>1. /\ textures = [t \in TextureNames |-> Unused] /\ boundTextures = [s \in Stages |-> NoTexture]
      /\ views = [s \in Stages |-> NotCached] /\ samplers = {}
  BY DEF DeviceInit, TexturesInit
<1>2. <<>> \in Seq(Pixels \cup {Blank}) /\ Len(<<>>) = 0
  BY EmptySeq
<1>3. /\ Unused \in Texture /\ Unused.shape = 0 /\ ~Unused.resource /\ Unused.levels = <<>>
      /\ Len(Unused.levels) = 0
  BY <1>2 DEF Unused, Texture
<1> HIDE DEF Unused
<1>4. \A t \in TextureNames : /\ textures[t].shape = 0 /\ ~textures[t].resource
                             /\ textures[t].levels = <<>>
                             /\ Len(textures[t].levels) <= textures[t].shape
                             /\ \A i \in 1 .. Len(textures[t].levels) : FALSE
  <2>1. ASSUME NEW t \in TextureNames
        PROVE  /\ textures[t].shape = 0 /\ ~textures[t].resource
               /\ textures[t].levels = <<>> /\ Len(textures[t].levels) = 0
    BY <1>1, <1>3
  <2>2. ASSUME NEW n, NEW m, n = 0, m = 0
        PROVE  n <= m /\ \A i \in 1 .. n : FALSE
    BY <2>2
  <2> QED
    BY <2>1, <2>2, Zenon
<1>5. TexturesTyped
  <2>1. textures \in [TextureNames -> Texture]
    BY <1>1, <1>3
  <2>2. \A t \in TextureNames : Len(textures[t].levels) <= textures[t].shape
    BY <1>4
  <2> QED
    BY <1>1, <2>1, <2>2 DEF TexturesTyped, NotCached
<1>6. PixelsHaveResources
  BY <1>4 DEF PixelsHaveResources
<1>7. ViewsAreCurrent /\ BoundNamesExist
  BY <1>1 DEF ViewsAreCurrent, BoundNamesExist, NotCached
<1>8. LifecycleTyped
  <2>1. 0 \in Generations /\ 0 \in 0 .. MaxFailures
    BY BoundsAssumption DEF Generations
  <2> HIDE DEF Generations
  <2>2. told \in [Generations -> 0 .. 2]
    BY DEF DeviceInit
  <2> QED
    BY <1>5, <2>1, <2>2 DEF DeviceInit, LifecycleTyped
<1>9. TexturesServe /\ LastDeviceStays
  BY <1>1 DEF DeviceInit, TexturesServe, LastDeviceStays, IsDeviceReady
<1>10. AnnouncedInOrder
  BY DEF DeviceInit, AnnouncedInOrder, ShownGenerationsAreAnnounced
<1> QED
  BY <1>5, <1>6, <1>7, <1>8, <1>9, <1>10 DEF DeviceInv, TexturesInv

\* The invariant of the device and of the textures on it.
THEOREM DeviceInvAlways == DeviceSpec => []DeviceInv
<1>1. DeviceInit => DeviceInv
  BY DeviceStarts
<1>2. DeviceInv /\ [DeviceNext]_lifecycleVars => DeviceInv'
  BY DeviceStepKept, DeviceStutterKept
<1> QED
  BY <1>1, <1>2, PTL DEF DeviceSpec

\* Whatever failed before: a draw on a device that is ready (IsDeviceReady) finds
\* the texture of every name with a size, through a pointer that is current.
THEOREM DrawsFindTheirTexturesAlways == DeviceSpec => []DrawsFindTheirTextures
<1>1. DeviceInv => DrawsFindTheirTextures
  BY DEF DeviceInv, TexturesInv, TexturesServe, ViewsAreCurrent, DrawsFindTheirTextures,
         CachedPointersAreCurrent
<1> QED
  BY <1>1, DeviceInvAlways, PTL

\* DestroyD3D11Context announces every device of which a callback saw a frame.
THEOREM ShownGenerationsAreAnnouncedAlways == DeviceSpec => []ShownGenerationsAreAnnounced
<1>1. DeviceInv => ShownGenerationsAreAnnounced
  BY DEF DeviceInv, AnnouncedInOrder
<1> QED
  BY <1>1, DeviceInvAlways, PTL

\* Present shows no frame of a device that was announced as going away.
THEOREM NoFrameAfterAnnouncementAlways == DeviceSpec => NoFrameAfterAnnouncement
<1>1. DeviceInv => (FlushPresents => told[generation] = 0)
  BY DEF DeviceInv, AnnouncedInOrder, FlushPresents, Draws, IsDeviceReady
<1> QED
  BY <1>1, DeviceInvAlways, PTL DEF NoFrameAfterAnnouncement

\* RecoverFromDeviceLoss and every other step but SC4's own calls leave SC4 its
\* window and its texture names.
THEOREM RecoveryKeepsWhatSC4HoldsAlways == DeviceSpec => RecoveryKeepsWhatSC4Holds
<1>1. DeviceInv /\ [DeviceNext]_lifecycleVars =>
        \/ window \in {NoWindow, window'}
           /\ \A t \in TextureNames : textures[t].named => textures'[t].named
        \/ \E m \in Modes, outcome \in Outcomes : SetVideoMode(m, outcome)
        \/ LeaveVideoMode
        \/ Shutdown
        \/ \E t \in TextureNames : DeleteTextures({t})
        \/ UNCHANGED lifecycleVars
  BY DeviceStepKept DEF HoldingsStay, NamesKept, SC4LetsGo
<1> QED
  BY <1>1, DeviceInvAlways, PTL DEF DeviceSpec, RecoveryKeepsWhatSC4Holds

\* TexImage2D's copies and LoadTextureLevel lose no level that was filled.
THEOREM LevelsKeepTheirPixelsAlways == DeviceSpec => LevelsKeepTheirPixels
<1>1. DeviceInv /\ [DeviceNext]_lifecycleVars =>
        \/ \A t \in TextureNames : \A i \in 1..Len(textures[t].levels) :
             \/ textures[t].levels[i] = Blank
             \/ i <= Len(textures'[t].levels) /\ textures'[t].levels[i] # Blank
             \/ textures'[t].shape # textures[t].shape
             \/ ~device' \/ generation' # generation
        \/ UNCHANGED lifecycleVars
  BY DeviceStepKept, Zenon DEF PixelsStay, LevelsKept
<1> QED
  BY <1>1, DeviceInvAlways, PTL DEF DeviceSpec, LevelsKeepTheirPixels

\* The types.  TexturesTypeOK says less of the textures than the invariant does,
\* and the delay doubles with every failure up to MaxFailures: that the powers of
\* two grow is the one fact the provers have to be told.
THEOREM DeviceTypeOKAlways ==
  ASSUME \A n \in 0 .. MaxFailures : 2 ^ n \in 0 .. 2 ^ MaxFailures
  PROVE  DeviceSpec => []DeviceTypeOK
<1> DEFINE longest == 2 ^ MaxFailures
           DelayBounded == wait \in 0 .. longest
<1>1. 0 .. longest \subseteq Nat /\ longest \in Nat
  <2>1. longest \in 0 .. longest
    BY BoundsAssumption
  <2> HIDE DEF longest
  <2> QED
    BY <2>1
<1>2. \A n \in 0 .. MaxFailures : 2 ^ n \in 0 .. longest
  OBVIOUS
<1> HIDE DEF longest
<1>3. DeviceInit => DelayBounded
  BY <1>1 DEF DeviceInit
<1>4. DeviceInv /\ DelayBounded /\ [DeviceNext]_lifecycleVars => DelayBounded'
  <2> SUFFICES ASSUME DeviceInv, DelayBounded, [DeviceNext]_lifecycleVars
               PROVE  DelayBounded'
    OBVIOUS
  <2>1. ASSUME NEW outcome \in Outcomes, Recover(outcome)
        PROVE  DelayBounded'
    <3>1. FailuresAfterThis \in 0 .. MaxFailures
      BY BoundsAssumption DEF DeviceInv, LifecycleTyped, FailuresAfterThis
    <3>2. wait' = 0 \/ wait' = 2 ^ FailuresAfterThis
      BY <2>1 DEF Recover
    <3> QED
      BY <1>1, <1>2, <3>1, <3>2
  <2>2. CASE Tick
    BY <1>1, <2>2 DEF Tick
  <2>3. CASE UNCHANGED wait
    BY <2>3
  <2>4. \/ \E outcome \in Outcomes : Recover(outcome)
        \/ Tick
        \/ UNCHANGED wait
    BY DEF DeviceNext, lifecycleVars, deviceVars, Initialize, SetVideoMode, LeaveVideoMode,
           Shutdown, LeaveDevice, NoteDeviceLoss, TextureCalls, TextureResources,
           MakesResource, FlushRecovers, FlushPresents, FlushCannotResize, FlushFindsLoss,
           RemoveDevice, ResizeWindow
  <2> QED
    BY <2>1, <2>2, <2>3, <2>4
<1>5. DeviceInv /\ DelayBounded => DeviceTypeOK
  <2> SUFFICES ASSUME DeviceInv, DelayBounded
               PROVE  DeviceTypeOK
    OBVIOUS
  <2>1. TexturesTypeOK
    BY TextureIsTyped DEF DeviceInv, TexturesInv, TexturesTyped, TexturesTypeOK, Texture
  <2> QED
    BY <2>1 DEF DeviceInv, LifecycleTyped, DeviceTypeOK, longest
<1> QED
  BY <1>3, <1>4, <1>5, DeviceInvAlways, PTL DEF DeviceSpec
===============================================================================
