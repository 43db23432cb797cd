-------------------------------- MODULE Watchdog --------------------------------
(***************************************************************************)
(* The render watchdog of Diagnostics.cpp: a thread that wakes twice a     *)
(* second, compares the tick of the render thread's last Flush with the    *)
(* clock, and logs where the render thread is when it has stalled.  To     *)
(* read its registers it suspends that thread, which may hold any lock at  *)
(* that moment, the log's included.  Time is counted in the watchdog's     *)
(* half-second ticks; 0 is "no frame yet", as in the code.                 *)
(***************************************************************************)
EXTENDS Integers, Sequences

CONSTANTS
  ArmingTicks,  \* 10 in RunRenderWatchdog
  StallTime,    \* kStallMilliseconds
  RepeatTime,   \* kStallRepeatMilliseconds
  MaxReports,   \* kStallReportsPerStall
  MaxClock,     \* bound: time stops there, and waits still time out
  MaxStarts     \* bound: SetVideoMode calls that start the thread

ASSUME ParametersAssumption ==
  /\ {ArmingTicks, StallTime, RepeatTime, MaxReports, MaxClock} \subseteq Nat \ {0}
  /\ MaxStarts \in Nat

VARIABLES
  clock,           \* GetTickCount64
  lastRenderFrame, \* the atomic of that name
  watchdogStop,    \* the event, "reset" or "set"; "none" when there is no handle
  logLock,         \* the mutex of WriteLogLine: "free", or who holds it
  render,          \* the render thread: in the "game", about to "log", "logging",
                   \* about to "join" the watchdog, or past that in "stop"
  suspended,       \* SuspendThread holds the render thread
  watchdog,        \* what the watchdog thread is doing: see its actions.  "none":
                   \* not joinable
  locals,          \* the locals of RunRenderWatchdog
  starts,          \* threads started
  noted,           \* history: a frame since the last wake-up or Stop
  flow,            \* history: wake-ups in a row that found a new frame
  reported         \* history: when the frame last reported was reported

watchdogVars == <<clock, lastRenderFrame, watchdogStop, logLock, render, suspended,
                  watchdog, locals, starts, noted, flow, reported>>
gameVars == <<lastRenderFrame, watchdogStop, starts>>
history == <<noted, flow, reported>>

NoLocals == [frame |-> 0, now |-> 0, wakeAt |-> 0, stalledFrame |-> 0, nextReport |-> 0,
             reports |-> 0, previousFrame |-> 0, framesFlowing |-> 0]

\* The steps of the thread between deciding to report and having logged it.
Reporting == {"locate", "copy", "report"}

WatchdogInit ==
  /\ clock = 1
  /\ lastRenderFrame = 0
  /\ watchdogStop = "none"
  /\ logLock = "free"
  /\ render = "game"
  /\ suspended = FALSE
  /\ watchdog = "none"
  /\ locals = NoLocals
  /\ starts = 0
  /\ noted = FALSE /\ flow = 0 /\ reported = <<>>

Joinable == watchdog # "none"

-----------------------------------------------------------------------------
(* The render thread.  A suspended thread takes no step.                   *)

InGame == render = "game" /\ ~suspended

\* Flush, which notes a frame at its start and at its end.
NoteRenderFrame ==
  /\ InGame
  /\ lastRenderFrame' = clock
  /\ noted' = TRUE
  /\ UNCHANGED <<clock, watchdogStop, logLock, render, suspended, watchdog, locals,
                 starts, flow, reported>>

\* SetVideoMode's last step.  A thread that runs is left alone; an event that
\* could not be created leaves no thread.
StartRenderWatchdog ==
  /\ InGame
  /\ ~Joinable
  /\ starts < MaxStarts
  /\ starts' = starts + 1
  /\ \/ UNCHANGED <<watchdogStop, watchdog, locals, flow, reported>>
     \/ /\ watchdogStop' = "reset"
        /\ watchdog' = "wait"
        /\ locals' = [NoLocals EXCEPT !.wakeAt = clock + 1]
        /\ flow' = 0
        /\ reported' = <<>>
  /\ UNCHANGED <<clock, lastRenderFrame, logLock, render, suspended, noted>>

\* Mutant of StopRenderWatchdog: the thread is joined before the event is set.
StopByJoining ==
  /\ InGame
  /\ render' = IF Joinable THEN "join" ELSE "stop"
  /\ UNCHANGED <<clock, lastRenderFrame, watchdogStop, logLock, suspended, watchdog, locals,
                 starts>>
  /\ UNCHANGED history

\* Shutdown and a failed Init stop the thread: the event first, then the join,
\* then the handle and the frame.
StopRenderWatchdog ==
  /\ InGame
  /\ IF Joinable THEN watchdogStop' = "set" /\ render' = "join"
                 ELSE watchdogStop' = watchdogStop /\ render' = "stop"
  /\ UNCHANGED <<clock, lastRenderFrame, logLock, suspended, watchdog, locals, starts>>
  /\ UNCHANGED history

Join ==
  /\ render = "join" /\ ~suspended
  /\ watchdog = "exited"
  /\ watchdog' = "none"
  /\ locals' = NoLocals
  /\ render' = "stop"
  /\ UNCHANGED <<clock, logLock, suspended>>
  /\ UNCHANGED gameVars /\ UNCHANGED history

\* Mutant of Stopped: the last frame of this run is left to the next.
StoppedWithFrame ==
  /\ render = "stop" /\ ~suspended
  /\ watchdogStop' = "none"
  /\ noted' = FALSE
  /\ render' = "game"
  /\ UNCHANGED <<clock, lastRenderFrame, logLock, suspended, watchdog, locals, starts, flow,
                 reported>>

Stopped ==
  /\ render = "stop" /\ ~suspended
  /\ watchdogStop' = "none"
  /\ lastRenderFrame' = 0
  /\ noted' = FALSE
  /\ render' = "game"
  /\ UNCHANGED <<clock, logLock, suspended, watchdog, locals, starts, flow, reported>>

\* Any Log call of the render thread: WriteLogLine takes the mutex, writes and
\* releases it.
RenderLogs ==
  /\ ~suspended
  /\ \/ render = "game" /\ render' = "log" /\ logLock' = logLock
     \/ render = "log" /\ logLock = "free" /\ logLock' = "render" /\ render' = "logging"
     \/ render = "logging" /\ logLock' = "free" /\ render' = "game"
  /\ UNCHANGED <<clock, suspended, watchdog, locals>>
  /\ UNCHANGED gameVars /\ UNCHANGED history

-----------------------------------------------------------------------------
(* The watchdog thread, RunRenderWatchdog.                                 *)

\* frame and now live for one round of the loop.
Sleep(l) ==
  /\ watchdog' = "wait"
  /\ locals' = [l EXCEPT !.wakeAt = clock + 1, !.frame = 0, !.now = 0]

\* The event ends the thread, whatever the time.
Exit ==
  /\ watchdog = "wait"
  /\ watchdogStop = "set"
  /\ watchdog' = "exited"
  /\ UNCHANGED <<clock, logLock, render, suspended, locals>>
  /\ UNCHANGED gameVars /\ UNCHANGED history

\* The frame an armed thread goes on to judge; before that, frames have to
\* keep coming, each wake-up finding a new one, ArmingTicks times in a row.
Armed(l) == l.framesFlowing >= ArmingTicks
Arming(l, frame) ==
  [l EXCEPT !.framesFlowing = IF frame # l.previousFrame THEN @ + 1 ELSE 0,
                 !.previousFrame = frame]

\* The wait times out and the frame is loaded.  The clock is read later, so
\* that no frame is newer than now.
WatchdogWakesUp ==
  /\ watchdog = "wait"
  /\ watchdogStop # "set"
  /\ clock >= locals.wakeAt \/ clock = MaxClock
  /\ LET frame == lastRenderFrame IN
       IF frame # 0 /\ Armed(locals)
       THEN watchdog' = "look" /\ locals' = [locals EXCEPT !.frame = frame]
       ELSE Sleep(IF frame = 0 THEN locals ELSE Arming(locals, frame))
  /\ flow' = IF Armed(locals) \/ flow = ArmingTicks THEN flow
             ELSE IF noted THEN flow + 1 ELSE 0
  /\ noted' = FALSE
  /\ UNCHANGED <<clock, logLock, render, suspended, reported>>
  /\ UNCHANGED gameVars

\* Mutant of Resumed: a stall is taken to go on.
NeverResumed(l) == FALSE

\* A stall that is over is logged before the next one is looked for.
Resumed(l) == l.stalledFrame # 0 /\ l.frame # l.stalledFrame

Look ==
  /\ watchdog = "look"
  /\ locals' = [locals EXCEPT !.now = clock,
                              !.stalledFrame = IF Resumed(locals) THEN 0 ELSE @]
  /\ watchdog' = IF Resumed(locals) THEN "resumed" ELSE "check"
  /\ UNCHANGED <<clock, logLock, render, suspended>>
  /\ UNCHANGED gameVars /\ UNCHANGED history

\* Mutant of Stalled: every look starts a stall.
StalledAgain(l) ==
  [l EXCEPT !.stalledFrame = l.frame, !.reports = 0, !.nextReport = l.now]

\* A stall starts with no report and the first one due at once.
Stalled(l) ==
  IF l.stalledFrame # 0 THEN l
  ELSE [l EXCEPT !.stalledFrame = l.frame, !.reports = 0, !.nextReport = l.now]

ReportDue(l) == l.now >= l.nextReport /\ l.reports < MaxReports

Check ==
  /\ watchdog = "check"
  /\ IF locals.now - locals.frame < StallTime
     THEN Sleep(locals) /\ UNCHANGED reported
     ELSE LET stall == Stalled(locals) IN
          IF ReportDue(stall)
          THEN /\ watchdog' = "locate"
               /\ locals' = stall
               /\ reported' = IF reported # <<>> /\ reported[1][1] = locals.frame
                              THEN Append(reported, <<locals.frame, locals.now>>)
                              ELSE << <<locals.frame, locals.now>> >>
          ELSE Sleep(stall) /\ UNCHANGED reported
  /\ UNCHANGED <<clock, logLock, render, suspended, noted, flow>>
  /\ UNCHANGED gameVars

\* LogRenderThreadLocation: OpenThread and SuspendThread may fail; only the
\* copy is made while the render thread is suspended, and it runs again before
\* anything is described or logged.
Locate ==
  /\ watchdog = "locate"
  /\ \/ suspended' = TRUE /\ watchdog' = "copy"
     \/ suspended' = FALSE /\ watchdog' = "report"
  /\ UNCHANGED <<clock, logLock, render, locals>>
  /\ UNCHANGED gameVars /\ UNCHANGED history

CopyStack ==
  /\ watchdog = "copy"
  /\ suspended' = FALSE
  /\ watchdog' = "report"
  /\ UNCHANGED <<clock, logLock, render, locals>>
  /\ UNCHANGED gameVars /\ UNCHANGED history

\* The watchdog's own log lines, for a stall that is over and for a report.
WatchdogLogs ==
  /\ watchdog \in {"resumed", "report"}
  /\ logLock = "free"
  /\ logLock' = "watchdog"
  /\ watchdog' = "logging"
  /\ locals' = IF watchdog = "resumed" THEN locals
               ELSE [locals EXCEPT !.reports = @ + 1, !.nextReport = locals.now + RepeatTime]
  /\ UNCHANGED <<clock, render, suspended>>
  /\ UNCHANGED gameVars /\ UNCHANGED history

\* After "frames resumed" (the only log line with no stall) the check goes on.
WatchdogLogged ==
  /\ watchdog = "logging"
  /\ logLock' = "free"
  /\ IF locals.stalledFrame = 0 THEN watchdog' = "check" /\ locals' = locals ELSE Sleep(locals)
  /\ UNCHANGED <<clock, render, suspended>>
  /\ UNCHANGED gameVars /\ UNCHANGED history

ClockTicks ==
  /\ clock < MaxClock
  /\ clock' = clock + 1
  /\ UNCHANGED <<logLock, render, suspended, watchdog, locals>>
  /\ UNCHANGED gameVars /\ UNCHANGED history

RenderOperates == Join \/ Stopped \/ (render # "game" /\ RenderLogs)
WatchdogRuns == Exit \/ WatchdogWakesUp \/ Look \/ Check \/ Locate \/ CopyStack
                  \/ WatchdogLogs \/ WatchdogLogged

WatchdogNext ==
  \/ NoteRenderFrame \/ StartRenderWatchdog \/ StopRenderWatchdog
  \/ Join \/ Stopped \/ RenderLogs
  \/ Exit \/ WatchdogWakesUp \/ Look \/ Check \/ Locate \/ CopyStack
  \/ WatchdogLogs \/ WatchdogLogged
  \/ ClockTicks

WatchdogSpec == WatchdogInit /\ [][WatchdogNext]_watchdogVars

\* Both threads are scheduled, the log's mutex is handed on, and time passes.
\* Nothing makes SC4 call the driver: it may stall in the game for ever.
FairWatchdogSpec ==
  /\ WatchdogSpec
  /\ WF_watchdogVars(RenderOperates) /\ SF_watchdogVars(render = "log" /\ RenderLogs)
  /\ WF_watchdogVars(WatchdogRuns) /\ SF_watchdogVars(WatchdogLogs)
  /\ WF_watchdogVars(ClockTicks)

-----------------------------------------------------------------------------
\* Loading the game is no stall: a report is only made in a run in which
\* frames have come at ArmingTicks wake-ups in a row, and frames from before the
\* last stop of the watchdog count for nothing.
ReportsFollowFlowingFrames == watchdog \in Reporting => flow >= ArmingTicks

\* However long a stall lasts, it is reported at most MaxReports times, and no
\* sooner than RepeatTime apart.
ReportsAreSpaced ==
  /\ Len(reported) <= MaxReports
  /\ \A i \in 1..(Len(reported) - 1) : reported[i + 1][2] - reported[i][2] >= RepeatTime

\* Every stall is reported, the second and later ones too: once the thread
\* judges frames, a frame that stays the last one is reported, unless the
\* watchdog is stopped first.
Overdue ==
  /\ Joinable /\ Armed(locals)
  /\ lastRenderFrame # 0
  /\ clock - lastRenderFrame >= StallTime
  /\ reported = <<>> \/ reported[1][1] # lastRenderFrame

StallIsReported == Overdue ~> (~Overdue \/ watchdogStop = "set")

\* The watchdog never stops the game for good: a call that logs, and a stop of
\* the watchdog, return, whenever the render thread is suspended.
RenderThreadGoesOn == (render # "game" \/ suspended) ~> (render = "game" /\ ~suspended)
=============================================================================
