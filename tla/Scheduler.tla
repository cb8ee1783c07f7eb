------------------------------ MODULE Scheduler ------------------------------
(***************************************************************************)
(* The goroutine of scheduler.Scheduler and the goroutine that calls       *)
(* RunNow and Stop.  The select statement takes any ready case, the job    *)
(* runs inside the goroutine, and RunNow hands its request over an         *)
(* unbuffered channel, so the caller waits until the goroutine is back at  *)
(* its select.  Timers do not measure time: an armed one may fire at any   *)
(* later moment.                                                           *)
(***************************************************************************)

VARIABLES
  loop,      \* the scheduler goroutine
  retry,     \* the retry timer: off, armed, or fired and not yet received
  ticking,   \* TRUE until the ticker is stopped
  tick,      \* TRUE when a tick waits in the ticker's channel
  caller,    \* the goroutine that uses the scheduler
  shutdown,  \* TRUE once shutdownCtx is cancelled
  complete,  \* TRUE while shutdownComplete holds a value
  result     \* how the last job ended

schedulerVars == <<loop, retry, ticking, tick, caller, shutdown, complete, result>>

Results == {"ok", "error", "retry"}

\* Types of the scheduler's variables.
SchedulerTypeOK ==
  /\ loop \in {"select", "running", "done"}
  /\ retry \in {"off", "armed", "fired"}
  /\ ticking \in BOOLEAN /\ tick \in BOOLEAN
  /\ caller \in {"idle", "runnow", "stop", "cancel", "await", "stopped"}
  /\ shutdown \in BOOLEAN /\ complete \in BOOLEAN
  /\ result \in Results \union {"none"}

\* NewScheduler arms the retry timer with 0s, which makes the first run.
SchedulerInit ==
  /\ loop = "select"
  /\ retry = "armed"
  /\ ticking = TRUE /\ tick = FALSE
  /\ caller = "idle"
  /\ shutdown = FALSE /\ complete = FALSE
  /\ result = "none"

-------------------------------------------------------------------------------
(* The clock.                                                              *)

\* A tick that finds the channel full is dropped.
Tick ==
  /\ ticking
  /\ tick' = TRUE
  /\ UNCHANGED <<loop, retry, ticking, caller, shutdown, complete, result>>

RetryFires ==
  /\ retry = "armed"
  /\ retry' = "fired"
  /\ UNCHANGED <<loop, ticking, tick, caller, shutdown, complete, result>>

-------------------------------------------------------------------------------
(* The scheduler goroutine.                                                *)

ReceiveImmediate ==
  /\ loop = "select"
  /\ caller = "runnow"
  /\ loop' = "running"
  /\ caller' = "idle"
  /\ UNCHANGED <<retry, ticking, tick, shutdown, complete, result>>

ReceiveRetry ==
  /\ loop = "select"
  /\ retry = "fired"
  /\ loop' = "running"
  /\ retry' = "off"
  /\ UNCHANGED <<ticking, tick, caller, shutdown, complete, result>>

ReceiveTick ==
  /\ loop = "select"
  /\ tick
  /\ loop' = "running"
  /\ tick' = FALSE
  /\ UNCHANGED <<retry, ticking, caller, shutdown, complete, result>>

ReceiveShutdown ==
  /\ loop = "select"
  /\ shutdown
  /\ loop' = "done"
  /\ complete' = TRUE
  /\ UNCHANGED <<retry, ticking, tick, caller, shutdown, result>>

\* Mutant: a transient error does not reset the retry timer.
JobEndsNoReset(r) ==
  /\ loop = "running"
  /\ loop' = "select"
  /\ result' = r
  /\ UNCHANGED <<retry, ticking, tick, caller, shutdown, complete>>

\* A retryError resets the timer, and drops a value it had already sent.
JobEnds(r) ==
  /\ loop = "running"
  /\ loop' = "select"
  /\ result' = r
  /\ retry' = IF r = "retry" THEN "armed" ELSE retry
  /\ UNCHANGED <<ticking, tick, caller, shutdown, complete>>

-------------------------------------------------------------------------------
(* RunNow and Stop.                                                        *)

\* Mutant: the request is not handed over while a job runs.
RunNowDropped ==
  /\ caller = "idle"
  /\ caller' = IF loop = "select" THEN "runnow" ELSE "idle"
  /\ UNCHANGED <<loop, retry, ticking, tick, shutdown, complete, result>>

RunNow ==
  /\ caller = "idle"
  /\ caller' = "runnow"
  /\ UNCHANGED <<loop, retry, ticking, tick, shutdown, complete, result>>

Stop ==
  /\ caller = "idle"
  /\ caller' = "stop"
  /\ UNCHANGED <<loop, retry, ticking, tick, shutdown, complete, result>>

\* Stopping the ticker also empties its channel; the retry timer is left.
StopTicker ==
  /\ caller = "stop"
  /\ caller' = "cancel"
  /\ ticking' = FALSE
  /\ tick' = FALSE
  /\ UNCHANGED <<loop, retry, shutdown, complete, result>>

\* Mutant: the context is not cancelled.
CancelShutdownForgotten ==
  /\ caller = "cancel"
  /\ caller' = "await"
  /\ UNCHANGED <<loop, retry, ticking, tick, shutdown, complete, result>>

CancelShutdown ==
  /\ caller = "cancel"
  /\ caller' = "await"
  /\ shutdown' = TRUE
  /\ UNCHANGED <<loop, retry, ticking, tick, complete, result>>

\* Mutant: Stop does not wait for the goroutine.
StopReturnsAtOnce ==
  /\ caller = "await"
  /\ caller' = "stopped"
  /\ UNCHANGED <<loop, retry, ticking, tick, shutdown, complete, result>>

StopReturns ==
  /\ caller = "await"
  /\ complete
  /\ caller' = "stopped"
  /\ complete' = FALSE
  /\ UNCHANGED <<loop, retry, ticking, tick, shutdown, result>>

-------------------------------------------------------------------------------
\* What the scheduler does by itself, and what goes on inside Stop.
LoopStep ==
  \/ Tick \/ RetryFires
  \/ ReceiveImmediate \/ ReceiveRetry \/ ReceiveTick \/ ReceiveShutdown

StopStep == StopTicker \/ CancelShutdown \/ StopReturns
=============================================================================
