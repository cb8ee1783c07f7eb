------------------------------ MODULE SignalLoop ------------------------------
(***************************************************************************)
(* The daemon's main goroutine (cli.run.Run) around the scheduler: it      *)
(* registers a signal channel with room for one signal, asks the API for   *)
(* its version and configuration, starts the scheduler and then serves     *)
(* signals.  While SIGHUP waits in RunNow nobody drains the channel, and   *)
(* a signal that finds it full is lost.  The job is abstract here: it may  *)
(* return at any time with any result, or hang.                            *)
(***************************************************************************)
EXTENDS Scheduler, Naturals, Sequences

CONSTANT SigBuffer  \* capacity of the signal channel, 1 in the code

ASSUME SigBufferAssumption == SigBuffer \in Nat \ {0}

VARIABLES
  main,    \* phase of the main goroutine
  sigs,    \* the signal channel
  status,  \* the state last reported to systemd
  owed     \* history: a SIGHUP was sent and no job has started since

mainVars == <<main, sigs, status>>
vars == <<schedulerVars, mainVars, owed>>

Signals == {"HUP", "TERM"}

\* The signal channel never exceeds its capacity; the rest are types.
TypeOK ==
  /\ SchedulerTypeOK
  /\ main \in {"boot", "signals", "stopping", "exited"}
  /\ sigs \in Seq(Signals) /\ Len(sigs) <= SigBuffer
  /\ status \in {"starting", "ready", "reloading", "stopping"}
  /\ owed \in BOOLEAN

Init ==
  /\ SchedulerInit
  /\ main = "boot"
  /\ sigs = <<>>
  /\ status = "starting"
  /\ owed = FALSE

\* signal.Notify never blocks: it drops what does not fit.
Deliver(s) ==
  /\ main # "exited"
  /\ sigs' = IF Len(sigs) < SigBuffer THEN Append(sigs, s) ELSE sigs
  /\ owed' = (owed \/ s = "HUP")
  /\ UNCHANGED <<schedulerVars, main, status>>

\* The version check and the configuration request.
Boot ==
  /\ main = "boot"
  /\ \/ main' = "signals" /\ status' = "ready"
     \/ main' = "exited" /\ status' = status
  /\ UNCHANGED <<schedulerVars, sigs, owed>>

\* The goroutine is back at its receive from the signal channel.
Receiving(s) ==
  /\ main = "signals"
  /\ status = "ready"
  /\ sigs # <<>> /\ Head(sigs) = s
  /\ sigs' = Tail(sigs)

TakeHup ==
  /\ Receiving("HUP")
  /\ status' = "reloading"
  /\ RunNow
  /\ UNCHANGED <<main, owed>>

Reloaded ==
  /\ main = "signals"
  /\ status = "reloading"
  /\ caller = "idle"
  /\ status' = "ready"
  /\ UNCHANGED <<schedulerVars, main, sigs, owed>>

TakeTerm ==
  /\ Receiving("TERM")
  /\ main' = "stopping"
  /\ status' = "stopping"
  /\ Stop
  /\ UNCHANGED owed

\* Run returns once the scheduler has stopped.
Exit ==
  /\ main = "stopping"
  /\ caller = "stopped"
  /\ main' = "exited"
  /\ UNCHANGED <<schedulerVars, sigs, status, owed>>

\* The Go runtime aborts the process, or the kernel does.
Die ==
  /\ main # "exited"
  /\ main' = "exited"
  /\ UNCHANGED <<schedulerVars, sigs, status, owed>>

\* A step of the scheduler, which exists between Boot and Exit.  A job that
\* starts serves the reloads asked for so far.
Scheduled(step) ==
  /\ main \in {"signals", "stopping"}
  /\ step
  /\ owed' = (owed /\ ~(loop = "select" /\ loop' = "running"))
  /\ UNCHANGED mainVars

Next ==
  \/ \E s \in Signals : Deliver(s)
  \/ Boot \/ TakeHup \/ Reloaded \/ TakeTerm \/ Exit \/ Die
  \/ Scheduled(LoopStep) \/ Scheduled(StopStep)
  \/ \E r \in Results : Scheduled(JobEnds(r))

\* Each goroutine runs whenever it can.  A select with several ready cases
\* picks one uniformly at random, so a case that is ready again and again is
\* taken: strong fairness.  Nothing makes Boot or a job return: the requests
\* they make have no timeout.
LoopFairness ==
  /\ WF_vars(TakeHup) /\ WF_vars(Reloaded) /\ WF_vars(TakeTerm)
  /\ WF_vars(Scheduled(StopStep))
  /\ WF_vars(Scheduled(RetryFires))
  /\ SF_vars(Scheduled(ReceiveImmediate))
  /\ SF_vars(Scheduled(ReceiveRetry))
  /\ SF_vars(Scheduled(ReceiveShutdown))

Spec == Init /\ [][Next]_vars
-------------------------------------------------------------------------------
(* Properties.                                                             *)

\* Stop returns only when the scheduler goroutine is gone, so that no job runs
\* while, or after, the in-flight flows are shut down.
StoppedIsQuiet == caller = "stopped" => loop = "done"

\* A request of the boot or of a job that never returns.
Hung == <>[](main = "boot") \/ <>[](loop = "running")

\* Unless a request hangs, a SIGHUP is followed by a job that starts after it, or by
\* the end of the daemon, even when the signal itself was dropped or the job
\* before it was still running.
ReloadServed == Hung \/ (owed ~> (~owed \/ main = "exited"))

\* A daemon that has begun to stop stops, whatever jobs and retries are due,
\* unless a request hangs.
StopTerminates == Hung \/ (main = "stopping" ~> main = "exited")

\* A job that asked for a retry runs again without waiting for a tick or a
\* signal, unless the scheduler or the daemon stops.
RetryHonoured ==
  (result = "retry" /\ loop = "select") ~> (loop # "select" \/ main = "exited")

\* The comment of Stop: "Stop finishes any jobs in progress and halt the
\* scheduler": no job starts once the scheduler was told to stop. Not so: a retry
\* that is due may be taken first (README, disagreements).
NoRunAfterStop == [][shutdown /\ loop = "select" => loop' # "running"]_vars

\* The comment of RunNow: "RunNow enqueues a run immediately": its caller
\* never waits for a job that is running. Not so: the channel has no room
\* (README, disagreements).
RunNowEnqueues == ~(caller = "runnow" /\ loop = "running")
=============================================================================
