-------------------------------- MODULE Daemon --------------------------------
(***************************************************************************)
(* The daemon: the signal loop and the scheduler of SignalLoop, with the   *)
(* refresher as the job.  The process ends when Run returns, whatever its  *)
(* goroutines are doing.                                                   *)
(***************************************************************************)
EXTENDS SignalLoop, Refresher

VARIABLE swept  \* the flows ShutdownInFlight has been through

daemonVars == <<vars, refresherVars, swept>>

\* The types of the signal loop, of the refresher and of the sweep.
DaemonTypeOK == TypeOK /\ RefresherTypeOK /\ swept \subseteq Flows

DaemonInit == Init /\ RefresherInit /\ swept = {}

\* A step of the main goroutine or of the scheduler.
Control(step) == step /\ UNCHANGED <<refresherVars, swept>>

\* A step of the job, inside the scheduler's goroutine.
Job(step) ==
  /\ main # "exited"
  /\ loop = "running"
  /\ step
  /\ UNCHANGED <<vars, swept>>

\* The last step of the job: it returns r to the scheduler.
JobReturns(r, step) == step /\ Scheduled(JobEnds(r)) /\ UNCHANGED swept

JobReturn ==
  \/ \E r \in {"error", "retry"} : JobReturns(r, NodeUnusable)
  \/ JobReturns("error", BindFails)
  \/ JobReturns("retry", StartFails)
  \/ JobReturns("ok", FlowRecorded)

Complete(f) ==
  /\ main # "exited"
  /\ CompleteStep(f)
  /\ UNCHANGED <<vars, swept>>

\* The runtime detects a map read that is concurrent with a map write.
Abort(f) ==
  /\ "abort" \in RaceOutcomes
  /\ Races(f)
  /\ Die
  /\ UNCHANGED <<refresherVars, swept>>

\* Mutant: a flow that has its answer is taken for one that is released.
ShutdownPolledFlow(f) ==
  /\ main = "stopping" /\ caller = "stopped"
  /\ f \in inFlight \ swept
  /\ sockets' = IF goroutine[f] = "poll" THEN Released(f) ELSE sockets
  /\ swept' = swept \union {f}
  /\ UNCHANGED <<vars, job, current, started, inFlight, goroutine, file,
                 damaged, missed>>

\* ShutdownInFlight: one flow of the map after the other, in any order.
ShutdownFlow(f) ==
  /\ main = "stopping" /\ caller = "stopped"
  /\ f \in inFlight \ swept
  /\ sockets' = Released(f)
  /\ swept' = swept \union {f}
  /\ UNCHANGED <<vars, job, current, started, inFlight, goroutine, file,
                 damaged, missed>>

Return ==
  /\ inFlight \subseteq swept
  /\ Exit
  /\ UNCHANGED <<refresherVars, swept>>

DaemonNext ==
  \/ \E s \in Signals : Control(Deliver(s))
  \/ Control(Boot) \/ Control(TakeHup) \/ Control(Reloaded) \/ Control(TakeTerm)
  \/ Control(Scheduled(LoopStep)) \/ Control(Scheduled(StopStep))
  \/ Job(JobStep) \/ JobReturn
  \/ \E f \in Flows : Complete(f) \/ Abort(f) \/ ShutdownFlow(f)
  \/ Return

\* As for the signal loop: neither Boot nor a job need return.  A goroutine goes
\* on until the process ends, but for its requests to tailscaled and to the API,
\* which may hang: those of the job's "status" and "start", and the polling of
\* complete.
DaemonFairness ==
  /\ LoopFairness
  /\ WF_daemonVars(Job(BindListener) \/ JobReturns("error", BindFails))
  /\ WF_daemonVars(JobReturns("ok", FlowRecorded))
  /\ \A f \in Flows :
       /\ WF_daemonVars(goroutine[f] # "poll" /\ Complete(f))
       /\ WF_daemonVars(ShutdownFlow(f))
  /\ WF_daemonVars(Return)

DaemonSpec == DaemonInit /\ [][DaemonNext]_daemonVars
DaemonFairSpec == DaemonSpec /\ DaemonFairness
-------------------------------------------------------------------------------
(* Properties.                                                             *)

\* ShutdownInFlight ranges over inFlight and Run returns only when no job can
\* be writing the map: unlike complete, it never races.
SweepNeverRaces == caller = "stopped" => job # "record"

\* While complete asks for the token the verifier can reach both challenge
\* servers of that flow, whatever the goroutines of other flows stop, until
\* the daemon shuts down.
ServersUpWhilePolling ==
  \A f \in Flows :
    goroutine[f] = "poll" /\ caller # "stopped" => sockets[f] = IPs

\* A flow that is over holds no listener, and neither does one whose job
\* failed: only a flow whose last lookup raced with Job's write, and missed its
\* entry, leaks them.
OverIsReleased ==
  \A f \in Flows :
    /\ goroutine[f] = "none" /\ ~(f = current /\ job # "status") => sockets[f] = 0
    /\ goroutine[f] = "done" => sockets[f] = 0 \/ f \in missed

\* Once no goroutine has the token file open it holds a whole token, even on a
\* disk that fails and after flows that overlapped on it, unless that happened
\* since a goroutine last began it alone: one that does makes it whole again.
FileWholeAtRest ==
  file \in {"empty", "torn"} => Open # {} \/ damaged

\* When Run returns no listener is left open, whatever the goroutines of the
\* flows have come to, whatever their lookups missed and however many flows
\* there are: the true part of the comment of ShutdownInFlight.
ClosedAtReturn ==
  [][Return => \A f \in Flows : sockets[f] = 0]_daemonVars

\* The request that starts the flow, or the one that asks for its token,
\* never returns.
RequestHangs(f) ==
  <>[](goroutine[f] = "poll"
         \/ (current = f /\ loop = "running" /\ job = "start"))

\* Every listener that is bound is closed again, unless a request of that very
\* flow hangs, or its last lookup raced and missed it.
ListenersReleased ==
  \A f \in Flows :
    \/ RequestHangs(f)
    \/ sockets[f] > 0 ~> (sockets[f] = 0 \/ f \in missed \/ main = "exited")

\* The comment of ShutdownInFlight: it "shuts down all the in-flight refresh
\* flows", so that none is left when Run returns. Not so: it stops their servers
\* only (README, disagreements).
NothingInFlightAtReturn ==
  [][Return => \A f \in Flows : goroutine[f] \in {"none", "done"}]_daemonVars
=============================================================================
