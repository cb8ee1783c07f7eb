----------------------------- MODULE Daemon_proofs -----------------------------
(***************************************************************************)
(* Stop waits for the job; the daemon implements the signal loop, its      *)
(* flows keep their servers exactly as long as they need them, and the     *)
(* token file is whole between two writes.                                 *)
(***************************************************************************)
EXTENDS Daemon, TLAPS

-------------------------------------------------------------------------------
(* The signal loop.                                                        *)

\* The value in shutdownComplete was sent by a goroutine that is gone.
LoopInv ==
  /\ TypeOK
  /\ complete => loop = "done"
  /\ StoppedIsQuiet

\* Every step of the scheduler and of Stop preserves the invariant's part about
\* them.
LEMMA SchedulerSteps ==
  ASSUME SchedulerTypeOK, complete => loop = "done", StoppedIsQuiet,
         LoopStep \/ StopStep \/ (\E r \in Results : JobEnds(r))
  PROVE  (SchedulerTypeOK /\ (complete => loop = "done") /\ StoppedIsQuiet)'
<1> USE DEF SchedulerTypeOK, StoppedIsQuiet
<1>1. CASE Tick
  BY <1>1 DEF Tick
<1>2. CASE RetryFires
  BY <1>2 DEF RetryFires
<1>3. CASE ReceiveImmediate
  BY <1>3 DEF ReceiveImmediate
<1>4. CASE ReceiveRetry
  BY <1>4 DEF ReceiveRetry
<1>5. CASE ReceiveTick
  BY <1>5 DEF ReceiveTick
<1>6. CASE ReceiveShutdown
  BY <1>6 DEF ReceiveShutdown
<1>7. CASE StopTicker
  BY <1>7 DEF StopTicker
<1>8. CASE CancelShutdown
  BY <1>8 DEF CancelShutdown
<1>9. CASE StopReturns
  BY <1>9 DEF StopReturns
<1>10. CASE \E r \in Results : JobEnds(r)
  BY <1>10 DEF JobEnds, Results
<1>11. QED
  BY <1>1, <1>2, <1>3, <1>4, <1>5, <1>6, <1>7, <1>8, <1>9, <1>10
     DEF LoopStep, StopStep

\* A signal that is delivered fits into the channel or is dropped.
LEMMA DeliverType ==
  ASSUME LoopInv, NEW s \in Signals, Deliver(s)
  PROVE  LoopInv'
<1> USE SigBufferAssumption
<1>1. sigs' \in Seq(Signals) /\ Len(sigs') <= SigBuffer
  <2>1. CASE Len(sigs) < SigBuffer
    BY <2>1 DEF LoopInv, TypeOK, Deliver
  <2>2. CASE ~(Len(sigs) < SigBuffer)
    BY <2>2 DEF LoopInv, TypeOK, Deliver
  <2>3. QED
    BY <2>1, <2>2
<1>2. owed' \in BOOLEAN
  BY DEF LoopInv, TypeOK, Deliver
<1>3. QED
  BY <1>1, <1>2 DEF LoopInv, TypeOK, SchedulerTypeOK, StoppedIsQuiet, Deliver,
     schedulerVars

\* Receiving a signal leaves a shorter channel.
LEMMA ReceivingType ==
  ASSUME LoopInv, NEW s, Receiving(s)
  PROVE  sigs' \in Seq(Signals) /\ Len(sigs') <= SigBuffer
BY SigBufferAssumption DEF LoopInv, TypeOK, Receiving

\* The invariant is inductive.
LEMMA LoopInvStep ==
  ASSUME LoopInv, [Next]_vars
  PROVE  LoopInv'
<1> USE DEF LoopInv, TypeOK
<1>1. CASE \E s \in Signals : Deliver(s)
  BY <1>1, DeliverType
<1>2. CASE Boot
  BY <1>2 DEF Boot, schedulerVars, SchedulerTypeOK, StoppedIsQuiet
<1>3. CASE TakeHup
  BY <1>3, ReceivingType
     DEF TakeHup, RunNow, Receiving, SchedulerTypeOK, StoppedIsQuiet
<1>4. CASE Reloaded
  BY <1>4 DEF Reloaded, schedulerVars, SchedulerTypeOK, StoppedIsQuiet
<1>5. CASE TakeTerm
  BY <1>5, ReceivingType
     DEF TakeTerm, Stop, Receiving, SchedulerTypeOK, StoppedIsQuiet
<1>6. CASE Exit \/ Die
  BY <1>6 DEF Exit, Die, schedulerVars, SchedulerTypeOK, StoppedIsQuiet
<1>7. CASE Scheduled(LoopStep) \/ Scheduled(StopStep)
           \/ \E r \in Results : Scheduled(JobEnds(r))
  <2>1. LoopStep \/ StopStep \/ \E r \in Results : JobEnds(r)
    BY <1>7 DEF Scheduled
  <2>2. (SchedulerTypeOK /\ (complete => loop = "done") /\ StoppedIsQuiet)'
    BY <2>1, SchedulerSteps
  <2>3. UNCHANGED mainVars
    BY <1>7 DEF Scheduled
  <2>4. owed' \in BOOLEAN
    BY <1>7 DEF Scheduled
  <2>5. QED
    BY <2>2, <2>3, <2>4 DEF mainVars
<1>8. CASE UNCHANGED vars
  BY <1>8 DEF vars, mainVars, schedulerVars, SchedulerTypeOK, StoppedIsQuiet
<1>9. QED
  BY <1>1, <1>2, <1>3, <1>4, <1>5, <1>6, <1>7, <1>8 DEF Next

\* The initial state satisfies the invariant.
LEMMA LoopInvInit == Init => LoopInv
<1> SUFFICES ASSUME Init PROVE LoopInv
  OBVIOUS
<1>1. SchedulerTypeOK /\ ~complete /\ StoppedIsQuiet
  BY DEF Init, SchedulerInit, SchedulerTypeOK, StoppedIsQuiet
<1>2. sigs \in Seq(Signals) /\ Len(sigs) <= SigBuffer
  BY SigBufferAssumption DEF Init
<1>3. QED
  BY <1>1, <1>2 DEF LoopInv, TypeOK, Init

\* The signal loop keeps its types and the link between Stop and the goroutine.
THEOREM LoopInvHolds == Spec => []LoopInv
<1>1. LoopInv /\ [Next]_vars => LoopInv'
  BY LoopInvStep
<1>2. QED
  BY <1>1, LoopInvInit, PTL DEF Spec

\* Stop returns only when the scheduler's goroutine is gone, for any capacity
\* of the signal channel.
THEOREM StopWaits == Spec => []StoppedIsQuiet
<1>1. LoopInv => StoppedIsQuiet
  BY DEF LoopInv
<1>2. QED
  BY <1>1, LoopInvHolds, PTL

\* The signal loop's variables keep their types.
THEOREM LoopTypeCorrect == Spec => []TypeOK
<1>1. LoopInv => TypeOK
  BY DEF LoopInv
<1>2. QED
  BY <1>1, LoopInvHolds, PTL

-------------------------------------------------------------------------------
(* Nobody waits in vain.                                                   *)

\* A SIGHUP that no job has served yet is in the signal channel, behind a
\* signal that filled it, or with RunNow, unless the daemon stops.
ReloadIsPending ==
  owed => sigs # <<>> \/ caller = "runnow" \/ main \in {"stopping", "exited"}

\* A job that asked for a retry has its timer running or fired.
RetryIsDue == result = "retry" /\ loop = "select" => retry # "off"

\* While the daemon serves signals the scheduler's goroutine and its ticker
\* are alive, so that RunNow finds a receiver; the main goroutine is at its
\* receive, in RunNow or on its way back from there.
ServesSignals ==
  main = "signals" =>
    /\ loop # "done" /\ ~shutdown /\ ticking
    /\ status \in {"ready", "reloading"}
    /\ caller = "idle" \/ (caller = "runnow" /\ status = "reloading")

\* While it stops, Stop is under way, has cancelled the scheduler's context
\* before it waits, and finds the completion if the goroutine is gone.
StopIsAnswered ==
  main = "stopping" =>
    /\ caller \in {"stop", "cancel", "await", "stopped"}
    /\ caller = "await" => shutdown
    /\ caller # "stopped" /\ loop = "done" => complete

\* The program's goroutines never wait for one that cannot come.
WaitsAreServed == ReloadIsPending /\ RetryIsDue /\ ServesSignals /\ StopIsAnswered

\* Before it serves signals, the daemon has started nothing.
BootInv ==
  main = "boot" =>
    /\ caller = "idle" /\ loop = "select" /\ ~shutdown /\ ticking
    /\ status = "starting"

WaitInv == WaitsAreServed /\ BootInv

LEMMA WaitStep ==
  ASSUME LoopInv, WaitInv, [Next]_vars
  PROVE  WaitInv'
<1> USE DEF LoopInv, TypeOK, SchedulerTypeOK, WaitInv, WaitsAreServed, ReloadIsPending,
    RetryIsDue, ServesSignals, StopIsAnswered, BootInv
<1>1. ASSUME NEW s \in Signals, Deliver(s)
      PROVE  WaitInv'
  <2>1. sigs' # <<>>
    BY <1>1, SigBufferAssumption DEF Deliver
  <2> QED BY <1>1, <2>1 DEF Deliver, schedulerVars
<1>2. CASE Boot \/ Reloaded
  BY <1>2 DEF Boot, Reloaded, schedulerVars
<1>3. CASE TakeHup
  BY <1>3 DEF TakeHup, Receiving, RunNow
<1>4. CASE TakeTerm
  BY <1>4 DEF TakeTerm, Receiving, Stop
<1>5. CASE Exit \/ Die
  BY <1>5 DEF Exit, Die, schedulerVars
<1>6. ASSUME Scheduled(LoopStep) PROVE WaitInv'
  <2>1. CASE Tick \/ RetryFires
    BY <1>6, <2>1 DEF Scheduled, Tick, RetryFires, mainVars
  <2>2. CASE ReceiveImmediate \/ ReceiveRetry \/ ReceiveTick
    BY <1>6, <2>2
    DEF Scheduled, ReceiveImmediate, ReceiveRetry, ReceiveTick, mainVars
  <2>3. CASE ReceiveShutdown
    BY <1>6, <2>3 DEF Scheduled, ReceiveShutdown, mainVars
  <2> QED BY <1>6, <2>1, <2>2, <2>3 DEF Scheduled, LoopStep
<1>7. CASE Scheduled(StopStep)
  BY <1>7 DEF Scheduled, StopStep, StopTicker, CancelShutdown, StopReturns, mainVars
<1>8. ASSUME NEW r \in Results, Scheduled(JobEnds(r))
      PROVE  WaitInv'
  BY <1>8 DEF Scheduled, JobEnds, mainVars
<1>9. CASE UNCHANGED vars
  BY <1>9 DEF vars, mainVars, schedulerVars
<1> QED
  BY <1>1, <1>2, <1>3, <1>4, <1>5, <1>6, <1>7, <1>8, <1>9 DEF Next

\* With any capacity of the signal channel, any signals and any results of the
\* job, whoever waits in the signal loop waits for something that is under way:
\* the safety side of ReloadServed, StopTerminates and RetryHonoured.
THEOREM LoopNeverWaitsInVain == Spec => []WaitsAreServed
<1>1. Init => WaitInv
  BY DEF Init, SchedulerInit, WaitInv, WaitsAreServed, ReloadIsPending,
     RetryIsDue, ServesSignals, StopIsAnswered, BootInv
<1>2. WaitInv => WaitsAreServed
  BY DEF WaitInv
<1> QED
  BY <1>1, <1>2, WaitStep, LoopInvHolds, PTL DEF Spec

-------------------------------------------------------------------------------
(* The flows of the refresher.                                             *)

\* How far the job has come with the current flow, which has no goroutine yet.
JobInv ==
  /\ job # "status" => loop = "running"
  /\ job \in {"bind", "start"} => current \notin started
  /\ job = "record" => current \in started /\ goroutine[current] = "none"
  /\ job = "bind" => sockets[current] < IPs
  /\ job \in {"start", "record"} => sockets[current] = IPs

\* A flow has a goroutine only after it was recorded.
RecordedInv ==
  \A f \in Flows : goroutine[f] # "none" => f \in started /\ f \in inFlight

FlowInv ==
  /\ RefresherTypeOK
  /\ swept \subseteq Flows
  /\ JobInv
  /\ RecordedInv
  /\ ServersUpWhilePolling
  /\ OverIsReleased

-------------------------------------------------------------------------------
(* What the steps do to the loop and to the goroutine that stops it.       *)

\* The job is not taken away from the scheduler's goroutine, and Stop returns
\* for good.
LoopKeeps ==
  /\ job' # "status" => loop' = "running"
  /\ caller = "stopped" => caller' = "stopped"

\* The scheduler's own steps do not touch a running job.
LEMMA LoopStepKeeps ==
  ASSUME LoopStep \/ StopStep
  PROVE  /\ loop = "running" => loop' = "running"
         /\ caller = "stopped" => caller' = "stopped"
<1>1. CASE Tick
  BY <1>1 DEF Tick
<1>2. CASE RetryFires
  BY <1>2 DEF RetryFires
<1>3. CASE ReceiveImmediate
  BY <1>3 DEF ReceiveImmediate
<1>4. CASE ReceiveRetry
  BY <1>4 DEF ReceiveRetry
<1>5. CASE ReceiveTick
  BY <1>5 DEF ReceiveTick
<1>6. CASE ReceiveShutdown
  BY <1>6 DEF ReceiveShutdown
<1>7. CASE StopTicker
  BY <1>7 DEF StopTicker
<1>8. CASE CancelShutdown
  BY <1>8 DEF CancelShutdown
<1>9. CASE StopReturns
  BY <1>9 DEF StopReturns
<1>10. QED
  BY <1>1, <1>2, <1>3, <1>4, <1>5, <1>6, <1>7, <1>8, <1>9 DEF LoopStep, StopStep

\* Neither do the steps of the main goroutine.
LEMMA MainStepKeeps ==
  ASSUME \/ \E s \in Signals : Deliver(s)
         \/ Boot \/ TakeHup \/ Reloaded \/ TakeTerm \/ Exit \/ Die
  PROVE  /\ loop = "running" => loop' = "running"
         /\ caller = "stopped" => caller' = "stopped"
<1>1. CASE TakeHup \/ TakeTerm
  BY <1>1 DEF TakeHup, TakeTerm, RunNow, Stop
<1>2. CASE (\E s \in Signals : Deliver(s)) \/ Boot \/ Reloaded \/ Exit \/ Die
  BY <1>2 DEF Deliver, Boot, Reloaded, Exit, Die, schedulerVars
<1>3. QED
  BY <1>1, <1>2

\* A step that leaves the refresher alone preserves its invariant.
LEMMA OtherStep ==
  ASSUME FlowInv, UNCHANGED <<refresherVars, swept>>,
         loop = "running" => loop' = "running",
         caller = "stopped" => caller' = "stopped"
  PROVE  FlowInv'
<1> USE DEF FlowInv, refresherVars
<1>1. RefresherTypeOK' /\ (swept \subseteq Flows)'
  BY DEF RefresherTypeOK
<1>2. JobInv' /\ RecordedInv'
  BY DEF JobInv, RecordedInv
<1>3. ServersUpWhilePolling' /\ OverIsReleased'
  BY DEF ServersUpWhilePolling, OverIsReleased
<1>4. QED
  BY <1>1, <1>2, <1>3
-------------------------------------------------------------------------------
(* The steps of the job.                                                   *)

\* The job takes a flow that was not started.
LEMMA NodeUsableStep ==
  ASSUME FlowInv, NodeUsable, LoopKeeps, swept' = swept
  PROVE  FlowInv'
<1> USE DEF FlowInv, NodeUsable
<1>1. RefresherTypeOK'
  BY DEF RefresherTypeOK
<1>2. goroutine[current'] = "none" /\ sockets[current'] = 0
  BY DEF RefresherTypeOK, RecordedInv, OverIsReleased, JobInv, IPs
<1>3. JobInv' /\ RecordedInv'
  BY <1>2 DEF JobInv, RecordedInv, LoopKeeps, IPs
<1>4. ServersUpWhilePolling' /\ OverIsReleased'
  BY DEF ServersUpWhilePolling, OverIsReleased, LoopKeeps
<1>5. QED
  BY <1>1, <1>3, <1>4

\* A listener is bound for the current flow.
LEMMA BindListenerStep ==
  ASSUME FlowInv, BindListener, LoopKeeps, swept' = swept
  PROVE  FlowInv'
<1> USE DEF FlowInv, BindListener
<1>1. current \in Flows /\ goroutine[current] = "none" /\ sockets[current] \in 0 .. 1
  BY DEF RefresherTypeOK, RecordedInv, JobInv, IPs
<1>2. /\ sockets'[current] = sockets[current] + 1
      /\ \A f \in Flows \ {current} : sockets'[f] = sockets[f]
      /\ sockets' \in [Flows -> 0 .. IPs]
  BY <1>1 DEF RefresherTypeOK, IPs
<1>3. RefresherTypeOK'
  BY <1>2 DEF RefresherTypeOK
<1>4. JobInv' /\ RecordedInv'
  BY <1>1, <1>2 DEF JobInv, RecordedInv, LoopKeeps, IPs
<1>5. ServersUpWhilePolling' /\ OverIsReleased'
  BY <1>1, <1>2 DEF ServersUpWhilePolling, OverIsReleased, LoopKeeps
<1>6. QED
  BY <1>3, <1>4, <1>5

\* A job that fails releases what it has bound.
LEMMA ReleaseStep ==
  ASSUME FlowInv, BindFails \/ StartFails, LoopKeeps, swept' = swept
  PROVE  FlowInv'
<1> USE DEF FlowInv
<1>1. /\ job \in {"bind", "start"} /\ job' = "status"
      /\ sockets' = Released(current)
      /\ UNCHANGED <<current, started, inFlight, goroutine, file, damaged, missed>>
  BY DEF BindFails, StartFails
<1>2. current \in Flows /\ goroutine[current] = "none"
  BY <1>1 DEF RefresherTypeOK, RecordedInv, JobInv
<1>3. /\ sockets'[current] = 0
      /\ \A f \in Flows \ {current} : sockets'[f] = sockets[f]
      /\ sockets' \in [Flows -> 0 .. IPs]
  BY <1>1, <1>2 DEF RefresherTypeOK, Released, IPs
<1>4. RefresherTypeOK'
  BY <1>1, <1>3 DEF RefresherTypeOK
<1>5. JobInv' /\ RecordedInv'
  BY <1>1 DEF JobInv, RecordedInv
<1>6. ServersUpWhilePolling' /\ OverIsReleased'
  BY <1>1, <1>2, <1>3 DEF ServersUpWhilePolling, OverIsReleased, LoopKeeps
<1>7. QED
  BY <1>4, <1>5, <1>6

\* The API accepts the flow.
LEMMA FlowStartedStep ==
  ASSUME FlowInv, FlowStarted, LoopKeeps, swept' = swept
  PROVE  FlowInv'
<1> USE DEF FlowInv, FlowStarted
<1>1. current \in Flows /\ goroutine[current] = "none"
  BY DEF RefresherTypeOK, RecordedInv, JobInv
<1>2. RefresherTypeOK'
  BY <1>1 DEF RefresherTypeOK
<1>3. JobInv' /\ RecordedInv'
  BY <1>1 DEF JobInv, RecordedInv, LoopKeeps
<1>4. ServersUpWhilePolling' /\ OverIsReleased'
  BY DEF ServersUpWhilePolling, OverIsReleased, LoopKeeps
<1>5. QED
  BY <1>2, <1>3, <1>4

\* complete begins with both servers of its flow up.
LEMMA FlowRecordedStep ==
  ASSUME FlowInv, FlowRecorded, LoopKeeps, swept' = swept
  PROVE  FlowInv'
<1> USE DEF FlowInv, FlowRecorded
<1>1. current \in Flows /\ current \in started /\ sockets[current] = IPs
  BY DEF RefresherTypeOK, JobInv
<1>2. /\ goroutine'[current] = "poll"
      /\ \A f \in Flows \ {current} : goroutine'[f] = goroutine[f]
  BY <1>1 DEF RefresherTypeOK
<1>3. RefresherTypeOK'
  BY <1>1 DEF RefresherTypeOK
<1>4. JobInv' /\ RecordedInv'
  BY <1>1, <1>2 DEF JobInv, RecordedInv
<1>5. ServersUpWhilePolling' /\ OverIsReleased'
  BY <1>1, <1>2 DEF ServersUpWhilePolling, OverIsReleased, LoopKeeps
<1>6. QED
  BY <1>3, <1>4, <1>5
-------------------------------------------------------------------------------
(* The steps of complete.                                                  *)

\* A lookup can only miss a recorded flow when it races.
LEMMA LookupFinds ==
  ASSUME NEW f \in inFlight, goroutine[f] = "defer", FALSE \in Lookups(f)
  PROVE  Races(f)
BY DEF Lookups, Races

\* A step of complete that moves a goroutine on and binds nothing.
LEMMA GoroutineStep ==
  ASSUME FlowInv, NEW f \in Flows, goroutine[f] # "none",
         NEW pc \in {"lookup", "stop", "create", "write", "defer", "deferstop",
                     "done"},
         goroutine' = [goroutine EXCEPT ![f] = pc],
         sockets' = sockets \/ sockets' = Released(f),
         pc = "done" => sockets'[f] = 0 \/ f \in missed',
         missed' \subseteq Flows, missed \subseteq missed',
         file' \in Flows \union {"absent", "empty", "torn"},
         damaged' \in BOOLEAN,
         UNCHANGED <<job, current, started, inFlight, vars, swept>>
  PROVE  FlowInv'
<1> USE DEF FlowInv
<1>1. /\ goroutine'[f] = pc
      /\ \A g \in Flows \ {f} :
           goroutine'[g] = goroutine[g] /\ sockets'[g] = sockets[g]
      /\ sockets' \in [Flows -> 0 .. IPs]
  BY DEF RefresherTypeOK, Released, IPs
<1>2. RefresherTypeOK'
  BY <1>1 DEF RefresherTypeOK
<1>3. loop' = loop /\ caller' = caller
  BY DEF vars, schedulerVars
<1>4. JobInv' /\ RecordedInv'
  <2>1. job \in {"bind", "start", "record"} => f # current
    BY DEF JobInv, RecordedInv
  <2>2. RecordedInv'
    BY <1>1 DEF RecordedInv
  <2>3. QED
    BY <1>1, <1>3, <2>1, <2>2 DEF JobInv, RefresherTypeOK
<1>5. ServersUpWhilePolling' /\ OverIsReleased'
  BY <1>1, <1>3 DEF ServersUpWhilePolling, OverIsReleased
<1>6. QED
  BY <1>2, <1>4, <1>5

\* Every step of complete is one.
LEMMA CompletePreserves ==
  ASSUME FlowInv, NEW f \in Flows, Complete(f)
  PROVE  FlowInv'
<1> USE DEF Complete
<1>1. CASE Polled(f)
  BY <1>1, GoroutineStep DEF Polled, FlowInv, RefresherTypeOK
<1>2. CASE LookUp(f)
  BY <1>2, GoroutineStep DEF LookUp, FlowInv, RefresherTypeOK
<1>3. CASE StopServers(f)
  BY <1>3, GoroutineStep DEF StopServers, FlowInv, RefresherTypeOK
<1>4. CASE Create(f)
  BY <1>4, GoroutineStep DEF Create, FlowInv, RefresherTypeOK
<1>5. CASE CreateFails(f)
  BY <1>5, GoroutineStep DEF CreateFails, FlowInv, RefresherTypeOK
<1>6. CASE Copy(f)
  <2>1. file' \in Flows \union {"absent", "empty", "torn"}
    BY <1>6 DEF Copy, Written, FlowInv, RefresherTypeOK
  <2>2. QED
    BY <1>6, <2>1, GoroutineStep DEF Copy, FlowInv, RefresherTypeOK
<1>7. CASE DeferredLookUp(f)
  <2>1. f \in inFlight /\ goroutine[f] = "defer"
    BY <1>7 DEF DeferredLookUp, FlowInv, RecordedInv
  <2>2. PICK found \in Lookups(f) :
          /\ goroutine' = [goroutine EXCEPT
                             ![f] = IF found THEN "deferstop" ELSE "done"]
          /\ missed' = IF found \/ ~Races(f) THEN missed ELSE missed \union {f}
    BY <1>7 DEF DeferredLookUp
  <2>3. missed' \subseteq Flows /\ missed \subseteq missed'
    BY <2>2 DEF FlowInv, RefresherTypeOK
  <2>4. CASE found
    BY <1>7, <2>1, <2>2, <2>3, <2>4, GoroutineStep
       DEF DeferredLookUp, FlowInv, RefresherTypeOK
  <2>5. CASE ~found
    <3>1. found = FALSE
      BY <2>2, <2>5 DEF Lookups
    <3>2. f \in missed'
      BY <2>1, <2>2, <3>1, LookupFinds
    <3>3. QED
      BY <1>7, <2>1, <2>2, <2>3, <2>5, <3>2, GoroutineStep
         DEF DeferredLookUp, FlowInv, RefresherTypeOK
  <2>6. QED
    BY <2>4, <2>5
<1>8. CASE DeferredStop(f)
  <2>1. sockets'[f] = 0
    BY <1>8 DEF DeferredStop, Released, FlowInv, RefresherTypeOK
  <2>2. QED
    BY <1>8, <2>1, GoroutineStep DEF DeferredStop, FlowInv, RefresherTypeOK
<1>9. QED
  BY <1>1, <1>2, <1>3, <1>4, <1>5, <1>6, <1>7, <1>8 DEF CompleteStep

-------------------------------------------------------------------------------
(* The daemon.                                                             *)

\* ShutdownInFlight finds no job at work, and nothing it does is a poll's loss.
LEMMA ShutdownFlowStep ==
  ASSUME FlowInv, LoopInv, NEW f \in Flows, ShutdownFlow(f)
  PROVE  FlowInv'
<1> USE DEF FlowInv, ShutdownFlow
<1>1. job = "status" /\ caller' = "stopped"
  BY DEF LoopInv, StoppedIsQuiet, JobInv, RefresherTypeOK, vars, schedulerVars
<1>2. /\ sockets'[f] = 0
      /\ \A g \in Flows \ {f} : sockets'[g] = sockets[g]
      /\ sockets' \in [Flows -> 0 .. IPs]
  BY DEF RefresherTypeOK, Released, IPs
<1>3. RefresherTypeOK' /\ (swept \subseteq Flows)'
  BY <1>2 DEF RefresherTypeOK
<1>4. JobInv' /\ RecordedInv'
  BY <1>1 DEF JobInv, RecordedInv
<1>5. ServersUpWhilePolling' /\ OverIsReleased'
  BY <1>1, <1>2 DEF ServersUpWhilePolling, OverIsReleased
<1>6. QED
  BY <1>3, <1>4, <1>5

\* A step inside the job.
LEMMA JobPreserves ==
  ASSUME FlowInv, Job(JobStep)
  PROVE  FlowInv'
<1>1. LoopKeeps /\ swept' = swept
  BY DEF Job, LoopKeeps, vars, schedulerVars
<1>2. NodeUsable \/ BindListener \/ FlowStarted
  BY DEF Job, JobStep
<1>3. QED
  BY <1>1, <1>2, NodeUsableStep, BindListenerStep, FlowStartedStep

\* The job returns.
LEMMA JobReturnPreserves ==
  ASSUME FlowInv, JobReturn
  PROVE  FlowInv'
<1>1. PICK r \in Results : Scheduled(JobEnds(r))
  BY DEF JobReturn, JobReturns, Results
<1>2. /\ swept' = swept
      /\ NodeUnusable \/ BindFails \/ StartFails \/ FlowRecorded
  BY DEF JobReturn, JobReturns
<1>3. caller' = caller
  BY <1>1 DEF Scheduled, JobEnds
<1>4. CASE NodeUnusable
  <2>1. job = "status" /\ UNCHANGED <<refresherVars, swept>>
    BY <1>2, <1>4 DEF NodeUnusable
  <2>2. RefresherTypeOK' /\ (swept \subseteq Flows)'
    BY <2>1 DEF FlowInv, RefresherTypeOK, refresherVars
  <2>3. JobInv' /\ RecordedInv'
    BY <2>1 DEF FlowInv, JobInv, RecordedInv, refresherVars
  <2>4. ServersUpWhilePolling' /\ OverIsReleased'
    BY <2>1, <1>3 DEF FlowInv, ServersUpWhilePolling, OverIsReleased, refresherVars
  <2>5. QED
    BY <2>2, <2>3, <2>4 DEF FlowInv
<1>5. CASE BindFails \/ StartFails \/ FlowRecorded
  <2>1. LoopKeeps
    BY <1>3, <1>5 DEF LoopKeeps, BindFails, StartFails, FlowRecorded
  <2>2. QED
    BY <1>2, <1>5, <2>1, ReleaseStep, FlowRecordedStep
<1>6. QED
  BY <1>2, <1>4, <1>5

\* The flows' invariant is inductive, given the signal loop's.
LEMMA FlowInvStep ==
  ASSUME FlowInv, LoopInv, [DaemonNext]_daemonVars
  PROVE  FlowInv'
<1>1. CASE \/ \E s \in Signals : Control(Deliver(s))
           \/ Control(Boot) \/ Control(TakeHup) \/ Control(Reloaded)
           \/ Control(TakeTerm) \/ Return
           \/ \E f \in Flows : Abort(f)
  <2>1. UNCHANGED <<refresherVars, swept>>
    BY <1>1 DEF Control, Return, Abort
  <2>2. \/ \E s \in Signals : Deliver(s)
        \/ Boot \/ TakeHup \/ Reloaded \/ TakeTerm \/ Exit \/ Die
    BY <1>1 DEF Control, Return, Abort
  <2>3. QED
    BY <2>1, <2>2, MainStepKeeps, OtherStep
<1>2. CASE Control(Scheduled(LoopStep)) \/ Control(Scheduled(StopStep))
  <2>1. UNCHANGED <<refresherVars, swept>> /\ (LoopStep \/ StopStep)
    BY <1>2 DEF Control, Scheduled
  <2>2. QED
    BY <2>1, LoopStepKeeps, OtherStep
<1>3. CASE Job(JobStep) \/ JobReturn
  BY <1>3, JobPreserves, JobReturnPreserves
<1>4. CASE \E f \in Flows : Complete(f) \/ ShutdownFlow(f)
  BY <1>4, CompletePreserves, ShutdownFlowStep
<1>5. CASE UNCHANGED daemonVars
  <2>1. UNCHANGED <<refresherVars, swept>> /\ loop' = loop /\ caller' = caller
    BY <1>5 DEF daemonVars, vars, schedulerVars
  <2>2. QED
    BY <2>1, OtherStep
<1>6. QED
  BY <1>1, <1>2, <1>3, <1>4, <1>5 DEF DaemonNext

\* The initial state satisfies the invariant.
LEMMA FlowInvInit == DaemonInit => FlowInv
<1> SUFFICES ASSUME DaemonInit PROVE FlowInv
  OBVIOUS
<1> USE DEF DaemonInit, RefresherInit
<1>1. RefresherTypeOK /\ swept \subseteq Flows
  <2>1. sockets \in [Flows -> 0 .. IPs]
    BY DEF IPs
  <2>2. QED
    BY <2>1 DEF RefresherTypeOK
<1>2. JobInv /\ RecordedInv
  BY DEF JobInv, RecordedInv
<1>3. ServersUpWhilePolling /\ OverIsReleased
  BY DEF ServersUpWhilePolling, OverIsReleased
<1>4. QED
  BY <1>1, <1>2, <1>3 DEF FlowInv

\* A step of the daemon is a step of the signal loop, or leaves it alone.
LEMMA DaemonStepIsLoopStep ==
  ASSUME [DaemonNext]_daemonVars
  PROVE  [Next]_vars
<1>1. CASE \/ \E s \in Signals : Control(Deliver(s))
           \/ Control(Boot) \/ Control(TakeHup) \/ Control(Reloaded)
           \/ Control(TakeTerm) \/ Return
           \/ Control(Scheduled(LoopStep)) \/ Control(Scheduled(StopStep))
           \/ \E f \in Flows : Abort(f)
  BY <1>1 DEF Control, Return, Abort, Next
<1>2. CASE JobReturn
  <2>1. \E r \in Results : Scheduled(JobEnds(r))
    BY <1>2 DEF JobReturn, JobReturns, Results
  <2>2. QED
    BY <2>1 DEF Next
<1>3. CASE Job(JobStep) \/ \E f \in Flows : Complete(f) \/ ShutdownFlow(f)
  BY <1>3 DEF Job, Complete, ShutdownFlow
<1>4. CASE UNCHANGED daemonVars
  BY <1>4 DEF daemonVars
<1>5. QED
  BY <1>1, <1>2, <1>3, <1>4 DEF DaemonNext

\* With the refresher as its job, the daemon implements the signal loop: the
\* refresher's goroutines, races and shutdown never disturb the scheduler.
THEOREM DaemonImplementsLoop == DaemonSpec => Spec
<1>1. DaemonInit => Init
  BY DEF DaemonInit
<1>2. [DaemonNext]_daemonVars => [Next]_vars
  BY DaemonStepIsLoopStep
<1>3. QED
  BY <1>1, <1>2, PTL DEF DaemonSpec, Spec

\* The same of the daemon: neither its flows nor their races take away what a
\* reload, a retry or Stop waits for.
THEOREM DaemonNeverWaitsInVain == DaemonSpec => []WaitsAreServed
BY DaemonImplementsLoop, LoopNeverWaitsInVain, PTL

\* The invariants of the flows hold in every state of the daemon.
THEOREM FlowInvHolds == DaemonSpec => []FlowInv
<1>1. FlowInv /\ LoopInv /\ [DaemonNext]_daemonVars => FlowInv'
  BY FlowInvStep
<1>2. DaemonSpec => []LoopInv
  BY DaemonImplementsLoop, LoopInvHolds, PTL
<1>3. QED
  BY <1>1, <1>2, FlowInvInit, PTL DEF DaemonSpec

\* For any number of flows, any signals and any outcome of a race, a flow that
\* is polled can be verified at both addresses.
THEOREM ServersStayUp == DaemonSpec => []ServersUpWhilePolling
<1>1. FlowInv => ServersUpWhilePolling
  BY DEF FlowInv
<1>2. QED
  BY <1>1, FlowInvHolds, PTL

\* No flow that is over holds a listener.
THEOREM NoListenerLeaks == DaemonSpec => []OverIsReleased
<1>1. FlowInv => OverIsReleased
  BY DEF FlowInv
<1>2. QED
  BY <1>1, FlowInvHolds, PTL

\* The sweep of ShutdownInFlight does not race with Job's write of the map.
THEOREM SweepSafe == DaemonSpec => []SweepNeverRaces
<1>1. FlowInv /\ LoopInv => SweepNeverRaces
  BY DEF FlowInv, LoopInv, StoppedIsQuiet, JobInv, SweepNeverRaces
<1>2. DaemonSpec => []LoopInv
  BY DaemonImplementsLoop, LoopInvHolds, PTL
<1>3. QED
  BY <1>1, <1>2, FlowInvHolds, PTL

\* The daemon's variables keep their types.
THEOREM DaemonTypeCorrect == DaemonSpec => []DaemonTypeOK
<1>1. FlowInv /\ LoopInv => DaemonTypeOK
  BY DEF FlowInv, LoopInv, DaemonTypeOK
<1>2. DaemonSpec => []LoopInv
  BY DaemonImplementsLoop, LoopInvHolds, PTL
<1>3. QED
  BY <1>1, <1>2, FlowInvHolds, PTL

-------------------------------------------------------------------------------
(* The token file.                                                         *)

\* One goroutine at a time has the file open, and it is empty then; otherwise it
\* is whole, or there is none.
FileInv ==
  \/ damaged
  \/ Open = {} /\ file \in Flows \union {"absent"}
  \/ file = "empty" /\ \E f \in Flows : Open = {f}

\* A step that leaves the file alone.
LEMMA FileUntouched ==
  ASSUME FileInv, UNCHANGED <<file, damaged>>, Open' = Open
  PROVE  FileInv'
BY DEF FileInv

LEMMA FileInvStep ==
  ASSUME FileInv, FlowInv, [DaemonNext]_daemonVars
  PROVE  FileInv'
<1> USE DEF FlowInv
<1>1. CASE UNCHANGED <<file, damaged, goroutine>>
  BY <1>1, FileUntouched DEF Open
<1>2. CASE FlowRecorded
  <2>1. goroutine[current] = "none" /\ current \in Flows
    BY <1>2 DEF FlowRecorded, JobInv, RecordedInv, RefresherTypeOK
  <2>2. Open' = Open
    BY <1>2, <2>1 DEF FlowRecorded, Open, RefresherTypeOK
  <2> QED BY <1>2, <2>2, FileUntouched DEF FlowRecorded
<1>3. ASSUME NEW f \in Flows, Complete(f), ~Create(f), ~Copy(f)
      PROVE  FileInv'
  <2>1. PICK pc \in {"lookup", "stop", "create", "defer", "deferstop", "done"} :
          goroutine' = [goroutine EXCEPT ![f] = pc]
    BY <1>3
    DEF Complete, CompleteStep, Polled, LookUp, StopServers, CreateFails,
        DeferredLookUp, DeferredStop
  <2>2. goroutine[f] # "write" /\ UNCHANGED <<file, damaged>>
    BY <1>3
    DEF Complete, CompleteStep, Polled, LookUp, StopServers, CreateFails,
        DeferredLookUp, DeferredStop
  <2>3. Open' = Open
    BY <2>1, <2>2 DEF Open, RefresherTypeOK
  <2> QED BY <2>2, <2>3, FileUntouched
<1>4. ASSUME NEW f \in Flows, Create(f) PROVE FileInv'
  <2>1. Open' = Open \union {f}
    BY <1>4 DEF Create, Open, RefresherTypeOK
  <2> QED BY <1>4, <2>1 DEF Create, FileInv
<1>5. ASSUME NEW f \in Flows, Copy(f) PROVE FileInv'
  <2>1. Open' = Open \ {f} /\ f \in Open
    BY <1>5 DEF Copy, Open, RefresherTypeOK
  <2>2. ~damaged' => /\ ~damaged
                     /\ file' \in Written(f)
    BY <1>5 DEF Copy
  <2>3. ~damaged' => Open' = {} /\ file' = f
    BY <2>1, <2>2 DEF FileInv, Written
  <2> QED BY <2>3 DEF FileInv
<1>6. CASE Job(JobStep)
  BY <1>1, <1>6
  DEF Job, JobStep, NodeUsable, BindListener, FlowStarted
<1>7. CASE JobReturn
  <2>1. NodeUnusable \/ BindFails \/ StartFails \/ FlowRecorded
    BY <1>7 DEF JobReturn, JobReturns
  <2> QED BY <1>1, <1>2, <2>1 DEF NodeUnusable, BindFails, StartFails, refresherVars
<1>8. CASE \/ \E s \in Signals : Control(Deliver(s))
           \/ Control(Boot) \/ Control(TakeHup) \/ Control(Reloaded)
           \/ Control(TakeTerm) \/ Return
           \/ Control(Scheduled(LoopStep)) \/ Control(Scheduled(StopStep))
           \/ \E f \in Flows : Abort(f)
           \/ UNCHANGED daemonVars
  BY <1>1, <1>8 DEF Control, Return, Abort, daemonVars, refresherVars
<1>9. CASE \E f \in Flows : ShutdownFlow(f)
  BY <1>1, <1>9 DEF ShutdownFlow
<1> QED
  BY <1>3, <1>4, <1>5, <1>6, <1>7, <1>8, <1>9 DEF DaemonNext, Complete, CompleteStep

\* os.Create truncates and io.Copy writes from the start: whatever overlaps and
\* failures came before, a file that one goroutine began alone, and wrote without
\* an error before another opened it, is whole when nobody has it open.
THEOREM TokenFileIsWhole == DaemonSpec => []FileWholeAtRest
<1>1. DaemonInit => FileInv
  BY DEF DaemonInit, RefresherInit, FileInv, Open
<1>2. FileInv /\ FlowInv /\ [DaemonNext]_daemonVars => FileInv'
  BY FileInvStep
<1>3. FileInv => FileWholeAtRest
  BY RefresherAssumption DEF FileInv, FileWholeAtRest
<1>4. QED
  BY <1>1, <1>2, <1>3, FlowInvHolds, PTL DEF DaemonSpec
-------------------------------------------------------------------------------
(* The listeners when Run returns.                                         *)

\* What ShutdownInFlight has been through stays closed: no job binds any more.
SweptInv ==
  swept # {} => caller = "stopped" /\ \A f \in swept : sockets[f] = 0

LEMMA SweptStep ==
  ASSUME SweptInv, FlowInv, LoopInv, [DaemonNext]_daemonVars
  PROVE  SweptInv'
<1> USE DEF SweptInv, FlowInv
<1>1. caller = "stopped" => job = "status"
  BY DEF LoopInv, StoppedIsQuiet, JobInv, RefresherTypeOK
<1>2. CASE /\ UNCHANGED <<sockets, swept>>
           /\ caller = "stopped" => caller' = "stopped"
  BY <1>2
<1>3. CASE \/ \E s \in Signals : Control(Deliver(s))
           \/ Control(Boot) \/ Control(TakeHup) \/ Control(Reloaded)
           \/ Control(TakeTerm) \/ Return
           \/ \E f \in Flows : Abort(f)
  BY <1>2, <1>3, MainStepKeeps DEF Control, Return, Abort, refresherVars
<1>4. CASE Control(Scheduled(LoopStep)) \/ Control(Scheduled(StopStep))
  BY <1>2, <1>4, LoopStepKeeps DEF Control, Scheduled, refresherVars
<1>5. CASE Job(JobStep)
  <2>1. swept = {} /\ swept' = swept
    BY <1>1, <1>5 DEF Job, LoopInv, StoppedIsQuiet
  <2> QED BY <2>1
<1>6. CASE JobReturn
  <2>1. PICK r \in Results : Scheduled(JobEnds(r))
    BY <1>6 DEF JobReturn, JobReturns, Results
  <2>2. swept = {} /\ swept' = swept
    BY <1>6, <2>1 DEF JobReturn, JobReturns, Scheduled, JobEnds, LoopInv, StoppedIsQuiet
  <2> QED BY <2>2
<1>7. ASSUME NEW f \in Flows, Complete(f) PROVE SweptInv'
  <2>1. sockets' = sockets \/ sockets' = Released(f)
    BY <1>7
    DEF Complete, CompleteStep, Polled, LookUp, StopServers, Create, CreateFails, Copy,
        DeferredLookUp, DeferredStop
  <2>2. \A g \in Flows : sockets[g] = 0 => sockets'[g] = 0
    BY <2>1 DEF Released, RefresherTypeOK
  <2>3. swept' = swept /\ caller' = caller
    BY <1>7 DEF Complete, vars, schedulerVars
  <2> QED BY <2>2, <2>3
<1>8. ASSUME NEW f \in Flows, ShutdownFlow(f) PROVE SweptInv'
  <2>1. sockets'[f] = 0 /\ \A g \in Flows \ {f} : sockets'[g] = sockets[g]
    BY <1>8 DEF ShutdownFlow, Released, RefresherTypeOK
  <2>2. swept' = swept \union {f} /\ caller' = "stopped"
    BY <1>8 DEF ShutdownFlow, vars, schedulerVars
  <2> QED BY <2>1, <2>2
<1>9. CASE UNCHANGED daemonVars
  BY <1>2, <1>9 DEF daemonVars, vars, schedulerVars, refresherVars
<1> QED
  BY <1>3, <1>4, <1>5, <1>6, <1>7, <1>8, <1>9 DEF DaemonNext

\* For any flows, signals, races and failing disks: a daemon that returns from
\* Run, rather than dies, has closed every listener it ever bound.
THEOREM ReturnClosesListeners == DaemonSpec => ClosedAtReturn
<1>1. DaemonInit => SweptInv
  BY DEF DaemonInit, SweptInv
<1>2. SweptInv /\ FlowInv /\ LoopInv => (Return => \A f \in Flows : sockets[f] = 0)
  <2> SUFFICES ASSUME SweptInv, FlowInv, LoopInv, Return, NEW f \in Flows
               PROVE  sockets[f] = 0
    OBVIOUS
  <2>1. inFlight \subseteq swept /\ caller = "stopped"
    BY DEF Return, Exit
  <2>2. job = "status"
    BY <2>1 DEF FlowInv, LoopInv, StoppedIsQuiet, JobInv, RefresherTypeOK
  <2>3. CASE goroutine[f] = "none"
    BY <2>2, <2>3 DEF FlowInv, OverIsReleased
  <2>4. CASE goroutine[f] # "none"
    BY <2>1, <2>4 DEF FlowInv, RecordedInv, SweptInv
  <2> QED BY <2>3, <2>4
<1>3. DaemonSpec => []LoopInv
  BY DaemonImplementsLoop, LoopInvHolds, PTL
<1> QED
  BY <1>1, <1>2, <1>3, SweptStep, FlowInvHolds, PTL DEF DaemonSpec, ClosedAtReturn
=============================================================================
