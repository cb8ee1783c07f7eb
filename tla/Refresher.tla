------------------------------ MODULE Refresher ------------------------------
(***************************************************************************)
(* refresher.Refresher: Job, run by the scheduler's goroutine, binds the   *)
(* listeners, starts a flow, serves its challenges and spawns a goroutine  *)
(* for complete; the goroutines of several flows overlap.  They share the  *)
(* map inFlight, which nothing protects, and the token file.               *)
(***************************************************************************)
EXTENDS Naturals

CONSTANTS
  Flows,         \* the flows that may be started: bounds the successful jobs
  RaceOutcomes,  \* what a read of inFlight that races with a write may do
  DiskFaults     \* whether the token file may fail to open or to be written

ASSUME RefresherAssumption ==
  /\ RaceOutcomes \subseteq {"abort", "found", "missing"}
  /\ DiskFaults \in BOOLEAN
  /\ Flows \intersect {"absent", "empty", "torn"} = {}

VARIABLES
  job,         \* where Job is
  current,     \* the flow Job is working on
  started,     \* flows the API has accepted
  sockets,     \* listeners of each flow that are bound
  inFlight,    \* the keys of the map
  goroutine,   \* where complete is, for each flow
  file,        \* the token file
  damaged,     \* history: since it was last truncated for one goroutine alone,
               \* the file was opened by a second one, or a write of it failed
  missed       \* history: flows whose last lookup raced with Job and missed them

refresherVars ==
  <<job, current, started, sockets, inFlight, goroutine, file, damaged,
    missed>>

IPs == 2  \* Job requires an IPv4 and an IPv6 address

\* No flow has more listeners than addresses; the rest are types.
RefresherTypeOK ==
  /\ job \in {"status", "bind", "start", "record"}
  /\ current \in Flows
  /\ started \subseteq Flows
  /\ sockets \in [Flows -> 0 .. IPs]
  /\ inFlight \subseteq Flows
  /\ goroutine \in [Flows -> {"none", "poll", "lookup", "stop", "create",
                              "write", "defer", "deferstop", "done"}]
  /\ file \in Flows \union {"absent", "empty", "torn"}
  /\ damaged \in BOOLEAN
  /\ missed \subseteq Flows

RefresherInit ==
  /\ job = "status"
  /\ current \in Flows
  /\ started = {}
  /\ sockets = [f \in Flows |-> 0]
  /\ inFlight = {}
  /\ goroutine = [f \in Flows |-> "none"]
  /\ file = "absent"
  /\ damaged = FALSE
  /\ missed = {}

Released(f) == [sockets EXCEPT ![f] = 0]

-------------------------------------------------------------------------------
(* Job.                                                                    *)

\* tailscaled does not answer, is not initialised or not ready, or the node
\* has not two addresses.
NodeUnusable ==
  /\ job = "status"
  /\ UNCHANGED refresherVars

NodeUsable ==
  /\ job = "status"
  /\ job' = "bind"
  /\ current' \in Flows \ started
  /\ UNCHANGED <<started, sockets, inFlight, goroutine, file, damaged,
                 missed>>

BindListener ==
  /\ job = "bind"
  /\ sockets' = [sockets EXCEPT ![current] = @ + 1]
  /\ job' = IF sockets'[current] = IPs THEN "start" ELSE "bind"
  /\ UNCHANGED <<current, started, inFlight, goroutine, file, damaged,
                 missed>>

BindFails ==
  /\ job = "bind"
  /\ job' = "status"
  /\ sockets' = Released(current)
  /\ UNCHANGED <<current, started, inFlight, goroutine, file, damaged,
                 missed>>

\* Mutant: the listeners of a flow that was not accepted stay bound.
StartFailsUnreleased ==
  /\ job = "start"
  /\ job' = "status"
  /\ UNCHANGED <<current, started, sockets, inFlight, goroutine, file, damaged,
                 missed>>

StartFails ==
  /\ job = "start"
  /\ job' = "status"
  /\ sockets' = Released(current)
  /\ UNCHANGED <<current, started, inFlight, goroutine, file, damaged,
                 missed>>

\* The API accepts the flow, the servers are launched and the write of
\* inFlight begins.
FlowStarted ==
  /\ job = "start"
  /\ job' = "record"
  /\ started' = started \union {current}
  /\ UNCHANGED <<current, sockets, inFlight, goroutine, file, damaged,
                 missed>>

\* The write of inFlight ends, and complete begins.
FlowRecorded ==
  /\ job = "record"
  /\ job' = "status"
  /\ inFlight' = inFlight \union {current}
  /\ goroutine' = [goroutine EXCEPT ![current] = "poll"]
  /\ UNCHANGED <<current, started, sockets, file, damaged,
                 missed>>

-------------------------------------------------------------------------------
(* complete.                                                               *)

\* Mutant: a failure returns before the servers are deferred to be stopped.
PolledUndeferred(f) ==
  /\ goroutine[f] = "poll"
  /\ \E next \in {"lookup", "done"} :
       goroutine' = [goroutine EXCEPT ![f] = next]
  /\ UNCHANGED <<job, current, started, sockets, inFlight, file, damaged,
                 missed>>

\* 409 and failed requests are tried again, which changes nothing here, until
\* three minutes have passed.  Any other error is final.
Polled(f) ==
  /\ goroutine[f] = "poll"
  /\ \E next \in {"lookup", "defer"} :
       goroutine' = [goroutine EXCEPT ![f] = next]
  /\ UNCHANGED <<job, current, started, sockets, inFlight, file, damaged,
                 missed>>

\* A read of inFlight while Job writes it.
Races(f) == goroutine[f] \in {"lookup", "defer"} /\ job = "record"

\* Whether a read of inFlight finds the flow.
Lookups(f) ==
  IF job = "record"
    THEN {o = "found" : o \in RaceOutcomes \ {"abort"}}
    ELSE {f \in inFlight}

LookUp(f) ==
  /\ goroutine[f] = "lookup"
  /\ \E found \in Lookups(f) :
       goroutine' = [goroutine EXCEPT ![f] = IF found THEN "stop" ELSE "create"]
  /\ UNCHANGED <<job, current, started, sockets, inFlight, file, damaged,
                 missed>>

\* Mutant: the servers of every flow are stopped.
StopEveryServer(f) ==
  /\ goroutine[f] = "stop"
  /\ sockets' = [g \in Flows |-> 0]
  /\ goroutine' = [goroutine EXCEPT ![f] = "create"]
  /\ UNCHANGED <<job, current, started, inFlight, file, damaged,
                 missed>>

\* Shutdown closes the listeners before it waits for their connections.
StopServers(f) ==
  /\ goroutine[f] = "stop"
  /\ sockets' = Released(f)
  /\ goroutine' = [goroutine EXCEPT ![f] = "create"]
  /\ UNCHANGED <<job, current, started, inFlight, file, damaged,
                 missed>>

Open == {f \in Flows : goroutine[f] = "write"}

\* Mutant: an existing file is not truncated.
CreateUntruncated(f) ==
  /\ goroutine[f] = "create"
  /\ goroutine' = [goroutine EXCEPT ![f] = "write"]
  /\ file' = IF file = "absent" THEN "empty" ELSE file
  /\ damaged' = (Open # {})
  /\ UNCHANGED <<job, current, started, sockets, inFlight, missed>>

\* os.Create truncates the file it opens.
Create(f) ==
  /\ goroutine[f] = "create"
  /\ goroutine' = [goroutine EXCEPT ![f] = "write"]
  /\ file' = "empty"
  /\ damaged' = (Open # {})
  /\ UNCHANGED <<job, current, started, sockets, inFlight, missed>>

CreateFails(f) ==
  /\ DiskFaults
  /\ goroutine[f] = "create"
  /\ goroutine' = [goroutine EXCEPT ![f] = "defer"]
  /\ UNCHANGED <<job, current, started, sockets, inFlight, file, damaged,
                 missed>>

\* Each goroutine writes from the start of the file: a shorter token leaves
\* the end of a longer one behind.
Written(f) == {f} \union (IF file = "empty" THEN {} ELSE {"torn"})

Copy(f) ==
  /\ goroutine[f] = "write"
  /\ goroutine' = [goroutine EXCEPT ![f] = "defer"]
  /\ \/ file' \in Written(f) /\ damaged' = damaged
     \/ DiskFaults /\ file' \in {file, "torn"} /\ damaged' = TRUE
  /\ UNCHANGED <<job, current, started, sockets, inFlight, missed>>

\* The deferred stopServersFor.
DeferredLookUp(f) ==
  /\ goroutine[f] = "defer"
  /\ \E found \in Lookups(f) :
       /\ goroutine' = [goroutine EXCEPT ![f] = IF found THEN "deferstop" ELSE "done"]
       /\ missed' = IF found \/ ~Races(f) THEN missed ELSE missed \union {f}
  /\ UNCHANGED <<job, current, started, sockets, inFlight, file, damaged>>

DeferredStop(f) ==
  /\ goroutine[f] = "deferstop"
  /\ sockets' = Released(f)
  /\ goroutine' = [goroutine EXCEPT ![f] = "done"]
  /\ UNCHANGED <<job, current, started, inFlight, file, damaged,
                 missed>>

-------------------------------------------------------------------------------
JobStep == NodeUsable \/ BindListener \/ FlowStarted

CompleteStep(f) ==
  \/ Polled(f) \/ LookUp(f) \/ StopServers(f)
  \/ Create(f) \/ CreateFails(f) \/ Copy(f)
  \/ DeferredLookUp(f) \/ DeferredStop(f)
=============================================================================
