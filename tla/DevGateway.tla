------------------------------- MODULE DevGateway -------------------------------
(***************************************************************************)
(* The development gateway (cmd/dev): the same handlers as the deployed    *)
(* ones inside one process, over flows kept as files, with a launcher of   *)
(* its own in place of the state machine.  It verifies each flow in one    *)
(* goroutine, one address after the other.                                 *)
(***************************************************************************)
EXTENDS Naturals, Sequences

CONSTANTS
  Flows,        \* flow identifiers
  Calls,        \* calls of /finalize for one flow that may overlap
  BusSize,      \* capacity of the launcher's channel, 3 in the code
  MaxAttempts,  \* attempts of the launcher, 6 in the code
  Faults        \* whether a file operation or the signer may fail

ASSUME DevAssumption ==
  /\ BusSize \in Nat \ {0}
  /\ MaxAttempts \in Nat \ {0}
  /\ Faults \in BOOLEAN

IPs == 2  \* addresses of a node

VARIABLES
  main,         \* phase of the process
  file,         \* the file of each flow: its status, or empty when it is cut
  expired,      \* flows whose ExpiresAt has passed
  initializer,  \* where the handler of POST /start is, for each flow
  bus,          \* the launcher's channel
  launcher,     \* where launcherLoop is
  worker,       \* where performVerifyRequest is, for each flow
  attempts,     \* its count of attempts
  marker,       \* where markFlowFailed is
  call,         \* where each call of the finalizer is
  refused,      \* flows of which a call was answered with a final error
  proved, signed, delivered, marked, deleted, tried, disturbed  \* history

loop == <<main, launcher, bus>>
store == <<file, expired>>
verification == <<worker, attempts, marker>>
finalizer == <<call, refused>>
history == <<proved, signed, delivered, marked, deleted, tried, disturbed>>
vars == <<loop, store, initializer, verification, finalizer, history>>

Statuses == {"pending", "failed", "success"}

\* The launcher's channel never exceeds its capacity; the rest are types.
TypeOK ==
  /\ main \in {"serving", "draining", "exited"}
  /\ file \in [Flows -> Statuses \union {"absent", "empty"}]
  /\ expired \subseteq Flows
  /\ initializer \in
       [Flows -> {"idle", "create", "encode", "send", "ok", "error"}]
  /\ bus \in Seq(Flows) /\ Len(bus) <= BusSize
  /\ launcher \in {"running", "stopped"}
  /\ worker \in [Flows -> {"none", "get", "challenge", "create", "encode",
                           "pause", "success", "failed", "stopped"}]
  /\ attempts \in [Flows -> 1 .. MaxAttempts + 1]
  /\ marker \in [Flows -> {"none", "get", "create", "encode", "done"}]
  /\ call \in [Flows -> [Calls -> {"idle", "sign", "delete"}]]
  /\ refused \subseteq Flows
  /\ proved \subseteq Flows /\ signed \subseteq Flows /\ delivered \subseteq Flows
  /\ marked \subseteq Flows /\ deleted \subseteq Flows /\ disturbed \subseteq Flows
  /\ tried \in [Flows -> SUBSET (0 .. IPs - 1)]

Init ==
  /\ main = "serving"
  /\ file = [f \in Flows |-> "absent"]
  /\ expired = {}
  /\ initializer = [f \in Flows |-> "idle"]
  /\ bus = <<>>
  /\ launcher = "running"
  /\ worker = [f \in Flows |-> "none"]
  /\ attempts = [f \in Flows |-> 1]
  /\ marker = [f \in Flows |-> "none"]
  /\ call = [f \in Flows |-> [c \in Calls |-> "idle"]]
  /\ refused = {}
  /\ proved = {} /\ signed = {} /\ delivered = {}
  /\ marked = {} /\ deleted = {} /\ disturbed = {}
  /\ tried = [f \in Flows |-> {}]

-------------------------------------------------------------------------------
(* The filesystem store.  Put truncates the file and then writes it.       *)

\* os.Create, unless it fails; ok says which.
Create(f, ok) ==
  \/ ok /\ file' = [file EXCEPT ![f] = "empty"]
  \/ ~ok /\ Faults /\ file' = file

\* The encoder's single write.  A file that was removed since takes it along.
Encode(f, status, ok) ==
  \/ ok /\ file' = [file EXCEPT ![f] = IF @ = "absent" THEN @ ELSE status]
  \/ ~ok /\ Faults /\ file' = file

Expire(f) ==
  /\ initializer[f] \notin {"idle", "create"}
  /\ f \notin expired
  /\ expired' = expired \union {f}
  /\ UNCHANGED <<loop, file, initializer, verification, finalizer, history>>

-------------------------------------------------------------------------------
(* POST /start.                                                            *)

Start(f) ==
  /\ main = "serving"
  /\ initializer[f] = "idle"
  /\ initializer' = [initializer EXCEPT ![f] = "create"]
  /\ UNCHANGED <<loop, store, verification, finalizer, history>>

\* The request is wrong, or the control plane fails or does not know the node.
InitializerReject(f) ==
  /\ initializer[f] = "create"
  /\ initializer' = [initializer EXCEPT ![f] = "error"]
  /\ UNCHANGED <<loop, store, verification, finalizer, history>>

InitializerPut(f) ==
  /\ \E ok \in BOOLEAN :
       \/ /\ initializer[f] = "create"
          /\ Create(f, ok)
          /\ initializer' = [initializer EXCEPT
               ![f] = IF ok THEN "encode" ELSE "error"]
       \/ /\ initializer[f] = "encode"
          /\ Encode(f, "pending", ok)
          /\ initializer' = [initializer EXCEPT
               ![f] = IF ok THEN "send" ELSE "error"]
  /\ UNCHANGED <<loop, expired, verification, finalizer, history>>

\* Mutant: a full channel drops the request.
LaunchDropped(f) ==
  /\ initializer[f] = "send"
  /\ bus' = IF Len(bus) < BusSize THEN Append(bus, f) ELSE bus
  /\ initializer' = [initializer EXCEPT ![f] = "ok"]
  /\ UNCHANGED <<main, launcher, store, verification, finalizer, history>>

\* Launch blocks while the channel is full, whatever becomes of its reader.
Launch(f) ==
  /\ initializer[f] = "send"
  /\ Len(bus) < BusSize
  /\ bus' = Append(bus, f)
  /\ initializer' = [initializer EXCEPT ![f] = "ok"]
  /\ UNCHANGED <<main, launcher, store, verification, finalizer, history>>

-------------------------------------------------------------------------------
(* The launcher.                                                           *)

\* launcherLoop may take a request although it has been cancelled.
Receive ==
  /\ launcher = "running"
  /\ bus # <<>>
  /\ bus' = Tail(bus)
  /\ worker' = [worker EXCEPT ![Head(bus)] = "get"]
  /\ UNCHANGED <<main, launcher, store, initializer, attempts, marker, finalizer,
                 history>>

LauncherStops ==
  /\ launcher = "running"
  /\ main = "draining"
  /\ launcher' = "stopped"
  /\ UNCHANGED <<main, bus, store, initializer, verification, finalizer, history>>

\* Serve returned an error: the flow is marked failed in another goroutine.
GiveUp(f) ==
  /\ worker' = [worker EXCEPT ![f] = "failed"]
  /\ marker' = [marker EXCEPT ![f] = "get"]

\* Serve was not successful.
Unsuccessful(f) ==
  /\ attempts' = [attempts EXCEPT ![f] = @ + 1]
  /\ IF attempts'[f] > MaxAttempts
       THEN GiveUp(f)
       ELSE /\ worker' = [worker EXCEPT ![f] = "pause"]
            /\ marker' = marker

\* Mutant: every attempt goes to the first address.
AddressIsFirst(f) == 0

\* The address of an attempt; the first attempt goes to the second one.
Address(f) == attempts[f] % IPs

\* An attempt for its address, which may end before the challenge.
Tries(f) == tried' = [tried EXCEPT ![f] = @ \union {Address(f)}]

\* The verifier reads the flow: a file that cannot be decoded is no success, a
\* file that is gone an error.
VerifierGet(f) ==
  /\ worker[f] = "get"
  /\ \/ /\ file[f] \in Statuses
        /\ worker' = [worker EXCEPT ![f] = "challenge"]
        /\ UNCHANGED <<attempts, marker, tried>>
     \/ /\ file[f] = "empty" \/ Faults
        /\ Unsuccessful(f)
        /\ Tries(f)
     \/ /\ file[f] = "absent"
        /\ GiveUp(f)
        /\ UNCHANGED <<attempts, tried>>
  /\ UNCHANGED <<loop, store, initializer, finalizer, proved, signed, delivered,
                 marked, deleted, disturbed>>

ChallengeFails(f) ==
  /\ worker[f] = "challenge"
  /\ Unsuccessful(f)
  /\ Tries(f)
  /\ UNCHANGED <<loop, store, initializer, finalizer, proved, signed, delivered,
                 marked, deleted, disturbed>>

\* Only a client that was answered by /start has the secret.
ChallengeAnswered(f) ==
  /\ worker[f] = "challenge"
  /\ initializer[f] = "ok"
  /\ worker' = [worker EXCEPT ![f] = "create"]
  /\ proved' = proved \union {f}
  /\ Tries(f)
  /\ UNCHANGED <<loop, store, initializer, attempts, marker, finalizer, signed,
                 delivered, marked, deleted, disturbed>>

\* The verifier writes the flow it read, as verified.
VerifierPut(f) ==
  /\ \E ok \in BOOLEAN :
       /\ \/ worker[f] = "create" /\ Create(f, ok)
          \/ worker[f] = "encode" /\ Encode(f, "success", ok)
       /\ IF ok
            THEN /\ worker' = [worker EXCEPT
                      ![f] = IF @ = "create" THEN "encode" ELSE "success"]
                 /\ marker' = marker
            ELSE GiveUp(f)
  /\ UNCHANGED <<loop, expired, initializer, attempts, finalizer, history>>

\* Mutant: a success does not end the attempts.
PauseAfterSuccess(f) ==
  /\ worker[f] \in {"pause", "success"}
  /\ worker' = [worker EXCEPT ![f] = "get"]
  /\ UNCHANGED <<loop, store, initializer, attempts, marker, finalizer, history>>

Pause(f) ==
  /\ worker[f] = "pause"
  /\ \/ worker' = [worker EXCEPT ![f] = "get"]
     \/ /\ main = "draining"
        /\ worker' = [worker EXCEPT ![f] = "stopped"]
  /\ UNCHANGED <<loop, store, initializer, attempts, marker, finalizer, history>>

MarkerGet(f) ==
  /\ marker[f] = "get"
  /\ \/ /\ file[f] \in Statuses
        /\ marker' = [marker EXCEPT ![f] = "create"]
     \/ /\ file[f] \in {"absent", "empty"} \/ Faults
        /\ marker' = [marker EXCEPT ![f] = "done"]
  /\ UNCHANGED <<loop, store, initializer, worker, attempts, finalizer, history>>

MarkerPut(f) ==
  /\ \E ok \in BOOLEAN :
       \/ /\ marker[f] = "create"
          /\ Create(f, ok)
          /\ marker' = [marker EXCEPT ![f] = IF ok THEN "encode" ELSE "done"]
          /\ marked' = marked
       \/ /\ marker[f] = "encode"
          /\ Encode(f, "failed", ok)
          /\ marker' = [marker EXCEPT ![f] = "done"]
          /\ marked' = IF ok THEN marked \union {f} ELSE marked
  /\ UNCHANGED <<loop, expired, initializer, worker, attempts, finalizer, proved,
                 signed, delivered, deleted, tried, disturbed>>

-------------------------------------------------------------------------------
(* POST /finalize, by whoever was told the identifier.                     *)

\* Mutant: only a failed flow is refused.
DecisionOnFailedOnly(f) == IF file[f] = "failed" THEN "403" ELSE "sign"

\* Mutant: a flow that is still pending is refused.
DecisionOnSuccessOnly(f) ==
  IF file[f] = "success" /\ f \notin expired THEN "sign" ELSE "403"

\* The answer that the flow's file leads to, and sign for none yet.
Decision(f) ==
  CASE file[f] = "absent" -> "404"
    [] file[f] = "empty" -> "500"
    [] file[f] = "pending" -> "409"
    [] file[f] = "failed" -> "403"
    [] file[f] = "success" -> IF f \in expired THEN "403" ELSE "sign"

\* The client tries again after a 409; any other error is final.
Answer(f, answer) ==
  refused' = IF answer \in {"403", "404", "500"} THEN refused \union {f} ELSE refused

\* The file or the signer fails.
Failing(f) ==
  /\ Faults
  /\ Answer(f, "500")
  /\ disturbed' = disturbed \union {f}

FinalizerGet(f, c) ==
  /\ main = "serving"
  /\ initializer[f] = "ok"
  /\ call[f][c] = "idle"
  /\ \/ /\ Decision(f) = "sign"
        /\ call' = [call EXCEPT ![f][c] = "sign"]
        /\ UNCHANGED <<refused, disturbed>>
     \/ /\ Decision(f) # "sign"
        /\ Answer(f, Decision(f))
        /\ disturbed' = IF file[f] = "empty" THEN disturbed \union {f} ELSE disturbed
        /\ call' = call
     \/ /\ Failing(f)
        /\ call' = call
  /\ UNCHANGED <<loop, store, initializer, verification, proved, signed, delivered,
                 marked, deleted, tried>>

FinalizerSign(f, c) ==
  /\ call[f][c] = "sign"
  /\ \/ /\ call' = [call EXCEPT ![f][c] = "delete"]
        /\ signed' = signed \union {f}
        /\ UNCHANGED <<refused, disturbed>>
     \/ /\ Failing(f)
        /\ call' = [call EXCEPT ![f][c] = "idle"]
        /\ signed' = signed
  /\ UNCHANGED <<loop, store, initializer, verification, proved, delivered, marked,
                 deleted, tried>>

\* Removing a file that is not there is no error.
FinalizerDelete(f, c) ==
  /\ call[f][c] = "delete"
  /\ call' = [call EXCEPT ![f][c] = "idle"]
  /\ \/ /\ file' = [file EXCEPT ![f] = "absent"]
        /\ deleted' = deleted \union {f}
        /\ delivered' = delivered \union {f}
        /\ UNCHANGED <<refused, disturbed>>
     \/ /\ Failing(f)
        /\ UNCHANGED <<file, deleted, delivered>>
  /\ UNCHANGED <<loop, expired, initializer, verification, proved, signed, marked,
                 tried>>

-------------------------------------------------------------------------------
(* The process.                                                            *)

\* Handlers that srv.Shutdown waits for.
Handling ==
  \E f \in Flows :
    \/ initializer[f] \in {"create", "encode", "send"}
    \/ \E c \in Calls : call[f][c] # "idle"

\* The launcher is cancelled, and the server takes no more requests.
Shutdown ==
  /\ main = "serving"
  /\ main' = "draining"
  /\ UNCHANGED <<launcher, bus, store, initializer, verification, finalizer, history>>

Drained ==
  /\ main = "draining"
  /\ ~Handling
  /\ main' = "exited"
  /\ UNCHANGED <<launcher, bus, store, initializer, verification, finalizer, history>>

\* Mutant: the shutdown has no timeout.
DrainIsPatient == Drained

\* Five seconds have passed.
DrainTimesOut ==
  /\ main = "draining"
  /\ main' = "exited"
  /\ UNCHANGED <<launcher, bus, store, initializer, verification, finalizer, history>>

\* The server fails, or the process is killed.
Crash ==
  /\ main # "exited"
  /\ main' = "exited"
  /\ UNCHANGED <<launcher, bus, store, initializer, verification, finalizer, history>>

\* The next process finds the files, and knows of nothing else.
Restart ==
  /\ main = "exited"
  /\ main' = "serving" /\ launcher' = "running" /\ bus' = <<>>
  /\ initializer' = [f \in Flows |->
       IF initializer[f] \in {"create", "encode", "send"} THEN "error"
       ELSE initializer[f]]
  /\ worker' = [f \in Flows |->
       IF worker[f] \in {"success", "failed"} \/ initializer[f] = "idle"
         THEN worker[f] ELSE "stopped"]
  /\ marker' = [f \in Flows |-> IF marker[f] = "none" THEN "none" ELSE "done"]
  /\ call' = [f \in Flows |-> [c \in Calls |-> "idle"]]
  /\ UNCHANGED <<store, attempts, refused, history>>

-------------------------------------------------------------------------------
StartStep(f) == InitializerReject(f) \/ InitializerPut(f) \/ Launch(f)

WorkerStep(f) ==
  \/ VerifierGet(f) \/ ChallengeFails(f) \/ ChallengeAnswered(f)
  \/ VerifierPut(f) \/ Pause(f)

MarkerStep(f) == MarkerGet(f) \/ MarkerPut(f)

CallStep(f, c) == FinalizerSign(f, c) \/ FinalizerDelete(f, c)

FlowStep(f) ==
  \/ Expire(f) \/ Start(f) \/ StartStep(f) \/ WorkerStep(f) \/ MarkerStep(f)
  \/ \E c \in Calls : FinalizerGet(f, c) \/ CallStep(f, c)

Next ==
  \/ /\ main # "exited"
     /\ \/ \E f \in Flows : FlowStep(f)
        \/ Receive \/ LauncherStops
  \/ Shutdown \/ Drained \/ DrainTimesOut \/ Crash \/ Restart

\* Every goroutine runs until the process ends; nobody has to end it, to start
\* it again or to ask it for anything.
Fairness ==
  /\ WF_vars(main # "exited" /\ Receive)
  /\ WF_vars(Drained \/ DrainTimesOut)
  /\ \A f \in Flows :
       /\ WF_vars(main # "exited" /\ StartStep(f))
       /\ WF_vars(main # "exited" /\ WorkerStep(f))
       /\ WF_vars(main # "exited" /\ MarkerStep(f))

Spec == Init /\ [][Next]_vars
FairSpec == Spec /\ Fairness
-------------------------------------------------------------------------------
(* Properties.                                                             *)

\* No token without a proof, with the launcher's attempts, its late marks,
\* half-written files and overlapping polls in the way.
TokenOnlyAfterProof == signed \subseteq proved

\* A flow that was consumed stays consumed: unlike in the deployment, where
\* the verifiers of two addresses overlap, no write of the launcher is left
\* when its token is signed.
DeletedStaysDeleted == \A f \in deleted : file[f] = "absent"

\* A client is refused only if its flow was marked failed, has expired or was
\* consumed, or because a call met the file while it was being rewritten, or
\* was itself the victim of a failure.
RefusalJustified ==
  refused \subseteq marked \union expired \union deleted \union disturbed

\* The launcher runs out of attempts only after it has made one for every
\* address.
EveryAddressTried ==
  MaxAttempts >= IPs =>
    \A f \in Flows : attempts[f] > MaxAttempts => tried[f] = 0 .. IPs - 1

\* The client that was told that its flow has started gets a verdict, unless
\* the gateway goes down, after which nobody verifies the flow.
VerdictReached ==
  \A f \in Flows :
    initializer[f] = "ok" ~>
      worker[f] \in {"success", "failed", "stopped"} \/ main # "serving"

\* A shutdown comes to its end, even when a handler is blocked on a channel
\* whose reader stopped first.
ShutdownEnds == main = "draining" ~> main = "exited"

Promise == INSTANCE TokenPromise

\* The development gateway keeps the same promise as the deployment.
TokenPromiseHolds == Promise!Spec
=============================================================================
