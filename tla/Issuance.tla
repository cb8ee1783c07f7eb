------------------------------- MODULE Issuance -------------------------------
(***************************************************************************)
(* The server side of token issuance as deployed on AWS, and the client    *)
(* calls that drive it.  One flow is one accepted POST /start: the         *)
(* initializer writes a pending flow to DynamoDB and launches the step     *)
(* function, which invokes one verifier Lambda per address, round after    *)
(* round; the finalizer Lambda, polled by the client, signs the token and  *)
(* deletes the flow.                                                       *)
(*                                                                         *)
(* Every handler is several actions, split where it awaits the store, the  *)
(* challenge request or the signer: between two of them any other process  *)
(* may step.  Invocations and Calls bound how many verifier invocations of *)
(* one address, and how many finalizer calls of one flow, run at once.     *)
(***************************************************************************)
EXTENDS Naturals

CONSTANTS
  Flows,        \* flow identifiers
  Addresses,    \* the addresses of a node (one IPv4, one IPv6)
  MaxRetries,   \* rounds after the first before the flow is marked failed
  MaxAttempts,  \* Lambda service failures retried per address and round
  Invocations,  \* verifier invocations of one address that may overlap
  Calls,        \* finalizer calls of one flow that may overlap
  Faults        \* kinds of failure the environment may produce

FaultKinds == {
  "store",    \* a DynamoDB call fails, a write perhaps after it was applied
  "stale",    \* an eventually consistent read returns the previous item
  "launch",   \* StartExecution fails, perhaps after it started the execution
  "lambda",   \* an invocation is killed, or its answer lost to a service error
  "signer",   \* KMS fails
  "network",  \* the client loses an answer
  "gateway",  \* API Gateway answers by itself (throttling, bad gateway)
  "exit" }    \* the client's daemon goes away

ASSUME IssuanceAssumption ==
  /\ MaxRetries \in Nat
  /\ MaxAttempts \in Nat
  /\ Faults \subseteq FaultKinds

VARIABLES
  store,        \* the item of each flow in the table
  replica,      \* the copy an eventually consistent read may see
  expired,      \* flows whose ExpiresAt has passed
  initializer,  \* progress of the initializer of each flow
  execution,    \* state of the step function execution of each flow
  retries,      \* its $retries variable
  task,         \* its Map iteration for each address
  verifier,     \* verifier invocations
  finalizer,    \* finalizer calls
  client,       \* progress of the client's refresh
  elapsed,      \* flows the client has polled for three minutes
  listening,    \* flows whose challenge servers are up
  proved, signed, delivered, marked, deleted  \* history

history == <<proved, signed, delivered, marked, deleted>>
table == <<store, replica, expired>>
machine == <<execution, retries, task>>
daemon == <<client, elapsed, listening>>
vars == <<table, initializer, machine, verifier, finalizer, daemon, history>>

\* full stands for the secret, the expiry time and the identity, which are only
\* ever written together.  dynamo.Get unmarshals a missing item into the zero
\* Flow, so a missing item is that value.
Zero == [status |-> "", full |-> FALSE]
Flow == {r \in [status : {"", "pending", "failed", "success"}, full : BOOLEAN] :
           r.status = "" => ~r.full}
Pending == [status |-> "pending", full |-> TRUE]

Verdicts == {"verified", "rejected", "crashed"}
Verifier == [pc : {"idle", "get", "challenge", "put"} \union Verdicts,
             copy : Flow, awaited : BOOLEAN]
NoVerifier == [pc |-> "idle", copy |-> Zero, awaited |-> FALSE]

Task == [state : {"queued", "running", "verified", "rejected"},
         tries : 0 .. MaxAttempts]
Queued == [state |-> "queued", tries |-> 0]

Answers == {"200", "409", "403", "500"}
Finalizer == [pc : {"idle", "get", "sign", "delete"} \union Answers,
              awaited : BOOLEAN]
NoFinalizer == [pc |-> "idle", awaited |-> FALSE]

Outcomes == {"token", "refused", "gaveup", "stopped"}

-------------------------------------------------------------------------------
(* The table.                                                              *)

\* What a call to the table can do: ok is what the caller is told, applied
\* what happened.
CallOutcome ==
  {[ok |-> TRUE, applied |-> TRUE]} \union
    (IF "store" \in Faults
       THEN {[ok |-> FALSE, applied |-> b] : b \in BOOLEAN}
       ELSE {})

Write(f, flow, call) ==
  store' = IF call.applied THEN [store EXCEPT ![f] = flow] ELSE store

\* GetItem without ConsistentRead.
Reads(f) == {store[f]} \union (IF "stale" \in Faults THEN {replica[f]} ELSE {})

Replicate(f) ==
  /\ "stale" \in Faults
  /\ replica[f] # store[f]
  /\ replica' = [replica EXCEPT ![f] = store[f]]
  /\ UNCHANGED <<store, expired, initializer, machine, verifier, finalizer,
                 daemon, history>>

\* Five minutes after the initializer ran.
Expire(f) ==
  /\ initializer[f] \notin {"idle", "put"}
  /\ f \notin expired
  /\ expired' = expired \union {f}
  /\ UNCHANGED <<store, replica, initializer, machine, verifier, finalizer,
                 daemon, history>>

\* The table's time to live only sees items that have an ExpiresAt.
TimeToLive(f) ==
  /\ f \in expired
  /\ store[f].full
  /\ store' = [store EXCEPT ![f] = Zero]
  /\ UNCHANGED <<replica, expired, initializer, machine, verifier, finalizer,
                 daemon, history>>

-------------------------------------------------------------------------------
(* Initializer.                                                            *)

\* The request is malformed, or the control plane fails, does not know the
\* node, or does not give two addresses.
InitializerReject(f) ==
  /\ initializer[f] = "put"
  /\ initializer' = [initializer EXCEPT ![f] = "error"]
  /\ UNCHANGED <<table, machine, verifier, finalizer, daemon, history>>

InitializerPut(f) ==
  /\ initializer[f] = "put"
  /\ \E call \in CallOutcome :
       /\ Write(f, Pending, call)
       /\ initializer' = [initializer EXCEPT
            ![f] = IF call.ok THEN "launch" ELSE "error"]
  /\ UNCHANGED <<replica, expired, machine, verifier, finalizer, daemon,
                 history>>

\* A failed launch leaves the pending flow behind.
InitializerLaunch(f) ==
  /\ initializer[f] = "launch"
  /\ \E ok, started \in BOOLEAN :
       /\ ok => started
       /\ ~ok => "launch" \in Faults
       /\ initializer' = [initializer EXCEPT ![f] = IF ok THEN "ok" ELSE "error"]
       /\ execution' = [execution EXCEPT ![f] = IF started THEN "map" ELSE @]
  /\ UNCHANGED <<table, retries, task, verifier, finalizer, daemon, history>>

-------------------------------------------------------------------------------
(* The verifier state machine.                                             *)

\* The execution stops waiting for its invocations, which run on.
FailExecution(f, base) ==
  /\ execution' = [execution EXCEPT ![f] = "failed"]
  /\ verifier' = [base EXCEPT ![f] =
                    [a \in Addresses |-> [i \in Invocations |->
                      [base[f][a][i] EXCEPT !.awaited = FALSE]]]]
  /\ task' = task

InvokeVerifier(f, a, i) ==
  /\ execution[f] = "map"
  /\ task[f][a].state = "queued"
  /\ verifier[f][a][i].pc = "idle"
  /\ task' = [task EXCEPT ![f][a].state = "running"]
  /\ verifier' = [verifier EXCEPT
       ![f][a][i] = [NoVerifier EXCEPT !.pc = "get", !.awaited = TRUE]]
  /\ UNCHANGED <<table, initializer, execution, retries, finalizer, daemon,
                 history>>

\* An error returned by the handler is not among the retried ones: it fails
\* the Map and with it the execution, without MarkFailed.
VerifierReturn(f, a, i) ==
  LET v == verifier[f][a][i]
      base == [verifier EXCEPT ![f][a][i] = NoVerifier]
  IN  /\ v.pc \in Verdicts
      /\ IF v.awaited /\ v.pc = "crashed"
           THEN FailExecution(f, base)
           ELSE /\ verifier' = base
                /\ task' = IF v.awaited
                             THEN [task EXCEPT ![f][a].state = v.pc]
                             ELSE task
                /\ execution' = execution
      /\ UNCHANGED <<table, initializer, retries, finalizer, daemon, history>>

\* Mutant: the attempts are not counted.
LambdaExceptionUncounted(f, a, i) ==
  /\ "lambda" \in Faults
  /\ verifier[f][a][i].awaited
  /\ task' = [task EXCEPT ![f][a].state = "queued"]
  /\ verifier' = [verifier EXCEPT ![f][a][i].awaited = FALSE]
  /\ UNCHANGED <<table, initializer, execution, retries, finalizer, daemon,
                 history>>

\* The Lambda service fails the invocation: it may never have begun, or it
\* runs on with nobody waiting for it.  Retried up to MaxAttempts times.
LambdaException(f, a, i) ==
  LET v == verifier[f][a][i]
  IN  /\ "lambda" \in Faults
      /\ v.awaited
      /\ \E began \in (IF v.pc = "get" THEN BOOLEAN ELSE {TRUE}) :
           LET base == [verifier EXCEPT ![f][a][i] =
                          IF began THEN [v EXCEPT !.awaited = FALSE]
                                   ELSE NoVerifier]
           IN  \/ /\ task[f][a].tries < MaxAttempts
                  /\ task' = [task EXCEPT ![f][a] =
                       [state |-> "queued", tries |-> @.tries + 1]]
                  /\ verifier' = base
                  /\ execution' = execution
               \/ /\ task[f][a].tries = MaxAttempts
                  /\ FailExecution(f, base)
      /\ UNCHANGED <<table, initializer, retries, finalizer, daemon, history>>

Decided(f) ==
  \A a \in Addresses : task[f][a].state \in {"verified", "rejected"}

Verified(f) == \E a \in Addresses : task[f][a].state = "verified"

\* Mutant: the retry limit is checked before the verdicts.
CheckResultLimitFirst(f) ==
  /\ execution[f] = "map"
  /\ Decided(f)
  /\ execution' = [execution EXCEPT
       ![f] = IF retries[f] >= MaxRetries THEN "mark"
              ELSE IF Verified(f) THEN "succeeded" ELSE "wait"]
  /\ UNCHANGED <<table, initializer, retries, task, verifier, finalizer, daemon,
                 history>>

CheckResult(f) ==
  /\ execution[f] = "map"
  /\ Decided(f)
  /\ execution' = [execution EXCEPT
       ![f] = IF Verified(f) THEN "succeeded"
              ELSE IF retries[f] >= MaxRetries THEN "mark" ELSE "wait"]
  /\ UNCHANGED <<table, initializer, retries, task, verifier, finalizer, daemon,
                 history>>

Wait(f) ==
  /\ execution[f] = "wait"
  /\ execution' = [execution EXCEPT ![f] = "map"]
  /\ retries' = [retries EXCEPT ![f] = @ + 1]
  /\ task' = [task EXCEPT ![f] = [a \in Addresses |-> Queued]]
  /\ UNCHANGED <<table, initializer, verifier, finalizer, daemon, history>>

\* updateItem SET #s = :s: creates the item when there is none.
MarkFailed(f) ==
  /\ execution[f] = "mark"
  /\ \E call \in CallOutcome :
       /\ Write(f, [store[f] EXCEPT !.status = "failed"], call)
       /\ marked' = IF call.applied THEN marked \union {f} ELSE marked
  /\ execution' = [execution EXCEPT ![f] = "failed"]
  /\ UNCHANGED <<replica, expired, initializer, retries, task, verifier,
                 finalizer, daemon, proved, signed, delivered, deleted>>

-------------------------------------------------------------------------------
(* Verifier: read the flow, send the challenge, write the flow that was    *)
(* read with its status set to success.                                    *)

VerifierGet(f, a, i) ==
  /\ verifier[f][a][i].pc = "get"
  /\ \/ \E flow \in Reads(f) :
          verifier' = [verifier EXCEPT
            ![f][a][i] = [@ EXCEPT !.pc = "challenge", !.copy = flow]]
     \/ /\ "store" \in Faults
        /\ verifier' = [verifier EXCEPT ![f][a][i].pc = "rejected"]
  /\ UNCHANGED <<table, initializer, machine, finalizer, daemon, history>>

\* The request fails, the answer is no success or its MAC is wrong.  A copy
\* without the secret matches no MAC.
ChallengeFails(f, a, i) ==
  /\ verifier[f][a][i].pc = "challenge"
  /\ verifier' = [verifier EXCEPT
       ![f][a][i] = [@ EXCEPT !.pc = "rejected", !.copy = Zero]]
  /\ UNCHANGED <<table, initializer, machine, finalizer, daemon, history>>

\* Only the client that started the flow has its secret, from the moment it
\* serves challenges until it stops its servers.
ChallengeAnswered(f, a, i) ==
  /\ verifier[f][a][i].pc = "challenge"
  /\ verifier[f][a][i].copy.full
  /\ f \in listening
  /\ verifier' = [verifier EXCEPT ![f][a][i].pc = "put"]
  /\ proved' = proved \union {f}
  /\ UNCHANGED <<table, initializer, machine, finalizer, daemon, signed,
                 delivered, marked, deleted>>

\* Mutant: the error of the write is dropped.
VerifierPutUnchecked(f, a, i) ==
  /\ verifier[f][a][i].pc = "put"
  /\ \E call \in CallOutcome :
       Write(f, [verifier[f][a][i].copy EXCEPT !.status = "success"], call)
  /\ verifier' = [verifier EXCEPT
       ![f][a][i] = [@ EXCEPT !.pc = "verified", !.copy = Zero]]
  /\ UNCHANGED <<replica, expired, initializer, machine, finalizer, daemon,
                 history>>

VerifierPut(f, a, i) ==
  /\ verifier[f][a][i].pc = "put"
  /\ \E call \in CallOutcome :
       /\ Write(f, [verifier[f][a][i].copy EXCEPT !.status = "success"], call)
       /\ verifier' = [verifier EXCEPT
            ![f][a][i] = [@ EXCEPT
               !.pc = IF call.ok THEN "verified" ELSE "crashed", !.copy = Zero]]
  /\ UNCHANGED <<replica, expired, initializer, machine, finalizer, daemon,
                 history>>

\* The Lambda times out or dies between two of its steps.
VerifierKilled(f, a, i) ==
  /\ "lambda" \in Faults
  /\ verifier[f][a][i].pc \in {"get", "challenge", "put", "verified"}
  /\ verifier' = [verifier EXCEPT
       ![f][a][i] = [@ EXCEPT !.pc = "crashed", !.copy = Zero]]
  /\ UNCHANGED <<table, initializer, machine, finalizer, daemon, history>>

-------------------------------------------------------------------------------
(* Finalizer.                                                              *)

\* Mutant: a pending flow is not told apart.
DecisionOnPending(f, flow) ==
  IF flow.status = "failed" \/ f \in expired \/ ~flow.full THEN "403"
  ELSE "sign"

\* What becomes of a call for the flow that was read.  A flow without an
\* ExpiresAt, such as the zero Flow of a missing item, is expired.
Decision(f, flow) ==
  IF flow.status = "pending" THEN "409"
  ELSE IF flow.status = "failed" \/ f \in expired \/ ~flow.full THEN "403"
  ELSE "sign"

FinalizerGet(f, c) ==
  /\ finalizer[f][c].pc = "get"
  /\ \/ \E flow \in Reads(f) :
          finalizer' = [finalizer EXCEPT ![f][c].pc = Decision(f, flow)]
     \/ /\ "store" \in Faults
        /\ finalizer' = [finalizer EXCEPT ![f][c].pc = "500"]
  /\ UNCHANGED <<table, initializer, machine, verifier, daemon, history>>

FinalizerSign(f, c) ==
  /\ finalizer[f][c].pc = "sign"
  /\ \/ /\ finalizer' = [finalizer EXCEPT ![f][c].pc = "delete"]
        /\ signed' = signed \union {f}
     \/ /\ "signer" \in Faults
        /\ finalizer' = [finalizer EXCEPT ![f][c].pc = "500"]
        /\ signed' = signed
  /\ UNCHANGED <<table, initializer, machine, verifier, daemon, proved,
                 delivered, marked, deleted>>

\* A failed delete discards the token that was just signed.
FinalizerDelete(f, c) ==
  /\ finalizer[f][c].pc = "delete"
  /\ \E call \in CallOutcome :
       /\ Write(f, Zero, call)
       /\ finalizer' = [finalizer EXCEPT
            ![f][c].pc = IF call.ok THEN "200" ELSE "500"]
       /\ deleted' = IF call.applied THEN deleted \union {f} ELSE deleted
  /\ UNCHANGED <<replica, expired, initializer, machine, verifier, daemon,
                 proved, signed, delivered, marked>>
-------------------------------------------------------------------------------
(* The client: Job starts the flow and serves its challenges, complete     *)
(* polls the finalizer.                                                    *)

ClientStart(f) ==
  /\ client[f] = "idle"
  /\ client' = [client EXCEPT ![f] = "starting"]
  /\ initializer' = [initializer EXCEPT ![f] = "put"]
  /\ UNCHANGED <<table, machine, verifier, finalizer, elapsed, listening,
                 history>>

\* A client without an answer abandons the flow and starts another.
StartReply(f) ==
  /\ client[f] = "starting"
  /\ \/ /\ initializer[f] = "ok"
        /\ client' = [client EXCEPT ![f] = "polling"]
        /\ listening' = listening \union {f}
     \/ /\ initializer[f] = "error" \/ Faults \intersect {"network", "gateway"} # {}
        /\ client' = [client EXCEPT ![f] = "stopped"]
        /\ listening' = listening
  /\ UNCHANGED <<table, initializer, machine, verifier, finalizer, elapsed,
                 history>>

Poll(f, c) ==
  /\ client[f] = "polling"
  /\ \A d \in Calls : ~finalizer[f][d].awaited
  /\ finalizer[f][c].pc = "idle"
  /\ finalizer' = [finalizer EXCEPT ![f][c] = [pc |-> "get", awaited |-> TRUE]]
  /\ UNCHANGED <<table, initializer, machine, verifier, daemon, history>>

\* Mutant: the retries have no time limit.
RetryAlways(f) == "polling"

\* backoff.Retry tries again unless three minutes have passed.
RetryOr(f) == IF f \in elapsed THEN "gaveup" ELSE "polling"

\* Mutant: 409 is final as well.
AfterAnyError(f, answer) == IF answer = "200" THEN "token" ELSE "refused"

\* Every answer but 409 ends the flow.
After(f, answer) ==
  CASE answer = "200" -> "token"
    [] answer = "409" -> RetryOr(f)
    [] answer \in {"403", "500"} -> "refused"

FinalizeReply(f, c) ==
  /\ finalizer[f][c].pc \in Answers
  /\ finalizer' = [finalizer EXCEPT ![f][c] = NoFinalizer]
  /\ IF finalizer[f][c].awaited
       THEN /\ client' = [client EXCEPT ![f] = After(f, finalizer[f][c].pc)]
            /\ delivered' = IF client'[f] = "token" THEN delivered \union {f}
                                                    ELSE delivered
       ELSE UNCHANGED <<client, delivered>>
  /\ UNCHANGED <<table, initializer, machine, verifier, elapsed, listening,
                 proved, signed, marked, deleted>>

\* A call whose answer the client will not see runs on, unless it never
\* reached the handler.
Unanswered(f, c) ==
  {[finalizer[f][c] EXCEPT !.awaited = FALSE]} \union
    (IF finalizer[f][c].pc = "get" THEN {NoFinalizer} ELSE {})

\* The connection breaks or the answer cannot be decoded.
LoseReply(f, c) ==
  /\ "network" \in Faults
  /\ finalizer[f][c].awaited
  /\ \E g \in Unanswered(f, c) : finalizer' = [finalizer EXCEPT ![f][c] = g]
  /\ client' = [client EXCEPT ![f] = RetryOr(f)]
  /\ UNCHANGED <<table, initializer, machine, verifier, elapsed, listening,
                 history>>

\* The gateway's own error bodies decode as an unsuccessful answer, which is
\* final.
GatewayError(f, c) ==
  /\ "gateway" \in Faults
  /\ finalizer[f][c].awaited
  /\ \E g \in Unanswered(f, c) : finalizer' = [finalizer EXCEPT ![f][c] = g]
  /\ client' = [client EXCEPT ![f] = "refused"]
  /\ UNCHANGED <<table, initializer, machine, verifier, elapsed, listening,
                 history>>

Elapse(f) ==
  /\ client[f] = "polling"
  /\ f \notin elapsed
  /\ elapsed' = elapsed \union {f}
  /\ UNCHANGED <<table, initializer, machine, verifier, finalizer, client,
                 listening, history>>

\* complete stops the servers after its retries, whatever they led to.
StopServers(f) ==
  /\ client[f] \in Outcomes
  /\ f \in listening
  /\ listening' = listening \ {f}
  /\ UNCHANGED <<table, initializer, machine, verifier, finalizer, client,
                 elapsed, history>>

\* The daemon stops with the flow in flight.
Exit(f) ==
  /\ "exit" \in Faults
  /\ client[f] \in {"starting", "polling"}
  /\ client' = [client EXCEPT ![f] = "stopped"]
  /\ listening' = listening \ {f}
  /\ finalizer' = [finalizer EXCEPT ![f] =
                     [c \in Calls |-> [@[c] EXCEPT !.awaited = FALSE]]]
  /\ UNCHANGED <<table, initializer, machine, verifier, elapsed, history>>
-------------------------------------------------------------------------------
Init ==
  /\ store = [f \in Flows |-> Zero]
  /\ replica = [f \in Flows |-> Zero]
  /\ expired = {}
  /\ initializer = [f \in Flows |-> "idle"]
  /\ execution = [f \in Flows |-> "idle"]
  /\ retries = [f \in Flows |-> 0]
  /\ task = [f \in Flows |-> [a \in Addresses |-> Queued]]
  /\ verifier = [f \in Flows |->
                   [a \in Addresses |-> [i \in Invocations |-> NoVerifier]]]
  /\ finalizer = [f \in Flows |-> [c \in Calls |-> NoFinalizer]]
  /\ client = [f \in Flows |-> "idle"]
  /\ elapsed = {}
  /\ listening = {}
  /\ proved = {} /\ signed = {} /\ delivered = {} /\ marked = {} /\ deleted = {}

TableStep(f) == Replicate(f) \/ Expire(f) \/ TimeToLive(f)

InitializerStep(f) ==
  InitializerReject(f) \/ InitializerPut(f) \/ InitializerLaunch(f)

MachineStep(f) == CheckResult(f) \/ Wait(f) \/ MarkFailed(f)

VerifierStep(f, a, i) ==
  \/ VerifierGet(f, a, i) \/ ChallengeFails(f, a, i)
  \/ ChallengeAnswered(f, a, i) \/ VerifierPut(f, a, i)
  \/ VerifierReturn(f, a, i)

VerifierFault(f, a, i) == LambdaException(f, a, i) \/ VerifierKilled(f, a, i)

FinalizerStep(f, c) ==
  \/ FinalizerGet(f, c) \/ FinalizerSign(f, c) \/ FinalizerDelete(f, c)
  \/ FinalizeReply(f, c)

CallFault(f, c) == LoseReply(f, c) \/ GatewayError(f, c)

ClientStep(f) == ClientStart(f) \/ StartReply(f) \/ Elapse(f) \/ StopServers(f)

Next ==
  \E f \in Flows :
    \/ TableStep(f) \/ InitializerStep(f) \/ MachineStep(f)
    \/ ClientStep(f) \/ Exit(f)
    \/ \E a \in Addresses, i \in Invocations :
         InvokeVerifier(f, a, i) \/ VerifierStep(f, a, i) \/ VerifierFault(f, a, i)
    \/ \E c \in Calls : Poll(f, c) \/ FinalizerStep(f, c) \/ CallFault(f, c)

\* Lambda and Step Functions run what they accepted to its end, and so does
\* the client's goroutine; no failure and no expiry is ever due.  Neither is an
\* answer that the client waits for: its requests have no timeout.
Fairness ==
  \A f \in Flows :
    /\ WF_vars(InitializerStep(f))
    /\ WF_vars(MachineStep(f))
    /\ WF_vars(Elapse(f))
    /\ WF_vars(StopServers(f))
    /\ WF_vars(\E c \in Calls : Poll(f, c))
    /\ \A c \in Calls :
         /\ WF_vars(FinalizerGet(f, c) \/ FinalizerSign(f, c) \/ FinalizerDelete(f, c))
         /\ WF_vars(~finalizer[f][c].awaited /\ FinalizeReply(f, c))
    /\ \A a \in Addresses :
         /\ WF_vars(\E i \in Invocations : InvokeVerifier(f, a, i))
         /\ \A i \in Invocations : WF_vars(VerifierStep(f, a, i))

Spec == Init /\ [][Next]_vars
FairSpec == Spec /\ Fairness
-------------------------------------------------------------------------------
(* Properties.                                                             *)

\* Every variable keeps the values the handlers can give it.
TypeOK ==
  /\ store \in [Flows -> Flow]
  /\ replica \in [Flows -> Flow]
  /\ expired \subseteq Flows
  /\ initializer \in [Flows -> {"idle", "put", "launch", "ok", "error"}]
  /\ execution \in
       [Flows -> {"idle", "map", "wait", "mark", "succeeded", "failed"}]
  /\ retries \in [Flows -> 0 .. MaxRetries]
  /\ task \in [Flows -> [Addresses -> Task]]
  /\ verifier \in [Flows -> [Addresses -> [Invocations -> Verifier]]]
  /\ finalizer \in [Flows -> [Calls -> Finalizer]]
  /\ client \in [Flows -> {"idle", "starting", "polling"} \union Outcomes]
  /\ elapsed \subseteq Flows
  /\ listening \subseteq Flows
  /\ proved \subseteq Flows /\ signed \subseteq Flows /\ delivered \subseteq Flows
  /\ marked \subseteq Flows /\ deleted \subseteq Flows

\* A token is signed for a flow only after the node answered a challenge of
\* that flow, however stale reads, overlapping invocations, retried calls and
\* blind writes of the verifier and the state machine interleave.
TokenOnlyAfterProof == signed \subseteq proved

\* The client is turned away for a reason: its flow was marked failed, has
\* expired or was consumed by an earlier call whose answer was lost, unless a
\* stale read or a failing service produced the refusal.
RefusalJustified ==
  \A f \in Flows :
    client[f] = "refused" =>
      \/ f \in marked \union expired \union deleted
      \/ Faults \intersect {"stale", "store", "signer", "gateway"} # {}

\* The state machine gives up only on a node that no invocation of the
\* verifier accepted: it marks no proved flow failed, as long as the Lambda
\* service loses no invocation's answer.
MarkedOnlyUnproved == "lambda" \in Faults \/ marked \intersect proved = {}

\* After the state machine reported success the stored flow says so until it
\* is consumed or expires: no late failure mark, stale copy or lost write
\* takes the verdict back.
SuccessReachesFinalizer ==
  \A f \in Flows :
    execution[f] = "succeeded" =>
      store[f].status = "success" \/ f \in deleted \union expired

\* A launched execution reaches one of its end states.
ExecutionTerminates ==
  \A f \in Flows :
    execution[f] = "map" ~> execution[f] \in {"succeeded", "failed"}

\* The request that starts the flow, or one that asks for its token, is never
\* answered.
AnswerHangs(f) ==
  <>[](client[f] = "starting" \/ \E c \in Calls : finalizer[f][c].awaited)

\* A client that started a flow ends up with a token, a refusal or the end of
\* its patience, and then its challenge servers are down, unless an answer that
\* it waits for never comes.
ClientTerminates ==
  \A f \in Flows :
    \/ AnswerHangs(f)
    \/ client[f] = "starting" ~> client[f] \in Outcomes /\ f \notin listening

\* The Backend interface: "Delete permanently deletes a flow". Not so here (see
\* README, disagreements): a late verifier writes the item it read back.
DeletedStaysDeleted == \A f \in deleted : store[f] = Zero

Promise == INSTANCE TokenPromise

\* Issuance implements the abstract promise: prove, then sign, then deliver.
TokenPromiseHolds == Promise!Spec
=============================================================================
