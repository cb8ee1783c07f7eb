--------------------------- MODULE Issuance_proofs ---------------------------
(***************************************************************************)
(* Issuance for any flows, addresses, retry bounds, numbers of overlapping *)
(* invocations and calls, and kinds of failure: the types; then that a     *)
(* token is only signed for a flow whose node answered its challenge, that *)
(* the handlers implement the abstract promise of TokenPromise, that no    *)
(* client is refused without a reason, and that a verdict of the state     *)
(* machine is neither wrong nor taken back.                                *)
(***************************************************************************)
EXTENDS Issuance, TLAPS

-------------------------------------------------------------------------------
(* The types.                                                              *)

\* The writes of a call to the table keep the table well typed.
LEMMA WriteTyped ==
  ASSUME store \in [Flows -> Flow], NEW f \in Flows, NEW flow \in Flow,
         NEW call, Write(f, flow, call)
  PROVE  store' \in [Flows -> Flow]
BY DEF Write

\* The constant records are well typed.
LEMMA RecordsTyped ==
  /\ Zero \in Flow /\ Pending \in Flow
  /\ NoVerifier \in Verifier /\ NoFinalizer \in Finalizer /\ Queued \in Task
<1>1. Zero \in Flow /\ Pending \in Flow
  BY DEF Zero, Pending, Flow
<1>2. NoVerifier \in Verifier
  BY <1>1 DEF NoVerifier, Verifier
<1>3. NoFinalizer \in Finalizer
  BY DEF NoFinalizer, Finalizer
<1>4. Queued \in Task
  BY IssuanceAssumption DEF Queued, Task
<1>5. QED BY <1>1, <1>2, <1>3, <1>4

\* Updating one field of a record keeps it well typed.
LEMMA FlowFailed ==
  ASSUME NEW flow \in Flow
  PROVE  /\ [flow EXCEPT !.status = "failed"] \in Flow
         /\ [flow EXCEPT !.status = "failed"].status = "failed"
BY DEF Flow

LEMMA FlowSuccess ==
  ASSUME NEW flow \in Flow
  PROVE  /\ [flow EXCEPT !.status = "success"] \in Flow
         /\ [flow EXCEPT !.status = "success"].status = "success"
BY DEF Flow

LEMMA FinalizerPc ==
  ASSUME NEW g \in Finalizer,
         NEW pc \in {"idle", "get", "sign", "delete"} \union Answers
  PROVE  [g EXCEPT !.pc = pc] \in Finalizer
BY DEF Finalizer

LEMMA FinalizerDetached ==
  ASSUME NEW g \in Finalizer PROVE [g EXCEPT !.awaited = FALSE] \in Finalizer
BY DEF Finalizer

LEMMA VerifierPc ==
  ASSUME NEW v \in Verifier, NEW flow \in Flow,
         NEW pc \in {"idle", "get", "challenge", "put"} \union Verdicts
  PROVE  /\ [v EXCEPT !.pc = pc] \in Verifier
         /\ [v EXCEPT !.pc = pc, !.copy = flow] \in Verifier
BY DEF Verifier

LEMMA VerifierDetached ==
  ASSUME NEW v \in Verifier PROVE [v EXCEPT !.awaited = FALSE] \in Verifier
BY DEF Verifier

LEMMA TaskState ==
  ASSUME NEW t \in Task,
         NEW s \in {"queued", "running", "verified", "rejected"}
  PROVE  [t EXCEPT !.state = s] \in Task
BY DEF Task

LEMMA TaskRetried ==
  ASSUME NEW t \in Task, t.tries < MaxAttempts
  PROVE  [state |-> "queued", tries |-> t.tries + 1] \in Task
<1>1. t.tries + 1 \in 0 .. MaxAttempts
  BY IssuanceAssumption DEF Task
<1>2. QED BY <1>1 DEF Task

\* The strengthening that makes the type invariant inductive: the state
\* machine only waits while it has retries left.
TypeInv ==
  /\ TypeOK
  /\ \A f \in Flows : execution[f] = "wait" => retries[f] < MaxRetries

LEMMA InitTyped == Init => TypeInv
BY RecordsTyped, IssuanceAssumption DEF Init, TypeInv, TypeOK, Outcomes

LEMMA TableTyped ==
  ASSUME TypeInv, NEW f \in Flows, TableStep(f)
  PROVE  TypeInv'
<1>1. CASE Replicate(f)
  BY <1>1 DEF Replicate, TypeInv, TypeOK, machine, daemon, history
<1>2. CASE Expire(f)
  BY <1>2 DEF Expire, TypeInv, TypeOK, machine, daemon, history
<1>3. CASE TimeToLive(f)
  BY <1>3, RecordsTyped DEF TimeToLive, TypeInv, TypeOK, machine, daemon, history
<1>4. QED BY <1>1, <1>2, <1>3 DEF TableStep

LEMMA InitializerTyped ==
  ASSUME TypeInv, NEW f \in Flows, InitializerStep(f)
  PROVE  TypeInv'
<1>1. CASE InitializerReject(f)
  BY <1>1 DEF InitializerReject, TypeInv, TypeOK, table, machine, daemon, history
<1>2. CASE InitializerPut(f)
  <2>1. store' \in [Flows -> Flow]
    BY <1>2, RecordsTyped, WriteTyped DEF InitializerPut, TypeInv, TypeOK
  <2>2. QED
    BY <1>2, <2>1 DEF InitializerPut, TypeInv, TypeOK, machine, daemon, history
<1>3. CASE InitializerLaunch(f)
  BY <1>3 DEF InitializerLaunch, TypeInv, TypeOK, table, daemon, history
<1>4. QED BY <1>1, <1>2, <1>3 DEF InitializerStep

LEMMA MachineTyped ==
  ASSUME TypeInv, NEW f \in Flows, MachineStep(f)
  PROVE  TypeInv'
<1>1. CASE CheckResult(f)
  BY <1>1, IssuanceAssumption
     DEF CheckResult, TypeInv, TypeOK, table, daemon, history
<1>2. CASE Wait(f)
  <2>1. retries' \in [Flows -> 0 .. MaxRetries]
    BY <1>2, IssuanceAssumption DEF Wait, TypeInv, TypeOK
  <2>2. task' \in [Flows -> [Addresses -> Task]]
    BY <1>2, RecordsTyped DEF Wait, TypeInv, TypeOK
  <2>3. execution' = [execution EXCEPT ![f] = "map"]
    BY <1>2 DEF Wait
  <2>4. \A g \in Flows : g # f => retries'[g] = retries[g]
    BY <1>2 DEF Wait, TypeInv, TypeOK
  <2>5. \A g \in Flows : execution'[g] = "wait" => retries'[g] < MaxRetries
    BY <2>3, <2>4 DEF TypeInv, TypeOK
  <2>6. QED
    BY <1>2, <2>1, <2>2, <2>3, <2>5
       DEF Wait, TypeInv, TypeOK, table, daemon, history
<1>3. CASE MarkFailed(f)
  <2>1. store' \in [Flows -> Flow]
    BY <1>3, FlowFailed DEF MarkFailed, TypeInv, TypeOK, Write
  <2>2. marked' \subseteq Flows
    BY <1>3 DEF MarkFailed, TypeInv, TypeOK
  <2>3. QED BY <1>3, <2>1, <2>2 DEF MarkFailed, TypeInv, TypeOK, daemon
<1>4. QED BY <1>1, <1>2, <1>3 DEF MachineStep

LEMMA ClientTyped ==
  ASSUME TypeInv, NEW f \in Flows, ClientStep(f) \/ Exit(f)
  PROVE  TypeInv'
<1>1. CASE ClientStart(f)
  BY <1>1 DEF ClientStart, TypeInv, TypeOK, table, machine, history
<1>2. CASE StartReply(f)
  BY <1>2 DEF StartReply, TypeInv, TypeOK, table, machine, history, Outcomes
<1>3. CASE Elapse(f)
  BY <1>3 DEF Elapse, TypeInv, TypeOK, table, machine, history
<1>4. CASE StopServers(f)
  BY <1>4 DEF StopServers, TypeInv, TypeOK, table, machine, history
<1>5. CASE Exit(f)
  <2>1. finalizer' \in [Flows -> [Calls -> Finalizer]]
    <3>1. \A c \in Calls : [finalizer[f][c] EXCEPT !.awaited = FALSE] \in Finalizer
      BY FinalizerDetached DEF TypeInv, TypeOK
    <3>2. QED BY <1>5, <3>1 DEF Exit, TypeInv, TypeOK
  <2>2. QED
    BY <1>5, <2>1 DEF Exit, TypeInv, TypeOK, table, machine, history, Outcomes
<1>6. QED BY <1>1, <1>2, <1>3, <1>4, <1>5 DEF ClientStep

\* A step of a finalizer call that only moves its program counter.
LEMMA FinalizerMoves ==
  ASSUME TypeOK, NEW f \in Flows, NEW c \in Calls,
         NEW pc \in {"idle", "get", "sign", "delete"} \union Answers,
         finalizer' = [finalizer EXCEPT ![f][c].pc = pc]
  PROVE  finalizer' \in [Flows -> [Calls -> Finalizer]]
<1>1. finalizer[f][c] \in Finalizer
  BY DEF TypeOK
<1>2. finalizer' = [finalizer EXCEPT
        ![f][c] = [finalizer[f][c] EXCEPT !.pc = pc]]
  OBVIOUS
<1>3. [finalizer[f][c] EXCEPT !.pc = pc] \in Finalizer
  BY <1>1, FinalizerPc
<1>4. QED BY <1>2, <1>3 DEF TypeOK

LEMMA CallTyped ==
  ASSUME TypeInv, NEW f \in Flows, NEW c \in Calls,
         Poll(f, c) \/ FinalizerStep(f, c) \/ CallFault(f, c)
  PROVE  TypeInv'
<1> USE DEF TypeInv, TypeOK, machine
<1>1. CASE Poll(f, c)
  <2>1. [pc |-> "get", awaited |-> TRUE] \in Finalizer
    BY DEF Finalizer
  <2>2. QED BY <1>1, <2>1 DEF Poll, table, daemon, history
<1>2. CASE FinalizerGet(f, c)
  <2>1. PICK pc \in {"409", "403", "sign", "500"} :
          finalizer' = [finalizer EXCEPT ![f][c].pc = pc]
    BY <1>2 DEF FinalizerGet, Decision
  <2>2. finalizer' \in [Flows -> [Calls -> Finalizer]]
    BY <2>1, FinalizerMoves DEF Answers
  <2>3. QED BY <1>2, <2>2 DEF FinalizerGet, table, daemon, history
<1>3. CASE FinalizerSign(f, c)
  <2>1. PICK pc \in {"delete", "500"} :
          finalizer' = [finalizer EXCEPT ![f][c].pc = pc]
    BY <1>3 DEF FinalizerSign
  <2>2. finalizer' \in [Flows -> [Calls -> Finalizer]]
    BY <2>1, FinalizerMoves DEF Answers
  <2>3. QED BY <1>3, <2>2 DEF FinalizerSign, table, daemon
<1>4. CASE FinalizerDelete(f, c)
  <2>1. store' \in [Flows -> Flow]
    BY <1>4, RecordsTyped, WriteTyped DEF FinalizerDelete
  <2>2. PICK pc \in {"200", "500"} :
          finalizer' = [finalizer EXCEPT ![f][c].pc = pc]
    BY <1>4 DEF FinalizerDelete
  <2>3. finalizer' \in [Flows -> [Calls -> Finalizer]]
    BY <2>2, FinalizerMoves DEF Answers
  <2>4. deleted' \subseteq Flows
    BY <1>4 DEF FinalizerDelete
  <2>5. QED BY <1>4, <2>1, <2>3, <2>4 DEF FinalizerDelete, daemon
<1>5. CASE FinalizeReply(f, c)
  <2>1. finalizer[f][c].pc \in Answers => After(f, finalizer[f][c].pc)
          \in {"idle", "starting", "polling"} \union Outcomes
    BY DEF After, RetryOr, Answers, Outcomes
  <2>2. client' \in [Flows -> {"idle", "starting", "polling"} \union Outcomes]
    BY <1>5, <2>1 DEF FinalizeReply
  <2>3. finalizer' \in [Flows -> [Calls -> Finalizer]]
    BY <1>5, RecordsTyped DEF FinalizeReply
  <2>4. delivered' \subseteq Flows
    BY <1>5 DEF FinalizeReply
  <2>5. QED BY <1>5, <2>2, <2>3, <2>4 DEF FinalizeReply, table
<1>0. Unanswered(f, c) \subseteq Finalizer
  BY FinalizerDetached, RecordsTyped DEF Unanswered
<1>6. CASE LoseReply(f, c)
  <2>2. finalizer' \in [Flows -> [Calls -> Finalizer]]
    BY <1>0, <1>6 DEF LoseReply
  <2>3. QED BY <1>6, <2>2 DEF LoseReply, RetryOr, Outcomes, table, history
<1>7. CASE GatewayError(f, c)
  <2>2. finalizer' \in [Flows -> [Calls -> Finalizer]]
    BY <1>0, <1>7 DEF GatewayError
  <2>3. QED BY <1>7, <2>2 DEF GatewayError, Outcomes, table, history
<1>8. QED
  BY <1>1, <1>2, <1>3, <1>4, <1>5, <1>6, <1>7 DEF FinalizerStep, CallFault

\* A step of a verifier invocation that only replaces its own record.
LEMMA VerifierMoves ==
  ASSUME TypeOK, NEW f \in Flows, NEW a \in Addresses, NEW i \in Invocations,
         NEW v \in Verifier
  PROVE  [verifier EXCEPT ![f][a][i] = v]
           \in [Flows -> [Addresses -> [Invocations -> Verifier]]]
BY DEF TypeOK

\* A failing execution detaches its invocations.
LEMMA FailTyped ==
  ASSUME TypeInv, NEW f \in Flows,
         NEW base \in [Flows -> [Addresses -> [Invocations -> Verifier]]],
         FailExecution(f, base)
  PROVE  /\ verifier' \in [Flows -> [Addresses -> [Invocations -> Verifier]]]
         /\ task' = task
         /\ execution' = [execution EXCEPT ![f] = "failed"]
<1>1. \A a \in Addresses, i \in Invocations :
        [base[f][a][i] EXCEPT !.awaited = FALSE] \in Verifier
  BY VerifierDetached
<1>2. QED BY <1>1 DEF FailExecution

LEMMA VerifierTyped ==
  ASSUME TypeInv, NEW f \in Flows, NEW a \in Addresses, NEW i \in Invocations,
         \/ InvokeVerifier(f, a, i)
         \/ VerifierStep(f, a, i)
         \/ VerifierFault(f, a, i)
  PROVE  TypeInv'
<1> DEFINE v == verifier[f][a][i]
<1> USE DEF TypeInv
<1>0. v \in Verifier /\ task[f][a] \in Task /\ v.copy \in Flow
  BY DEF TypeOK, Verifier
<1>1. CASE InvokeVerifier(f, a, i)
  <2>1. [NoVerifier EXCEPT !.pc = "get", !.awaited = TRUE] \in Verifier
    BY RecordsTyped DEF NoVerifier, Verifier
  <2>2. task' = [task EXCEPT ![f][a] = [task[f][a] EXCEPT !.state = "running"]]
    BY <1>1 DEF InvokeVerifier
  <2>3. task' \in [Flows -> [Addresses -> Task]]
    BY <1>0, <2>2, TaskState DEF TypeOK
  <2>4. verifier' \in [Flows -> [Addresses -> [Invocations -> Verifier]]]
    BY <1>1, <2>1, VerifierMoves DEF InvokeVerifier
  <2>5. QED
    BY <1>1, <2>3, <2>4 DEF InvokeVerifier, TypeOK, table, daemon, history
<1>2. CASE VerifierGet(f, a, i)
  <2>1. \A flow \in Reads(f) : flow \in Flow
    BY DEF Reads, TypeOK
  <2>2. PICK w \in Verifier : verifier' = [verifier EXCEPT ![f][a][i] = w]
    <3>1. CASE verifier' = [verifier EXCEPT ![f][a][i].pc = "rejected"]
      <4>1. verifier' = [verifier EXCEPT
              ![f][a][i] = [v EXCEPT !.pc = "rejected"]]
        BY <3>1
      <4>2. QED BY <1>0, <4>1, VerifierPc, RecordsTyped DEF Verdicts
    <3>2. ASSUME NEW flow \in Reads(f),
                 verifier' = [verifier EXCEPT ![f][a][i] =
                   [@ EXCEPT !.pc = "challenge", !.copy = flow]]
          PROVE  \E w \in Verifier : verifier' = [verifier EXCEPT ![f][a][i] = w]
      <4>1. verifier' = [verifier EXCEPT
              ![f][a][i] = [v EXCEPT !.pc = "challenge", !.copy = flow]]
        BY <3>2 DEF TypeOK
      <4>2. [v EXCEPT !.pc = "challenge", !.copy = flow] \in Verifier
        BY <1>0, <2>1, VerifierPc
      <4>3. QED BY <4>1, <4>2
    <3>3. QED BY <1>2, <3>1, <3>2 DEF VerifierGet
  <2>3. QED
    BY <1>2, <2>2, VerifierMoves
       DEF VerifierGet, TypeOK, table, machine, daemon, history
<1>3. CASE ChallengeFails(f, a, i)
  <2>1. verifier' = [verifier EXCEPT
          ![f][a][i] = [v EXCEPT !.pc = "rejected", !.copy = Zero]]
    BY <1>3 DEF ChallengeFails, TypeOK
  <2>2. [v EXCEPT !.pc = "rejected", !.copy = Zero] \in Verifier
    BY <1>0, VerifierPc, RecordsTyped DEF Verdicts
  <2>3. QED
    BY <1>3, <2>1, <2>2, VerifierMoves
       DEF ChallengeFails, TypeOK, table, machine, daemon, history
<1>4. CASE ChallengeAnswered(f, a, i)
  <2>1. verifier' = [verifier EXCEPT ![f][a][i] = [v EXCEPT !.pc = "put"]]
    BY <1>4 DEF ChallengeAnswered, TypeOK
  <2>2. [v EXCEPT !.pc = "put"] \in Verifier
    BY <1>0, VerifierPc
  <2>3. proved' \subseteq Flows
    BY <1>4 DEF ChallengeAnswered, TypeOK
  <2>4. QED
    BY <1>4, <2>1, <2>2, <2>3, VerifierMoves
       DEF ChallengeAnswered, TypeOK, table, machine, daemon
<1>5. CASE VerifierPut(f, a, i)
  <2>1. PICK call \in CallOutcome :
          /\ Write(f, [v.copy EXCEPT !.status = "success"], call)
          /\ verifier' = [verifier EXCEPT ![f][a][i] = [@ EXCEPT
               !.pc = IF call.ok THEN "verified" ELSE "crashed", !.copy = Zero]]
    BY <1>5 DEF VerifierPut
  <2>2. store' \in [Flows -> Flow]
    BY <1>0, <2>1, FlowSuccess, WriteTyped DEF TypeOK
  <2>3. PICK pc \in {"verified", "crashed"} :
          verifier' = [verifier EXCEPT
            ![f][a][i] = [v EXCEPT !.pc = pc, !.copy = Zero]]
    BY <2>1 DEF TypeOK
  <2>4. [v EXCEPT !.pc = pc, !.copy = Zero] \in Verifier
    BY <1>0, VerifierPc, RecordsTyped DEF Verdicts
  <2>5. QED
    BY <1>5, <2>2, <2>3, <2>4, VerifierMoves
       DEF VerifierPut, TypeOK, machine, daemon, history
<1>6. CASE VerifierKilled(f, a, i)
  <2>1. verifier' = [verifier EXCEPT
          ![f][a][i] = [v EXCEPT !.pc = "crashed", !.copy = Zero]]
    BY <1>6 DEF VerifierKilled, TypeOK
  <2>2. [v EXCEPT !.pc = "crashed", !.copy = Zero] \in Verifier
    BY <1>0, VerifierPc, RecordsTyped DEF Verdicts
  <2>3. QED
    BY <1>6, <2>1, <2>2, VerifierMoves
       DEF VerifierKilled, TypeOK, table, machine, daemon, history
<1>7. CASE VerifierReturn(f, a, i)
  <2> DEFINE base == [verifier EXCEPT ![f][a][i] = NoVerifier]
  <2>1. base \in [Flows -> [Addresses -> [Invocations -> Verifier]]]
    BY RecordsTyped, VerifierMoves
  <2>2. CASE v.awaited /\ v.pc = "crashed"
    <3>1. FailExecution(f, base)
      BY <1>7, <2>2 DEF VerifierReturn
    <3>2. QED
      BY <1>7, <2>1, <3>1, FailTyped
         DEF VerifierReturn, TypeOK, table, daemon, history
  <2>3. CASE ~(v.awaited /\ v.pc = "crashed")
    <3>1. verifier' = base /\ execution' = execution
      BY <1>7, <2>3 DEF VerifierReturn
    <3>2. \/ task' = task
          \/ /\ v.pc \in {"verified", "rejected"}
             /\ task' = [task EXCEPT ![f][a] = [task[f][a] EXCEPT !.state = v.pc]]
      BY <1>7, <2>3 DEF VerifierReturn, Verdicts
    <3>3. task' \in [Flows -> [Addresses -> Task]]
      <4>1. v.pc \in {"verified", "rejected"} =>
              [task[f][a] EXCEPT !.state = v.pc] \in Task
        BY <1>0, TaskState
      <4>2. CASE task' = task
        BY <4>2 DEF TypeOK
      <4>3. CASE /\ v.pc \in {"verified", "rejected"}
                 /\ task' = [task EXCEPT ![f][a] =
                               [task[f][a] EXCEPT !.state = v.pc]]
        <5>1. PICK t \in Task : task' = [task EXCEPT ![f][a] = t]
          BY <4>1, <4>3
        <5>2. QED BY <5>1 DEF TypeOK
      <4>4. QED BY <3>2, <4>2, <4>3
    <3>4. QED
      BY <1>7, <2>1, <3>1, <3>3 DEF VerifierReturn, TypeOK, table, daemon, history
  <2>4. QED BY <2>2, <2>3
<1>8. CASE LambdaException(f, a, i)
  <2>1. PICK w \in {[v EXCEPT !.awaited = FALSE], NoVerifier} :
          LET base == [verifier EXCEPT ![f][a][i] = w]
          IN  \/ /\ task[f][a].tries < MaxAttempts
                 /\ task' = [task EXCEPT ![f][a] =
                      [state |-> "queued", tries |-> task[f][a].tries + 1]]
                 /\ verifier' = base
                 /\ execution' = execution
              \/ FailExecution(f, base)
    BY <1>8 DEF LambdaException
  <2> DEFINE base == [verifier EXCEPT ![f][a][i] = w]
  <2>2. base \in [Flows -> [Addresses -> [Invocations -> Verifier]]]
    BY <1>0, RecordsTyped, VerifierDetached, VerifierMoves
  <2>3. CASE /\ task[f][a].tries < MaxAttempts
             /\ task' = [task EXCEPT ![f][a] =
                  [state |-> "queued", tries |-> task[f][a].tries + 1]]
             /\ verifier' = base
             /\ execution' = execution
    <3>1. [state |-> "queued", tries |-> task[f][a].tries + 1] \in Task
      BY <1>0, <2>3, TaskRetried
    <3>2. task' \in [Flows -> [Addresses -> Task]]
      BY <2>3, <3>1 DEF TypeOK
    <3>3. QED
      BY <1>8, <2>2, <2>3, <3>2
         DEF LambdaException, TypeOK, table, daemon, history
  <2>4. CASE FailExecution(f, base)
    BY <1>8, <2>2, <2>4, FailTyped
       DEF LambdaException, TypeOK, table, daemon, history
  <2>5. QED BY <2>1, <2>3, <2>4
<1>9. QED
  BY <1>1, <1>2, <1>3, <1>4, <1>5, <1>6, <1>7, <1>8
     DEF VerifierStep, VerifierFault

LEMMA StutterTyped == TypeInv /\ UNCHANGED vars => TypeInv'
BY DEF TypeInv, TypeOK, vars, table, machine, daemon, history

\* The strengthened type invariant holds in every reachable state.
THEOREM TypeInvHolds == Spec => []TypeInv
<1>1. ASSUME TypeInv, [Next]_vars PROVE TypeInv'
  BY <1>1, StutterTyped, TableTyped, InitializerTyped, MachineTyped,
     ClientTyped, CallTyped, VerifierTyped DEF Next
<1>2. QED BY <1>1, InitTyped, PTL DEF Spec

\* Every variable keeps the values the handlers can give it.
THEOREM TypeCorrect == Spec => []TypeOK
<1>1. TypeInv => TypeOK
  BY DEF TypeInv
<1>2. QED BY <1>1, TypeInvHolds, PTL

-------------------------------------------------------------------------------
(* Safety.                                                                 *)

\* The inductive invariant: whatever carries the verdict "success" towards a
\* signature - the item, the stale copy of it, a verifier about to write it, a
\* call that has read it - belongs to a flow that was proved.
StoreProved ==
  \A f \in Flows :
    /\ store[f].status = "success" => f \in proved
    /\ replica[f].status = "success" => f \in proved

VerifierProved ==
  \A f \in Flows, a \in Addresses, i \in Invocations :
    verifier[f][a][i].pc = "put" => f \in proved

CallsProved ==
  \A f \in Flows, c \in Calls :
    /\ finalizer[f][c].pc = "sign" => f \in proved
    /\ finalizer[f][c].pc \in {"delete", "200"} => f \in signed

HistoryOrdered == signed \subseteq proved /\ delivered \subseteq signed

ProofInv == StoreProved /\ VerifierProved /\ CallsProved /\ HistoryOrdered

LEMMA InitProof == Init => ProofInv
<1> SUFFICES ASSUME Init PROVE ProofInv
  OBVIOUS
<1> USE DEF Init
<1>1. StoreProved
  BY DEF StoreProved, Zero
<1>2. VerifierProved
  BY DEF VerifierProved, NoVerifier
<1>3. CallsProved
  BY DEF CallsProved, NoFinalizer
<1>4. QED BY <1>1, <1>2, <1>3 DEF ProofInv, HistoryOrdered

\* Writing an item that says "success" only for a proved flow keeps the table
\* so.
LEMMA WriteProved ==
  ASSUME TypeOK, StoreProved, NEW f \in Flows, NEW flow, NEW call,
         flow.status = "success" => f \in proved, Write(f, flow, call),
         UNCHANGED replica, proved \subseteq proved'
  PROVE  StoreProved'
BY DEF StoreProved, Write, TypeOK

LEMMA TableProof ==
  ASSUME TypeOK, ProofInv, NEW f \in Flows, TableStep(f)
  PROVE  ProofInv'
<1> USE DEF ProofInv, VerifierProved, CallsProved, HistoryOrdered
<1>1. CASE Replicate(f)
  BY <1>1 DEF Replicate, TypeOK, StoreProved, machine, daemon, history
<1>2. CASE Expire(f)
  BY <1>2 DEF Expire, StoreProved, machine, daemon, history
<1>3. CASE TimeToLive(f)
  BY <1>3 DEF TimeToLive, TypeOK, StoreProved, Zero, machine, daemon, history
<1>4. QED BY <1>1, <1>2, <1>3 DEF TableStep

LEMMA InitializerProof ==
  ASSUME TypeOK, ProofInv, NEW f \in Flows, InitializerStep(f)
  PROVE  ProofInv'
<1> USE DEF ProofInv, VerifierProved, CallsProved, HistoryOrdered
<1>1. CASE InitializerReject(f)
  BY <1>1 DEF InitializerReject, StoreProved, table, machine, daemon, history
<1>2. CASE InitializerPut(f)
  <2>1. Pending.status # "success"
    BY DEF Pending
  <2>2. StoreProved'
    BY <1>2, <2>1, WriteProved DEF InitializerPut, history
  <2>3. QED BY <1>2, <2>2 DEF InitializerPut, machine, daemon, history
<1>3. CASE InitializerLaunch(f)
  BY <1>3 DEF InitializerLaunch, StoreProved, table, daemon, history
<1>4. QED BY <1>1, <1>2, <1>3 DEF InitializerStep

LEMMA MachineProof ==
  ASSUME TypeOK, ProofInv, NEW f \in Flows, MachineStep(f)
  PROVE  ProofInv'
<1> USE DEF ProofInv, VerifierProved, CallsProved, HistoryOrdered
<1>1. CASE CheckResult(f)
  BY <1>1 DEF CheckResult, StoreProved, table, daemon, history
<1>2. CASE Wait(f)
  BY <1>2 DEF Wait, StoreProved, table, daemon, history
<1>3. CASE MarkFailed(f)
  <2>1. [store[f] EXCEPT !.status = "failed"].status # "success"
    <3>1. store[f] \in Flow
      BY DEF TypeOK
    <3>2. QED BY <3>1, FlowFailed
  <2>2. StoreProved'
    BY <1>3, <2>1, WriteProved DEF MarkFailed
  <2>3. QED BY <1>3, <2>2 DEF MarkFailed, daemon
<1>4. QED BY <1>1, <1>2, <1>3 DEF MachineStep

LEMMA ClientProof ==
  ASSUME TypeOK, ProofInv, NEW f \in Flows, ClientStep(f) \/ Exit(f)
  PROVE  ProofInv'
<1> USE DEF ProofInv, StoreProved, VerifierProved, HistoryOrdered, table,
            machine, history
<1>1. CASE ClientStart(f)
  BY <1>1 DEF ClientStart, CallsProved
<1>2. CASE StartReply(f)
  BY <1>2 DEF StartReply, CallsProved
<1>3. CASE Elapse(f)
  BY <1>3 DEF Elapse, CallsProved
<1>4. CASE StopServers(f)
  BY <1>4 DEF StopServers, CallsProved
<1>5. CASE Exit(f)
  <2>1. \A g \in Flows, c \in Calls : finalizer'[g][c].pc = finalizer[g][c].pc
    BY <1>5 DEF Exit, TypeOK, Finalizer
  <2>2. CallsProved'
    BY <1>5, <2>1 DEF Exit, CallsProved
  <2>3. QED BY <1>5, <2>2 DEF Exit
<1>6. QED BY <1>1, <1>2, <1>3, <1>4, <1>5 DEF ClientStep

\* A call that reads "success" belongs to a proved flow.
LEMMA SignedDecision ==
  ASSUME TypeOK, StoreProved, NEW f \in Flows, NEW flow \in Reads(f),
         Decision(f, flow) = "sign"
  PROVE  f \in proved
<1>1. flow = store[f] \/ flow = replica[f]
  BY DEF Reads
<1>2. flow \in Flow
  BY <1>1 DEF TypeOK
<1>3. flow.full /\ flow.status \notin {"pending", "failed"}
  BY DEF Decision
<1>4. flow.status = "success"
  BY <1>2, <1>3 DEF Flow
<1>5. QED BY <1>1, <1>4 DEF StoreProved

\* A finalizer call whose counter moves to pc, with what that claims.
LEMMA CallMoves ==
  ASSUME TypeOK, CallsProved, NEW f \in Flows, NEW c \in Calls, NEW g,
         finalizer' = [finalizer EXCEPT ![f][c] = g],
         g.pc = "sign" => f \in proved,
         g.pc \in {"delete", "200"} => f \in signed',
         UNCHANGED proved, signed \subseteq signed'
  PROVE  CallsProved'
BY DEF CallsProved, TypeOK

LEMMA CallProof ==
  ASSUME TypeOK, ProofInv, NEW f \in Flows, NEW c \in Calls,
         Poll(f, c) \/ FinalizerStep(f, c) \/ CallFault(f, c)
  PROVE  ProofInv'
<1> USE DEF ProofInv, VerifierProved
<1>0. finalizer[f][c] \in Finalizer
  BY DEF TypeOK
<1>1. CASE Poll(f, c)
  <2> DEFINE g == [pc |-> "get", awaited |-> TRUE]
  <2>1. finalizer' = [finalizer EXCEPT ![f][c] = g] /\ g.pc = "get"
    BY <1>1 DEF Poll
  <2>2. UNCHANGED <<proved, signed>>
    BY <1>1 DEF Poll, history
  <2>3. CallsProved'
    <3> HIDE DEF g
    <3>1. QED BY <2>1, <2>2, CallMoves
  <2>4. QED
    BY <1>1, <2>3
       DEF Poll, StoreProved, HistoryOrdered, table, machine, daemon, history
<1>2. CASE FinalizerGet(f, c)
  <2>1. PICK pc \in {"409", "403", "sign", "500"} :
          /\ finalizer' = [finalizer EXCEPT ![f][c].pc = pc]
          /\ pc = "sign" => \E flow \in Reads(f) : Decision(f, flow) = "sign"
    BY <1>2 DEF FinalizerGet, Decision
  <2>2. pc = "sign" => f \in proved
    BY <2>1, SignedDecision
  <2>3. pc \notin {"delete", "200"}
    BY <2>1
  <2>4. [finalizer[f][c] EXCEPT !.pc = pc].pc = pc
    BY <1>0 DEF Finalizer
  <2>5. CallsProved'
    BY <1>2, <2>1, <2>2, <2>3, <2>4, CallMoves DEF FinalizerGet, history
  <2>6. QED
    BY <1>2, <2>5
       DEF FinalizerGet, StoreProved, HistoryOrdered, table, machine, daemon,
           history
<1>3. CASE FinalizerSign(f, c)
  <2>1. f \in proved
    BY <1>3 DEF FinalizerSign, CallsProved
  <2>2. PICK pc \in {"delete", "500"} :
          /\ finalizer' = [finalizer EXCEPT ![f][c].pc = pc]
          /\ pc = "delete" => f \in signed'
    BY <1>3 DEF FinalizerSign
  <2>3. [finalizer[f][c] EXCEPT !.pc = pc].pc = pc
    BY <1>0 DEF Finalizer
  <2>4. signed \subseteq signed' /\ signed' \subseteq proved
    BY <1>3, <2>1 DEF FinalizerSign, HistoryOrdered
  <2>5. CallsProved'
    BY <1>3, <2>2, <2>3, <2>4, CallMoves DEF FinalizerSign
  <2>6. QED
    BY <1>3, <2>4, <2>5
       DEF FinalizerSign, StoreProved, HistoryOrdered, table, machine, daemon
<1>4. CASE FinalizerDelete(f, c)
  <2>1. Zero.status # "success"
    BY DEF Zero
  <2>2. StoreProved'
    BY <1>4, <2>1, WriteProved DEF FinalizerDelete
  <2>3. f \in signed
    BY <1>4 DEF FinalizerDelete, CallsProved
  <2>4. PICK pc \in {"200", "500"} :
          finalizer' = [finalizer EXCEPT ![f][c].pc = pc]
    BY <1>4 DEF FinalizerDelete
  <2>5. [finalizer[f][c] EXCEPT !.pc = pc].pc = pc
    BY <1>0 DEF Finalizer
  <2>6. CallsProved'
    BY <1>4, <2>3, <2>4, <2>5, CallMoves DEF FinalizerDelete
  <2>7. QED
    BY <1>4, <2>2, <2>6 DEF FinalizerDelete, HistoryOrdered, machine, daemon
<1>5. CASE FinalizeReply(f, c)
  <2>1. NoFinalizer.pc = "idle"
    BY DEF NoFinalizer
  <2>2. CallsProved'
    BY <1>5, <2>1, CallMoves DEF FinalizeReply
  <2>3. client'[f] = "token" /\ finalizer[f][c].awaited
          => client' = [client EXCEPT ![f] = After(f, finalizer[f][c].pc)]
    BY <1>5 DEF FinalizeReply
  <2>4. After(f, finalizer[f][c].pc) = "token" => f \in signed
    <3>1. finalizer[f][c].pc \in Answers
      BY <1>5 DEF FinalizeReply
    <3>2. finalizer[f][c].pc # "200" => After(f, finalizer[f][c].pc) # "token"
      BY <3>1 DEF After, RetryOr, Answers
    <3>3. QED BY <3>2 DEF CallsProved
  <2>5. delivered' \subseteq signed
    <3>1. CASE delivered' = delivered
      BY <3>1 DEF HistoryOrdered
    <3>2. CASE /\ finalizer[f][c].awaited
               /\ client'[f] = "token"
               /\ delivered' = delivered \union {f}
      BY <2>3, <2>4, <3>2 DEF HistoryOrdered, TypeOK
    <3>3. QED BY <1>5, <3>1, <3>2 DEF FinalizeReply
  <2>6. QED
    BY <1>5, <2>2, <2>5
       DEF FinalizeReply, StoreProved, HistoryOrdered, table, machine
<1>6. CASE CallFault(f, c)
  <2>1. PICK g \in Unanswered(f, c) : finalizer' = [finalizer EXCEPT ![f][c] = g]
    BY <1>6 DEF CallFault, LoseReply, GatewayError
  <2>2. g.pc = finalizer[f][c].pc \/ g.pc = "idle"
    BY <1>0 DEF Unanswered, NoFinalizer, Finalizer
  <2>3. UNCHANGED <<table, verifier, history>>
    BY <1>6 DEF CallFault, LoseReply, GatewayError
  <2>4. CallsProved'
    BY <2>1, <2>2, <2>3, CallMoves DEF CallsProved, history
  <2>5. QED
    BY <2>3, <2>4 DEF StoreProved, HistoryOrdered, table, history
<1>7. QED
  BY <1>1, <1>2, <1>3, <1>4, <1>5, <1>6 DEF FinalizerStep

\* A verifier invocation whose record becomes v.
LEMMA InvocationMoves ==
  ASSUME TypeOK, VerifierProved,
         NEW f \in Flows, NEW a \in Addresses, NEW i \in Invocations, NEW v,
         verifier' = [verifier EXCEPT ![f][a][i] = v],
         v.pc = "put" => f \in proved', proved \subseteq proved'
  PROVE  VerifierProved'
BY DEF VerifierProved, TypeOK

\* An execution that fails detaches its invocations and moves none of them.
LEMMA FailProof ==
  ASSUME TypeOK, VerifierProved,
         NEW f \in Flows, NEW a \in Addresses, NEW i \in Invocations,
         NEW v \in Verifier, v.pc = "put" => f \in proved, UNCHANGED proved,
         FailExecution(f, [verifier EXCEPT ![f][a][i] = v])
  PROVE  VerifierProved'
<1> DEFINE base == [verifier EXCEPT ![f][a][i] = v]
<1>1. base \in [Flows -> [Addresses -> [Invocations -> Verifier]]]
  BY VerifierMoves
<1>2. \A g \in Flows, b \in Addresses, j \in Invocations :
        base[g][b][j].pc = "put" => g \in proved
  BY DEF VerifierProved, TypeOK
<1>3. \A b \in Addresses, j \in Invocations :
        [base[f][b][j] EXCEPT !.awaited = FALSE].pc = base[f][b][j].pc
  BY <1>1 DEF Verifier
<1>4. \A g \in Flows, b \in Addresses, j \in Invocations :
        verifier'[g][b][j].pc = base[g][b][j].pc
  BY <1>1, <1>3 DEF FailExecution
<1>5. QED BY <1>2, <1>4 DEF VerifierProved

LEMMA VerifierProof ==
  ASSUME TypeInv, ProofInv,
         NEW f \in Flows, NEW a \in Addresses, NEW i \in Invocations,
         \/ InvokeVerifier(f, a, i)
         \/ VerifierStep(f, a, i)
         \/ VerifierFault(f, a, i)
  PROVE  ProofInv'
<1> DEFINE v == verifier[f][a][i]
<1> USE DEF TypeInv, ProofInv
<1>0. v \in Verifier /\ v.copy \in Flow
  BY DEF TypeOK, Verifier
<1>1. CASE InvokeVerifier(f, a, i)
  <2>1. [NoVerifier EXCEPT !.pc = "get", !.awaited = TRUE].pc # "put"
    BY DEF NoVerifier
  <2>2. VerifierProved'
    BY <1>1, <2>1, InvocationMoves DEF InvokeVerifier, history
  <2>3. QED
    BY <1>1, <2>2 DEF InvokeVerifier, StoreProved, CallsProved, HistoryOrdered,
                      table, daemon, history
<1>2. CASE VerifierGet(f, a, i)
  <2>1. PICK w : /\ verifier' = [verifier EXCEPT ![f][a][i] = w]
                 /\ w.pc # "put"
    <3>1. \A flow : [v EXCEPT !.pc = "challenge", !.copy = flow].pc # "put"
      BY <1>0 DEF Verifier
    <3>2. [v EXCEPT !.pc = "rejected"].pc # "put"
      BY <1>0 DEF Verifier
    <3>3. \/ \E flow : verifier' = [verifier EXCEPT
               ![f][a][i] = [v EXCEPT !.pc = "challenge", !.copy = flow]]
          \/ verifier' = [verifier EXCEPT
               ![f][a][i] = [v EXCEPT !.pc = "rejected"]]
      BY <1>2 DEF VerifierGet
    <3>4. QED BY <3>1, <3>2, <3>3
  <2>2. UNCHANGED <<table, finalizer, history>>
    BY <1>2 DEF VerifierGet
  <2>3. VerifierProved'
    BY <2>1, <2>2, InvocationMoves DEF history
  <2>4. QED
    BY <2>2, <2>3 DEF StoreProved, CallsProved, HistoryOrdered, table, history
<1>3. CASE ChallengeFails(f, a, i)
  <2>1. [v EXCEPT !.pc = "rejected", !.copy = Zero].pc # "put"
    BY <1>0 DEF Verifier
  <2>2. VerifierProved'
    BY <1>3, <2>1, InvocationMoves DEF ChallengeFails, history
  <2>3. QED
    BY <1>3, <2>2 DEF ChallengeFails, StoreProved, CallsProved, HistoryOrdered,
                      table, history
<1>4. CASE ChallengeAnswered(f, a, i)
  <2>1. proved' = proved \union {f}
    BY <1>4 DEF ChallengeAnswered
  <2>2. verifier' = [verifier EXCEPT ![f][a][i] = [v EXCEPT !.pc = "put"]]
    BY <1>4 DEF ChallengeAnswered
  <2>3. VerifierProved'
    BY <2>1, <2>2, InvocationMoves
  <2>4. QED
    BY <1>4, <2>1, <2>3 DEF ChallengeAnswered, StoreProved, CallsProved,
                            HistoryOrdered, table
<1>5. CASE VerifierPut(f, a, i)
  <2>1. f \in proved
    BY <1>5 DEF VerifierPut, VerifierProved
  <2>2. StoreProved'
    BY <1>5, <2>1, WriteProved DEF VerifierPut, history
  <2>3. PICK pc \in {"verified", "crashed"} :
          verifier' = [verifier EXCEPT
            ![f][a][i] = [v EXCEPT !.pc = pc, !.copy = Zero]]
    BY <1>5 DEF VerifierPut
  <2>4. VerifierProved'
    BY <1>5, <2>1, <2>3, InvocationMoves DEF VerifierPut, history
  <2>5. QED
    BY <1>5, <2>2, <2>4 DEF VerifierPut, CallsProved, HistoryOrdered, history
<1>6. CASE VerifierKilled(f, a, i)
  <2>1. [v EXCEPT !.pc = "crashed", !.copy = Zero].pc # "put"
    BY <1>0 DEF Verifier
  <2>2. VerifierProved'
    BY <1>6, <2>1, InvocationMoves DEF VerifierKilled, history
  <2>3. QED
    BY <1>6, <2>2 DEF VerifierKilled, StoreProved, CallsProved, HistoryOrdered,
                      table, history
<1>7. CASE VerifierReturn(f, a, i)
  <2>1. NoVerifier.pc # "put" /\ NoVerifier \in Verifier
    BY RecordsTyped DEF NoVerifier
  <2>2. UNCHANGED <<table, finalizer, history>>
    BY <1>7 DEF VerifierReturn
  <2>3. \/ FailExecution(f, [verifier EXCEPT ![f][a][i] = NoVerifier])
        \/ verifier' = [verifier EXCEPT ![f][a][i] = NoVerifier]
    BY <1>7 DEF VerifierReturn
  <2>4. VerifierProved'
    BY <2>1, <2>2, <2>3, FailProof, InvocationMoves DEF history
  <2>5. QED
    BY <2>2, <2>4 DEF StoreProved, CallsProved, HistoryOrdered, table, history
<1>8. CASE LambdaException(f, a, i)
  <2>1. PICK w \in {[v EXCEPT !.awaited = FALSE], NoVerifier} :
          \/ FailExecution(f, [verifier EXCEPT ![f][a][i] = w])
          \/ verifier' = [verifier EXCEPT ![f][a][i] = w]
    BY <1>8 DEF LambdaException
  <2>2. UNCHANGED <<table, finalizer, history>>
    BY <1>8 DEF LambdaException
  <2>3. w \in Verifier
    BY <1>0, RecordsTyped, VerifierDetached
  <2>4. w.pc = "put" => f \in proved
    BY <1>0 DEF VerifierProved, NoVerifier, Verifier
  <2>5. VerifierProved'
    BY <2>1, <2>2, <2>3, <2>4, FailProof, InvocationMoves DEF history
  <2>6. QED
    BY <2>2, <2>5 DEF StoreProved, CallsProved, HistoryOrdered, table, history
<1>9. QED
  BY <1>1, <1>2, <1>3, <1>4, <1>5, <1>6, <1>7, <1>8
     DEF VerifierStep, VerifierFault

LEMMA StutterProof == ProofInv /\ UNCHANGED vars => ProofInv'
BY DEF ProofInv, StoreProved, VerifierProved, CallsProved, HistoryOrdered,
       vars, table, history

\* Every step preserves the inductive invariant.
LEMMA StepProof ==
  ASSUME TypeInv, ProofInv, [Next]_vars
  PROVE  ProofInv'
<1>1. TypeOK
  BY DEF TypeInv
<1>2. QED
  BY <1>1, StutterProof, TableProof, InitializerProof, MachineProof,
     ClientProof, CallProof, VerifierProof DEF Next

THEOREM ProofInvHolds == Spec => []ProofInv
<1>1. TypeInv /\ ProofInv /\ [Next]_vars => ProofInv'
  BY StepProof
<1>2. QED BY <1>1, InitProof, TypeInvHolds, PTL DEF Spec

\* A token is signed for a flow only after the node answered a challenge of
\* that flow, under every kind of failure the environment produces.
THEOREM TokenSafety == Spec => []TokenOnlyAfterProof
<1>1. ProofInv => TokenOnlyAfterProof
  BY DEF ProofInv, HistoryOrdered, TokenOnlyAfterProof
<1>2. QED BY <1>1, ProofInvHolds, PTL

\* Which of the three history variables of the promise a step may change, and
\* under which condition.
LEMMA PromiseStep ==
  ASSUME TypeOK, ProofInv, Next
  PROVE  [Promise!Next]_(Promise!vars)
<1> USE DEF Promise!Next, Promise!vars, Promise!Prove, Promise!Sign,
            Promise!Deliver
<1> SUFFICES ASSUME NEW f \in Flows,
               \/ TableStep(f) \/ InitializerStep(f) \/ MachineStep(f)
               \/ ClientStep(f) \/ Exit(f)
               \/ \E a \in Addresses, i \in Invocations :
                    \/ InvokeVerifier(f, a, i)
                    \/ VerifierStep(f, a, i)
                    \/ VerifierFault(f, a, i)
               \/ \E c \in Calls :
                    Poll(f, c) \/ FinalizerStep(f, c) \/ CallFault(f, c)
             PROVE  [Promise!Next]_(Promise!vars)
  BY DEF Next
<1>1. CASE TableStep(f) \/ InitializerStep(f)
  BY <1>1 DEF TableStep, Replicate, Expire, TimeToLive, InitializerStep,
              InitializerReject, InitializerPut, InitializerLaunch, history
<1>2. CASE MachineStep(f) \/ ClientStep(f) \/ Exit(f)
  BY <1>2 DEF MachineStep, CheckResult, Wait, MarkFailed, ClientStep,
              ClientStart, StartReply, Elapse, StopServers, Exit, history
<1>3. ASSUME NEW a \in Addresses, NEW i \in Invocations,
             \/ InvokeVerifier(f, a, i)
             \/ VerifierStep(f, a, i)
             \/ VerifierFault(f, a, i)
      PROVE  [Promise!Next]_(Promise!vars)
  <2>1. CASE ChallengeAnswered(f, a, i)
    BY <2>1 DEF ChallengeAnswered
  <2>2. CASE ~ChallengeAnswered(f, a, i)
    BY <1>3, <2>2
       DEF InvokeVerifier, VerifierStep, VerifierGet, ChallengeFails,
           VerifierPut, VerifierReturn, VerifierFault, LambdaException,
           VerifierKilled, history
  <2>3. QED BY <2>1, <2>2
<1>4. ASSUME NEW c \in Calls,
             Poll(f, c) \/ FinalizerStep(f, c) \/ CallFault(f, c)
      PROVE  [Promise!Next]_(Promise!vars)
  <2>1. CASE FinalizerSign(f, c)
    <3>1. f \in proved
      BY <2>1 DEF FinalizerSign, ProofInv, CallsProved
    <3>2. QED BY <2>1, <3>1 DEF FinalizerSign
  <2>2. CASE FinalizeReply(f, c)
    <3>1. UNCHANGED <<proved, signed>>
      BY <2>2 DEF FinalizeReply
    <3>2. delivered' = delivered \/ delivered' = delivered \union {f}
      BY <2>2 DEF FinalizeReply
    <3>3. delivered' \subseteq signed
      BY <1>4, <3>1, CallProof DEF ProofInv, HistoryOrdered
    <3>4. QED BY <3>1, <3>2, <3>3
  <2>3. CASE Poll(f, c) \/ FinalizerGet(f, c) \/ FinalizerDelete(f, c)
             \/ CallFault(f, c)
    BY <2>3 DEF Poll, FinalizerGet, FinalizerDelete, CallFault, LoseReply,
                GatewayError, history
  <2>4. QED BY <1>4, <2>1, <2>2, <2>3 DEF FinalizerStep
<1>5. QED BY <1>1, <1>2, <1>3, <1>4

\* The handlers implement the abstract promise: prove, then sign, then deliver.
THEOREM IssuanceKeepsPromise == Spec => TokenPromiseHolds
<1>1. Init => Promise!Init
  BY DEF Init, Promise!Init
<1>2. TypeOK /\ ProofInv /\ [Next]_vars => [Promise!Next]_(Promise!vars)
  <2>1. UNCHANGED vars => UNCHANGED Promise!vars
    BY DEF vars, history, Promise!vars
  <2>2. QED BY <2>1, PromiseStep
<1>3. QED
  BY <1>1, <1>2, TypeCorrect, ProofInvHolds, PTL
     DEF Spec, TokenPromiseHolds, Promise!Spec

-------------------------------------------------------------------------------
(* Refusals.                                                               *)

\* Nothing of a flow is touched.
Untouched(f) ==
  /\ UNCHANGED <<store[f], initializer[f], execution[f], task[f], verifier[f],
                 finalizer[f], client[f]>>
  /\ f \in proved' <=> f \in proved
  /\ f \in marked' <=> f \in marked
  /\ f \in deleted' <=> f \in deleted
  /\ f \in expired' <=> f \in expired
  /\ f \in listening' <=> f \in listening

\* A step of one flow: a disjunct of Next.
StepOf(f) ==
  \/ TableStep(f) \/ InitializerStep(f) \/ MachineStep(f)
  \/ ClientStep(f) \/ Exit(f)
  \/ \E a \in Addresses, i \in Invocations :
       InvokeVerifier(f, a, i) \/ VerifierStep(f, a, i) \/ VerifierFault(f, a, i)
  \/ \E c \in Calls : Poll(f, c) \/ FinalizerStep(f, c) \/ CallFault(f, c)

\* A step is of one flow, and leaves the others alone.
LEMMA OthersUntouched ==
  ASSUME TypeOK, NEW f \in Flows, StepOf(f), NEW g \in Flows, g # f
  PROVE  Untouched(g)
<1> USE DEF Untouched, TypeOK
<1>1. CASE TableStep(f)
  BY <1>1 DEF TableStep, Replicate, Expire, TimeToLive, machine, daemon, history
<1>2. CASE InitializerStep(f)
  BY <1>2
  DEF InitializerStep, InitializerReject, InitializerPut, InitializerLaunch, Write,
      table, machine, daemon, history
<1>3. CASE MachineStep(f)
  BY <1>3 DEF MachineStep, CheckResult, Wait, MarkFailed, Write, table, daemon, history
<1>4. CASE ClientStep(f) \/ Exit(f)
  BY <1>4
  DEF ClientStep, ClientStart, StartReply, Elapse, StopServers, Exit, table, machine,
      history
<1>5. ASSUME NEW a \in Addresses, NEW i \in Invocations,
             InvokeVerifier(f, a, i) \/ VerifierStep(f, a, i) \/ VerifierFault(f, a, i)
      PROVE  Untouched(g)
  <2>1. CASE InvokeVerifier(f, a, i)
    BY <2>1 DEF InvokeVerifier, table, daemon, history
  <2>2. CASE VerifierGet(f, a, i) \/ ChallengeFails(f, a, i)
    BY <2>2 DEF VerifierGet, ChallengeFails, table, machine, daemon, history
  <2>3. CASE ChallengeAnswered(f, a, i)
    BY <2>3 DEF ChallengeAnswered, table, machine, daemon
  <2>4. CASE VerifierPut(f, a, i)
    BY <2>4 DEF VerifierPut, Write, machine, daemon, history
  <2>5. CASE VerifierReturn(f, a, i)
    BY <2>5 DEF VerifierReturn, FailExecution, table, daemon, history
  <2>6. CASE VerifierKilled(f, a, i)
    BY <2>6 DEF VerifierKilled, table, machine, daemon, history
  <2>7. CASE LambdaException(f, a, i)
    BY <2>7 DEF LambdaException, FailExecution, table, daemon, history
  <2> QED BY <1>5, <2>1, <2>2, <2>3, <2>4, <2>5, <2>6, <2>7 DEF VerifierStep, VerifierFault
<1>6. ASSUME NEW c \in Calls, Poll(f, c) \/ FinalizerStep(f, c) \/ CallFault(f, c)
      PROVE  Untouched(g)
  BY <1>6
  DEF Poll, FinalizerStep, FinalizerGet, FinalizerSign, FinalizerDelete, FinalizeReply,
      CallFault, LoseReply, GatewayError, Write, table, machine, daemon, history
<1> QED BY <1>1, <1>2, <1>3, <1>4, <1>5, <1>6 DEF StepOf

Reason(f) == f \in marked \union expired \union deleted

\* Nothing of the server side fails.
Sound == Faults \intersect {"stale", "store", "signer", "gateway"} = {}

\* The client polls, and calls are made, only for a flow that was started.
StartedInv(f) ==
  /\ client[f] = "idle" => initializer[f] = "idle"
  /\ client[f] = "polling" => initializer[f] = "ok"
  /\ \A c \in Calls :
       finalizer[f][c].pc # "idle" \/ finalizer[f][c].awaited => initializer[f] = "ok"

\* The item of a started flow is there, and not marked, but for a reason.
ItemInv(f) ==
  /\ initializer[f] \in {"launch", "ok"} => store[f].full \/ Reason(f)
  /\ store[f].status = "failed" => f \in marked

\* A copy that is written back has been proved with its secret.
CopyInv(f) ==
  \A a \in Addresses, i \in Invocations :
    verifier[f][a][i].pc = "put" => verifier[f][a][i].copy.full

\* A call refuses for a reason, and so does the client end.
RefusedInv(f) ==
  /\ \A c \in Calls :
       /\ finalizer[f][c].pc = "403" => Reason(f)
       /\ finalizer[f][c].pc # "500"
  /\ client[f] = "refused" => Reason(f)

RefusalInv(f) ==
  StartedInv(f) /\ CopyInv(f) /\ (Sound => ItemInv(f) /\ RefusedInv(f))

LEMMA RefusalUntouched ==
  ASSUME NEW f \in Flows, RefusalInv(f), Untouched(f)
  PROVE  RefusalInv(f)'
BY DEF RefusalInv, StartedInv, ItemInv, CopyInv, RefusedInv, Reason, Untouched

\* Without failures a write is applied, and its caller knows.
LEMMA SoundCalls ==
  ASSUME Sound
  PROVE  /\ CallOutcome = {[ok |-> TRUE, applied |-> TRUE]}
         /\ \A f : Reads(f) = {store[f]}
         /\ Faults \intersect {"store", "signer", "gateway"} = {}
BY DEF Sound, CallOutcome, Reads

\* An invocation whose record becomes v.
LEMMA CopyMoves ==
  ASSUME TypeOK, NEW f \in Flows, CopyInv(f),
         NEW a \in Addresses, NEW i \in Invocations, NEW v,
         verifier' = [verifier EXCEPT ![f][a][i] = v], v.pc = "put" => v.copy.full
  PROVE  CopyInv(f)'
BY DEF CopyInv, TypeOK

\* An execution that fails detaches its invocations and changes no copy.
LEMMA CopyFails ==
  ASSUME TypeOK, NEW f \in Flows, CopyInv(f),
         NEW a \in Addresses, NEW i \in Invocations, NEW v \in Verifier,
         v.pc = "put" => v.copy.full,
         FailExecution(f, [verifier EXCEPT ![f][a][i] = v])
  PROVE  CopyInv(f)'
<1> DEFINE base == [verifier EXCEPT ![f][a][i] = v]
<1>1. base \in [Flows -> [Addresses -> [Invocations -> Verifier]]]
  BY VerifierMoves DEF TypeOK
<1>2. \A b \in Addresses, j \in Invocations : base[f][b][j].pc = "put" => base[f][b][j].copy.full
  BY DEF CopyInv, TypeOK
<1>3. \A b \in Addresses, j \in Invocations :
        /\ [base[f][b][j] EXCEPT !.awaited = FALSE].pc = base[f][b][j].pc
        /\ [base[f][b][j] EXCEPT !.awaited = FALSE].copy = base[f][b][j].copy
  BY <1>1 DEF Verifier
<1>4. \A b \in Addresses, j \in Invocations :
        verifier'[f][b][j].pc = base[f][b][j].pc /\ verifier'[f][b][j].copy = base[f][b][j].copy
  BY <1>1, <1>3 DEF FailExecution
<1> QED BY <1>2, <1>4 DEF CopyInv

LEMMA RefusalStep ==
  ASSUME TypeOK, NEW f \in Flows, RefusalInv(f), StepOf(f)
  PROVE  RefusalInv(f)'
<1> USE DEF TypeOK, RefusalInv, StartedInv, ItemInv, RefusedInv, Reason
<1>0. verifier' = verifier => CopyInv(f)'
  BY DEF CopyInv
<1>1. CASE TableStep(f)
  <2>1. CASE Replicate(f) \/ Expire(f)
    BY <1>0, <2>1 DEF Replicate, Expire, machine, daemon, history
  <2>2. CASE TimeToLive(f)
    <3>1. store'[f].status = ""
      BY <2>2 DEF TimeToLive, Zero
    <3> QED BY <1>0, <2>2, <3>1 DEF TimeToLive, machine, daemon, history
  <2> QED BY <1>1, <2>1, <2>2 DEF TableStep
<1>2. CASE InitializerStep(f)
  <2>1. CASE InitializerReject(f)
    BY <2>1 DEF InitializerReject, CopyInv, table, machine, daemon, history
  <2>2. CASE InitializerPut(f)
    <3>1. StartedInv(f)' /\ CopyInv(f)'
      BY <2>2 DEF InitializerPut, CopyInv, machine, daemon, history
    <3>2. ASSUME Sound PROVE store'[f] = Pending
      BY <2>2, <3>2, SoundCalls DEF InitializerPut, Write
    <3>3. Pending.full /\ Pending.status = "pending"
      BY DEF Pending
    <3> QED BY <2>2, <3>1, <3>2, <3>3 DEF InitializerPut, machine, daemon, history
  <2>3. CASE InitializerLaunch(f)
    BY <2>3 DEF InitializerLaunch, CopyInv, table, daemon, history
  <2> QED BY <1>2, <2>1, <2>2, <2>3 DEF InitializerStep
<1>3. CASE MachineStep(f)
  <2>1. CASE CheckResult(f) \/ Wait(f)
    BY <2>1 DEF CheckResult, Wait, CopyInv, table, daemon, history
  <2>2. CASE MarkFailed(f)
    BY <2>2, SoundCalls DEF MarkFailed, Write, CopyInv, Flow, daemon
  <2> QED BY <1>3, <2>1, <2>2 DEF MachineStep
<1>4. CASE ClientStep(f)
  BY <1>4
  DEF ClientStep, ClientStart, StartReply, Elapse, StopServers, CopyInv, table,
      machine, history
<1>5. CASE Exit(f)
  BY <1>5 DEF Exit, CopyInv, Finalizer, table, machine, history
<1>6. ASSUME NEW a \in Addresses, NEW i \in Invocations,
             InvokeVerifier(f, a, i) \/ VerifierStep(f, a, i) \/ VerifierFault(f, a, i)
      PROVE  RefusalInv(f)'
  <2> DEFINE v == verifier[f][a][i]
  <2>0. v \in Verifier
    OBVIOUS
  <2>1. CASE InvokeVerifier(f, a, i)
    <3>1. [NoVerifier EXCEPT !.pc = "get", !.awaited = TRUE].pc # "put"
      BY DEF NoVerifier
    <3> QED BY <2>1, <3>1, CopyMoves DEF InvokeVerifier, table, daemon, history
  <2>2. CASE VerifierGet(f, a, i) \/ ChallengeFails(f, a, i) \/ VerifierKilled(f, a, i)
    <3>1. UNCHANGED <<table, initializer, finalizer, daemon, history>>
      BY <2>2 DEF VerifierGet, ChallengeFails, VerifierKilled
    <3>2. CopyInv(f)'
      <4> DEFINE challenged(w) == [v EXCEPT !.pc = "challenge", !.copy = w]
                 rejected == [v EXCEPT !.pc = "rejected"]
                 ended(pc) == [v EXCEPT !.pc = pc, !.copy = Zero]
      <4>1. (\A w : challenged(w).pc # "put") /\ rejected.pc # "put"
            /\ ended("rejected").pc # "put" /\ ended("crashed").pc # "put"
        BY <2>0 DEF Verifier
      <4>2. \/ \E w : verifier' = [verifier EXCEPT ![f][a][i] = challenged(w)]
            \/ verifier' = [verifier EXCEPT ![f][a][i] = rejected]
            \/ verifier' = [verifier EXCEPT ![f][a][i] = ended("rejected")]
            \/ verifier' = [verifier EXCEPT ![f][a][i] = ended("crashed")]
        BY <2>2 DEF VerifierGet, ChallengeFails, VerifierKilled
      <4> HIDE DEF challenged, rejected, ended
      <4>3. ASSUME NEW w, verifier' = [verifier EXCEPT ![f][a][i] = w], w.pc # "put"
            PROVE  CopyInv(f)'
        BY <4>3, CopyMoves
      <4> QED BY <4>1, <4>2, <4>3
    <3> QED BY <3>1, <3>2 DEF table, daemon, history
  <2>3. CASE ChallengeAnswered(f, a, i)
    <3>1. [v EXCEPT !.pc = "put"].copy.full
      BY <2>0, <2>3 DEF ChallengeAnswered, Verifier
    <3>2. CopyInv(f)'
      BY <2>3, <3>1, CopyMoves DEF ChallengeAnswered
    <3> QED BY <2>3, <3>2 DEF ChallengeAnswered, table, daemon
  <2>4. CASE VerifierPut(f, a, i)
    <3>1. PICK pc \in {"verified", "crashed"} :
            verifier' = [verifier EXCEPT ![f][a][i] = [v EXCEPT !.pc = pc, !.copy = Zero]]
      BY <2>4 DEF VerifierPut
    <3>2. [v EXCEPT !.pc = pc, !.copy = Zero].pc = pc
      BY <2>0 DEF Verifier
    <3>3. CopyInv(f)'
      BY <3>1, <3>2, CopyMoves
    <3>4. v.copy.full /\ v.copy \in Flow
      BY <2>0, <2>4 DEF VerifierPut, CopyInv, Verifier
    <3>5. store'[f] = store[f] \/ store'[f] = [v.copy EXCEPT !.status = "success"]
      BY <2>4 DEF VerifierPut, Write
    <3>6. [v.copy EXCEPT !.status = "success"].full /\ [v.copy EXCEPT !.status = "success"].status = "success"
      BY <3>4 DEF Flow
    <3>7. UNCHANGED <<expired, initializer, finalizer, client, marked, deleted>>
      BY <2>4 DEF VerifierPut, daemon, history
    <3>8. ItemInv(f) => ItemInv(f)'
      BY <3>5, <3>6, <3>7
    <3> QED BY <3>3, <3>7, <3>8
  <2>5. CASE VerifierReturn(f, a, i) \/ LambdaException(f, a, i)
    <3>1. PICK w \in {[v EXCEPT !.awaited = FALSE], NoVerifier} :
            \/ FailExecution(f, [verifier EXCEPT ![f][a][i] = w])
            \/ verifier' = [verifier EXCEPT ![f][a][i] = w]
      BY <2>5 DEF VerifierReturn, LambdaException
    <3>2. w \in Verifier
      BY <2>0, RecordsTyped, VerifierDetached
    <3>3. w.pc = "put" => w.copy.full
      <4>1. /\ [v EXCEPT !.awaited = FALSE].pc = v.pc
            /\ [v EXCEPT !.awaited = FALSE].copy = v.copy
        BY <2>0 DEF Verifier
      <4>2. NoVerifier.pc # "put"
        BY DEF NoVerifier
      <4> QED BY <4>1, <4>2 DEF CopyInv
    <3>4. CopyInv(f)'
      BY <3>1, <3>2, <3>3, CopyMoves, CopyFails
    <3>5. UNCHANGED <<table, initializer, finalizer, daemon, history>>
      BY <2>5 DEF VerifierReturn, LambdaException
    <3> QED BY <3>4, <3>5 DEF table, daemon, history
  <2> QED BY <1>6, <2>1, <2>2, <2>3, <2>4, <2>5 DEF VerifierStep, VerifierFault
<1>7. ASSUME NEW c \in Calls, Poll(f, c) \/ FinalizerStep(f, c) \/ CallFault(f, c)
      PROVE  RefusalInv(f)'
  <2> DEFINE g == finalizer[f][c]
  <2>0. g \in Finalizer
    OBVIOUS
  <2>1. CASE Poll(f, c)
    BY <2>1 DEF Poll, CopyInv, table, machine, daemon, history
  <2>2. CASE FinalizerGet(f, c)
    <3>1. PICK pc \in {"409", "403", "sign", "500"} :
            /\ finalizer' = [finalizer EXCEPT ![f][c] = [g EXCEPT !.pc = pc]]
            /\ pc = "500" => "store" \in Faults
            /\ pc = "403" => \E flow \in Reads(f) : Decision(f, flow) = "403"
      BY <2>2 DEF FinalizerGet, Decision
    <3>2. [g EXCEPT !.pc = pc].pc = pc
      BY <2>0 DEF Finalizer
    <3>3. ASSUME Sound PROVE pc # "500" /\ (pc = "403" => Reason(f))
      BY <2>2, <3>1, <3>3, SoundCalls DEF Decision, FinalizerGet
    <3>4. UNCHANGED <<table, initializer, machine, verifier, daemon, history>>
      BY <2>2 DEF FinalizerGet
    <3> QED BY <1>0, <2>2, <3>1, <3>2, <3>3, <3>4 DEF FinalizerGet, table, machine, daemon, history
  <2>3. CASE FinalizerSign(f, c)
    <3>1. PICK pc \in {"delete", "500"} :
            /\ finalizer' = [finalizer EXCEPT ![f][c] = [g EXCEPT !.pc = pc]]
            /\ pc = "500" => "signer" \in Faults
      BY <2>3 DEF FinalizerSign
    <3>2. [g EXCEPT !.pc = pc].pc = pc
      BY <2>0 DEF Finalizer
    <3>3. Sound => pc # "500"
      BY <3>1, SoundCalls
    <3>4. UNCHANGED <<store, expired, initializer, verifier, client, marked, deleted>>
      BY <2>3 DEF FinalizerSign, table, machine, daemon
    <3> QED BY <1>0, <2>3, <3>1, <3>2, <3>3, <3>4 DEF FinalizerSign
  <2>4. CASE FinalizerDelete(f, c)
    <3>1. PICK pc \in {"200", "500"} :
            /\ finalizer' = [finalizer EXCEPT ![f][c] = [g EXCEPT !.pc = pc]]
            /\ Sound => pc = "200" /\ deleted' = deleted \union {f} /\ store'[f] = Zero
      <4>1. PICK call \in CallOutcome :
              /\ Write(f, Zero, call)
              /\ finalizer' = [finalizer EXCEPT
                   ![f][c].pc = IF call.ok THEN "200" ELSE "500"]
              /\ deleted' = IF call.applied THEN deleted \union {f} ELSE deleted
        BY <2>4 DEF FinalizerDelete
      <4> DEFINE pc == IF call.ok THEN "200" ELSE "500"
      <4>2. finalizer' = [finalizer EXCEPT ![f][c] = [g EXCEPT !.pc = pc]]
        BY <4>1
      <4>3. Sound => call.ok /\ call.applied
        BY SoundCalls
      <4>4. Sound => store'[f] = Zero
        BY <4>1, <4>3 DEF Write
      <4> QED BY <4>1, <4>2, <4>3, <4>4
    <3>2. [g EXCEPT !.pc = pc].pc = pc
      BY <2>0 DEF Finalizer
    <3>3. UNCHANGED <<expired, initializer, verifier, client, marked>>
      BY <2>4 DEF FinalizerDelete, machine, daemon
    <3>4. Zero.status = ""
      BY DEF Zero
    <3>5. Sound => f \in deleted'
      BY <3>1
    <3>6. StartedInv(f)'
      BY <2>4, <3>1, <3>2, <3>3 DEF FinalizerDelete
    <3>7. ASSUME Sound PROVE ItemInv(f)' /\ RefusedInv(f)'
      <4>1. Reason(f)'
        BY <3>5, <3>7
      <4>2. \A d \in Calls : finalizer'[f][d].pc # "500"
        BY <3>1, <3>2, <3>7
      <4>3. store'[f].status # "failed"
        BY <3>1, <3>4, <3>7
      <4> QED BY <4>1, <4>2, <4>3
    <3> QED BY <1>0, <3>3, <3>6, <3>7
  <2>5. CASE FinalizeReply(f, c)
    <3>1. /\ finalizer' = [finalizer EXCEPT ![f][c] = NoFinalizer]
          /\ g.pc \in Answers
          /\ UNCHANGED <<store, expired, initializer, verifier, marked, deleted>>
      BY <2>5 DEF FinalizeReply, table, machine
    <3>2. /\ client'[f] \in {client[f], "token", "polling", "gaveup", "refused"}
          /\ client'[f] = "refused" => client[f] = "refused" \/ g.pc \in {"403", "500"}
      BY <2>5 DEF FinalizeReply, After, RetryOr, Answers
    <3>3. NoFinalizer.pc = "idle" /\ ~NoFinalizer.awaited
      BY DEF NoFinalizer
    <3>4. initializer[f] = "ok"
      BY <3>1 DEF Answers
    <3>5. StartedInv(f)'
      BY <3>1, <3>2, <3>3, <3>4
    <3>6. Sound => ItemInv(f)' /\ RefusedInv(f)'
      BY <3>1, <3>2, <3>3
    <3> QED BY <1>0, <3>1, <3>5, <3>6
  <2>6. CASE CallFault(f, c)
    <3>1. PICK h \in Unanswered(f, c) : finalizer' = [finalizer EXCEPT ![f][c] = h]
      <4>1. CASE LoseReply(f, c)
        BY <4>1 DEF LoseReply
      <4>2. CASE GatewayError(f, c)
        BY <4>2 DEF GatewayError
      <4> QED BY <2>6, <4>1, <4>2 DEF CallFault
    <3>2. h.pc \in {"idle", g.pc}
      <4>1. h = [g EXCEPT !.awaited = FALSE] \/ h = NoFinalizer
        BY <3>1 DEF Unanswered
      <4>2. [g EXCEPT !.awaited = FALSE].pc = g.pc
        BY <2>0 DEF Finalizer
      <4>3. NoFinalizer.pc = "idle"
        BY DEF NoFinalizer
      <4> HIDE DEF g
      <4> QED BY <4>1, <4>2, <4>3
    <3>3. UNCHANGED <<store, expired, initializer, verifier, marked, deleted>>
      BY <2>6 DEF CallFault, LoseReply, GatewayError, table, machine, history
    <3>4. /\ client'[f] \in {"polling", "gaveup", "refused"}
          /\ Sound => client'[f] # "refused"
      BY <2>6, SoundCalls DEF CallFault, LoseReply, GatewayError, RetryOr
    <3>5. h.awaited => g.awaited
      BY <2>0 DEF Unanswered, NoFinalizer, Finalizer
    <3>6. initializer[f] = "ok"
      BY <2>6 DEF CallFault, LoseReply, GatewayError
    <3>7. StartedInv(f)'
      BY <3>1, <3>2, <3>3, <3>4, <3>5, <3>6
    <3>8. Sound => ItemInv(f)' /\ RefusedInv(f)'
      BY <3>1, <3>2, <3>3, <3>4
    <3> QED BY <1>0, <3>3, <3>7, <3>8
  <2> QED BY <1>7, <2>1, <2>2, <2>3, <2>4, <2>5, <2>6 DEF FinalizerStep
<1> QED BY <1>1, <1>2, <1>3, <1>4, <1>5, <1>6, <1>7 DEF StepOf

-------------------------------------------------------------------------------
(* Verdicts.                                                               *)

\* The verdict is in the table, unless the flow was consumed or has expired.
Good(f) == store[f].status = "success" \/ f \in deleted \union expired

\* The Map awaits at most one invocation of an address, of a running task; one
\* that nobody awaits is left over from a failed execution or a lost answer.
AwaitInv(f) ==
  \A a \in Addresses, i \in Invocations :
    /\ verifier[f][a][i].awaited =>
         /\ execution[f] = "map" /\ task[f][a].state = "running"
         /\ verifier[f][a][i].pc # "idle"
         /\ \A j \in Invocations : verifier[f][a][j].awaited => j = i
    /\ verifier[f][a][i].pc # "idle" /\ ~verifier[f][a][i].awaited =>
         "lambda" \in Faults \/ (execution[f] = "failed" /\ f \notin marked)

\* The execution begins after the flow was written, and a mark ends it.
OrderInv(f) ==
  /\ initializer[f] \in {"idle", "put", "launch"} => execution[f] = "idle"
  /\ execution[f] = "idle" => \A a \in Addresses : task[f][a].state # "verified"
  /\ f \in marked => execution[f] = "failed"

\* A verdict is only given once it has been written.
VerdictInv(f) ==
  /\ execution[f] = "succeeded" => Good(f)
  /\ execution[f] = "map" =>
       \A a \in Addresses :
         /\ task[f][a].state = "verified" => Good(f)
         /\ \A i \in Invocations :
              verifier[f][a][i].awaited /\ verifier[f][a][i].pc = "verified" => Good(f)

\* An awaited invocation has accepted the node, or the Map knows it.
Accepted(f) ==
  \E a \in Addresses :
    \/ task[f][a].state = "verified"
    \/ \E i \in Invocations :
         verifier[f][a][i].awaited /\ verifier[f][a][i].pc \in {"put", "verified", "crashed"}

\* An execution that knows of a proof does not end with a mark.
ProvedInv(f) ==
  f \in proved =>
    \/ "lambda" \in Faults
    \/ execution[f] = "succeeded"
    \/ execution[f] = "failed" /\ f \notin marked
    \/ execution[f] = "map" /\ Accepted(f)

OutcomeInv(f) == AwaitInv(f) /\ OrderInv(f) /\ VerdictInv(f) /\ ProvedInv(f)

Before == {"idle", "put", "launch"}

\* A step that leaves the execution and its invocations alone.
LEMMA OutcomeQuiet ==
  ASSUME NEW f \in Flows, OutcomeInv(f),
         UNCHANGED <<execution[f], task[f], verifier[f]>>,
         f \in proved' <=> f \in proved, f \in marked' <=> f \in marked,
         initializer'[f] \in Before => initializer[f] \in Before \/ execution[f] = "idle",
         execution[f] # "idle" => (Good(f) => Good(f)')
  PROVE  OutcomeInv(f)'
<1> USE DEF OutcomeInv
<1>1. AwaitInv(f)'
  BY DEF AwaitInv
<1>2. OrderInv(f)'
  BY DEF OrderInv, Before
<1>3. VerdictInv(f)'
  BY DEF VerdictInv
<1>4. ProvedInv(f)'
  BY DEF ProvedInv, Accepted
<1> QED BY <1>1, <1>2, <1>3, <1>4

LEMMA OutcomeUntouched ==
  ASSUME NEW f \in Flows, OutcomeInv(f), Untouched(f)
  PROVE  OutcomeInv(f)'
BY OutcomeQuiet DEF Untouched, Good

\* One invocation goes from one await to the next.
LEMMA OutcomeMoves ==
  ASSUME TypeOK, NEW f \in Flows, OutcomeInv(f), NEW a \in Addresses,
         NEW i \in Invocations, NEW w,
         verifier' = [verifier EXCEPT ![f][a][i] = w],
         verifier[f][a][i].pc # "idle", w.pc # "idle",
         w.awaited = verifier[f][a][i].awaited,
         w.awaited /\ w.pc = "verified" => Good(f)',
         verifier[f][a][i].pc \in {"put", "verified", "crashed"} =>
           w.pc \in {"put", "verified", "crashed"},
         UNCHANGED <<initializer, execution, task, marked>>,
         f \in proved' => f \in proved \/ w.pc = "put",
         Good(f) => Good(f)'
  PROVE  OutcomeInv(f)'
<1> DEFINE u(b, j) == verifier[f][b][j]
<1>1. \A b \in Addresses, j \in Invocations :
        verifier'[f][b][j] = IF b = a /\ j = i THEN w ELSE u(b, j)
  BY DEF TypeOK
<1>2. AwaitInv(f)'
  BY <1>1 DEF OutcomeInv, AwaitInv
<1>3. OrderInv(f)'
  BY DEF OutcomeInv, OrderInv
<1>4. VerdictInv(f)'
  BY <1>1 DEF OutcomeInv, VerdictInv
<1>5. ProvedInv(f)'
  <2>1. Accepted(f) => Accepted(f)'
    BY <1>1 DEF Accepted
  <2>2. CASE f \notin proved
    <3>1. CASE w.awaited /\ w.pc = "put"
      <4>1. execution[f] = "map"
        BY <3>1 DEF OutcomeInv, AwaitInv
      <4>2. verifier'[f][a][i] = w
        BY <1>1
      <4>3. Accepted(f)'
        BY <3>1, <4>2 DEF Accepted
      <4> QED BY <4>1, <4>3 DEF ProvedInv
    <3>2. CASE ~w.awaited
      BY <3>2 DEF OutcomeInv, AwaitInv, ProvedInv
    <3> QED BY <2>2, <3>1, <3>2 DEF ProvedInv
  <2>3. CASE f \in proved
    BY <2>1, <2>3 DEF OutcomeInv, ProvedInv
  <2> QED BY <2>2, <2>3
<1> QED BY <1>2, <1>3, <1>4, <1>5 DEF OutcomeInv

\* The execution fails with its invocations detached.
LEMMA OutcomeFails ==
  ASSUME TypeOK, NEW f \in Flows, OutcomeInv(f), execution[f] = "map",
         NEW a \in Addresses, NEW i \in Invocations, NEW w \in Verifier,
         FailExecution(f, [verifier EXCEPT ![f][a][i] = w]),
         UNCHANGED <<initializer, proved, marked>>
  PROVE  OutcomeInv(f)'
<1> DEFINE base == [verifier EXCEPT ![f][a][i] = w]
<1>1. base \in [Flows -> [Addresses -> [Invocations -> Verifier]]]
  BY VerifierMoves DEF TypeOK
<1>2. \A b \in Addresses, j \in Invocations :
        ~[base[f][b][j] EXCEPT !.awaited = FALSE].awaited
  BY <1>1 DEF Verifier
<1>3. \A b \in Addresses, j \in Invocations : ~verifier'[f][b][j].awaited
  BY <1>1, <1>2 DEF FailExecution
<1>4. execution'[f] = "failed" /\ task' = task
  BY DEF FailExecution, TypeOK
<1>5. f \notin marked
  BY DEF OutcomeInv, OrderInv
<1>6. AwaitInv(f)'
  BY <1>3, <1>4, <1>5 DEF AwaitInv
<1>7. OrderInv(f)' /\ VerdictInv(f)' /\ ProvedInv(f)'
  BY <1>4, <1>5 DEF OutcomeInv, OrderInv, VerdictInv, ProvedInv
<1> QED BY <1>6, <1>7 DEF OutcomeInv

LEMMA OutcomeMachine ==
  ASSUME TypeOK, NEW f \in Flows, OutcomeInv(f), MachineStep(f)
  PROVE  OutcomeInv(f)'
<1> USE DEF TypeOK
<1>1. CASE CheckResult(f)
  <2>1. /\ UNCHANGED <<table, initializer, task, verifier, history>>
        /\ execution[f] = "map" /\ Decided(f)
        /\ execution'[f] \in {"succeeded", "mark", "wait"}
        /\ execution'[f] = "succeeded" <=> Verified(f)
    BY <1>1 DEF CheckResult
  <2>2. \A a \in Addresses, i \in Invocations : ~verifier[f][a][i].awaited
    BY <2>1 DEF Decided, OutcomeInv, AwaitInv
  <2>3. AwaitInv(f)'
    BY <2>1, <2>2 DEF AwaitInv, OutcomeInv, history
  <2>4. OrderInv(f)'
    BY <2>1 DEF OutcomeInv, OrderInv, history
  <2>5. VerdictInv(f)'
    BY <2>1 DEF OutcomeInv, VerdictInv, Verified, Good, table, history
  <2>6. ProvedInv(f)'
    BY <2>1, <2>2 DEF OutcomeInv, ProvedInv, Accepted, Verified, history
  <2> QED BY <2>3, <2>4, <2>5, <2>6 DEF OutcomeInv
<1>2. CASE Wait(f)
  <2>1. /\ UNCHANGED <<initializer, verifier, history>>
        /\ execution[f] = "wait" /\ execution'[f] = "map"
    BY <1>2 DEF Wait
  <2>2. \A a \in Addresses : task'[f][a].state = "queued"
    BY <1>2 DEF Wait, Queued
  <2>3. \A a \in Addresses, i \in Invocations : ~verifier[f][a][i].awaited
    BY <2>1 DEF OutcomeInv, AwaitInv
  <2> QED
    BY <2>1, <2>2, <2>3
    DEF OutcomeInv, AwaitInv, OrderInv, VerdictInv, ProvedInv, history
<1>3. CASE MarkFailed(f)
  <2>1. /\ UNCHANGED <<initializer, task, verifier, proved>>
        /\ execution[f] = "mark" /\ execution'[f] = "failed"
    BY <1>3 DEF MarkFailed
  <2>2. \A a \in Addresses, i \in Invocations : ~verifier[f][a][i].awaited
    BY <2>1 DEF OutcomeInv, AwaitInv
  <2>3. "lambda" \in Faults \/ (f \notin proved /\
          \A a \in Addresses, i \in Invocations : verifier[f][a][i].pc = "idle")
    BY <2>1, <2>2 DEF OutcomeInv, AwaitInv, ProvedInv
  <2> QED
    BY <2>1, <2>2, <2>3 DEF OutcomeInv, AwaitInv, OrderInv, VerdictInv, ProvedInv
<1> QED BY <1>1, <1>2, <1>3 DEF MachineStep

LEMMA OutcomeInvoked ==
  ASSUME TypeOK, NEW f \in Flows, OutcomeInv(f),
         NEW a \in Addresses, NEW i \in Invocations, InvokeVerifier(f, a, i)
  PROVE  OutcomeInv(f)'
<1> DEFINE w == [NoVerifier EXCEPT !.pc = "get", !.awaited = TRUE]
<1>0. w.pc = "get" /\ w.awaited
  BY DEF NoVerifier
<1>1. /\ verifier' = [verifier EXCEPT ![f][a][i] = w]
      /\ UNCHANGED <<table, initializer, execution, history>>
      /\ execution[f] = "map" /\ task[f][a].state = "queued"
      /\ task' = [task EXCEPT ![f][a].state = "running"]
  BY DEF InvokeVerifier
<1> HIDE DEF w
<1>2. \A b \in Addresses, j \in Invocations :
        verifier'[f][b][j] = IF b = a /\ j = i THEN w ELSE verifier[f][b][j]
  BY <1>1 DEF TypeOK
<1>3. \A b \in Addresses :
        task'[f][b].state = IF b = a THEN "running" ELSE task[f][b].state
  BY <1>1 DEF TypeOK, Task
<1>4. \A j \in Invocations : ~verifier[f][a][j].awaited
  BY <1>1 DEF OutcomeInv, AwaitInv
<1>5. AwaitInv(f)'
  BY <1>0, <1>1, <1>2, <1>3, <1>4 DEF OutcomeInv, AwaitInv, history
<1>6. OrderInv(f)'
  BY <1>1 DEF OutcomeInv, OrderInv, history
<1>7. VerdictInv(f)'
  BY <1>0, <1>1, <1>2, <1>3 DEF OutcomeInv, VerdictInv, Good, table, history
<1>8. ProvedInv(f)'
  <2>1. Accepted(f) => Accepted(f)'
    BY <1>1, <1>2, <1>3, <1>4 DEF Accepted
  <2> QED BY <1>1, <2>1 DEF OutcomeInv, ProvedInv, history
<1> QED BY <1>5, <1>6, <1>7, <1>8 DEF OutcomeInv

\* The Map takes the verdict of the invocation it awaits, or queues its task
\* again.
LEMMA OutcomeReturned ==
  ASSUME TypeOK, NEW f \in Flows, OutcomeInv(f), NEW a \in Addresses,
         NEW i \in Invocations, NEW w,
         verifier' = [verifier EXCEPT ![f][a][i] = w], ~w.awaited,
         w.pc # "idle" => "lambda" \in Faults,
         verifier[f][a][i].awaited,
         \A b \in Addresses : b # a => task'[f][b] = task[f][b],
         \/ task'[f][a].state = verifier[f][a][i].pc
         \/ task'[f][a].state = "queued" /\ "lambda" \in Faults,
         verifier[f][a][i].pc \notin {"put", "crashed"} \/ "lambda" \in Faults,
         UNCHANGED <<table, initializer, execution, history>>
  PROVE  OutcomeInv(f)'
<1>1. \A b \in Addresses, j \in Invocations :
        verifier'[f][b][j] = IF b = a /\ j = i THEN w ELSE verifier[f][b][j]
  BY DEF TypeOK
<1>2. /\ execution[f] = "map"
      /\ \A j \in Invocations : verifier[f][a][j].awaited => j = i
  BY DEF OutcomeInv, AwaitInv
<1>3. AwaitInv(f)'
  BY <1>1, <1>2 DEF OutcomeInv, AwaitInv, history
<1>4. OrderInv(f)'
  BY <1>2 DEF OutcomeInv, OrderInv, history
<1>5. VerdictInv(f)'
  BY <1>1, <1>2 DEF OutcomeInv, VerdictInv, Good, table, history
<1>6. ProvedInv(f)'
  <2>1. ASSUME Accepted(f), "lambda" \notin Faults
        PROVE  Accepted(f)'
    <3>1. PICK b \in Addresses :
            \/ task[f][b].state = "verified"
            \/ \E j \in Invocations :
                 verifier[f][b][j].awaited /\ verifier[f][b][j].pc \in {"put", "verified", "crashed"}
      BY <2>1 DEF Accepted
    <3>2. CASE b # a
      BY <1>1, <3>1, <3>2 DEF Accepted
    <3>3. CASE b = a
      <4>1. task[f][a].state = "running"
        BY DEF OutcomeInv, AwaitInv
      <4>2. verifier[f][a][i].pc = "verified"
        BY <1>2, <2>1, <3>1, <3>3, <4>1
      <4> QED BY <2>1, <4>2 DEF Accepted
    <3> QED BY <3>2, <3>3
  <2> QED BY <1>2, <2>1 DEF OutcomeInv, ProvedInv, history
<1> QED BY <1>3, <1>4, <1>5, <1>6 DEF OutcomeInv

LEMMA OutcomeVerifier ==
  ASSUME TypeOK, NEW f \in Flows, OutcomeInv(f),
         NEW a \in Addresses, NEW i \in Invocations,
         VerifierStep(f, a, i) \/ VerifierFault(f, a, i)
  PROVE  OutcomeInv(f)'
<1> DEFINE v == verifier[f][a][i]
<1>0. v \in Verifier
  BY DEF TypeOK
<1>1. CASE VerifierGet(f, a, i) \/ ChallengeFails(f, a, i) \/ VerifierKilled(f, a, i)
  <2> DEFINE challenged(w) == [v EXCEPT !.pc = "challenge", !.copy = w]
             rejected == [v EXCEPT !.pc = "rejected"]
             ended(pc) == [v EXCEPT !.pc = pc, !.copy = Zero]
             Allowed(w) ==
               /\ v.pc # "idle" /\ w.pc \notin {"idle", "verified"} /\ w.awaited = v.awaited
               /\ v.pc \in {"put", "verified", "crashed"} => w.pc = "crashed"
  <2>1. /\ UNCHANGED <<table, initializer, machine, history>>
        /\ v.pc \in {"get", "challenge", "put", "verified"}
    BY <1>1 DEF VerifierGet, ChallengeFails, VerifierKilled
  <2>2. \/ v.pc = "get" /\ \E w : verifier' = [verifier EXCEPT ![f][a][i] = challenged(w)]
        \/ v.pc = "get" /\ verifier' = [verifier EXCEPT ![f][a][i] = rejected]
        \/ v.pc = "challenge" /\ verifier' = [verifier EXCEPT ![f][a][i] = ended("rejected")]
        \/ verifier' = [verifier EXCEPT ![f][a][i] = ended("crashed")]
    BY <1>1 DEF VerifierGet, ChallengeFails, VerifierKilled
  <2>3. /\ v.pc = "get" => (\A w : Allowed(challenged(w))) /\ Allowed(rejected)
        /\ v.pc = "challenge" => Allowed(ended("rejected"))
        /\ Allowed(ended("crashed"))
    BY <1>0, <2>1 DEF Verifier
  <2> HIDE DEF challenged, rejected, ended
  <2>4. ASSUME NEW w, verifier' = [verifier EXCEPT ![f][a][i] = w], Allowed(w)
        PROVE  OutcomeInv(f)'
    BY <2>1, <2>4, OutcomeMoves DEF table, machine, history, Good
  <2> HIDE DEF Allowed
  <2> QED BY <2>2, <2>3, <2>4
<1>2. CASE ChallengeAnswered(f, a, i)
  <2> DEFINE w == [v EXCEPT !.pc = "put"]
  <2>1. w.pc = "put" /\ w.awaited = v.awaited
    BY <1>0 DEF Verifier
  <2>2. /\ verifier' = [verifier EXCEPT ![f][a][i] = w]
        /\ v.pc = "challenge"
        /\ UNCHANGED <<table, initializer, machine, marked, deleted>>
    BY <1>2 DEF ChallengeAnswered
  <2> HIDE DEF w
  <2> QED BY <2>1, <2>2, OutcomeMoves DEF table, machine, Good
<1>3. CASE VerifierPut(f, a, i)
  <2>1. PICK call \in CallOutcome :
          /\ Write(f, [v.copy EXCEPT !.status = "success"], call)
          /\ verifier' = [verifier EXCEPT
               ![f][a][i] = [v EXCEPT
                  !.pc = IF call.ok THEN "verified" ELSE "crashed", !.copy = Zero]]
    BY <1>3 DEF VerifierPut
  <2> DEFINE pc == IF call.ok THEN "verified" ELSE "crashed"
             w == [v EXCEPT !.pc = pc, !.copy = Zero]
  <2>2. w.pc = pc /\ w.awaited = v.awaited
    BY <1>0 DEF Verifier
  <2>3. /\ v.pc = "put"
        /\ UNCHANGED <<expired, initializer, machine, history>>
    BY <1>3 DEF VerifierPut
  <2>4. [v.copy EXCEPT !.status = "success"].status = "success"
    BY <1>0 DEF Verifier, Flow
  <2>5. store'[f] = store[f] \/ Good(f)'
    BY <2>1, <2>4 DEF Write, Good, TypeOK
  <2>6. call.ok => Good(f)'
    BY <2>1, <2>4 DEF Write, Good, TypeOK, CallOutcome
  <2>7. Good(f) => Good(f)'
    BY <2>3, <2>5 DEF Good, history
  <2>8. verifier' = [verifier EXCEPT ![f][a][i] = w]
    BY <2>1
  <2>9. w.pc \in {"verified", "crashed"} /\ (w.pc = "verified" => Good(f)')
    BY <2>2, <2>6
  <2> HIDE DEF w
  <2> QED BY <2>2, <2>3, <2>7, <2>8, <2>9, OutcomeMoves DEF machine, history
<1>4. CASE VerifierReturn(f, a, i)
  <2>1. /\ UNCHANGED <<table, initializer, history>>
        /\ v.pc \in Verdicts
    BY <1>4 DEF VerifierReturn
  <2>2. NoVerifier.pc = "idle" /\ ~NoVerifier.awaited /\ NoVerifier \in Verifier
    BY RecordsTyped DEF NoVerifier
  <2>3. CASE v.awaited /\ v.pc = "crashed"
    <3>1. FailExecution(f, [verifier EXCEPT ![f][a][i] = NoVerifier])
      BY <1>4, <2>3 DEF VerifierReturn
    <3>2. execution[f] = "map"
      BY <2>3 DEF OutcomeInv, AwaitInv
    <3> QED BY <2>1, <2>2, <3>1, <3>2, OutcomeFails DEF history
  <2>4. CASE v.awaited /\ v.pc # "crashed"
    <3>1. /\ verifier' = [verifier EXCEPT ![f][a][i] = NoVerifier]
          /\ task' = [task EXCEPT ![f][a].state = v.pc]
          /\ execution' = execution
      BY <1>4, <2>4 DEF VerifierReturn
    <3>2. /\ \A b \in Addresses : b # a => task'[f][b] = task[f][b]
          /\ task'[f][a].state = v.pc
      BY <3>1 DEF TypeOK, Task
    <3>3. v.pc \notin {"put", "crashed"}
      BY <2>1, <2>4 DEF Verdicts
    <3> QED BY <2>1, <2>2, <2>4, <3>1, <3>2, <3>3, OutcomeReturned
  <2>5. CASE ~v.awaited
    <3>1. /\ verifier' = [verifier EXCEPT ![f][a][i] = NoVerifier]
          /\ task' = task /\ execution' = execution
      BY <1>4, <2>5 DEF VerifierReturn
    <3>2. \A b \in Addresses, j \in Invocations :
            verifier'[f][b][j] = IF b = a /\ j = i THEN NoVerifier ELSE verifier[f][b][j]
      BY <3>1 DEF TypeOK
    <3>3. AwaitInv(f)'
      BY <2>1, <2>2, <3>1, <3>2 DEF OutcomeInv, AwaitInv, history
    <3>4. OrderInv(f)'
      BY <2>1, <3>1 DEF OutcomeInv, OrderInv, history
    <3>5. VerdictInv(f)'
      BY <2>1, <2>2, <3>1, <3>2 DEF OutcomeInv, VerdictInv, Good, table, history
    <3>6. Accepted(f) => Accepted(f)'
      BY <2>5, <3>1, <3>2 DEF Accepted
    <3>7. ProvedInv(f)'
      BY <2>1, <3>1, <3>6 DEF OutcomeInv, ProvedInv, history
    <3> QED BY <3>3, <3>4, <3>5, <3>7 DEF OutcomeInv
  <2> QED BY <2>3, <2>4, <2>5
<1>5. CASE LambdaException(f, a, i)
  <2>1. /\ "lambda" \in Faults /\ v.awaited
        /\ UNCHANGED <<table, initializer, history>>
    BY <1>5 DEF LambdaException
  <2>2. execution[f] = "map"
    BY <2>1 DEF OutcomeInv, AwaitInv
  <2>3. PICK began \in BOOLEAN :
          LET base == [verifier EXCEPT ![f][a][i] =
                         IF began THEN [v EXCEPT !.awaited = FALSE] ELSE NoVerifier]
          IN  \/ /\ task' = [task EXCEPT ![f][a] =
                       [state |-> "queued", tries |-> task[f][a].tries + 1]]
                 /\ verifier' = base
                 /\ execution' = execution
              \/ FailExecution(f, base)
    BY <1>5 DEF LambdaException
  <2> DEFINE w == IF began THEN [v EXCEPT !.awaited = FALSE] ELSE NoVerifier
  <2>4. ~w.awaited /\ w \in Verifier
    BY <1>0, RecordsTyped, VerifierDetached DEF Verifier, NoVerifier
  <2>5. \/ /\ task' = [task EXCEPT ![f][a] =
                 [state |-> "queued", tries |-> task[f][a].tries + 1]]
           /\ verifier' = [verifier EXCEPT ![f][a][i] = w]
           /\ execution' = execution
        \/ FailExecution(f, [verifier EXCEPT ![f][a][i] = w])
    BY <2>3
  <2> HIDE DEF w
  <2>6. CASE FailExecution(f, [verifier EXCEPT ![f][a][i] = w])
    BY <2>1, <2>2, <2>4, <2>6, OutcomeFails DEF history
  <2>7. CASE ~FailExecution(f, [verifier EXCEPT ![f][a][i] = w])
    <3>1. /\ \A b \in Addresses : b # a => task'[f][b] = task[f][b]
          /\ task'[f][a].state = "queued"
      BY <2>5, <2>7 DEF TypeOK
    <3> QED BY <2>1, <2>4, <2>5, <2>7, <3>1, OutcomeReturned
  <2> QED BY <2>6, <2>7
<1> QED BY <1>1, <1>2, <1>3, <1>4, <1>5 DEF VerifierStep, VerifierFault

LEMMA OutcomeStep ==
  ASSUME TypeOK, NEW f \in Flows, RefusalInv(f), OutcomeInv(f), StepOf(f)
  PROVE  OutcomeInv(f)'
<1>1. CASE TableStep(f)
  BY <1>1, OutcomeQuiet
  DEF TableStep, Replicate, Expire, TimeToLive, Good, TypeOK, machine, daemon, history
<1>2. CASE InitializerStep(f)
  <2>1. CASE InitializerReject(f)
    BY <2>1, OutcomeQuiet DEF InitializerReject, Good, Before, table, machine, daemon, history
  <2>2. CASE InitializerPut(f)
    <3>1. /\ initializer[f] = "put"
          /\ UNCHANGED <<machine, verifier, history>>
      BY <2>2 DEF InitializerPut
    <3>2. execution[f] = "idle"
      BY <3>1 DEF OutcomeInv, OrderInv
    <3> QED BY <3>1, <3>2, OutcomeQuiet DEF machine, history
  <2>3. CASE InitializerLaunch(f)
    <3>1. /\ initializer[f] = "launch" /\ initializer'[f] \in {"ok", "error"}
          /\ execution'[f] \in {"map", execution[f]}
          /\ UNCHANGED <<table, task, verifier, history>>
      BY <2>3 DEF InitializerLaunch, TypeOK
    <3>2. execution[f] = "idle"
      BY <3>1 DEF OutcomeInv, OrderInv
    <3>3. \A a \in Addresses, i \in Invocations :
            /\ ~verifier[f][a][i].awaited
            /\ verifier[f][a][i].pc # "idle" => "lambda" \in Faults
      BY <3>2 DEF OutcomeInv, AwaitInv
    <3>4. f \in proved => "lambda" \in Faults
      BY <3>2 DEF OutcomeInv, ProvedInv
    <3> QED
      BY <3>1, <3>2, <3>3, <3>4
      DEF OutcomeInv, AwaitInv, OrderInv, VerdictInv, ProvedInv, history
  <2> QED BY <1>2, <2>1, <2>2, <2>3 DEF InitializerStep
<1>3. CASE MachineStep(f)
  BY <1>3, OutcomeMachine
<1>4. CASE ClientStep(f)
  <2>1. UNCHANGED <<table, machine, verifier, history>>
    BY <1>4 DEF ClientStep, ClientStart, StartReply, Elapse, StopServers
  <2>2. initializer' = initializer \/ initializer[f] = "idle"
    BY <1>4
    DEF ClientStep, ClientStart, StartReply, Elapse, StopServers, RefusalInv, StartedInv
  <2> QED BY <2>1, <2>2, OutcomeQuiet DEF Before, Good, table, machine, history
<1>5. CASE Exit(f)
  BY <1>5, OutcomeQuiet DEF Exit, Good, table, machine, history
<1>6. ASSUME NEW a \in Addresses, NEW i \in Invocations,
             InvokeVerifier(f, a, i) \/ VerifierStep(f, a, i) \/ VerifierFault(f, a, i)
      PROVE  OutcomeInv(f)'
  BY <1>6, OutcomeInvoked, OutcomeVerifier
<1>7. ASSUME NEW c \in Calls, Poll(f, c) \/ FinalizerStep(f, c) \/ CallFault(f, c)
      PROVE  OutcomeInv(f)'
  <2>1. /\ UNCHANGED <<expired, initializer, machine, verifier, proved, marked>>
        /\ \/ UNCHANGED <<store, deleted>>
           \/ FinalizerDelete(f, c)
    BY <1>7
    DEF Poll, FinalizerStep, FinalizerGet, FinalizerSign, FinalizerDelete, FinalizeReply,
        CallFault, LoseReply, GatewayError, table, history
  <2>2. Good(f) => Good(f)'
    BY <2>1 DEF FinalizerDelete, Write, Good
  <2> QED BY <2>1, <2>2, OutcomeQuiet DEF machine
<1> QED BY <1>1, <1>2, <1>3, <1>4, <1>5, <1>6, <1>7 DEF StepOf

StepInv == \A f \in Flows : RefusalInv(f) /\ OutcomeInv(f)

LEMMA InitOutcome == Init => StepInv
<1> SUFFICES ASSUME Init, NEW f \in Flows PROVE RefusalInv(f) /\ OutcomeInv(f)
  BY DEF StepInv
<1>1. NoFinalizer.pc = "idle" /\ ~NoFinalizer.awaited
  BY DEF NoFinalizer
<1>2. NoVerifier.pc = "idle" /\ ~NoVerifier.awaited
  BY DEF NoVerifier
<1>3. StartedInv(f) /\ RefusedInv(f)
  BY <1>1 DEF Init, StartedInv, RefusedInv
<1>4. ItemInv(f)
  BY DEF Init, ItemInv, Zero
<1>5. CopyInv(f)
  BY <1>2 DEF Init, CopyInv
<1>6. AwaitInv(f)
  BY <1>2 DEF Init, AwaitInv
<1>7. OrderInv(f) /\ VerdictInv(f) /\ ProvedInv(f)
  BY DEF Init, OrderInv, VerdictInv, ProvedInv, Queued
<1> QED BY <1>3, <1>4, <1>5, <1>6, <1>7 DEF RefusalInv, OutcomeInv

THEOREM StepInvHolds == Spec => []StepInv
<1>1. StepInv /\ TypeOK /\ [Next]_vars => StepInv'
  <2> SUFFICES ASSUME StepInv, TypeOK, [Next]_vars, NEW g \in Flows
               PROVE  RefusalInv(g)' /\ OutcomeInv(g)'
    BY DEF StepInv
  <2>0. RefusalInv(g) /\ OutcomeInv(g)
    BY DEF StepInv
  <2>1. CASE UNCHANGED vars
    <3>1. Untouched(g)
      BY <2>1 DEF vars, table, machine, daemon, history, Untouched
    <3> QED BY <2>0, <3>1, RefusalUntouched, OutcomeUntouched
  <2>2. ASSUME NEW f \in Flows, StepOf(f)
        PROVE  RefusalInv(g)' /\ OutcomeInv(g)'
    <3>1. CASE f = g
      BY <2>0, <2>2, <3>1, RefusalStep, OutcomeStep
    <3>2. CASE f # g
      BY <2>0, <2>2, <3>2, OthersUntouched, RefusalUntouched, OutcomeUntouched
    <3> QED BY <3>1, <3>2
  <2>3. CASE Next
    <3>1. PICK f \in Flows : StepOf(f)
      BY <2>3 DEF Next, StepOf
    <3> QED BY <2>2, <3>1
  <2> QED BY <2>1, <2>3
<1> QED BY <1>1, InitOutcome, TypeCorrect, PTL DEF Spec

\* No client is turned away without a reason: what RefusalJustified says.
THEOREM RefusalsAreJustified == Spec => []RefusalJustified
<1>1. StepInv => RefusalJustified
  BY DEF StepInv, RefusalInv, RefusedInv, Reason, Sound, RefusalJustified
<1> QED BY <1>1, StepInvHolds, PTL

\* The state machine marks no proved flow failed while the Lambda service loses
\* no answer: what MarkedOnlyUnproved says.
THEOREM MarksAreUnproved == Spec => []MarkedOnlyUnproved
<1>1. StepInv /\ TypeOK => MarkedOnlyUnproved
  BY DEF StepInv, OutcomeInv, ProvedInv, OrderInv, TypeOK, MarkedOnlyUnproved
<1> QED BY <1>1, StepInvHolds, TypeCorrect, PTL

\* A success reported by the state machine stays in the table until the flow is
\* consumed or expires: what SuccessReachesFinalizer says.
THEOREM SuccessIsStored == Spec => []SuccessReachesFinalizer
<1>1. StepInv => SuccessReachesFinalizer
  BY DEF StepInv, OutcomeInv, VerdictInv, Good, SuccessReachesFinalizer
<1> QED BY <1>1, StepInvHolds, PTL
-------------------------------------------------------------------------------
(* Nobody waits in vain.                                                   *)

\* The Map waits for a task only while an invocation that answers it is at work.
MapIsServed(f) ==
  execution[f] = "map" =>
    \A a \in Addresses : task[f][a].state = "running" =>
      \E i \in Invocations :
        verifier[f][a][i].awaited /\ verifier[f][a][i].pc # "idle"

\* The client waits for one call at a time, which is at work, and only while it
\* polls; meanwhile, and until it ends, its challenge servers are up.
ClientIsServed(f) ==
  /\ \A c \in Calls : finalizer[f][c].awaited =>
       /\ finalizer[f][c].pc # "idle" /\ client[f] = "polling"
       /\ \A d \in Calls : finalizer[f][d].awaited => c = d
  /\ client[f] = "polling" => f \in listening
  /\ f \in listening => client[f] \in {"polling", "token", "refused", "gaveup"}

WaitsAreServed == \A f \in Flows : MapIsServed(f) /\ ClientIsServed(f)

\* No task runs before the execution begins, and the Map awaits an invocation of
\* every task that runs.
WorkInv(f) ==
  /\ execution[f] = "idle" => \A a \in Addresses : task[f][a].state = "queued"
  /\ execution[f] = "map" =>
       \A a \in Addresses : task[f][a].state = "running" =>
         \E i \in Invocations : verifier[f][a][i].awaited

LEMMA WorkQuiet ==
  ASSUME NEW f \in Flows, WorkInv(f), UNCHANGED <<execution[f], task[f], verifier[f]>>
  PROVE  WorkInv(f)'
BY DEF WorkInv

\* One invocation goes on, or one that nobody awaits ends.
LEMMA WorkMoves ==
  ASSUME TypeOK, NEW f \in Flows, WorkInv(f), NEW a \in Addresses,
         NEW i \in Invocations, NEW w,
         verifier' = [verifier EXCEPT ![f][a][i] = w],
         w.awaited = verifier[f][a][i].awaited,
         execution' = execution, task' = task
  PROVE  WorkInv(f)'
<1>1. \A b \in Addresses, j \in Invocations :
        verifier'[f][b][j].awaited = verifier[f][b][j].awaited
  BY DEF TypeOK
<1> QED BY <1>1 DEF WorkInv

\* An awaited invocation answers, or its task is queued again.
LEMMA WorkReturns ==
  ASSUME TypeOK, NEW f \in Flows, WorkInv(f), NEW a \in Addresses,
         NEW i \in Invocations, NEW w, NEW t \in Task,
         verifier' = [verifier EXCEPT ![f][a][i] = w],
         task' = [task EXCEPT ![f][a] = t], t.state # "running",
         execution[f] = "map", execution' = execution
  PROVE  WorkInv(f)'
<1>1. \A b \in Addresses : b # a =>
        task'[f][b] = task[f][b] /\ verifier'[f][b] = verifier[f][b]
  BY DEF TypeOK
<1>2. task'[f][a].state # "running"
  BY DEF TypeOK
<1> QED BY <1>1, <1>2 DEF WorkInv

\* A step that ends the Map, or begins it with its tasks queued.
LEMMA WorkMachine ==
  ASSUME TypeOK, NEW f \in Flows, WorkInv(f), OutcomeInv(f),
         InitializerStep(f) \/ MachineStep(f)
  PROVE  WorkInv(f)'
<1> USE DEF TypeOK
<1>1. CASE InitializerReject(f) \/ InitializerPut(f)
  BY <1>1, WorkQuiet DEF InitializerReject, InitializerPut, machine
<1>2. CASE InitializerLaunch(f)
  <2>1. execution[f] = "idle" /\ task' = task
    BY <1>2 DEF InitializerLaunch, OutcomeInv, OrderInv
  <2> QED BY <2>1 DEF WorkInv
<1>3. CASE CheckResult(f) \/ MarkFailed(f)
  <2>1. execution'[f] \notin {"idle", "map"}
    BY <1>3 DEF CheckResult, MarkFailed
  <2> QED BY <2>1 DEF WorkInv
<1>4. CASE Wait(f)
  <2>1. \A a \in Addresses : task'[f][a].state = "queued"
    BY <1>4 DEF Wait, Queued
  <2> QED BY <2>1 DEF WorkInv
<1> QED BY <1>1, <1>2, <1>3, <1>4 DEF InitializerStep, MachineStep

LEMMA WorkVerifier ==
  ASSUME TypeOK, NEW f \in Flows, WorkInv(f), OutcomeInv(f),
         NEW a \in Addresses, NEW i \in Invocations,
         InvokeVerifier(f, a, i) \/ VerifierStep(f, a, i) \/ VerifierFault(f, a, i)
  PROVE  WorkInv(f)'
<1> DEFINE v == verifier[f][a][i]
<1>0. v \in Verifier /\ task[f][a] \in Task
  BY DEF TypeOK
<1>1. ASSUME FailExecution(f, [verifier EXCEPT ![f][a][i] = NoVerifier])
               \/ \E w : FailExecution(f, [verifier EXCEPT ![f][a][i] = w])
      PROVE  WorkInv(f)'
  <2>1. execution'[f] = "failed"
    BY <1>1 DEF FailExecution, TypeOK
  <2> QED BY <2>1 DEF WorkInv
<1>2. CASE InvokeVerifier(f, a, i)
  <2> DEFINE w == [NoVerifier EXCEPT !.pc = "get", !.awaited = TRUE]
  <2>1. w.awaited
    BY DEF NoVerifier
  <2>2. /\ verifier' = [verifier EXCEPT ![f][a][i] = w]
        /\ execution[f] = "map" /\ execution' = execution
        /\ \A b \in Addresses : b # a => task'[f][b] = task[f][b]
    BY <1>2 DEF InvokeVerifier, TypeOK
  <2> HIDE DEF w
  <2>3. \A b \in Addresses, j \in Invocations :
          verifier'[f][b][j] = IF b = a /\ j = i THEN w ELSE verifier[f][b][j]
    BY <2>2 DEF TypeOK
  <2>4. execution'[f] = "map"
    BY <2>2
  <2> QED BY <2>1, <2>2, <2>3, <2>4 DEF WorkInv
<1>3. CASE VerifierGet(f, a, i) \/ ChallengeFails(f, a, i)
           \/ ChallengeAnswered(f, a, i) \/ VerifierPut(f, a, i)
           \/ VerifierKilled(f, a, i)
  <2>1. execution' = execution /\ task' = task
    BY <1>3
    DEF VerifierGet, ChallengeFails, ChallengeAnswered, VerifierPut, VerifierKilled,
        machine
  <2>2. \A w : w.awaited = v.awaited /\ verifier' = [verifier EXCEPT ![f][a][i] = w]
          => WorkInv(f)'
    BY <2>1, WorkMoves
  <2>3. \E w : w.awaited = v.awaited /\ verifier' = [verifier EXCEPT ![f][a][i] = w]
    <3>1. \A pc, flow :
            /\ [v EXCEPT !.pc = pc].awaited = v.awaited
            /\ [v EXCEPT !.pc = pc, !.copy = flow].awaited = v.awaited
      BY <1>0 DEF Verifier
    <3>2. \E pc, flow :
            \/ verifier' = [verifier EXCEPT ![f][a][i] = [v EXCEPT !.pc = pc]]
            \/ verifier' = [verifier EXCEPT
                 ![f][a][i] = [v EXCEPT !.pc = pc, !.copy = flow]]
      BY <1>3
      DEF VerifierGet, ChallengeFails, ChallengeAnswered, VerifierPut, VerifierKilled
    <3> QED BY <3>1, <3>2
  <2> QED BY <2>2, <2>3
<1>4. CASE VerifierReturn(f, a, i)
  <2>1. NoVerifier.awaited = FALSE
    BY DEF NoVerifier
  <2>2. CASE ~v.awaited
    <3>1. /\ verifier' = [verifier EXCEPT ![f][a][i] = NoVerifier]
          /\ task' = task /\ execution' = execution
      BY <1>4, <2>2 DEF VerifierReturn
    <3>2. v.awaited = FALSE
      BY <1>0, <2>2 DEF Verifier
    <3> QED BY <2>1, <3>1, <3>2, WorkMoves
  <2>3. CASE v.awaited /\ v.pc # "crashed"
    <3> DEFINE t == [task[f][a] EXCEPT !.state = v.pc]
    <3>1. v.pc \in {"verified", "rejected"}
      BY <1>4, <2>3 DEF VerifierReturn, Verdicts
    <3>2. t \in Task /\ t.state # "running"
      BY <1>0, <3>1, TaskState DEF Task
    <3>3. /\ verifier' = [verifier EXCEPT ![f][a][i] = NoVerifier]
          /\ task' = [task EXCEPT ![f][a] = t]
          /\ execution' = execution
      BY <1>4, <2>3 DEF VerifierReturn
    <3>4. execution[f] = "map"
      BY <2>3 DEF OutcomeInv, AwaitInv
    <3> HIDE DEF t
    <3> QED BY <3>2, <3>3, <3>4, WorkReturns
  <2>4. CASE v.awaited /\ v.pc = "crashed"
    BY <1>1, <1>4, <2>4 DEF VerifierReturn
  <2> QED BY <2>2, <2>3, <2>4
<1>5. CASE LambdaException(f, a, i)
  <2>1. PICK w :
          \/ /\ task[f][a].tries < MaxAttempts
             /\ task' = [task EXCEPT ![f][a] =
                  [state |-> "queued", tries |-> task[f][a].tries + 1]]
             /\ verifier' = [verifier EXCEPT ![f][a][i] = w]
             /\ execution' = execution
          \/ FailExecution(f, [verifier EXCEPT ![f][a][i] = w])
    BY <1>5 DEF LambdaException
  <2>2. execution[f] = "map"
    BY <1>5 DEF LambdaException, OutcomeInv, AwaitInv
  <2>3. CASE FailExecution(f, [verifier EXCEPT ![f][a][i] = w])
    BY <1>1, <2>3
  <2>4. CASE ~FailExecution(f, [verifier EXCEPT ![f][a][i] = w])
    <3> DEFINE t == [state |-> "queued", tries |-> task[f][a].tries + 1]
    <3>1. t \in Task /\ t.state # "running"
      BY <1>0, <2>1, <2>4, TaskRetried
    <3>2. /\ task' = [task EXCEPT ![f][a] = t]
          /\ verifier' = [verifier EXCEPT ![f][a][i] = w]
          /\ execution' = execution
      BY <2>1, <2>4
    <3> HIDE DEF t
    <3> QED BY <2>2, <3>1, <3>2, WorkReturns
  <2> QED BY <2>3, <2>4
<1> QED BY <1>2, <1>3, <1>4, <1>5 DEF VerifierStep, VerifierFault

LEMMA WorkStep ==
  ASSUME TypeOK, NEW f \in Flows, WorkInv(f), OutcomeInv(f), StepOf(f)
  PROVE  WorkInv(f)'
<1>1. CASE TableStep(f) \/ ClientStep(f) \/ Exit(f)
  BY <1>1, WorkQuiet
  DEF TableStep, Replicate, Expire, TimeToLive, ClientStep, ClientStart, StartReply,
      Elapse, StopServers, Exit, machine
<1>2. ASSUME NEW c \in Calls, Poll(f, c) \/ FinalizerStep(f, c) \/ CallFault(f, c)
      PROVE  WorkInv(f)'
  BY <1>2, WorkQuiet
  DEF Poll, FinalizerStep, FinalizerGet, FinalizerSign, FinalizerDelete, FinalizeReply,
      CallFault, LoseReply, GatewayError, machine
<1> QED BY <1>1, <1>2, WorkMachine, WorkVerifier DEF StepOf

\* A call of the flow whose record becomes g: the others keep theirs.
LEMMA ClientCalls ==
  ASSUME TypeOK, NEW f \in Flows, NEW c \in Calls, ClientIsServed(f), NEW g,
         finalizer' = [finalizer EXCEPT ![f][c] = g], f \in listening' <=> f \in listening,
         \/ g.awaited = finalizer[f][c].awaited /\ client' = client /\ g.pc # "idle"
         \/ ~g.awaited /\ (client' = client \/ finalizer[f][c].awaited),
         client'[f] \in {"polling", "token", "refused", "gaveup"} \/ client' = client
  PROVE  ClientIsServed(f)'
<1>1. finalizer'[f][c] = g /\ \A d \in Calls \ {c} : finalizer'[f][d] = finalizer[f][d]
  BY DEF TypeOK
<1>2. \A d \in Calls : finalizer'[f][d].awaited => finalizer[f][d].awaited
  BY <1>1
<1>3. client' # client => \A d \in Calls : ~finalizer'[f][d].awaited
  BY <1>1 DEF ClientIsServed
<1>4. finalizer[f][c].awaited => client[f] = "polling" /\ f \in listening
  BY DEF ClientIsServed
<1>5. client' = client \/ finalizer[f][c].awaited
  OBVIOUS
<1>6. /\ client'[f] = "polling" => f \in listening'
      /\ f \in listening' => client'[f] \in {"polling", "token", "refused", "gaveup"}
  BY <1>4, <1>5 DEF ClientIsServed
<1>7. \A d \in Calls : finalizer'[f][d].awaited =>
        /\ finalizer'[f][d].pc # "idle" /\ client'[f] = "polling"
        /\ \A e \in Calls : finalizer'[f][e].awaited => d = e
  BY <1>1, <1>2, <1>3 DEF ClientIsServed
<1> QED BY <1>6, <1>7 DEF ClientIsServed

LEMMA ClientStepServed ==
  ASSUME TypeOK, NEW f \in Flows, ClientIsServed(f), ClientStep(f) \/ Exit(f)
  PROVE  ClientIsServed(f)'
<1> USE DEF TypeOK
<1>1. client[f] # "polling" => \A c \in Calls : ~finalizer[f][c].awaited
  BY DEF ClientIsServed
<1>2. CASE ClientStart(f)
  BY <1>1, <1>2 DEF ClientStart, ClientIsServed
<1>3. CASE StartReply(f)
  BY <1>1, <1>3 DEF StartReply, ClientIsServed
<1>4. CASE Elapse(f)
  BY <1>4 DEF Elapse, ClientIsServed
<1>5. CASE StopServers(f)
  BY <1>1, <1>5 DEF StopServers, Outcomes, ClientIsServed
<1>6. CASE Exit(f)
  <2>1. \A c \in Calls : [finalizer[f][c] EXCEPT !.awaited = FALSE].awaited = FALSE
    BY DEF Finalizer
  <2>2. \A c \in Calls : finalizer'[f][c] = [finalizer[f][c] EXCEPT !.awaited = FALSE]
    BY <1>6 DEF Exit
  <2>3. \A c \in Calls : ~finalizer'[f][c].awaited
    BY <2>1, <2>2
  <2> QED BY <1>6, <2>3 DEF Exit, ClientIsServed
<1> QED BY <1>2, <1>3, <1>4, <1>5, <1>6 DEF ClientStep

LEMMA CallServed ==
  ASSUME TypeOK, NEW f \in Flows, ClientIsServed(f), NEW c \in Calls,
         Poll(f, c) \/ FinalizerStep(f, c) \/ CallFault(f, c)
  PROVE  ClientIsServed(f)'
<1> DEFINE g == finalizer[f][c]
<1>0. g \in Finalizer
  BY DEF TypeOK
<1>1. CASE Poll(f, c)
  <2>1. /\ finalizer'[f][c].pc = "get"
        /\ \A d \in Calls \ {c} : ~finalizer'[f][d].awaited
    BY <1>1 DEF Poll, TypeOK
  <2> QED BY <1>1, <2>1 DEF Poll, daemon, ClientIsServed
<1>2. CASE FinalizerGet(f, c) \/ FinalizerSign(f, c) \/ FinalizerDelete(f, c)
  <2>1. PICK pc \in {"409", "403", "sign", "500", "delete", "200"} :
          finalizer' = [finalizer EXCEPT ![f][c].pc = pc]
    BY <1>2 DEF FinalizerGet, FinalizerSign, FinalizerDelete, Decision
  <2>2. client' = client /\ listening' = listening
    BY <1>2 DEF FinalizerGet, FinalizerSign, FinalizerDelete, daemon
  <2> DEFINE h == [g EXCEPT !.pc = pc]
  <2>3. h.pc # "idle" /\ h.awaited = g.awaited
    BY <1>0 DEF Finalizer
  <2>4. finalizer' = [finalizer EXCEPT ![f][c] = h]
    BY <2>1
  <2> HIDE DEF h
  <2> QED BY <2>2, <2>3, <2>4, ClientCalls
<1>3. CASE FinalizeReply(f, c)
  <2>1. /\ finalizer' = [finalizer EXCEPT ![f][c] = NoFinalizer]
        /\ listening' = listening
        /\ IF g.awaited THEN client' = [client EXCEPT ![f] = After(f, g.pc)]
                        ELSE client' = client
        /\ g.pc \in Answers
    BY <1>3 DEF FinalizeReply
  <2>2. g.pc \in Answers => After(f, g.pc) \in {"polling", "token", "refused", "gaveup"}
    BY DEF After, RetryOr, Answers
  <2>3. client'[f] \in {"polling", "token", "refused", "gaveup"} \/ client' = client
    BY <2>1, <2>2 DEF TypeOK
  <2>4. ~NoFinalizer.awaited
    BY DEF NoFinalizer
  <2> QED BY <2>1, <2>3, <2>4, ClientCalls
<1>4. CASE CallFault(f, c)
  <2>1. PICK h \in Unanswered(f, c) : finalizer' = [finalizer EXCEPT ![f][c] = h]
    BY <1>4 DEF CallFault, LoseReply, GatewayError
  <2>2. /\ g.awaited /\ listening' = listening
        /\ client'[f] \in {"polling", "token", "refused", "gaveup"}
    BY <1>4 DEF CallFault, LoseReply, GatewayError, RetryOr, TypeOK
  <2>3. ~h.awaited
    BY <1>0, <2>1 DEF Unanswered, NoFinalizer, Finalizer
  <2> QED BY <2>1, <2>2, <2>3, ClientCalls
<1> QED BY <1>1, <1>2, <1>3, <1>4 DEF FinalizerStep

LEMMA ClientServed ==
  ASSUME TypeOK, NEW f \in Flows, ClientIsServed(f), StepOf(f)
  PROVE  ClientIsServed(f)'
<1>1. UNCHANGED <<finalizer, client, listening>> => ClientIsServed(f)'
  BY DEF ClientIsServed
<1>2. CASE TableStep(f) \/ InitializerStep(f) \/ MachineStep(f)
  BY <1>1, <1>2
  DEF TableStep, Replicate, Expire, TimeToLive, InitializerStep, InitializerReject,
      InitializerPut, InitializerLaunch, MachineStep, CheckResult, Wait, MarkFailed,
      daemon
<1>3. ASSUME NEW a \in Addresses, NEW i \in Invocations,
             InvokeVerifier(f, a, i) \/ VerifierStep(f, a, i) \/ VerifierFault(f, a, i)
      PROVE  ClientIsServed(f)'
  BY <1>1, <1>3
  DEF InvokeVerifier, VerifierStep, VerifierGet, ChallengeFails, ChallengeAnswered,
      VerifierPut, VerifierReturn, VerifierFault, LambdaException, VerifierKilled,
      daemon
<1> QED BY <1>2, <1>3, ClientStepServed, CallServed DEF StepOf

WaitInv == \A f \in Flows : WorkInv(f) /\ ClientIsServed(f)

LEMMA InitWait == Init => WaitInv
<1>1. NoFinalizer.awaited = FALSE /\ Queued.state = "queued"
  BY DEF NoFinalizer, Queued
<1>2. ASSUME Init, NEW f \in Flows PROVE WorkInv(f)
  BY <1>1, <1>2 DEF Init, WorkInv
<1>3. ASSUME Init, NEW f \in Flows PROVE ClientIsServed(f)
  BY <1>1, <1>3 DEF Init, ClientIsServed
<1> QED BY <1>2, <1>3 DEF WaitInv

LEMMA WaitStep ==
  ASSUME WaitInv, StepInv, TypeOK, [Next]_vars
  PROVE  WaitInv'
<1> SUFFICES ASSUME NEW g \in Flows PROVE WorkInv(g)' /\ ClientIsServed(g)'
  BY DEF WaitInv
<1>0. WorkInv(g) /\ ClientIsServed(g) /\ OutcomeInv(g)
  BY DEF WaitInv, StepInv
<1>1. Untouched(g) => WorkInv(g)' /\ ClientIsServed(g)'
  BY <1>0 DEF Untouched, WorkInv, ClientIsServed
<1>2. CASE UNCHANGED vars
  BY <1>1, <1>2 DEF vars, table, machine, daemon, history, Untouched
<1>3. CASE Next
  <2>1. PICK f \in Flows : StepOf(f)
    BY <1>3 DEF Next, StepOf
  <2>2. CASE f = g
    BY <1>0, <2>1, <2>2, WorkStep, ClientServed
  <2>3. CASE f # g
    BY <1>1, <2>1, <2>3, OthersUntouched
  <2> QED BY <2>2, <2>3
<1> QED BY <1>2, <1>3

\* However invocations overlap and answers are lost, the Map never waits for an
\* invocation that is gone, nor the client for such a call, and the servers of a
\* client that polls are up: the safety side of ExecutionTerminates and
\* ClientTerminates.
THEOREM NobodyWaitsInVain == Spec => []WaitsAreServed
<1>1. WaitInv /\ StepInv => WaitsAreServed
  <2> SUFFICES ASSUME WaitInv, StepInv, NEW f \in Flows
               PROVE  MapIsServed(f) /\ ClientIsServed(f)
    BY DEF WaitsAreServed
  <2>1. WorkInv(f) /\ AwaitInv(f) /\ ClientIsServed(f)
    BY DEF WaitInv, StepInv, OutcomeInv
  <2> QED BY <2>1 DEF WorkInv, AwaitInv, MapIsServed
<1> QED BY <1>1, InitWait, WaitStep, StepInvHolds, TypeCorrect, PTL DEF Spec
===============================================================================
