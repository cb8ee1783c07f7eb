--------------------------- MODULE DevGateway_proofs ---------------------------
(***************************************************************************)
(* For any number of flows, overlapping calls and attempts, and whatever   *)
(* fails, crashes or restarts: the development gateway signs no token      *)
(* without a proof, writes nothing to a flow that was consumed, refuses no *)
(* flow without a reason, and gives up on none before every address had    *)
(* its attempt.                                                            *)
(***************************************************************************)
EXTENDS DevGateway, TLAPS

Early == {"idle", "create", "encode", "send"}

\* A flow is launched once, after its initializer is done with its file; a
\* mark is left to be written only where the attempts have ended.
LaunchInv ==
  /\ \A f \in Flows : initializer[f] \in Early => worker[f] = "none"
  /\ \A i \in 1 .. Len(bus) : /\ worker[bus[i]] = "none"
                              /\ initializer[bus[i]] \notin Early
                              /\ \A j \in 1 .. Len(bus) : bus[i] = bus[j] => i = j
  /\ \A f \in Flows : marker[f] \in {"get", "create", "encode"} => worker[f] = "failed"
  /\ \A f \in Flows : worker[f] # "failed" => attempts[f] <= MaxAttempts

\* Whoever sees a flow verified sees a worker that has ended, after a proof.
ProofInv ==
  /\ \A f \in Flows : worker[f] \in {"create", "encode", "success"} => f \in proved
  /\ \A f \in Flows : file[f] = "success" => worker[f] = "success"
  /\ \A f \in Flows, c \in Calls : call[f][c] # "idle" => worker[f] = "success"
  /\ \A f \in Flows, c \in Calls : call[f][c] = "delete" => f \in signed
  /\ \A f \in deleted : worker[f] = "success" /\ file[f] = "absent"
  /\ signed \subseteq proved

\* Why a poll may be refused.
RefusalInv ==
  /\ \A f \in Flows : initializer[f] \in {"encode", "send", "ok"} =>
                        file[f] # "absent" \/ f \in deleted
  /\ \A f \in Flows : file[f] = "failed" => f \in marked
  /\ RefusalJustified

DevInv == TypeOK /\ LaunchInv /\ ProofInv /\ RefusalInv

-------------------------------------------------------------------------------
LEMMA InitDev == Init => DevInv
<1> SUFFICES ASSUME Init PROVE DevInv
  OBVIOUS
<1>1. TypeOK
  BY DevAssumption DEF Init, TypeOK, Statuses, IPs
<1>2. LaunchInv
  BY DevAssumption DEF Init, LaunchInv, Early
<1>3. ProofInv
  BY DEF Init, ProofInv
<1>4. RefusalInv
  BY DEF Init, RefusalInv, RefusalJustified
<1>5. QED BY <1>1, <1>2, <1>3, <1>4 DEF DevInv

-------------------------------------------------------------------------------
\* The types survive every step.
LEMMA StartTypes ==
  ASSUME DevInv, NEW f \in Flows, Expire(f) \/ Start(f) \/ StartStep(f)
  PROVE  TypeOK'
<1> USE DEF DevInv, TypeOK, Statuses, loop, store, verification, finalizer, history
<1>1. CASE Expire(f) BY <1>1 DEF Expire
<1>2. CASE Start(f) BY <1>2 DEF Start
<1>3. CASE InitializerReject(f) BY <1>3 DEF InitializerReject
<1>4. CASE InitializerPut(f) BY <1>4 DEF InitializerPut, Create, Encode
<1>5. CASE Launch(f)
  <2>1. bus' \in Seq(Flows) /\ Len(bus') = Len(bus) + 1 BY <1>5 DEF Launch
  <2>2. QED BY <1>5, <2>1, DevAssumption DEF Launch
<1>6. QED BY <1>1, <1>2, <1>3, <1>4, <1>5 DEF StartStep

\* A failed attempt leaves the count within its range.
LEMMA UnsuccessfulTypes ==
  ASSUME DevInv, NEW f \in Flows, worker[f] # "failed", Unsuccessful(f)
  PROVE  /\ attempts' \in [Flows -> 1 .. MaxAttempts + 1]
         /\ attempts' = [attempts EXCEPT ![f] = attempts[f] + 1]
         /\ \/ /\ attempts[f] + 1 <= MaxAttempts
               /\ worker' = [worker EXCEPT ![f] = "pause"]
               /\ marker' = marker
            \/ /\ worker' = [worker EXCEPT ![f] = "failed"]
               /\ marker' = [marker EXCEPT ![f] = "get"]
<1>1. attempts[f] \in 1 .. MaxAttempts
  BY DevAssumption DEF DevInv, TypeOK, LaunchInv
<1>2. attempts[f] + 1 \in 1 .. MaxAttempts + 1
  BY <1>1, DevAssumption
<1>3. attempts' = [attempts EXCEPT ![f] = attempts[f] + 1]
  BY DEF Unsuccessful
<1>4. attempts' \in [Flows -> 1 .. MaxAttempts + 1] /\ attempts'[f] = attempts[f] + 1
  BY <1>2, <1>3 DEF DevInv, TypeOK
<1>5. \/ /\ attempts[f] + 1 <= MaxAttempts
         /\ worker' = [worker EXCEPT ![f] = "pause"]
         /\ marker' = marker
      \/ /\ worker' = [worker EXCEPT ![f] = "failed"]
         /\ marker' = [marker EXCEPT ![f] = "get"]
  BY <1>1, <1>4, DevAssumption DEF Unsuccessful, GiveUp
<1>6. QED BY <1>3, <1>4, <1>5

\* The address of an attempt is one of the node's.
LEMMA AddressType ==
  ASSUME DevInv, NEW f \in Flows
  PROVE  Address(f) \in 0 .. IPs - 1
<1>1. attempts[f] \in Nat
  BY DevAssumption DEF DevInv, TypeOK
<1>2. QED BY <1>1 DEF Address, IPs

LEMMA WorkerTypes ==
  ASSUME DevInv, NEW f \in Flows, WorkerStep(f)
  PROVE  TypeOK'
<1> USE DEF DevInv, TypeOK, Statuses, loop, store, verification, finalizer, history
<1>1. CASE VerifierGet(f)
  <2>1. tried' \in [Flows -> SUBSET (0 .. IPs - 1)]
    BY <1>1, AddressType DEF VerifierGet, Tries
  <2>2. QED BY <1>1, <2>1, UnsuccessfulTypes DEF VerifierGet, GiveUp
<1>2. CASE ChallengeFails(f)
  <2>1. tried' \in [Flows -> SUBSET (0 .. IPs - 1)]
    BY <1>2, AddressType DEF ChallengeFails, Tries
  <2>2. QED BY <1>2, <2>1, UnsuccessfulTypes DEF ChallengeFails
<1>3. CASE ChallengeAnswered(f)
  BY <1>3, AddressType DEF ChallengeAnswered, Tries
<1>4. CASE VerifierPut(f)
  BY <1>4 DEF VerifierPut, Create, Encode, GiveUp
<1>5. CASE Pause(f)
  BY <1>5 DEF Pause
<1>6. QED BY <1>1, <1>2, <1>3, <1>4, <1>5 DEF WorkerStep

\* What a call leaves of the types.
LEMMA CallType ==
  ASSUME DevInv, NEW f \in Flows, NEW c \in Calls, NEW to \in {"idle", "sign", "delete"},
         call' = [call EXCEPT ![f][c] = to]
  PROVE  call' \in [Flows -> [Calls -> {"idle", "sign", "delete"}]]
BY DEF DevInv, TypeOK

LEMMA OtherTypes ==
  ASSUME DevInv, NEW f \in Flows,
         \/ MarkerStep(f)
         \/ \E c \in Calls : FinalizerGet(f, c) \/ CallStep(f, c)
  PROVE  TypeOK'
<1> USE DEF DevInv, TypeOK, Statuses, loop, store, verification, finalizer, history
<1>1. CASE MarkerGet(f) BY <1>1 DEF MarkerGet
<1>2. CASE MarkerPut(f) BY <1>2 DEF MarkerPut, Create, Encode
<1>3. ASSUME NEW c \in Calls, FinalizerGet(f, c) PROVE TypeOK'
  <2>1. call' \in [Flows -> [Calls -> {"idle", "sign", "delete"}]]
    BY <1>3, CallType DEF FinalizerGet
  <2>2. refused' \subseteq Flows /\ disturbed' \subseteq Flows
    BY <1>3 DEF FinalizerGet, Failing, Answer
  <2>3. QED BY <1>3, <2>1, <2>2 DEF FinalizerGet
<1>4. ASSUME NEW c \in Calls, FinalizerSign(f, c) PROVE TypeOK'
  <2>1. call' \in [Flows -> [Calls -> {"idle", "sign", "delete"}]]
    BY <1>4, CallType DEF FinalizerSign
  <2>2. refused' \subseteq Flows /\ disturbed' \subseteq Flows
    BY <1>4 DEF FinalizerSign, Failing, Answer
  <2>3. signed' \subseteq Flows
    BY <1>4 DEF FinalizerSign
  <2>4. QED BY <1>4, <2>1, <2>2, <2>3 DEF FinalizerSign
<1>5. ASSUME NEW c \in Calls, FinalizerDelete(f, c) PROVE TypeOK'
  <2>1. call' \in [Flows -> [Calls -> {"idle", "sign", "delete"}]]
    BY <1>5, CallType DEF FinalizerDelete
  <2>2. refused' \subseteq Flows /\ disturbed' \subseteq Flows
    BY <1>5 DEF FinalizerDelete, Failing, Answer
  <2>3. /\ file' \in [Flows -> Statuses \union {"absent", "empty"}]
        /\ deleted' \subseteq Flows /\ delivered' \subseteq Flows
    BY <1>5 DEF FinalizerDelete
  <2>4. QED BY <1>5, <2>1, <2>2, <2>3 DEF FinalizerDelete
<1>6. QED BY <1>1, <1>2, <1>3, <1>4, <1>5 DEF MarkerStep, CallStep

ProcessStep ==
  Receive \/ LauncherStops \/ Shutdown \/ Drained \/ DrainTimesOut \/ Crash \/ Restart

\* What receiving does to the channel.
LEMMA ReceiveBus ==
  ASSUME DevInv, Receive
  PROVE  /\ Head(bus) \in Flows /\ Head(bus) = bus[1] /\ 1 \in 1 .. Len(bus)
         /\ bus' \in Seq(Flows) /\ Len(bus') = Len(bus) - 1
         /\ \A i \in 1 .. Len(bus') : bus'[i] = bus[i + 1] /\ i + 1 \in 1 .. Len(bus)
BY DEF DevInv, TypeOK, Receive

LEMMA ProcessTypes ==
  ASSUME DevInv, ProcessStep
  PROVE  TypeOK'
<1> USE DEF DevInv, TypeOK, Statuses, loop, store, verification, finalizer, history
<1>1. CASE Receive
  BY <1>1, ReceiveBus, DevAssumption DEF Receive
<1>2. CASE LauncherStops BY <1>2 DEF LauncherStops
<1>3. CASE Shutdown BY <1>3 DEF Shutdown
<1>4. CASE Drained BY <1>4 DEF Drained
<1>5. CASE DrainTimesOut BY <1>5 DEF DrainTimesOut
<1>6. CASE Crash BY <1>6 DEF Crash
<1>7. CASE Restart
  BY <1>7, DevAssumption DEF Restart
<1>8. QED BY <1>1, <1>2, <1>3, <1>4, <1>5, <1>6, <1>7 DEF ProcessStep

-------------------------------------------------------------------------------
\* A worker that moves on leaves the launches in order.
LEMMA WorkerLaunches ==
  ASSUME DevInv, NEW f \in Flows, worker[f] \notin {"none", "failed"},
         UNCHANGED <<bus, initializer>>,
         NEW to, to # "none", worker' = [worker EXCEPT ![f] = to],
         \/ to # "failed" /\ marker' = marker
         \/ to = "failed" /\ marker' = [marker EXCEPT ![f] = "get"],
         \/ attempts' = attempts
         \/ /\ attempts' = [attempts EXCEPT ![f] = attempts[f] + 1]
            /\ to = "failed" \/ attempts[f] + 1 <= MaxAttempts
  PROVE  LaunchInv'
<1> USE DEF DevInv, TypeOK, LaunchInv, Early
<1>0. \A i \in 1 .. Len(bus) : bus[i] \in Flows /\ bus[i] # f
  OBVIOUS
<1>1. worker'[f] = to /\ \A g \in Flows : g # f => worker'[g] = worker[g]
  OBVIOUS
<1>2. \A g \in Flows : initializer'[g] \in Early => worker'[g] = "none"
  BY <1>1
<1>3. \A i \in 1 .. Len(bus') : /\ worker'[bus'[i]] = "none"
                                /\ initializer'[bus'[i]] \notin Early
                                /\ \A j \in 1 .. Len(bus') : bus'[i] = bus'[j] => i = j
  BY <1>0, <1>1
<1>4. \A g \in Flows : marker'[g] \in {"get", "create", "encode"} => worker'[g] = "failed"
  BY <1>1
<1>5. \A g \in Flows : worker'[g] # "failed" => attempts'[g] <= MaxAttempts
  BY <1>1
<1>6. QED BY <1>2, <1>3, <1>4, <1>5

LEMMA VerifierLaunches ==
  ASSUME DevInv, NEW f \in Flows,
         VerifierGet(f) \/ ChallengeFails(f) \/ VerifierPut(f)
  PROVE  LaunchInv'
<1>1. UNCHANGED <<bus, initializer>>
  BY DEF VerifierGet, ChallengeFails, VerifierPut, loop
<1>2. worker[f] \in {"get", "challenge", "create", "encode"}
  BY DEF VerifierGet, ChallengeFails, VerifierPut
<1>3. CASE Unsuccessful(f)
  <2>1. CASE /\ attempts[f] + 1 <= MaxAttempts
             /\ worker' = [worker EXCEPT ![f] = "pause"]
             /\ marker' = marker
    BY <1>1, <1>2, <1>3, <2>1, UnsuccessfulTypes, WorkerLaunches
  <2>2. CASE /\ worker' = [worker EXCEPT ![f] = "failed"]
             /\ marker' = [marker EXCEPT ![f] = "get"]
    BY <1>1, <1>2, <1>3, <2>2, UnsuccessfulTypes, WorkerLaunches
  <2>3. QED BY <1>2, <1>3, <2>1, <2>2, UnsuccessfulTypes
<1>4. CASE ~Unsuccessful(f)
  <2>1. attempts' = attempts
    BY <1>4 DEF VerifierGet, ChallengeFails, VerifierPut
  <2>2. CASE GiveUp(f)
    BY <1>1, <1>2, <2>1, <2>2, WorkerLaunches DEF GiveUp
  <2>3. CASE ~GiveUp(f)
    <3>1. marker' = marker
      BY <1>4, <2>3 DEF VerifierGet, ChallengeFails, VerifierPut
    <3>2. \E to \in {"challenge", "encode", "success"} :
             worker' = [worker EXCEPT ![f] = to]
      BY <1>2, <1>4, <2>3 DEF VerifierGet, ChallengeFails, VerifierPut
    <3>3. QED BY <1>1, <1>2, <2>1, <3>1, <3>2, WorkerLaunches
  <2>4. QED BY <2>2, <2>3
<1>5. QED BY <1>3, <1>4

\* A flow's step other than its launch leaves the launches in order.
LEMMA FlowLaunches ==
  ASSUME DevInv, NEW f \in Flows, FlowStep(f), ~Launch(f)
  PROVE  LaunchInv'
<1> USE DEF DevInv, TypeOK, LaunchInv, Early, loop, store, verification, finalizer,
            history
<1>0. \A i \in 1 .. Len(bus) : bus[i] \in Flows
  OBVIOUS
<1>1. CASE Expire(f) BY <1>1 DEF Expire
<1>2. CASE Start(f) BY <1>0, <1>2 DEF Start
<1>3. CASE InitializerReject(f) BY <1>0, <1>3 DEF InitializerReject
<1>4. CASE InitializerPut(f) BY <1>0, <1>4 DEF InitializerPut
<1>5. CASE VerifierGet(f) \/ ChallengeFails(f) \/ VerifierPut(f)
  BY <1>5, VerifierLaunches
<1>7. CASE ChallengeAnswered(f) BY <1>0, <1>7 DEF ChallengeAnswered
<1>9. CASE Pause(f) BY <1>0, <1>9 DEF Pause
<1>10. CASE MarkerGet(f) BY <1>0, <1>10 DEF MarkerGet
<1>11. CASE MarkerPut(f) BY <1>0, <1>11 DEF MarkerPut
<1>12. CASE \E c \in Calls : FinalizerGet(f, c)
  BY <1>12 DEF FinalizerGet
<1>13. CASE \E c \in Calls : CallStep(f, c)
  BY <1>13 DEF CallStep, FinalizerSign, FinalizerDelete
<1>14. QED
  BY <1>1, <1>2, <1>3, <1>4, <1>5, <1>7, <1>9, <1>10, <1>11, <1>12, <1>13
     DEF FlowStep, StartStep, WorkerStep, MarkerStep

LEMMA LaunchLaunches ==
  ASSUME DevInv, NEW f \in Flows, Launch(f)
  PROVE  LaunchInv'
<1> USE DEF DevInv, TypeOK, LaunchInv, Early, loop, store, verification, finalizer,
            history
<1>1. /\ Len(bus') = Len(bus) + 1 /\ bus'[Len(bus) + 1] = f
      /\ \A i \in 1 .. Len(bus) : bus'[i] = bus[i] /\ bus[i] \in Flows /\ bus[i] # f
  BY DEF Launch
<1>2. \A i \in 1 .. Len(bus') : i \in 1 .. Len(bus) \/ i = Len(bus) + 1
  BY <1>1
<1>3. /\ initializer' = [initializer EXCEPT ![f] = "ok"]
      /\ UNCHANGED <<worker, marker, attempts>>
  BY DEF Launch
<1>4. \A i \in 1 .. Len(bus') : /\ worker'[bus'[i]] = "none"
                                /\ initializer'[bus'[i]] \notin Early
  BY <1>1, <1>2, <1>3 DEF Launch
<1>5. \A i, j \in 1 .. Len(bus') : bus'[i] = bus'[j] => i = j
  <2>1. \A i, j \in 1 .. Len(bus) : bus[i] = bus[j] => i = j
    OBVIOUS
  <2>2. SUFFICES ASSUME NEW i \in 1 .. Len(bus'), NEW j \in 1 .. Len(bus'),
                        bus'[i] = bus'[j]
                 PROVE  i = j
    OBVIOUS
  <2>3. CASE i \in 1 .. Len(bus) /\ j \in 1 .. Len(bus)
    BY <1>1, <2>1, <2>2, <2>3
  <2>4. CASE i = Len(bus) + 1 \/ j = Len(bus) + 1
    BY <1>1, <1>2, <2>2, <2>4
  <2>5. QED BY <1>2, <2>3, <2>4
<1>6. QED BY <1>3, <1>4, <1>5

LEMMA ProcessLaunches ==
  ASSUME DevInv, ProcessStep
  PROVE  LaunchInv'
<1> USE DEF DevInv, TypeOK, LaunchInv, Early, loop, store, verification, finalizer,
            history
<1>1. CASE Receive
  <2>1. \A i \in 1 .. Len(bus') : bus'[i] # Head(bus) /\ bus'[i] \in Flows
    <3>1. SUFFICES ASSUME NEW i \in 1 .. Len(bus')
                   PROVE  bus'[i] # bus[1] /\ bus'[i] \in Flows
      BY <1>1, ReceiveBus
    <3>2. bus'[i] = bus[i + 1] /\ i + 1 \in 1 .. Len(bus) /\ 1 \in 1 .. Len(bus)
      BY <1>1, ReceiveBus
    <3>3. i + 1 # 1
      OBVIOUS
    <3>4. bus[i + 1] # bus[1]
      BY <3>2, <3>3
    <3>5. bus[i + 1] \in Flows
      BY <3>2
    <3>6. QED BY <3>2, <3>4, <3>5
  <2>2. worker' = [worker EXCEPT ![Head(bus)] = "get"] /\ worker[Head(bus)] = "none"
    BY <1>1, ReceiveBus DEF Receive
  <2>3. \A i \in 1 .. Len(bus') : /\ worker'[bus'[i]] = "none"
                                  /\ initializer'[bus'[i]] \notin Early
    BY <1>1, <2>1, <2>2, ReceiveBus DEF Receive
  <2>4. \A i, j \in 1 .. Len(bus') : bus'[i] = bus'[j] => i = j
    BY <1>1, ReceiveBus
  <2>5. \A g \in Flows : initializer'[g] \in Early => worker'[g] = "none"
    BY <1>1, <2>2, ReceiveBus DEF Receive
  <2>6. QED BY <1>1, <2>2, <2>3, <2>4, <2>5, ReceiveBus DEF Receive
<1>2. CASE LauncherStops BY <1>2 DEF LauncherStops
<1>3. CASE Shutdown BY <1>3 DEF Shutdown
<1>4. CASE Drained BY <1>4 DEF Drained
<1>5. CASE DrainTimesOut BY <1>5 DEF DrainTimesOut
<1>6. CASE Crash BY <1>6 DEF Crash
<1>7. CASE Restart
  BY <1>7 DEF Restart
<1>8. QED BY <1>1, <1>2, <1>3, <1>4, <1>5, <1>6, <1>7 DEF ProcessStep

-------------------------------------------------------------------------------
\* No step breaks the chain from the proof to the token.
LEMMA FlowProofs ==
  ASSUME DevInv, NEW f \in Flows, FlowStep(f)
  PROVE  ProofInv'
<1> USE DEF DevInv, TypeOK, Statuses, LaunchInv, Early, ProofInv, loop, store,
            verification, finalizer, history
<1>1. CASE Expire(f) BY <1>1 DEF Expire
<1>2. CASE Start(f) BY <1>2 DEF Start
<1>3. CASE InitializerReject(f) BY <1>3 DEF InitializerReject
<1>4. CASE InitializerPut(f) BY <1>4 DEF InitializerPut, Create, Encode
<1>5. CASE Launch(f) BY <1>5 DEF Launch
<1>6. CASE VerifierGet(f)
  BY <1>6 DEF VerifierGet, Unsuccessful, GiveUp
<1>7. CASE ChallengeFails(f)
  BY <1>7 DEF ChallengeFails, Unsuccessful, GiveUp
<1>8. CASE ChallengeAnswered(f) BY <1>8 DEF ChallengeAnswered
<1>9. CASE VerifierPut(f)
  <2>1. /\ worker[f] \in {"create", "encode"} /\ f \in proved
        /\ UNCHANGED <<call, proved, signed, deleted>>
    BY <1>9 DEF VerifierPut
  <2>2. PICK status \in {"empty", "success", "absent"},
             to \in {"encode", "success", "failed"} :
          /\ file' = file \/ file' = [file EXCEPT ![f] = status]
          /\ worker' = [worker EXCEPT ![f] = to]
          /\ file' # file /\ status = "success" => to = "success"
    BY <1>9 DEF VerifierPut, Create, Encode, GiveUp
  <2>3. f \notin deleted /\ file[f] # "success"
    BY <2>1
  <2>4. QED BY <2>1, <2>2, <2>3
<1>10. CASE Pause(f) BY <1>10 DEF Pause
<1>11. CASE MarkerGet(f) BY <1>11 DEF MarkerGet
<1>12. CASE MarkerPut(f) BY <1>12 DEF MarkerPut, Create, Encode
<1>13. ASSUME NEW c \in Calls, FinalizerGet(f, c) PROVE ProofInv'
  <2>1. UNCHANGED <<file, worker, proved, signed, deleted>>
    BY <1>13 DEF FinalizerGet
  <2>2. CASE Decision(f) = "sign" /\ call' = [call EXCEPT ![f][c] = "sign"]
    <3>1. worker[f] = "success"
      BY <2>2 DEF Decision
    <3>2. QED BY <2>1, <2>2, <3>1
  <2>3. CASE call' = call
    BY <2>1, <2>3
  <2>4. QED BY <1>13, <2>2, <2>3 DEF FinalizerGet
<1>14. ASSUME NEW c \in Calls, FinalizerSign(f, c) PROVE ProofInv'
  <2>1. /\ UNCHANGED <<file, worker, proved, deleted>>
        /\ call[f][c] = "sign" /\ worker[f] = "success" /\ f \in proved
    BY <1>14 DEF FinalizerSign
  <2>2. CASE call' = [call EXCEPT ![f][c] = "delete"] /\ signed' = signed \union {f}
    BY <2>1, <2>2
  <2>3. CASE call' = [call EXCEPT ![f][c] = "idle"] /\ signed' = signed
    BY <2>1, <2>3
  <2>4. QED BY <1>14, <2>2, <2>3 DEF FinalizerSign
<1>15. CASE \E c \in Calls : FinalizerDelete(f, c)
  BY <1>15 DEF FinalizerDelete
<1>16. QED
  BY <1>1, <1>2, <1>3, <1>4, <1>5, <1>6, <1>7, <1>8, <1>9, <1>10, <1>11, <1>12,
     <1>13, <1>14, <1>15 DEF FlowStep, StartStep, WorkerStep, MarkerStep, CallStep

LEMMA ProcessProofs ==
  ASSUME DevInv, ProcessStep
  PROVE  ProofInv'
<1> USE DEF DevInv, TypeOK, LaunchInv, Early, ProofInv, loop, store, verification,
            finalizer, history
<1>1. CASE Receive
  <2>1. /\ Head(bus) \in Flows /\ worker[Head(bus)] = "none"
        /\ worker' = [worker EXCEPT ![Head(bus)] = "get"]
    BY <1>1, ReceiveBus DEF Receive
  <2>2. UNCHANGED <<file, call, proved, signed, deleted>>
    BY <1>1 DEF Receive
  <2>3. QED BY <2>1, <2>2
<1>2. CASE LauncherStops BY <1>2 DEF LauncherStops
<1>3. CASE Shutdown BY <1>3 DEF Shutdown
<1>4. CASE Drained BY <1>4 DEF Drained
<1>5. CASE DrainTimesOut BY <1>5 DEF DrainTimesOut
<1>6. CASE Crash BY <1>6 DEF Crash
<1>7. CASE Restart BY <1>7 DEF Restart
<1>8. QED BY <1>1, <1>2, <1>3, <1>4, <1>5, <1>6, <1>7 DEF ProcessStep

-------------------------------------------------------------------------------
\* An answer leaves every other flow's refusals justified.
LEMMA AnswerJustified ==
  ASSUME DevInv, NEW f \in Flows, NEW a, Answer(f, a),
         UNCHANGED <<marked, expired, deleted>>, disturbed \subseteq disturbed',
         a \in {"403", "404", "500"} =>
           f \in marked' \union expired' \union deleted' \union disturbed'
  PROVE  RefusalJustified'
BY DEF DevInv, TypeOK, RefusalInv, RefusalJustified, Answer

\* The initializer's writes make no flow absent or failed.
LEMMA RefusalKept ==
  ASSUME DevInv, NEW f \in Flows,
         UNCHANGED <<expired, refused, marked, deleted, disturbed>>,
         \A g \in Flows : g # f => initializer'[g] = initializer[g]
                              /\ file'[g] = file[g],
         file'[f] \in {file[f], "empty", "pending"},
         initializer'[f] = "error" \/ (file'[f] = "absent" => f \in deleted)
  PROVE  RefusalInv'
<1>1. RefusalJustified'
  BY DEF DevInv, RefusalInv, RefusalJustified
<1>2. \A g \in Flows : file'[g] = "failed" => g \in marked'
  BY DEF DevInv, RefusalInv
<1>3. \A g \in Flows : initializer'[g] \in {"encode", "send", "ok"} =>
                         file'[g] # "absent" \/ g \in deleted'
  BY DEF DevInv, RefusalInv
<1>4. QED BY <1>1, <1>2, <1>3 DEF RefusalInv

\* No step refuses a flow without a reason.
LEMMA FlowRefusals ==
  ASSUME DevInv, NEW f \in Flows, FlowStep(f)
  PROVE  RefusalInv'
<1> USE DEF DevInv, TypeOK, Statuses, LaunchInv, Early, ProofInv, RefusalInv, loop,
            store, verification, finalizer, history
<1>1. CASE Expire(f) BY <1>1 DEF Expire, RefusalJustified
<1>2. CASE Start(f) BY <1>2 DEF Start, RefusalJustified
<1>3. CASE InitializerReject(f)
  BY <1>3 DEF InitializerReject, RefusalJustified
<1>4. CASE InitializerPut(f)
  <2>1. UNCHANGED <<expired, refused, marked, deleted, disturbed>>
    BY <1>4 DEF InitializerPut
  <2>2. CASE initializer[f] = "create"
    <3>1. \/ initializer' = [initializer EXCEPT ![f] = "error"] /\ file' = file
          \/ /\ initializer' = [initializer EXCEPT ![f] = "encode"]
             /\ file' = [file EXCEPT ![f] = "empty"]
      BY <1>4, <2>2 DEF InitializerPut, Create
    <3>2. /\ \A g \in Flows : g # f => initializer'[g] = initializer[g]
                                     /\ file'[g] = file[g]
          /\ initializer'[f] = "error" \/ file'[f] = "empty"
          /\ file'[f] \in {file[f], "empty"}
      BY <3>1
    <3>3. QED BY <2>1, <3>2, RefusalKept
  <2>3. CASE initializer[f] = "encode"
    <3>1. \/ file' = file
          \/ file[f] # "absent" /\ file' = [file EXCEPT ![f] = "pending"]
      BY <1>4, <2>3 DEF InitializerPut, Encode
    <3>2. \E to \in {"send", "error"} : initializer' = [initializer EXCEPT ![f] = to]
      BY <1>4, <2>3 DEF InitializerPut
    <3>3. /\ \A g \in Flows : g # f => initializer'[g] = initializer[g]
                                     /\ file'[g] = file[g]
          /\ file'[f] \in {file[f], "empty", "pending"}
          /\ file'[f] = "absent" => f \in deleted
      BY <2>3, <3>1, <3>2
    <3>4. QED BY <2>1, <3>3, RefusalKept
  <2>4. QED BY <1>4, <2>2, <2>3 DEF InitializerPut
<1>5. CASE Launch(f) BY <1>5 DEF Launch, RefusalJustified
<1>6. CASE WorkerStep(f)
  <2>1. UNCHANGED <<initializer, expired, refused, marked, deleted, disturbed>>
    BY <1>6 DEF WorkerStep, VerifierGet, ChallengeFails, ChallengeAnswered,
                VerifierPut, Pause
  <2>2. \/ file' = file
        \/ \E status \in {"empty", "success"} : file' = [file EXCEPT ![f] = status]
    BY <1>6 DEF WorkerStep, VerifierGet, ChallengeFails, ChallengeAnswered,
                VerifierPut, Pause, Create, Encode
  <2>3. QED BY <2>1, <2>2 DEF RefusalJustified
<1>7. CASE MarkerGet(f) BY <1>7 DEF MarkerGet, RefusalJustified
<1>8. CASE MarkerPut(f)
  BY <1>8 DEF MarkerPut, Create, Encode, RefusalJustified
<1>9. ASSUME NEW c \in Calls, FinalizerGet(f, c) PROVE RefusalInv'
  <2>1. /\ UNCHANGED <<file, initializer, marked, expired, deleted>>
        /\ initializer[f] = "ok"
    BY <1>9 DEF FinalizerGet
  <2>2. RefusalJustified'
    <3>1. CASE UNCHANGED <<refused, disturbed>>
      BY <2>1, <3>1 DEF RefusalJustified
    <3>2. CASE Failing(f)
      BY <2>1, <3>2, AnswerJustified DEF Failing
    <3>3. CASE /\ Decision(f) # "sign" /\ Answer(f, Decision(f))
               /\ disturbed' = IF file[f] = "empty" THEN disturbed \union {f}
                                                    ELSE disturbed
      <4>1. Decision(f) \in {"403", "404", "500"} =>
              f \in marked \union expired \union deleted \union disturbed'
        BY <2>1, <3>3 DEF Decision
      <4>2. QED BY <2>1, <3>3, <4>1, AnswerJustified
    <3>4. QED BY <1>9, <3>1, <3>2, <3>3 DEF FinalizerGet
  <2>3. QED BY <2>1, <2>2
<1>10. ASSUME NEW c \in Calls, FinalizerSign(f, c) PROVE RefusalInv'
  <2>1. UNCHANGED <<file, initializer, marked, expired, deleted>>
    BY <1>10 DEF FinalizerSign
  <2>2. CASE UNCHANGED <<refused, disturbed>>
    BY <2>1, <2>2 DEF RefusalJustified
  <2>3. CASE Failing(f)
    BY <2>1, <2>3, AnswerJustified DEF Failing
  <2>4. QED BY <1>10, <2>2, <2>3 DEF FinalizerSign
<1>11. ASSUME NEW c \in Calls, FinalizerDelete(f, c) PROVE RefusalInv'
  <2>1. UNCHANGED <<initializer, marked, expired>>
    BY <1>11 DEF FinalizerDelete
  <2>2. CASE /\ file' = [file EXCEPT ![f] = "absent"]
             /\ deleted' = deleted \union {f}
             /\ UNCHANGED <<refused, disturbed>>
    BY <2>1, <2>2 DEF RefusalJustified
  <2>3. CASE Failing(f) /\ UNCHANGED <<file, deleted>>
    BY <2>1, <2>3, AnswerJustified DEF Failing
  <2>4. QED BY <1>11, <2>2, <2>3 DEF FinalizerDelete
<1>12. QED
  BY <1>1, <1>2, <1>3, <1>4, <1>5, <1>6, <1>7, <1>8, <1>9, <1>10, <1>11
     DEF FlowStep, StartStep, MarkerStep, CallStep

LEMMA ProcessRefusals ==
  ASSUME DevInv, ProcessStep
  PROVE  RefusalInv'
<1>1. /\ UNCHANGED <<file, expired, refused, marked, deleted, disturbed>>
      /\ \/ initializer' = initializer
         \/ initializer' = [g \in Flows |->
              IF initializer[g] \in {"create", "encode", "send"} THEN "error"
              ELSE initializer[g]]
  BY DEF ProcessStep, Receive, LauncherStops, Shutdown, Drained, DrainTimesOut,
         Crash, Restart, loop, store, finalizer, history
<1>2. QED BY <1>1 DEF DevInv, TypeOK, RefusalInv, RefusalJustified

-------------------------------------------------------------------------------
LEMMA DevStep ==
  ASSUME DevInv, [Next]_vars
  PROVE  DevInv'
<1>1. CASE \E f \in Flows : FlowStep(f)
  <2>1. PICK f \in Flows : FlowStep(f)
    BY <1>1
  <2>2. TypeOK'
    BY <2>1, StartTypes, WorkerTypes, OtherTypes DEF FlowStep
  <2>3. LaunchInv'
    BY <2>1, FlowLaunches, LaunchLaunches
  <2>4. QED BY <2>1, <2>2, <2>3, FlowProofs, FlowRefusals DEF DevInv
<1>2. CASE ProcessStep
  BY <1>2, ProcessTypes, ProcessLaunches, ProcessProofs, ProcessRefusals DEF DevInv
<1>3. CASE UNCHANGED vars
  <2>1. TypeOK' BY <1>3 DEF vars, loop, store, verification, finalizer, history,
                            DevInv, TypeOK
  <2>2. LaunchInv' BY <1>3 DEF vars, loop, store, verification, finalizer, history,
                               DevInv, LaunchInv
  <2>3. ProofInv' BY <1>3 DEF vars, loop, store, verification, finalizer, history,
                              DevInv, ProofInv
  <2>4. RefusalInv' BY <1>3 DEF vars, loop, store, verification, finalizer, history,
                                DevInv, RefusalInv, RefusalJustified
  <2>5. QED BY <2>1, <2>2, <2>3, <2>4 DEF DevInv
<1>4. QED BY <1>1, <1>2, <1>3 DEF Next, ProcessStep

\* The inductive invariant of the development gateway.
THEOREM DevInvHolds == Spec => []DevInv
<1>1. DevInv /\ [Next]_vars => DevInv'
  BY DevStep
<1>2. QED
  BY InitDev, <1>1, PTL DEF Spec

\* The types, and that the launcher's channel keeps its capacity and a worker
\* its number of attempts.
THEOREM DevTypeCorrect == Spec => []TypeOK
<1>1. DevInv => TypeOK
  BY DEF DevInv
<1>2. QED
  BY DevInvHolds, <1>1, PTL

\* The development gateway signs no token for a node that has not answered.
THEOREM DevTokenOnlyAfterProof == Spec => []TokenOnlyAfterProof
<1>1. DevInv => TokenOnlyAfterProof
  BY DEF DevInv, ProofInv, TokenOnlyAfterProof
<1>2. QED
  BY DevInvHolds, <1>1, PTL

\* Nothing writes to a flow whose token was handed out.
THEOREM ConsumedStaysConsumed == Spec => []DeletedStaysDeleted
<1>1. DevInv => DeletedStaysDeleted
  BY DEF DevInv, ProofInv, DeletedStaysDeleted
<1>2. QED
  BY DevInvHolds, <1>1, PTL

\* Every refusal has a cause that the flow's history shows.
THEOREM EveryRefusalJustified == Spec => []RefusalJustified
<1>1. DevInv => RefusalJustified
  BY DEF DevInv, RefusalInv
<1>2. QED
  BY DevInvHolds, <1>1, PTL

-------------------------------------------------------------------------------
\* Every step of the gateway is a step of the promise, or none at all.
LEMMA DevPromiseStep ==
  ASSUME DevInv, [Next]_vars
  PROVE  [Promise!Next]_(Promise!vars)
<1> USE DEF Promise!Next, Promise!vars, Promise!Prove, Promise!Sign, Promise!Deliver
<1>1. ASSUME NEW f \in Flows, FlowStep(f)
      PROVE  [Promise!Next]_(Promise!vars)
  <2>1. CASE ChallengeAnswered(f)
    BY <2>1 DEF ChallengeAnswered
  <2>2. ASSUME NEW c \in Calls, FinalizerSign(f, c)
        PROVE  [Promise!Next]_(Promise!vars)
    <3>1. f \in proved
      BY <2>2 DEF DevInv, ProofInv, FinalizerSign
    <3>2. QED BY <2>2, <3>1 DEF FinalizerSign
  <2>3. ASSUME NEW c \in Calls, FinalizerDelete(f, c)
        PROVE  [Promise!Next]_(Promise!vars)
    <3>1. f \in signed
      BY <2>3 DEF DevInv, ProofInv, FinalizerDelete
    <3>2. QED BY <2>3, <3>1 DEF FinalizerDelete
  <2>4. CASE \/ Expire(f) \/ Start(f) \/ StartStep(f) \/ MarkerStep(f)
             \/ \E c \in Calls : FinalizerGet(f, c)
    BY <2>4 DEF Expire, Start, StartStep, InitializerReject, InitializerPut, Launch,
                MarkerStep, MarkerGet, MarkerPut, FinalizerGet, history
  <2>5. CASE WorkerStep(f) /\ ~ChallengeAnswered(f)
    BY <2>5 DEF WorkerStep, VerifierGet, ChallengeFails, VerifierPut, Pause, history
  <2>6. QED BY <1>1, <2>1, <2>2, <2>3, <2>4, <2>5 DEF FlowStep, CallStep
<1>2. CASE ProcessStep \/ UNCHANGED vars
  BY <1>2 DEF ProcessStep, Receive, LauncherStops, Shutdown, Drained, DrainTimesOut,
              Crash, Restart, vars, history
<1>3. QED BY <1>1, <1>2 DEF Next, ProcessStep

\* The development gateway keeps the promise of token issuance.
THEOREM DevKeepsPromise == Spec => TokenPromiseHolds
<1>1. Init => Promise!Init
  BY DEF Init, Promise!Init
<1>2. DevInv /\ [Next]_vars => [Promise!Next]_(Promise!vars)
  BY DevPromiseStep
<1>3. QED
  BY <1>1, <1>2, DevInvHolds, PTL DEF Spec, TokenPromiseHolds, Promise!Spec

-------------------------------------------------------------------------------
\* The first attempt goes to the second address, the next one to the first.
TriedInv ==
  \A f \in Flows : /\ attempts[f] >= 2 => 1 \in tried[f]
                   /\ attempts[f] >= 3 => 0 \in tried[f]

LEMMA AttemptTries ==
  ASSUME DevInv, TriedInv, NEW f \in Flows, Tries(f),
         attempts' = attempts \/ (worker[f] # "failed" /\ Unsuccessful(f))
  PROVE  TriedInv'
<1>1. attempts' = attempts \/ attempts' = [attempts EXCEPT ![f] = attempts[f] + 1]
  BY UnsuccessfulTypes
<1>2. attempts \in [Flows -> Nat] /\ attempts[f] >= 1
  BY DevAssumption DEF DevInv, TypeOK
<1>3. tried' = [tried EXCEPT ![f] = tried[f] \union {Address(f)}]
  BY DEF Tries
<1>4. /\ attempts[f] = 1 => Address(f) = 1
      /\ attempts[f] = 2 => Address(f) = 0
  BY DEF Address, IPs
<1>5. ASSUME NEW g \in Flows, g # f
      PROVE  attempts'[g] = attempts[g] /\ tried'[g] = tried[g]
  BY <1>1, <1>3, <1>5 DEF DevInv, TypeOK
<1>6. /\ attempts'[f] \in {attempts[f], attempts[f] + 1}
      /\ tried'[f] = tried[f] \union {Address(f)}
  BY <1>1, <1>2, <1>3 DEF DevInv, TypeOK
<1>7. /\ attempts'[f] >= 2 => 1 \in tried'[f]
      /\ attempts'[f] >= 3 => 0 \in tried'[f]
  BY <1>2, <1>4, <1>6 DEF TriedInv
<1> QED BY <1>5, <1>7 DEF TriedInv

LEMMA TriedStep ==
  ASSUME DevInv, TriedInv, [Next]_vars
  PROVE  TriedInv'
<1>1. ASSUME NEW f \in Flows, VerifierGet(f)
      PROVE  TriedInv'
  <2>1. CASE UNCHANGED <<attempts, tried>>
    BY <2>1 DEF TriedInv
  <2>2. CASE Unsuccessful(f) /\ Tries(f)
    BY <1>1, <2>2, AttemptTries DEF VerifierGet
  <2> QED BY <1>1, <2>1, <2>2 DEF VerifierGet
<1>2. ASSUME NEW f \in Flows, ChallengeFails(f)
      PROVE  TriedInv'
  BY <1>2, AttemptTries DEF ChallengeFails
<1>3. ASSUME NEW f \in Flows, ChallengeAnswered(f)
      PROVE  TriedInv'
  BY <1>3, AttemptTries DEF ChallengeAnswered
<1>4. ASSUME UNCHANGED <<attempts, tried>>
      PROVE  TriedInv'
  BY <1>4 DEF TriedInv
<1>5. ASSUME NEW f \in Flows, FlowStep(f)
      PROVE  TriedInv'
  <2>1. CASE Expire(f) \/ Start(f) \/ StartStep(f) \/ MarkerStep(f) \/ VerifierPut(f) \/ Pause(f)
    BY <1>4, <2>1
    DEF Expire, Start, StartStep, InitializerReject, InitializerPut, Launch, MarkerStep,
        MarkerGet, MarkerPut, VerifierPut, Pause, verification, history
  <2>2. CASE \E c \in Calls : FinalizerGet(f, c) \/ CallStep(f, c)
    BY <1>4, <2>2
    DEF FinalizerGet, CallStep, FinalizerSign, FinalizerDelete, verification, history
  <2> QED BY <1>1, <1>2, <1>3, <1>5, <2>1, <2>2 DEF FlowStep, WorkerStep
<1>6. CASE Receive \/ LauncherStops \/ Shutdown \/ Drained \/ DrainTimesOut \/ Crash \/ Restart
  BY <1>4, <1>6
  DEF Receive, LauncherStops, Shutdown, Drained, DrainTimesOut, Crash, Restart,
      verification, history
<1>7. CASE UNCHANGED vars
  BY <1>4, <1>7 DEF vars, verification, history
<1> QED BY <1>5, <1>6, <1>7 DEF Next

\* Nobody is given up on with an address left to try: what EveryAddressTried says.
THEOREM NoAddressSkipped == Spec => []EveryAddressTried
<1>1. Init => TriedInv
  <2>1. Init => \A f \in Flows : attempts[f] = 1
    BY DEF Init
  <2>2. ~(1 >= 2) /\ ~(1 >= 3)
    OBVIOUS
  <2> QED BY <2>1, <2>2 DEF TriedInv
<1>2. DevInv /\ TriedInv => EveryAddressTried
  <2> SUFFICES ASSUME DevInv, TriedInv, MaxAttempts >= IPs,
                      NEW f \in Flows, attempts[f] > MaxAttempts
               PROVE  tried[f] = 0 .. IPs - 1
    BY DEF EveryAddressTried
  <2>1. attempts[f] >= 3
    BY DevAssumption DEF DevInv, TypeOK, IPs
  <2>2. 0 \in tried[f] /\ 1 \in tried[f]
    BY <2>1 DEF TriedInv, DevInv, TypeOK
  <2>3. tried[f] \subseteq 0 .. IPs - 1
    BY DEF DevInv, TypeOK
  <2> QED BY <2>2, <2>3 DEF IPs
<1> QED BY <1>1, <1>2, TriedStep, DevInvHolds, PTL DEF Spec
-------------------------------------------------------------------------------
(* No flow is lost.                                                        *)

Queued(f) == \E i \in 1 .. Len(bus) : bus[i] = f

\* A client that was told that its flow started, and whose flow no worker has
\* taken yet, has it in the launcher's channel, and the channel is read for as
\* long as the gateway serves: a handler that finds it full waits for somebody.
\* A flow that is given up is marked, unless that fails.
NoFlowIsLost ==
  /\ main = "serving" => launcher = "running"
  /\ \A f \in Flows :
       /\ initializer[f] = "ok" /\ worker[f] = "none" => Queued(f)
       /\ worker[f] = "failed" => marker[f] # "none"

LEMMA FlowNotLost ==
  ASSUME DevInv, NoFlowIsLost, NEW f \in Flows, FlowStep(f)
  PROVE  NoFlowIsLost'
<1> USE DEF DevInv, TypeOK, NoFlowIsLost
<1>0. main' = main /\ launcher' = launcher
  BY DEF FlowStep, Expire, Start, StartStep, InitializerReject, InitializerPut, Launch,
     WorkerStep, VerifierGet, ChallengeFails, ChallengeAnswered, VerifierPut, Pause,
     MarkerStep, MarkerGet, MarkerPut, FinalizerGet, CallStep, FinalizerSign,
     FinalizerDelete, loop
<1>1. CASE Launch(f)
  <2>1. /\ Len(bus') = Len(bus) + 1 /\ bus'[Len(bus) + 1] = f
        /\ \A i \in 1 .. Len(bus) : bus'[i] = bus[i]
    BY <1>1 DEF Launch
  <2>2. \A g \in Flows : Queued(g) => Queued(g)'
    BY <2>1 DEF Queued
  <2>3. Queued(f)'
    <3>1. Len(bus) + 1 \in 1 .. Len(bus')
      BY <2>1
    <3> QED BY <2>1, <3>1 DEF Queued
  <2>4. /\ \A g \in Flows : g # f => initializer'[g] = initializer[g]
        /\ worker' = worker /\ marker' = marker
    BY <1>1 DEF Launch, verification
  <2> QED BY <1>0, <2>2, <2>3, <2>4
<1>2. CASE bus' = bus /\ worker' = worker
           /\ \A g \in Flows : /\ initializer'[g] = "ok" => initializer[g] = "ok"
                               /\ marker[g] # "none" => marker'[g] # "none"
  BY <1>0, <1>2 DEF Queued
<1>3. CASE Expire(f) \/ Start(f) \/ InitializerReject(f) \/ InitializerPut(f)
  BY <1>2, <1>3 DEF Expire, Start, InitializerReject, InitializerPut, loop, verification
<1>4. CASE MarkerStep(f)
  BY <1>2, <1>4 DEF MarkerStep, MarkerGet, MarkerPut, loop
<1>5. CASE \E c \in Calls : FinalizerGet(f, c) \/ CallStep(f, c)
  BY <1>2, <1>5
  DEF FinalizerGet, CallStep, FinalizerSign, FinalizerDelete, loop, verification
<1>6. CASE WorkerStep(f)
  <2>1. UNCHANGED <<bus, initializer>>
    BY <1>6
    DEF WorkerStep, VerifierGet, ChallengeFails, ChallengeAnswered, VerifierPut, Pause,
        loop
  <2>2. \E to : /\ to # "none" /\ worker' = [worker EXCEPT ![f] = to]
                /\ \/ to # "failed" /\ marker' = marker
                   \/ marker' = [marker EXCEPT ![f] = "get"]
    BY <1>6
    DEF WorkerStep, VerifierGet, ChallengeFails, ChallengeAnswered, VerifierPut, Pause,
        Unsuccessful, GiveUp
  <2> QED BY <1>0, <2>1, <2>2 DEF Queued
<1> QED BY <1>1, <1>3, <1>4, <1>5, <1>6 DEF FlowStep, StartStep

LEMMA ProcessNotLost ==
  ASSUME DevInv, NoFlowIsLost, ProcessStep
  PROVE  NoFlowIsLost'
<1> USE DEF DevInv, TypeOK, NoFlowIsLost
<1>1. CASE Receive
  <2>1. /\ worker' = [worker EXCEPT ![bus[1]] = "get"] /\ bus[1] \in Flows
        /\ UNCHANGED <<main, launcher, initializer, marker>>
    BY <1>1, ReceiveBus DEF Receive
  <2>2. ASSUME NEW g \in Flows, g # bus[1], Queued(g)
        PROVE  Queued(g)'
    <3>1. PICK i \in 1 .. Len(bus) : bus[i] = g
      BY <2>2 DEF Queued
    <3>2. i - 1 \in 1 .. Len(bus') /\ (i - 1) + 1 = i
      BY <1>1, <2>2, <3>1, ReceiveBus
    <3>3. bus'[i - 1] = g
      BY <1>1, <3>1, <3>2, ReceiveBus
    <3> QED BY <3>2, <3>3 DEF Queued
  <2> QED BY <2>1, <2>2
<1>2. CASE LauncherStops \/ Shutdown \/ Drained \/ DrainTimesOut \/ Crash
  BY <1>2
  DEF LauncherStops, Shutdown, Drained, DrainTimesOut, Crash, Queued, verification
<1>3. CASE Restart
  <2>1. ASSUME NEW g \in Flows, initializer'[g] = "ok"
        PROVE  worker'[g] # "none"
    BY <1>3, <2>1 DEF Restart
  <2>2. ASSUME NEW g \in Flows, worker'[g] = "failed"
        PROVE  marker'[g] # "none"
    BY <1>3, <2>2 DEF Restart
  <2>3. launcher' = "running"
    BY <1>3 DEF Restart
  <2> QED BY <2>1, <2>2, <2>3
<1> QED BY <1>1, <1>2, <1>3 DEF ProcessStep

\* For any capacity of the channel and any crashes: no flow that was accepted is
\* dropped on its way to a worker, nor one that failed on its way to its mark.
\* The safety side of VerdictReached.
THEOREM NoAcceptedFlowIsLost == Spec => []NoFlowIsLost
<1>1. Init => NoFlowIsLost
  BY DEF Init, NoFlowIsLost
<1>2. DevInv /\ NoFlowIsLost /\ [Next]_vars => NoFlowIsLost'
  <2> SUFFICES ASSUME DevInv, NoFlowIsLost, [Next]_vars
               PROVE  NoFlowIsLost'
    OBVIOUS
  <2>1. CASE \E f \in Flows : FlowStep(f)
    BY <2>1, FlowNotLost
  <2>2. CASE ProcessStep
    BY <2>2, ProcessNotLost
  <2>3. CASE UNCHANGED vars
    BY <2>3 DEF vars, loop, verification, NoFlowIsLost, Queued
  <2> QED BY <2>1, <2>2, <2>3 DEF Next, ProcessStep
<1> QED
  BY <1>1, <1>2, DevInvHolds, PTL DEF Spec
================================================================================
