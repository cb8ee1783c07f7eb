----------------------------- MODULE Identity_proofs -----------------------------
(***************************************************************************)
(* Proofs about Identity: a token carries the identity of the node that    *)
(* answered its challenge, for any machines, flows and changes.            *)
(***************************************************************************)
EXTENDS Identity, SequenceTheorems, TLAPS

\* A record with one more field than another is another record.
LEMMA NodesExist == \A node \in Node : node \notin {Unborn, Gone}
<1> SUFFICES ASSUME NEW node \in Node PROVE node \notin {Unborn, Gone}
  OBVIOUS
<1>1. "block" \in DOMAIN node
  BY DEF Node
<1>2. "block" \notin DOMAIN Unborn /\ "block" \notin DOMAIN Gone
  BY DEF Unborn, Gone
<1> QED BY <1>1, <1>2

LEMMA UnbornIsNotGone == Unborn # Gone
BY DEF Unborn, Gone

\* What the control plane returns, and what it is stored in.
Info == [node : Ids, key : Ids \X Nat, dnsName : DNSNames, authorized : BOOLEAN,
         external : BOOLEAN, block : Blocks]

Answer == [id : Ids, tailnet : {"ours"}, dnsName : DNSNames]

Up(f) == server[f].state \in {"bound", "serving"}
Stored(f) == flow[f].phase \in {"pending", "success"}

\* The types, as far as the properties need them: what a field is that they do
\* not look at is left open.
TypeInv ==
  /\ backend \in Backends
  /\ control \in [Ids -> Node \union {Unborn, Gone}]
  /\ login \in [Machines -> [id : Ids, self : Node]]
  /\ DOMAIN flow = Flows /\ DOMAIN server = Flows
  /\ answers \in [Flows -> SUBSET Answer]
  /\ DOMAIN token = Flows

ServerInv(f) ==
  Up(f) => server[f] \in [state : {"bound", "serving"}, machine : Machines,
                          block : {server[f].block}, listeners : {server[f].listeners}]

\* Each machine is a node of its own, and a node stays in its tailnet.
LoginInv(m) ==
  /\ login[m].id \in Present
  /\ login[m].self.tailnet = control[login[m].id].tailnet
  /\ \A n \in Machines \ {m} : login[n].id # login[m].id

\* What is stored is what the control plane returned for a node.
FlowInv(f) ==
  Stored(f) =>
    /\ flow[f] \in [phase : {"pending", "success"}, info : Info,
                    machineName : {flow[f].machineName}, targets : {flow[f].targets}]
    /\ flow[f].info.key \in {flow[f].info.node} \X Nat
    /\ control[flow[f].info.node] # Unborn
    /\ flow[f].info.external /\ flow[f].info.node \in Present =>
         control[flow[f].info.node].tailnet # "ours"

\* A flow has succeeded because its own node has answered, from the tailnet.
AnswerInv(f) ==
  flow[f].phase = "success" =>
    /\ [id |-> flow[f].info.node, tailnet |-> "ours", dnsName |-> flow[f].info.dnsName]
         \in answers[f]
    /\ ~flow[f].info.external

\* There is one token of a flow, of the identity in one of its answers.
TokenInv(f) ==
  /\ flow[f].phase # "deleted" => token[f] = NoToken
  /\ token[f] # NoToken =>
       /\ [id |-> token[f].node, tailnet |-> token[f].tailnet,
           dnsName |-> token[f].dnsName] \in answers[f]
       /\ "external" \notin token[f].amr

IInv ==
  /\ TypeInv
  /\ \A m \in Machines : LoginInv(m)
  /\ \A f \in Flows : ServerInv(f) /\ FlowInv(f) /\ AnswerInv(f) /\ TokenInv(f)

-------------------------------------------------------------------------------
(* The invariant.                                                          *)

LEMMA InitInv == Init => IInv
<1> SUFFICES ASSUME Init PROVE IInv
  OBVIOUS
<1> USE DEF Init
<1>1. PICK kind \in Kinds :
        LET odd == CHOOSE m \in Machines : TRUE
            id == CHOOSE g \in [Machines -> Ids] : IsInjective(g)
            name == CHOOSE g \in [Machines -> Names] : IsInjective(g)
            block == CHOOSE g \in [Machines -> Blocks] : IsInjective(g)
            node(m) == [name |-> name[m], generation |-> 0, block |-> block[m],
                        tailnet |-> IF m = odd /\ kind = "shared" THEN "theirs" ELSE "ours",
                        authorized |-> ~(m = odd /\ kind = "waiting")]
        IN /\ login = [m \in Machines |-> [id |-> id[m], self |-> node(m)]]
           /\ control = [i \in Ids |->
                IF \E m \in Machines : id[m] = i
                  THEN node(CHOOSE m \in Machines : id[m] = i) ELSE Unborn]
  OBVIOUS
<1> DEFINE
  odd == CHOOSE m \in Machines : TRUE
  id == CHOOSE g \in [Machines -> Ids] : IsInjective(g)
  name == CHOOSE g \in [Machines -> Names] : IsInjective(g)
  block == CHOOSE g \in [Machines -> Blocks] : IsInjective(g)
  node(m) == [name |-> name[m], generation |-> 0, block |-> block[m],
              tailnet |-> IF m = odd /\ kind = "shared" THEN "theirs" ELSE "ours",
              authorized |-> ~(m = odd /\ kind = "waiting")]
<1>2. id \in [Machines -> Ids] /\ IsInjective(id)
  BY IdentityAssumption DEF Enough
<1>3. name \in [Machines -> Names] /\ block \in [Machines -> Blocks]
  BY IdentityAssumption DEF Enough
<1>4. \A m \in Machines : node(m) \in Node
  BY <1>3 DEF Node
<1>5. /\ login = [m \in Machines |-> [id |-> id[m], self |-> node(m)]]
      /\ control = [i \in Ids |->
           IF \E m \in Machines : id[m] = i
             THEN node(CHOOSE m \in Machines : id[m] = i) ELSE Unborn]
  BY <1>1
<1> HIDE DEF node, id, name, block
<1>6. \A m \in Machines : login[m].id \in Ids /\ control[login[m].id] = node(m)
  <2> SUFFICES ASSUME NEW m \in Machines
      PROVE  login[m].id \in Ids /\ control[login[m].id] = node(m)
    OBVIOUS
  <2>1. login[m].id = id[m] /\ id[m] \in Ids
    BY <1>2, <1>5
  <2>2. (CHOOSE n \in Machines : id[n] = id[m]) = m
    BY <1>2 DEF IsInjective
  <2> QED BY <1>5, <2>1, <2>2
<1>7. control \in [Ids -> Node \union {Unborn, Gone}]
  BY <1>4, <1>5
<1>8. TypeInv
  BY <1>2, <1>4, <1>5, <1>7 DEF TypeInv
<1>9. \A m \in Machines : LoginInv(m)
  <2>1. \A m \in Machines : login[m].id \in Present
    BY <1>4, <1>6, NodesExist DEF Present
  <2>2. \A m \in Machines : login[m].self.tailnet = control[login[m].id].tailnet
    BY <1>5, <1>6
  <2>3. \A m \in Machines : login[m].id = id[m]
    BY <1>5
  <2>4. \A m, n \in Machines : id[m] = id[n] => m = n
    BY <1>2 DEF IsInjective
  <2>5. \A m, n \in Machines : login[m].id = login[n].id => m = n
    BY ONLY <2>3, <2>4
  <2> QED BY <2>1, <2>2, <2>5 DEF LoginInv
<1>10. \A f \in Flows : ServerInv(f) /\ FlowInv(f) /\ AnswerInv(f) /\ TokenInv(f)
  BY DEF ServerInv, FlowInv, AnswerInv, TokenInv, Up, Stored, NoFlow, NoServer
<1> QED BY <1>8, <1>9, <1>10 DEF IInv

\* What happens in the tailnet: no node comes back or changes its tailnet, and a
\* machine is as it was, or as the control plane has it.
LEMMA TailnetSteps ==
  ASSUME IInv, UNCHANGED <<backend, flow, server, answers, token>>,
         control' \in [Ids -> Node \union {Unborn, Gone}],
         login' \in [Machines -> [id : Ids, self : Node]],
         \A i \in Ids : control[i] # Unborn =>
           /\ control'[i] # Unborn
           /\ i \in Present' =>
                i \in Present /\ control'[i].tailnet = control[i].tailnet,
         \A m \in Machines :
           /\ login'[m].id \in Present'
           /\ login'[m] = login[m] \/ login'[m].self = control'[login'[m].id]
           /\ \A n \in Machines \ {m} : login'[n].id # login'[m].id
  PROVE  IInv'
<1> USE DEF IInv
<1>1. TypeInv'
  BY DEF TypeInv
<1>2. ASSUME NEW m \in Machines PROVE LoginInv(m)'
  <2>1. CASE login'[m] = login[m]
    <3>1. login[m].id \in Ids
      BY DEF TypeInv
    <3> QED BY <2>1, <3>1, NodesExist DEF LoginInv, Present, TypeInv
  <2>2. CASE login'[m].self = control'[login'[m].id]
    BY <2>2 DEF LoginInv
  <2> QED BY <2>1, <2>2
<1>3. ASSUME NEW f \in Flows PROVE FlowInv(f)'
  <2>1. Stored(f) => flow[f].info.node \in Ids
    BY DEF FlowInv, Info
  <2> QED BY <2>1 DEF FlowInv, Stored
<1>4. ASSUME NEW f \in Flows PROVE (ServerInv(f) /\ AnswerInv(f) /\ TokenInv(f))'
  BY DEF ServerInv, AnswerInv, TokenInv, Up
<1> QED BY <1>1, <1>2, <1>3, <1>4

LEMMA NamesAreNames == \A node \in Node : ControlDNSName(node) \in DNSNames
BY DEF Node, ControlDNSName, DNSNames

LEMMA DaemonSteps ==
  ASSUME IInv, NEW f \in Flows,
         (\E m \in Machines : JobStarts(m, f)) \/ Answered(f) \/ Close(f)
  PROVE  IInv'
<1> USE DEF IInv
<1>1. /\ UNCHANGED <<backend, control, login, answers, token>>
      /\ \A g \in Flows \ {f} : flow'[g] = flow[g] /\ server'[g] = server[g]
      /\ DOMAIN flow' = Flows /\ DOMAIN server' = Flows
  BY DEF JobStarts, Answered, Close, TypeInv
<1>2. \/ flow'[f] = flow[f]
      \/ flow[f] = NoFlow /\ flow'[f].phase = "asked"
  BY DEF JobStarts, Answered, Close, TypeInv
<1>3. ServerInv(f)'
  <2>1. CASE \E m \in Machines : JobStarts(m, f)
    BY <2>1 DEF JobStarts, ServerInv, Up, TypeInv
  <2>2. CASE Answered(f)
    <3>1. server[f] \in [state : {"bound", "serving"}, machine : Machines,
                         block : {server[f].block}, listeners : {server[f].listeners}]
      BY <2>2 DEF Answered, ServerInv, Up
    <3>2. \/ server'[f] = [server[f] EXCEPT !.state = "serving"]
          \/ server'[f] = Closed
      BY <2>2 DEF Answered, TypeInv
    <3> QED BY <3>1, <3>2 DEF ServerInv, Up, Closed
  <2>3. CASE Close(f)
    BY <2>3 DEF Close, ServerInv, Up, Closed, TypeInv
  <2> QED BY <2>1, <2>2, <2>3
<1>4. (FlowInv(f) /\ AnswerInv(f) /\ TokenInv(f))'
  <2>1. CASE flow'[f] = flow[f]
    BY <1>1, <2>1 DEF FlowInv, AnswerInv, TokenInv, Stored, Present
  <2>2. CASE flow[f] = NoFlow /\ flow'[f].phase = "asked"
    <3>1. flow[f].phase = "unused"
      BY <2>2 DEF NoFlow
    <3> QED BY <1>1, <2>2, <3>1 DEF FlowInv, AnswerInv, TokenInv, Stored
  <2> QED BY <1>2, <2>1, <2>2
<1>5. ASSUME NEW g \in Flows \ {f}
      PROVE  (ServerInv(g) /\ FlowInv(g) /\ AnswerInv(g) /\ TokenInv(g))'
  BY <1>1, <1>5 DEF ServerInv, FlowInv, AnswerInv, TokenInv, Stored, Up, Present
<1>6. TypeInv' /\ \A m \in Machines : LoginInv(m)'
  BY <1>1 DEF TypeInv, LoginInv, Present
<1> QED BY <1>3, <1>4, <1>5, <1>6

LEMMA InitializeStep ==
  ASSUME IInv, NEW f \in Flows, Initialize(f)
  PROVE  IInv'
<1> USE DEF IInv
<1>1. /\ UNCHANGED <<backend, control, login, server, answers, token>>
      /\ \A g \in Flows \ {f} : flow'[g] = flow[g]
      /\ DOMAIN flow' = Flows
  BY DEF Initialize, TypeInv
<1>2. TypeInv' /\ \A m \in Machines : LoginInv(m)'
  BY <1>1 DEF TypeInv, LoginInv, Present
<1>3. ASSUME NEW g \in Flows \ {f}
      PROVE  (ServerInv(g) /\ FlowInv(g) /\ AnswerInv(g) /\ TokenInv(g))'
  BY <1>1, <1>3 DEF ServerInv, FlowInv, AnswerInv, TokenInv, Stored, Up, Present
<1>4. flow[f].phase = "asked" /\ flow'[f].phase \in {"pending", "refused"}
  BY DEF Initialize, TypeInv
<1>5. (ServerInv(f) /\ AnswerInv(f) /\ TokenInv(f))'
  BY <1>1, <1>4 DEF ServerInv, AnswerInv, TokenInv, Up
<1>6. FlowInv(f)'
  <2>1. CASE flow'[f].phase = "refused"
    BY <2>1 DEF FlowInv, Stored
  <2>2. CASE flow'[f].phase = "pending"
    <3> DEFINE i == flow[f].node
               info == NodeInfo(i)
    <3>1. /\ i \in Present
          /\ flow'[f] = [phase |-> "pending", info |-> info,
                         machineName |-> Head(info.dnsName),
                         targets |-> Targets(info, flow[f].ports)]
      BY <2>2 DEF Initialize, TypeInv
    <3>2. i \in Ids /\ control[i] \in Node /\ control[i] # Unborn
      BY <3>1 DEF Present, TypeInv
    <3>3. /\ info \in Info /\ info.node = i /\ info.key \in {i} \X Nat
          /\ info.external => control[i].tailnet # "ours"
      BY <3>2, NamesAreNames
      DEF NodeInfo, HostedNodeInfo, HeadscaleNodeInfo, Key, Info, Node
    <3> QED BY <1>1, <3>1, <3>2, <3>3 DEF FlowInv, Stored
  <2> QED BY <1>4, <2>1, <2>2
<1> QED BY <1>2, <1>3, <1>5, <1>6

\* The signature tells the login, and the login its tailnet.
LEMMA PassingAnswer ==
  ASSUME IInv, NEW f \in Flows, flow[f].phase = "pending", NEW g \in Flows,
         NEW signature \in Passing(f, g)
  PROVE  /\ login[server[g].machine].id = flow[f].info.node
         /\ signature.tailnet = "ours" /\ signature.dnsName = flow[f].info.dnsName
         /\ flow[f].info \in Info /\ ~flow[f].info.external
<1> DEFINE on == login[server[g].machine]
           info == flow[f].info
<1>1. /\ Expected(f, signature) /\ signature \in Signatures(g, f)
      /\ server[g].state = "serving" /\ on.id \in Present
  BY DEF Passing, Reaches
<1>2. /\ signature.tailnet = on.self.tailnet /\ signature.key = Key(on.id, on.self)
      /\ signature.tailnet = "ours" /\ signature.dnsName = info.dnsName
      /\ signature.key = info.key
  BY <1>1 DEF Signatures, Expected
<1>3. FlowInv(f) /\ Stored(f) /\ ServerInv(g) /\ Up(g)
  BY <1>1 DEF IInv, Stored, Up
<1>4. info \in Info /\ info.key \in {info.node} \X Nat
  BY <1>3 DEF FlowInv
<1>5. on.id = info.node
  BY <1>2, <1>4 DEF Key
<1>6. LoginInv(server[g].machine)
  BY <1>3 DEF IInv, ServerInv
<1>7. control[info.node].tailnet = "ours"
  BY <1>1, <1>2, <1>5, <1>6 DEF LoginInv
<1>8. ~info.external
  BY <1>1, <1>3, <1>4, <1>5, <1>7 DEF FlowInv, Info
<1> QED BY <1>2, <1>4, <1>5, <1>8

LEMMA ChallengeStep ==
  ASSUME IInv, NEW f \in Flows, Challenge(f)
  PROVE  IInv'
<1> DEFINE info == flow[f].info
           answer == [id |-> info.node, tailnet |-> "ours", dnsName |-> info.dnsName]
<1>1. /\ UNCHANGED <<backend, control, login, server, token>>
      /\ \A g \in Flows \ {f} : flow'[g] = flow[g]
      /\ DOMAIN flow' = Flows
      /\ flow[f].phase = "pending"
      /\ flow'[f] = [flow[f] EXCEPT !.phase = "success"]
  BY DEF Challenge, IInv, TypeInv
<1>2. /\ answers' = [answers EXCEPT ![f] = answers[f] \union {answer}]
      /\ info \in Info /\ ~info.external
  <2>1. PICK g \in Flows : \E signature \in Passing(f, g) :
          answers' = [answers EXCEPT ![f] = answers[f] \union
            {[id |-> login[server[g].machine].id, tailnet |-> signature.tailnet,
              dnsName |-> signature.dnsName]}]
    BY DEF Challenge
  <2>2. PICK signature \in Passing(f, g) :
          answers' = [answers EXCEPT ![f] = answers[f] \union
            {[id |-> login[server[g].machine].id, tailnet |-> signature.tailnet,
              dnsName |-> signature.dnsName]}]
    BY <2>1
  <2>3. /\ login[server[g].machine].id = info.node
        /\ signature.tailnet = "ours" /\ signature.dnsName = info.dnsName
        /\ info \in Info /\ ~info.external
    BY <1>1, PassingAnswer
  <2> QED BY <2>2, <2>3
<1>3. answer \in Answer
  BY <1>2 DEF Answer, Info
<1>4. answers' \in [Flows -> SUBSET Answer] /\ answer \in answers'[f]
  BY <1>2, <1>3 DEF IInv, TypeInv
<1>5. \A g \in Flows : answers[g] \subseteq answers'[g]
  BY <1>2 DEF IInv, TypeInv
<1>6. /\ flow[f] \in [phase : {"pending", "success"}, info : Info,
                      machineName : {flow[f].machineName}, targets : {flow[f].targets}]
      /\ info.key \in {info.node} \X Nat /\ control[info.node] # Unborn
  BY <1>1 DEF IInv, FlowInv, Stored
<1>7. /\ flow'[f].phase = "success" /\ flow'[f].info = info
      /\ flow'[f] \in [phase : {"pending", "success"}, info : Info,
                       machineName : {flow'[f].machineName}, targets : {flow'[f].targets}]
  BY <1>1, <1>6
<1>8. (FlowInv(f) /\ AnswerInv(f))'
  BY <1>1, <1>2, <1>4, <1>6, <1>7 DEF FlowInv, AnswerInv
<1>9. (ServerInv(f) /\ TokenInv(f))'
  BY <1>1, <1>5, <1>7 DEF IInv, ServerInv, TokenInv, Up
<1>10. ASSUME NEW g \in Flows \ {f}
       PROVE  (ServerInv(g) /\ FlowInv(g) /\ AnswerInv(g) /\ TokenInv(g))'
  BY <1>1, <1>5, <1>10
  DEF IInv, ServerInv, FlowInv, AnswerInv, TokenInv, Stored, Up, Present
<1>11. TypeInv' /\ \A m \in Machines : LoginInv(m)'
  BY <1>1, <1>4 DEF IInv, TypeInv, LoginInv, Present
<1> QED BY <1>8, <1>9, <1>10, <1>11 DEF IInv

LEMMA FinalizeStep ==
  ASSUME IInv, NEW f \in Flows, Finalize(f)
  PROVE  IInv'
<1>1. /\ UNCHANGED <<backend, control, login, server, answers>>
      /\ \A g \in Flows \ {f} : flow'[g] = flow[g] /\ token'[g] = token[g]
      /\ DOMAIN flow' = Flows /\ DOMAIN token' = Flows
      /\ flow[f].phase = "success" /\ flow'[f].phase = "deleted"
      /\ token'[f] = Claims(f)
  BY DEF Finalize, IInv, TypeInv
<1>2. (ServerInv(f) /\ FlowInv(f) /\ AnswerInv(f))'
  BY <1>1 DEF IInv, ServerInv, FlowInv, AnswerInv, Stored, Up
<1>3. TokenInv(f)'
  <2>1. AnswerInv(f)
    BY DEF IInv
  <2>2. /\ token'[f].node = flow[f].info.node /\ token'[f].tailnet = "ours"
        /\ token'[f].dnsName = flow[f].info.dnsName
    BY <1>1 DEF Claims
  <2>3. "external" \notin token'[f].amr
    BY <1>1, <2>1 DEF Claims, AnswerInv
  <2> QED BY <1>1, <2>1, <2>2, <2>3 DEF AnswerInv, TokenInv
<1>4. ASSUME NEW g \in Flows \ {f}
      PROVE  (ServerInv(g) /\ FlowInv(g) /\ AnswerInv(g) /\ TokenInv(g))'
  BY <1>1, <1>4
  DEF IInv, ServerInv, FlowInv, AnswerInv, TokenInv, Stored, Up, Present
<1>5. TypeInv' /\ \A m \in Machines : LoginInv(m)'
  BY <1>1 DEF IInv, TypeInv, LoginInv, Present
<1> QED BY <1>2, <1>3, <1>4, <1>5 DEF IInv

\* Every change of the tailnet, and a machine that hears of it.
LEMMA ChangeSteps ==
  ASSUME IInv,
         \/ \E i \in Present : Rename(i) \/ Rekey(i) \/ Readdress(i) \/ Approve(i)
         \/ \E m \in Machines, i \in Ids : LogInAnew(m, i)
         \/ \E m \in Machines : Sync(m)
  PROVE  IInv'
<1> USE DEF IInv
<1>1. CASE \E i \in Present : Rename(i) \/ Rekey(i) \/ Readdress(i) \/ Approve(i)
  <2>1. PICK i \in Present : Rename(i) \/ Rekey(i) \/ Readdress(i) \/ Approve(i)
    BY <1>1
  <2>2. i \in Ids /\ control[i] \in Node /\ control[i] # Unborn
    BY DEF Present, TypeInv
  <2>3. UNCHANGED <<backend, flow, server, answers, token>> /\ login' = login
    BY <2>1 DEF Rename, Rekey, Readdress, Approve, Changes
  <2>4. \E node \in Node :
          node.tailnet = control[i].tailnet /\ control' = [control EXCEPT ![i] = node]
    <3>1. CASE Rename(i)
      <4>1. PICK name \in Names : control' = [control EXCEPT ![i].name = name]
        BY <3>1 DEF Rename, Changes, Unused
      <4> DEFINE node == [control[i] EXCEPT !.name = name]
      <4>2. node \in Node /\ node.tailnet = control[i].tailnet
        BY <2>2 DEF Node
      <4> QED BY <4>1, <4>2 DEF TypeInv
    <3>2. CASE Rekey(i)
      <4> DEFINE node == [control[i] EXCEPT !.generation = control[i].generation + 1]
      <4>2. node \in Node /\ node.tailnet = control[i].tailnet
        BY <2>2 DEF Node
      <4> QED BY <3>2, <4>2 DEF Rekey, Changes, TypeInv
    <3>3. CASE Readdress(i)
      <4>1. PICK block \in Blocks : control' = [control EXCEPT ![i].block = block]
        BY <3>3 DEF Readdress, Changes, Unused
      <4> DEFINE node == [control[i] EXCEPT !.block = block]
      <4>2. node \in Node /\ node.tailnet = control[i].tailnet
        BY <2>2 DEF Node
      <4> QED BY <4>1, <4>2 DEF TypeInv
    <3>4. CASE Approve(i)
      <4> DEFINE node == [control[i] EXCEPT !.authorized = TRUE]
      <4>2. node \in Node /\ node.tailnet = control[i].tailnet
        BY <2>2 DEF Node
      <4> QED BY <3>4, <4>2 DEF Approve, Changes, TypeInv
    <3> QED BY <2>1, <3>1, <3>2, <3>3, <3>4
  <2>5. PICK node \in Node :
          node.tailnet = control[i].tailnet /\ control' = [control EXCEPT ![i] = node]
    BY <2>4
  <2>6. control' \in [Ids -> Node \union {Unborn, Gone}]
    BY <2>5 DEF TypeInv
  <2>7. \A j \in Ids : control[j] # Unborn =>
          /\ control'[j] # Unborn
          /\ j \in Present' => j \in Present /\ control'[j].tailnet = control[j].tailnet
    BY <2>2, <2>5, NodesExist DEF Present, TypeInv
  <2>8. \A m \in Machines : login[m].id \in Present'
    BY <2>2, <2>5, NodesExist DEF LoginInv, Present, TypeInv
  <2> QED BY <2>3, <2>6, <2>7, <2>8, TailnetSteps DEF LoginInv, TypeInv
<1>2. CASE \E m \in Machines, i \in Ids : LogInAnew(m, i)
  <2>1. PICK m \in Machines, i \in Ids : LogInAnew(m, i)
    BY <1>2
  <2> DEFINE id == login[m].id
             old == control[id]
  <2>2. id \in Present /\ id \in Ids /\ old \in Node /\ i # id /\ control[i] = Unborn
    BY <2>1 DEF LogInAnew, LoginInv, Present, TypeInv
  <2>3. \E node \in Node :
          /\ control' = [control EXCEPT ![id] = Gone, ![i] = node]
          /\ login' = [login EXCEPT ![m] = [id |-> i, self |-> node]]
    <3>1. PICK place \in {<<old.name, old.block>>}
                            \union (Unused("name", Names) \X Unused("block", Blocks)) :
            LET node == [name |-> place[1], generation |-> 0, block |-> place[2],
                         tailnet |-> "ours", authorized |-> TRUE]
            IN /\ Changes([control EXCEPT ![id] = Gone, ![i] = node])
               /\ login' = [login EXCEPT ![m] = [id |-> i, self |-> node]]
      BY <2>1 DEF LogInAnew
    <3> DEFINE node == [name |-> place[1], generation |-> 0, block |-> place[2],
                        tailnet |-> "ours", authorized |-> TRUE]
    <3>2. place[1] \in Names /\ place[2] \in Blocks
      BY <2>2, <3>1 DEF Unused, Node
    <3>3. node \in Node
      BY <3>2 DEF Node
    <3> QED BY <3>1, <3>3 DEF Changes
  <2>4. PICK node \in Node :
          /\ control' = [control EXCEPT ![id] = Gone, ![i] = node]
          /\ login' = [login EXCEPT ![m] = [id |-> i, self |-> node]]
    BY <2>3
  <2>5. UNCHANGED <<backend, flow, server, answers, token>>
    BY <2>1 DEF LogInAnew, Changes
  <2>6. /\ control' \in [Ids -> Node \union {Unborn, Gone}]
        /\ login' \in [Machines -> [id : Ids, self : Node]]
    BY <2>4 DEF TypeInv
  <2>7. \A j \in Ids : control[j] # Unborn =>
          /\ control'[j] # Unborn
          /\ j \in Present' => j \in Present /\ control'[j].tailnet = control[j].tailnet
    BY <2>2, <2>4, NodesExist, UnbornIsNotGone DEF Present, TypeInv
  <2>8. login'[m].id = i /\ i \in Present' /\ login'[m].self = control'[i]
    BY <2>2, <2>4, NodesExist DEF Present, TypeInv
  <2>9. ASSUME NEW n \in Machines \ {m}
        PROVE  login'[n] = login[n] /\ login[n].id \in Present' /\ login[n].id # i
    <3>1. login[n].id \in Present /\ login[n].id \in Ids /\ login[n].id # id
      BY DEF LoginInv, Present, TypeInv
    <3> QED BY <2>2, <2>4, <3>1 DEF Present, TypeInv
  <2>10. \A n \in Machines :
           /\ login'[n].id \in Present'
           /\ login'[n] = login[n] \/ login'[n].self = control'[login'[n].id]
           /\ \A o \in Machines \ {n} : login'[o].id # login'[n].id
    BY <2>8, <2>9 DEF LoginInv
  <2> QED BY <2>5, <2>6, <2>7, <2>10, TailnetSteps
<1>3. CASE \E m \in Machines : Sync(m)
  <2>1. PICK m \in Machines : Sync(m)
    BY <1>3
  <2>2. login[m].id \in Ids /\ control[login[m].id] \in Node
    BY <2>1 DEF Sync, Present, TypeInv
  <2>3. UNCHANGED <<backend, flow, server, answers, token, control>>
    BY <2>1 DEF Sync
  <2>4. login' = [login EXCEPT ![m] = [id |-> login[m].id, self |-> control[login[m].id]]]
    <3>1. login[m] \in [id : Ids, self : Node]
      BY DEF TypeInv
    <3>2. [login[m] EXCEPT !.self = control[login[m].id]]
            = [id |-> login[m].id, self |-> control[login[m].id]]
      BY <3>1
    <3> QED BY <2>1, <3>2 DEF Sync
  <2>5. login' \in [Machines -> [id : Ids, self : Node]]
    BY <2>2, <2>4 DEF TypeInv
  <2>6. \A n \in Machines :
          /\ login'[n].id = login[n].id
          /\ login'[n] = login[n] \/ login'[n].self = control'[login'[n].id]
    BY <2>3, <2>4 DEF TypeInv
  <2>7. \A n \in Machines : login[n].id \in Present'
    BY <2>3 DEF LoginInv, Present
  <2>8. \A n \in Machines, o \in Machines : o # n => login[o].id # login[n].id
    BY DEF LoginInv
  <2> QED BY <2>3, <2>5, <2>6, <2>7, <2>8, TailnetSteps DEF TypeInv, Present
<1> QED BY <1>1, <1>2, <1>3

\* IInv holds of every reachable state.
THEOREM IdentityInv == Spec => []IInv
<1>1. IInv /\ [Next]_vars => IInv'
  <2> SUFFICES ASSUME IInv, [Next]_vars PROVE IInv'
    OBVIOUS
  <2>1. CASE UNCHANGED vars
    BY <2>1
    DEF vars, IInv, TypeInv, LoginInv, ServerInv, FlowInv, AnswerInv, TokenInv,
        Stored, Up, Present
  <2>2. CASE \E m \in Machines, f \in Flows : JobStarts(m, f)
    BY <2>2, DaemonSteps
  <2>3. CASE \E f \in Flows : Answered(f) \/ Close(f)
    BY <2>3, DaemonSteps
  <2>4. CASE \E f \in Flows : Initialize(f)
    BY <2>4, InitializeStep
  <2>5. CASE \E f \in Flows : Challenge(f)
    BY <2>5, ChallengeStep
  <2>6. CASE \E f \in Flows : Finalize(f)
    BY <2>6, FinalizeStep
  <2>7. CASE \/ \E i \in Present : Rename(i) \/ Rekey(i) \/ Readdress(i) \/ Approve(i)
             \/ \E m \in Machines, i \in Ids : LogInAnew(m, i)
             \/ \E m \in Machines : Sync(m)
    BY <2>7, ChangeSteps
  <2> QED BY <2>1, <2>2, <2>3, <2>4, <2>5, <2>6, <2>7 DEF Next
<1> QED BY InitInv, <1>1, PTL DEF Spec

-------------------------------------------------------------------------------
(* The properties.                                                         *)

\* A token was issued for a node that answered its challenge: finalizer/claims.go
\* copies what the initializer looked up, and the verifier compared.
THEOREM TokenIsAnswered == Spec => []AnsweredByNode
<1>1. IInv => AnsweredByNode
  <2> SUFFICES ASSUME IInv, NEW f \in Flows, token[f] # NoToken
      PROVE  /\ \E a \in answers[f] : a.id = token[f].node /\ a.tailnet = token[f].tailnet
             /\ "external" \notin token[f].amr
    BY DEF AnsweredByNode
  <2>1. /\ [id |-> token[f].node, tailnet |-> token[f].tailnet,
            dnsName |-> token[f].dnsName] \in answers[f]
        /\ "external" \notin token[f].amr
    BY DEF IInv, TokenInv
  <2> QED BY <2>1
<1> QED BY IdentityInv, <1>1, PTL

\* An answer is confirmed by the abstract node, a token is issued by the abstract
\* issuer, and any other step changes neither.
LEMMA StepKeepsPromise ==
  ASSUME IInv, IInv', [Next]_vars
  PROVE  [Promise!Next]_(Promise!vars)
<1> DEFINE confirmed == [f \in Flows |-> {Identified(a) : a \in answers[f]}]
           issued == [f \in Flows |->
                        IF token[f] = NoToken THEN {} ELSE {Identified(token[f])}]
<1>1. CASE answers' = answers /\ token' = token
  BY <1>1 DEF Promise!vars
<1>2. CASE \E f \in Flows : Challenge(f)
  <2>1. PICK f \in Flows : Challenge(f)
    BY <1>2
  <2>2. PICK g \in Flows : \E signature \in Passing(f, g) :
          answers' = [answers EXCEPT ![f] = answers[f] \union
            {[id |-> login[server[g].machine].id, tailnet |-> signature.tailnet,
              dnsName |-> signature.dnsName]}]
    BY <2>1 DEF Challenge
  <2>3. PICK answer : answers' = [answers EXCEPT ![f] = answers[f] \union {answer}]
    BY <2>2
  <2>4. answers \in [Flows -> SUBSET Answer] /\ answers' \in [Flows -> SUBSET Answer]
    BY DEF IInv, TypeInv
  <2>5. answer \in Answer
    BY <2>3, <2>4
  <2>6. Identified(answer) \in Identities
    BY <2>5 DEF Answer, Identified, Identities
  <2>7. confirmed' = [confirmed EXCEPT ![f] = confirmed[f] \union {Identified(answer)}]
    BY <2>3, <2>4 DEF Identified
  <2>8. UNCHANGED issued
    BY <2>1 DEF Challenge
  <2> QED BY <2>6, <2>7, <2>8 DEF Promise!Next, Promise!Confirm, Promise!vars
<1>3. CASE \E f \in Flows : Finalize(f)
  <2>1. PICK f \in Flows : Finalize(f)
    BY <1>3
  <2>2. /\ token[f] = NoToken /\ token'[f] = Claims(f)
        /\ \A g \in Flows \ {f} : token'[g] = token[g]
        /\ flow[f].phase = "success" /\ answers' = answers
    BY <2>1 DEF Finalize, IInv, TypeInv, TokenInv
  <2>3. flow[f].info \in Info
    BY <2>2 DEF IInv, FlowInv, Stored
  <2>4. token'[f] # NoToken /\ Identified(token'[f])
                                = [tailnet |-> "ours", dnsName |-> flow[f].info.dnsName]
    BY <2>2, <2>3, IdentityAssumption DEF Claims, NoToken, Identified, Info
  <2>5. Identified(token'[f]) \in confirmed[f]
    <3>1. [id |-> flow[f].info.node, tailnet |-> "ours", dnsName |-> flow[f].info.dnsName]
            \in answers[f]
      BY <2>2 DEF IInv, AnswerInv
    <3> QED BY <2>4, <3>1 DEF Identified
  <2>6. issued' = [issued EXCEPT ![f] = issued[f] \union {Identified(token'[f])}]
    BY <2>2, <2>4
  <2>7. UNCHANGED confirmed
    BY <2>2
  <2> QED BY <2>5, <2>6, <2>7 DEF Promise!Next, Promise!Issue, Promise!vars
<1> QED
  BY <1>1, <1>2, <1>3
  DEF Next, vars, JobStarts, Answered, Close, Initialize, Rename, Rekey, Readdress,
      Approve, LogInAnew, Sync, Changes

\* Tokens keep the promise: the detailed protocol implements IdentityPromise.
THEOREM IdentityRefinement == Spec => IdentityPromiseHolds
<1>1. Init => Promise!Init
  BY DEF Init, Promise!Init
<1>2. IInv /\ IInv' /\ [Next]_vars => [Promise!Next]_(Promise!vars)
  BY StepKeepsPromise
<1> QED BY <1>1, <1>2, IdentityInv, PTL DEF Spec, IdentityPromiseHolds, Promise!Spec

-------------------------------------------------------------------------------
(* A node that is left alone passes its challenge.                         *)

\* The root that tailscaled ends a name with is trimmed.
LEMMA RootTrimmed ==
  ASSUME NEW S, Root \in S, NEW s \in Seq(S), s # <<>>
  PROVE  Trimmed(s \o <<Root>>) = s
<1> DEFINE t == s \o <<Root>>
<1>1. <<Root>> \in Seq(S) /\ Len(<<Root>>) = 1 /\ <<Root>>[1] = Root
  OBVIOUS
<1>2. Len(s) \in Nat \ {0} /\ Len(t) = Len(s) + 1 /\ t[Len(t)] = Root
  BY <1>1, ConcatProperties, EmptySeq, LenProperties
<1>3. SubSeq(t, 1, Len(s)) = s
  BY <1>1, <1>2, SubSeqOfConcat1, SubSeqFull
<1> HIDE DEF t
<1>4. Last(t) = Root /\ Front(t) = s
  BY <1>2, <1>3 DEF Last, Front
<1> QED BY <1>4 DEF Trimmed, t

LEMMA OneLabel == ASSUME NEW a PROVE Trimmed(<<a>> \o <<>> \o <<Root>>) = <<a>>
<1> DEFINE S == {a, Root}
<1>1. Root \in S /\ <<a>> \in Seq(S) /\ <<a>> # <<>>
  OBVIOUS
<1> HIDE DEF S
<1>2. <<a>> \o <<>> = <<a>>
  BY <1>1, ConcatEmptySeq
<1> QED BY <1>1, <1>2, RootTrimmed

LEMMA TwoLabels == ASSUME NEW a, NEW b PROVE Trimmed(<<a>> \o <<b>> \o <<Root>>) = <<a, b>>
<1> DEFINE S == {a, b, Root}
<1>1. /\ Root \in S /\ <<a>> \in Seq(S) /\ <<b>> \in Seq(S)
      /\ <<a, b>> \in Seq(S) /\ <<a, b>> # <<>>
  OBVIOUS
<1> HIDE DEF S
<1>2. /\ <<a>> \o <<b>> \in Seq(S) /\ Len(<<a>> \o <<b>>) = 2
      /\ (<<a>> \o <<b>>)[1] = a /\ (<<a>> \o <<b>>)[2] = b
  BY <1>1, ConcatProperties
<1>3. Len(<<a, b>>) = 2 /\ <<a, b>>[1] = a /\ <<a, b>>[2] = b
  OBVIOUS
<1>4. \A i \in 1 .. Len(<<a>> \o <<b>>) : (<<a>> \o <<b>>)[i] = <<a, b>>[i]
  BY <1>2, <1>3
<1>5. <<a>> \o <<b>> = <<a, b>>
  <2> DEFINE s == <<a>> \o <<b>>
             t == <<a, b>>
  <2>1. s \in Seq(S) /\ t \in Seq(S) /\ Len(s) = Len(t) /\ \A i \in 1 .. Len(s) : s[i] = t[i]
    BY <1>1, <1>2, <1>3, <1>4
  <2> HIDE DEF s, t
  <2>2. s = t
    BY <2>1, SeqEqual
  <2> QED BY <2>2 DEF s, t
<1> QED BY <1>1, <1>5, RootTrimmed

\* But for headscale with MagicDNS, the daemon and the control plane name a node alike.
LEMMA NamesAgree ==
  ASSUME NEW node \in Node, backend \in Backends \ {"headscale with MagicDNS"}
  PROVE  SelfDNSName(node) = ControlDNSName(node)
<1>1. CASE backend = "hosted"
  BY <1>1, TwoLabels DEF SelfDNSName, ControlDNSName
<1>2. CASE backend = "headscale"
  BY <1>2, OneLabel DEF SelfDNSName, ControlDNSName
<1> QED BY <1>1, <1>2 DEF Backends

\* A port that is sent to the initializer is one that a listener has.
LEMMA PortsAreBound ==
  ASSUME NEW listeners \in Listeners, NEW family \in Families
  PROVE  [family |-> family, port |-> PortsOf(listeners)[family]] \in Range(listeners)
<1> DEFINE has == {n \in DOMAIN listeners : listeners[n].family = family}
<1>1. /\ listeners \in [1 .. 2 -> [family : Families, port : Ports]]
      /\ listeners[1].family # listeners[2].family
  BY DEF Listeners
<1>2. PICK n \in 1 .. 2 : has = {n}
  BY <1>1 DEF Families
<1>3. Max(has) = n
  BY <1>2 DEF Max
<1>4. PortsOf(listeners)[family] = listeners[n].port /\ listeners[n].family = family
  BY <1>2, <1>3 DEF PortsOf
<1> QED BY <1>1, <1>4 DEF Range

\* As long as the listeners of a flow are open, the verifier's requests for it, to
\* either address, are addressed to one of them.
PortInv(f) ==
  Up(f) => \A family \in Families :
    /\ flow[f].phase = "asked" =>
         [family |-> family, port |-> flow[f].ports[family]] \in server[f].listeners
    /\ flow[f].phase = "pending" =>
         /\ flow[f].targets[family].family = family
         /\ flow[f].targets[family].block = flow[f].info.block
         /\ [family |-> family, port |-> flow[f].targets[family].port]
              \in server[f].listeners

LEMMA PortStep ==
  ASSUME IInv, [Next]_vars, NEW f \in Flows, PortInv(f)
  PROVE  PortInv(f)'
<1>1. CASE flow'[f] = flow[f] /\ server'[f] = server[f]
  BY <1>1 DEF PortInv, Up
<1>2. CASE \E m \in Machines : JobStarts(m, f)
  <2>1. PICK m \in Machines : JobStarts(m, f)
    BY <1>2
  <2>2. PICK listeners \in Listeners :
          /\ server' = [server EXCEPT ![f] =
               [state |-> "bound", machine |-> m, block |-> login[m].self.block,
                listeners |-> Range(listeners)]]
          /\ flow' = [flow EXCEPT ![f] =
               [phase |-> "asked", node |-> login[m].id, ports |-> PortsOf(listeners)]]
    BY <2>1 DEF JobStarts
  <2>3. /\ flow'[f].phase = "asked" /\ flow'[f].ports = PortsOf(listeners)
        /\ server'[f].listeners = Range(listeners)
    BY <2>2 DEF IInv, TypeInv
  <2> QED BY <2>3, PortsAreBound DEF PortInv
<1>3. CASE Answered(f) \/ Close(f)
  <2>1. flow' = flow
    BY <1>3 DEF Answered, Close
  <2>2. \/ server'[f] = [server[f] EXCEPT !.state = "serving"] /\ Up(f)
        \/ server'[f] = Closed
    BY <1>3 DEF Answered, Close, IInv, TypeInv, Up
  <2>3. CASE server'[f] = [server[f] EXCEPT !.state = "serving"] /\ Up(f)
    <3>1. server[f] \in [state : {"bound", "serving"}, machine : Machines,
                         block : {server[f].block}, listeners : {server[f].listeners}]
      BY <2>3 DEF IInv, ServerInv
    <3>2. server'[f].listeners = server[f].listeners
      BY <2>3, <3>1
    <3> QED BY <2>1, <2>3, <3>2 DEF PortInv
  <2>4. CASE server'[f] = Closed
    BY <2>4 DEF PortInv, Up, Closed
  <2> QED BY <2>2, <2>3, <2>4
<1>4. CASE Initialize(f)
  <2>1. server' = server /\ flow[f].phase = "asked"
    BY <1>4 DEF Initialize
  <2>2. CASE flow' = [flow EXCEPT ![f] = [phase |-> "refused"]]
    <3>1. flow'[f].phase = "refused"
      BY <2>2 DEF IInv, TypeInv
    <3> QED BY <3>1 DEF PortInv
  <2>3. CASE flow' # [flow EXCEPT ![f] = [phase |-> "refused"]]
    <3> DEFINE info == NodeInfo(flow[f].node)
    <3>1. flow' = [flow EXCEPT ![f] =
            [phase |-> "pending", info |-> info, machineName |-> Head(info.dnsName),
             targets |-> Targets(info, flow[f].ports)]]
      BY <1>4, <2>3 DEF Initialize
    <3>2. /\ flow'[f].phase = "pending" /\ flow'[f].info = info
          /\ flow'[f].targets = Targets(info, flow[f].ports)
      BY <3>1 DEF IInv, TypeInv
    <3> HIDE DEF info
    <3> QED BY <2>1, <3>2 DEF PortInv, Targets, Up
  <2> QED BY <2>2, <2>3
<1>5. CASE Challenge(f) \/ Finalize(f)
  <2>1. flow'[f].phase \in {"success", "deleted"}
    <3>1. CASE Challenge(f)
      <4>1. flow[f].phase = "pending" /\ flow' = [flow EXCEPT ![f].phase = "success"]
        BY <3>1 DEF Challenge
      <4>2. flow[f] \in [phase : {"pending", "success"}, info : Info,
                         machineName : {flow[f].machineName}, targets : {flow[f].targets}]
        BY <4>1 DEF IInv, FlowInv, Stored
      <4> QED BY <4>1, <4>2 DEF IInv, TypeInv
    <3>2. CASE Finalize(f)
      BY <3>2 DEF Finalize, IInv, TypeInv
    <3> QED BY <1>5, <3>1, <3>2
  <2> QED BY <2>1 DEF PortInv
<1> QED
  BY <1>1, <1>2, <1>3, <1>4, <1>5
  DEF Next, vars, JobStarts, Answered, Close, Initialize, Challenge, Finalize, Rename,
      Rekey, Readdress, Approve, LogInAnew, Sync, Changes, IInv, TypeInv

\* refresher/callback.go signs what the initializer looked up, at the ports that
\* api/client.go sent, so that an undisturbed node is verified at every address.
THEOREM UndisturbedIsVerified == Spec => []StableNodeVerified
<1>1. Init => \A f \in Flows : PortInv(f)
  BY DEF Init, NoServer, PortInv, Up
<1>2. IInv /\ (\A f \in Flows : PortInv(f)) /\ [Next]_vars
        => (\A f \in Flows : PortInv(f))'
  BY PortStep
<1>3. IInv /\ (\A f \in Flows : PortInv(f)) => StableNodeVerified
  <2> SUFFICES ASSUME IInv, NEW f \in Flows, PortInv(f), Undisturbed(f)
      PROVE  /\ \A family \in Families : Reaches(flow[f].targets[family], f)
             /\ Passing(f, f) # {}
    BY DEF StableNodeVerified
  <2> DEFINE on == login[server[f].machine]
  <2>1. Up(f) /\ ServerInv(f) /\ flow[f].phase = "pending" /\ server[f].state = "serving"
    BY DEF Undisturbed, IInv, Up
  <2>2. server[f].machine \in Machines
    BY <2>1 DEF ServerInv
  <2>3. on.id \in Present /\ on.self \in Node
    BY <2>2 DEF IInv, LoginInv, TypeInv
  <2>4. \A family \in Families : Reaches(flow[f].targets[family], f)
    BY <2>1, <2>3 DEF PortInv, Undisturbed, Reaches
  <2>5. "v4" \in Families
    BY DEF Families
  <2>6. SelfDNSName(on.self) = flow[f].info.dnsName
    BY <2>3, NamesAgree DEF Undisturbed, IInv, TypeInv
  <2>7. \E signature \in Signatures(f, f) : Expected(f, signature)
    BY <2>6 DEF Signatures, Expected, Undisturbed
  <2> QED BY <2>4, <2>5, <2>7 DEF Passing
<1> QED BY IdentityInv, <1>1, <1>2, <1>3, PTL DEF Spec
=============================================================================
