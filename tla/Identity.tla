-------------------------------- MODULE Identity --------------------------------
(***************************************************************************)
(* Whose identity a token carries.  The daemon asks tailscaled who it is   *)
(* and starts a flow, the initializer asks the control plane about that    *)
(* node, the verifier compares what the daemon then says of itself with    *)
(* what was looked up, and the finalizer copies it into the claims.        *)
(* Meanwhile nodes are renamed, change keys or addresses, are approved and *)
(* log in anew, and a node learns what the control plane did later.        *)
(***************************************************************************)
EXTENDS Naturals, Functions, SequencesExt

CONSTANTS
  Machines,    \* the machines that run a daemon
  Ids,         \* node ids, one for each login; a bound on the logins
  Names,       \* machine names
  Blocks,      \* pairs of an IPv4 and an IPv6 address
  Ports,       \* ports that the kernel picks for listeners
  MaxFlows,    \* bounds the flows that are started
  MaxChanges   \* bounds what happens to the nodes

\* Each machine can have one of its own.
Enough(S) == \E g \in [Machines -> S] : IsInjective(g)

ASSUME IdentityAssumption ==
  /\ MaxFlows \in Nat /\ MaxChanges \in Nat
  /\ 0 \notin Ports
  /\ Enough(Ids) /\ Enough(Names) /\ Enough(Blocks)
  /\ "none" \notin Machines \union Ids

VARIABLES
  backend,  \* the control plane
  control,  \* what it knows of each node
  login,    \* the node that each machine is, and what it knows of itself
  flow,     \* the item of each flow
  server,   \* the listeners of each flow and their challenge servers
  answers,  \* history: who answered a challenge of each flow as expected
  token,    \* the claims of the token of each flow
  changes   \* how much has happened to the nodes

Flows == 1 .. MaxFlows

vars == <<backend, control, login, flow, server, answers, token, changes>>

Backends == {"hosted", "headscale", "headscale with MagicDNS"}
Families == {"v4", "v6"}

\* A node key is drawn at random: a new login, or a new generation of one,
\* shares it with no other.
Node == [name : Names, generation : Nat, tailnet : {"ours", "theirs"},
         authorized : BOOLEAN, block : Blocks]
Key(id, node) == <<id, node.generation>>

Unborn == [name |-> "unborn"]
Gone == [name |-> "gone"]
Present == {i \in Ids : control[i] \notin {Unborn, Gone}}

NoFlow == [phase |-> "unused"]
NoServer == [state |-> "unused"]
Closed == [state |-> "closed"]
NoToken == [node |-> "none"]

\* Only the hosted control plane shares nodes between tailnets and has devices
\* that wait for approval; at most one node is shared or waits.
Kinds == IF backend = "hosted" THEN {"ordinary", "shared", "waiting"} ELSE {"ordinary"}

\* One login for each machine; names and addresses are unique.  Which machine has
\* which, and which of them is the odd one, is immaterial.
Init ==
  /\ backend \in Backends
  /\ \E kind \in Kinds :
       LET odd == CHOOSE m \in Machines : TRUE
           id == CHOOSE g \in [Machines -> Ids] : IsInjective(g)
           name == CHOOSE g \in [Machines -> Names] : IsInjective(g)
           block == CHOOSE g \in [Machines -> Blocks] : IsInjective(g)
           node(m) == [name |-> name[m], generation |-> 0, block |-> block[m],
                       tailnet |-> IF m = odd /\ kind = "shared" THEN "theirs" ELSE "ours",
                       authorized |-> ~(m = odd /\ kind = "waiting")]
       IN /\ login = [m \in Machines |-> [id |-> id[m], self |-> node(m)]]
          /\ control = [i \in Ids |->
               IF \E m \in Machines : id[m] = i
                 THEN node(CHOOSE m \in Machines : id[m] = i) ELSE Unborn]
  /\ flow = [f \in Flows |-> NoFlow]
  /\ server = [f \in Flows |-> NoServer]
  /\ answers = [f \in Flows |-> {}]
  /\ token = [f \in Flows |-> NoToken]
  /\ changes = 0

-------------------------------------------------------------------------------
(* Names, as sequences of labels.                                          *)

\* The empty label behind the last dot.
Root == ""

\* TrimSuffix(name, ".").
Trimmed(name) == IF Last(name) = Root THEN Front(name) ELSE name

\* tailscaled ends a name with the root, and knows the domain if there is one.
SelfDNSName(node) ==
  Trimmed(<<node.name>> \o (IF backend = "headscale" THEN <<>> ELSE <<node.tailnet>>)
            \o <<Root>>)

\* The hosted API returns the full name, headscale's GivenName is one label.
ControlDNSName(node) ==
  IF backend = "hosted" THEN <<node.name, node.tailnet>> ELSE <<node.name>>

-------------------------------------------------------------------------------
(* The daemon starts a flow.                                               *)

\* A listener of every address, in the order in which tailscaled lists them.
Listeners == {l \in [1 .. 2 -> [family : Families, port : Ports]] :
                l[1].family # l[2].family /\ l[1].port # l[2].port}

\* Start keeps one port of each family, the last one, and 0 if there is none.
PortsOf(listeners) ==
  [family \in Families |->
     LET has == {n \in DOMAIN listeners : listeners[n].family = family}
     IN IF has = {} THEN 0 ELSE listeners[Max(has)].port]

\* No two listeners of a machine share an address and a port.
Free(m, listeners) ==
  \A g \in Flows :
    server[g].state \in {"bound", "serving"} /\ server[g].machine = m =>
      server[g].listeners \intersect Range(listeners) = {}

\* Job reads the status and binds; Start sends the id and the ports.
JobStarts(m, f) ==
  /\ flow[f] = NoFlow /\ \A g \in Flows : g < f => flow[g] # NoFlow
  /\ \E listeners \in Listeners :
       /\ Free(m, listeners)
       /\ server' = [server EXCEPT ![f] =
            [state |-> "bound", machine |-> m, block |-> login[m].self.block,
             listeners |-> Range(listeners)]]
       /\ flow' = [flow EXCEPT ![f] =
            [phase |-> "asked", node |-> login[m].id, ports |-> PortsOf(listeners)]]
  /\ UNCHANGED <<backend, control, login, answers, token, changes>>

\* The answer arrives: Job launches the servers, or releases the listeners.
Answered(f) ==
  /\ server[f].state = "bound"
  /\ \/ flow[f].phase = "pending" /\ server' = [server EXCEPT ![f].state = "serving"]
     \/ flow[f].phase # "asked" /\ server' = [server EXCEPT ![f] = Closed]
  /\ UNCHANGED <<backend, control, login, flow, answers, token, changes>>

\* The flow ends for the daemon, or the daemon ends.
Close(f) ==
  /\ server[f].state \in {"bound", "serving"}
  /\ server' = [server EXCEPT ![f] = Closed]
  /\ UNCHANGED <<backend, control, login, flow, answers, token, changes>>

-------------------------------------------------------------------------------
(* The initializer.                                                        *)

HostedNodeInfo(id) ==
  LET node == control[id] IN
    [node |-> id, key |-> Key(id, node), dnsName |-> ControlDNSName(node),
     authorized |-> node.authorized, external |-> node.tailnet # "ours",
     block |-> node.block]

\* headscale knows no other tailnet, and no approval.
HeadscaleNodeInfo(id) ==
  LET node == control[id] IN
    [node |-> id, key |-> Key(id, node), dnsName |-> ControlDNSName(node),
     authorized |-> TRUE, external |-> FALSE, block |-> node.block]

NodeInfo(id) ==
  IF backend = "hosted" THEN HostedNodeInfo(id) ELSE HeadscaleNodeInfo(id)

\* Mutant: the ports are taken in the order of the addresses.
TargetsCrossed(info, ports) ==
  [family \in Families |->
     [block |-> info.block, family |-> family,
      port |-> ports[IF family = "v4" THEN "v6" ELSE "v4"]]]

\* The port of its family is appended to each address.
Targets(info, ports) ==
  [family \in Families |->
     [block |-> info.block, family |-> family, port |-> ports[family]]]

\* A node that is not there is refused; the lookup, the write or the launch of
\* the verification may fail.
Initialize(f) ==
  /\ flow[f].phase = "asked"
  /\ \/ /\ flow[f].node \in Present
        /\ LET info == NodeInfo(flow[f].node) IN
             flow' = [flow EXCEPT ![f] =
               [phase |-> "pending", info |-> info,
                machineName |-> Head(info.dnsName),
                targets |-> Targets(info, flow[f].ports)]]
     \/ flow' = [flow EXCEPT ![f] = [phase |-> "refused"]]
  /\ UNCHANGED <<backend, control, login, server, answers, token, changes>>

-------------------------------------------------------------------------------
(* The challenge.                                                          *)

\* What the server of flow g answers about flow f: a signature, with the secret
\* of g, of the tailnet, name and key as tailscaled knows them now.  It knows
\* no other flow.
Signatures(g, f) ==
  LET on == login[server[g].machine] IN
    {[secret |-> o, tailnet |-> on.self.tailnet, dnsName |-> SelfDNSName(on.self),
      key |-> Key(on.id, on.self)] : o \in {g} \intersect {f}}

\* Mutant: the key is not compared.
ExpectedKeyless(f, signature) ==
  /\ signature.secret = f
  /\ signature.tailnet = "ours"
  /\ signature.dnsName = flow[f].info.dnsName

\* Mutant: the name is not compared.
ExpectedNameless(f, signature) ==
  /\ signature.secret = f
  /\ signature.tailnet = "ours"
  /\ signature.key = flow[f].info.key

\* The verifier signs its own tailnet, and what was looked up.
Expected(f, signature) ==
  signature = [secret |-> f, tailnet |-> "ours", dnsName |-> flow[f].info.dnsName,
               key |-> flow[f].info.key]

\* Packets for an address reach the machine that the control plane gave it to,
\* once that machine knows, and the listener of their port.
Reaches(target, g) ==
  /\ server[g].state = "serving"
  /\ server[g].block = target.block
  /\ [family |-> target.family, port |-> target.port] \in server[g].listeners
  /\ LET on == login[server[g].machine] IN
       /\ on.id \in Present
       /\ control[on.id].authorized
       /\ control[on.id].block = target.block /\ on.self.block = target.block

\* The expected answers that the server of g gives to the verifier of f.
Passing(f, g) ==
  IF \E family \in Families : Reaches(flow[f].targets[family], g)
    THEN {signature \in Signatures(g, f) : Expected(f, signature)} ELSE {}

\* An answer that is not the expected one, or none, changes nothing: the
\* verification is tried again, or given up.
Challenge(f) ==
  /\ flow[f].phase = "pending"
  /\ \E g \in Flows : \E signature \in Passing(f, g) :
       answers' = [answers EXCEPT ![f] = @ \union
         {[id |-> login[server[g].machine].id, tailnet |-> signature.tailnet,
           dnsName |-> signature.dnsName]}]
  /\ flow' = [flow EXCEPT ![f].phase = "success"]
  /\ UNCHANGED <<backend, control, login, server, token, changes>>

\* NewClaimsFromFlow: everything comes from the flow.
Claims(f) ==
  LET info == flow[f].info IN
    [node |-> info.node, tailnet |-> "ours", dnsName |-> info.dnsName,
     machineName |-> flow[f].machineName,
     amr |-> (IF info.authorized THEN {} ELSE {"unauthorized"})
               \union (IF info.external THEN {"external"} ELSE {})]

Finalize(f) ==
  /\ flow[f].phase = "success"
  /\ token' = [token EXCEPT ![f] = Claims(f)]
  /\ flow' = [flow EXCEPT ![f] = [phase |-> "deleted"]]
  /\ UNCHANGED <<backend, control, login, server, answers, changes>>

-------------------------------------------------------------------------------
(* The tailnet.                                                            *)

Changes(c) ==
  /\ changes < MaxChanges
  /\ changes' = changes + 1
  /\ control' = c
  /\ UNCHANGED <<backend, flow, server, answers, token>>

Unused(field, values) == values \ {control[i][field] : i \in Present}

Rename(i) ==
  /\ \E name \in Unused("name", Names) : Changes([control EXCEPT ![i].name = name])
  /\ login' = login

Rekey(i) == Changes([control EXCEPT ![i].generation = @ + 1]) /\ login' = login

Readdress(i) ==
  /\ \E block \in Unused("block", Blocks) : Changes([control EXCEPT ![i].block = block])
  /\ login' = login

Approve(i) ==
  /\ ~control[i].authorized
  /\ Changes([control EXCEPT ![i].authorized = TRUE])
  /\ login' = login

\* The machine logs in as a new node, and the node that it was is gone.  The new
\* one takes over the name and the addresses, or has its own.
LogInAnew(m, i) ==
  /\ control[i] = Unborn
  /\ LET old == control[login[m].id] IN
       \E place \in {<<old.name, old.block>>}
                      \union (Unused("name", Names) \X Unused("block", Blocks)) :
         LET node == [name |-> place[1], generation |-> 0, block |-> place[2],
                      tailnet |-> "ours", authorized |-> TRUE]
         IN /\ Changes([control EXCEPT ![login[m].id] = Gone, ![i] = node])
            /\ login' = [login EXCEPT ![m] = [id |-> i, self |-> node]]

\* tailscaled hears of what has changed.
Sync(m) ==
  /\ login[m].id \in Present
  /\ login' = [login EXCEPT ![m].self = control[login[m].id]]
  /\ UNCHANGED <<backend, control, flow, server, answers, token, changes>>

-------------------------------------------------------------------------------
Next ==
  \/ \E m \in Machines, f \in Flows : JobStarts(m, f)
  \/ \E f \in Flows :
       \/ Answered(f) \/ Close(f) \/ Initialize(f)
       \/ Challenge(f) \/ Finalize(f)
  \/ \E i \in Present : Rename(i) \/ Rekey(i) \/ Readdress(i) \/ Approve(i)
  \/ \E m \in Machines, i \in Ids : LogInAnew(m, i)
  \/ \E m \in Machines : Sync(m)

Spec == Init /\ [][Next]_vars
-------------------------------------------------------------------------------
(* Properties.                                                             *)

\* A token was issued for a node that a challenge of that flow had reached: the
\* machine that answered was logged in as that very node, with the key that was
\* looked up, and not as one that took over its name or its address.  It was
\* in the tailnet, so that no token says "external".
AnsweredByNode ==
  \A f \in Flows : token[f] # NoToken =>
    /\ \E a \in answers[f] : a.id = token[f].node /\ a.tailnet = token[f].tailnet
    /\ "external" \notin token[f].amr

\* A flow is waiting for its challenge, and its node is up, knows what the
\* control plane knows, and is as it was when the control plane was asked.
Undisturbed(f) ==
  /\ flow[f].phase = "pending" /\ server[f].state = "serving"
  /\ backend # "headscale with MagicDNS"
  /\ LET on == login[server[f].machine] IN
       /\ on.id = flow[f].info.node
       /\ on.self = control[on.id]
       /\ on.self.authorized /\ on.self.tailnet = "ours"
       /\ on.self.block = server[f].block /\ on.self.block = flow[f].info.block
       /\ Key(on.id, on.self) = flow[f].info.key
       /\ ControlDNSName(on.self) = flow[f].info.dnsName

\* The daemon and the control plane agree on the name, key and ports of such a
\* node, whatever happened to it before: its challenge passes at both addresses.
StableNodeVerified ==
  \A f \in Flows : Undisturbed(f) =>
    /\ \A family \in Families : Reaches(flow[f].targets[family], f)
    /\ Passing(f, f) # {}

Identified(r) == [tailnet |-> r.tailnet, dnsName |-> r.dnsName]

DNSNames == {<<n>> : n \in Names} \union {<<n, t>> : n \in Names, t \in {"ours", "theirs"}}

Identities == [tailnet : {"ours", "theirs"}, dnsName : DNSNames]

Promise == INSTANCE IdentityPromise WITH
  confirmed <- [f \in Flows |-> {Identified(a) : a \in answers[f]}],
  issued <- [f \in Flows |-> IF token[f] = NoToken THEN {} ELSE {Identified(token[f])}]

\* Tokens keep the promise of IdentityPromise: their tailnet and name are what a
\* node said of itself when it answered the challenge of that flow.
IdentityPromiseHolds == Promise!Spec
=============================================================================
