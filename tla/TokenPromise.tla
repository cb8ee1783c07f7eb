----------------------------- MODULE TokenPromise -----------------------------
(***************************************************************************)
(* What token issuance promises a relying party, without handlers, stores, *)
(* retries or failures: a node first proves that it answers on its own     *)
(* address with the secret of the flow, only then is a token signed for    *)
(* that flow, and only a signed token is handed to the client.             *)
(***************************************************************************)
CONSTANT Flows

VARIABLES
  proved,     \* flows whose node answered a challenge with a valid MAC
  signed,     \* flows a token was signed for
  delivered   \* flows whose client received its token

vars == <<proved, signed, delivered>>

Init == proved = {} /\ signed = {} /\ delivered = {}

Prove(f) ==
  /\ proved' = proved \union {f}
  /\ UNCHANGED <<signed, delivered>>

Sign(f) ==
  /\ f \in proved
  /\ signed' = signed \union {f}
  /\ UNCHANGED <<proved, delivered>>

Deliver(f) ==
  /\ f \in signed
  /\ delivered' = delivered \union {f}
  /\ UNCHANGED <<proved, signed>>

Next == \E f \in Flows : Prove(f) \/ Sign(f) \/ Deliver(f)

Spec == Init /\ [][Next]_vars
=============================================================================
