---------------------------- MODULE IdentityPromise ----------------------------
(***************************************************************************)
(* What a token promises about the identity in it, without control plane,  *)
(* daemon or network: a node has confirmed, of itself and for that flow,   *)
(* the tailnet and the name that the token carries.                        *)
(***************************************************************************)
CONSTANTS Flows, Identities

VARIABLES
  confirmed,  \* for each flow, the identities that a node confirmed as its own
  issued      \* for each flow, the identities in its tokens

vars == <<confirmed, issued>>

Init ==
  /\ confirmed = [f \in Flows |-> {}]
  /\ issued = [f \in Flows |-> {}]

\* Each of them changes something.
Confirm(f) ==
  /\ confirmed' # confirmed
  /\ \E id \in Identities : confirmed' = [confirmed EXCEPT ![f] = @ \union {id}]
  /\ UNCHANGED issued

Issue(f) ==
  /\ issued' # issued
  /\ \E id \in confirmed[f] : issued' = [issued EXCEPT ![f] = @ \union {id}]
  /\ UNCHANGED confirmed

Next == \E f \in Flows : Confirm(f) \/ Issue(f)

Spec == Init /\ [][Next]_vars
=============================================================================
