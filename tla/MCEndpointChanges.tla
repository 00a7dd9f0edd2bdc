--------------------------- MODULE MCEndpointChanges ---------------------------
(***************************************************************************)
(* Instances of EndpointChanges for TLC: an endpoint that is created with  *)
(* a subscription, which its second version drops.                         *)
(***************************************************************************)
EXTENDS EndpointChanges

MCChanges ==
  [i \in Id |-> [endpoint |-> CHOOSE p \in Endpoint : TRUE, version |-> i, active |-> TRUE,
                 types |-> IF i = 1 THEN EventType ELSE {}]]

MCMessage == {MCChanges[i] : i \in Id}
===============================================================================
