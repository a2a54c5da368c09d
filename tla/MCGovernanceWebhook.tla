------------------------ MODULE MCGovernanceWebhook ------------------------
(* Finite instance of GovernanceWebhook: a delivery, its retry, and another *)
(* delivery of the same batch by token; two instances; a batch with an     *)
(* event that is not the governor's and one that fails its assertion.      *)
EXTENDS GovernanceWebhook
CONSTANTS a1, a2, a3, i1, i2
MCNonceOf == [a \in Attempt |-> IF a = a3 THEN NoNonce ELSE "n1"]
Batch == <<"good", "invalid", "good", "foreign">>
=============================================================================
