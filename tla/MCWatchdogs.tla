----------------------------- MODULE MCWatchdogs -----------------------------
(* Finite instance of four monitors that share nothing: the governance        *)
(* watchdog's webhook (a delivery, its retry, and a token call; a batch with  *)
(* an event that is not the governor's and one that fails its assertion), the *)
(* metrics bridge's peg monitor and its alert state of one pool, and the      *)
(* on-call announcer.  A behaviour follows one of them and leaves the others  *)
(* where they began.                                                          *)
EXTENDS GovernanceWebhook, PegPoller, DeviationAlert, OncallRotation, TLC
CONSTANTS u1, u2, u3, a1, a2, a3, i1, i2, v1, v2, s1, s2, s3
MCNonceOf   == [a \in Attempt |-> IF a = a3 THEN NoNonce ELSE "n1"]
Batch       == <<"good", "invalid", "good", "foreign">>
MCSequence  == {s1, s2, s3}
MCSupported == {{v1}, {v1, v2}}
MCLag       == {-2, 0, 2, 3}
Symmetry    == Permutations(MCSequence)

VARIABLE part
MCVars == <<part, vars, pegVars, rotationVars, alertVars>>

NoBatch == Init /\ ~malformed /\ host = [a \in Attempt |-> i1]
NoPeg   == PegInit /\ registry = {v1}
NoDuty  == RotationInit /\ onCall = u1
NoPool  == AlertInit /\ ~fx

MCInit ==
  \/ part = "governance" /\ Init /\ NoPeg /\ NoDuty /\ NoPool
  \/ part = "peg" /\ PegInit /\ NoBatch /\ NoDuty /\ NoPool
  \/ part = "rotation" /\ RotationInit /\ NoBatch /\ NoPeg /\ NoPool
  \/ part = "alert" /\ AlertInit /\ NoBatch /\ NoPeg /\ NoDuty

\* A replica that serves one version meets every venue for five cycles; one that
\* serves both, and polls twice in a cycle, a calmer one for three.
Calm ==
  /\ cycle <= 3
  /\ \A p \in DOMAIN staged :
       /\ staged[p].ref # 2 /\ Cardinality(staged[p].identities) <= 1
       /\ Executable(staged[p].obs) => Priced(staged[p].obs)

\* The reference size changes in the second or third cycle, and back at any time.
Sized ==
  \A p \in DOMAIN staged : staged[p].ref = 2 => cycle \in 2..3 \/ StateOf(p).ref = 2

MCNext ==
  /\ UNCHANGED part
  /\ \/ part = "governance" /\ Next /\ UNCHANGED <<pegVars, rotationVars, alertVars>>
     \/ /\ part = "peg" /\ PegNext /\ (IF registry = Version THEN Calm' ELSE Sized')
        /\ UNCHANGED <<vars, rotationVars, alertVars>>
     \/ part = "rotation" /\ RotationNext /\ UNCHANGED <<vars, pegVars, alertVars>>
     \/ part = "alert" /\ AlertNext /\ UNCHANGED <<vars, pegVars, rotationVars>>

MCSpec == MCInit /\ [][MCNext]_MCVars
=============================================================================
