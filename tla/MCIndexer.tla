------------------------------ MODULE MCIndexer ------------------------------
(* Finite instance of three of the indexer's pipelines: one pool's breaches,  *)
(* the pairing of two Wormhole transfers, and one rate feed.  They share no   *)
(* entity that is modelled, so a behaviour follows one of the three and       *)
(* leaves the others where they began.                                        *)
EXTENDS DeviationBreach, WormholePairing, OracleFeed
CONSTANTS t1, t2, m1, m2, p1, p2, r1, r2
SideSets == {{0}, {98, 105}}
MCTransfer == {t1, t2}
MCManager == {m1, m2}
MCLengths == <<1, 3>>

VARIABLE part
MCVars == <<part, vars, pairingVars, feedVars>>

\* Transfers and managers are told apart by nothing: one initial state stands for
\* those that differ in their names.
Named == PairingInit /\ log["source"][1].of = t1 /\ managerOf[t1] = m1

\* The feed starts with one report and without an expiry of its own.
Fed == FeedInit /\ DOMAIN opening.reports = {r1} /\ opening.token = 0 /\ opening.global = 1

\* Where the parts that are not followed stay: one of their initial states.
NoBreach ==
  /\ Init /\ now = 1 /\ median = "fresh"
  /\ pool.sides = {98, 105} /\ pool.thr = 105 /\ pool.diff = 100
NoPairing ==
  /\ Named /\ listed = Manager \X Side /\ Len(log["dest"]) = 6 /\ managerOf[t2] = m1
NoFeed == Fed /\ logs = <<>>

MCInit ==
  \/ part = "breach" /\ Init /\ NoPairing /\ NoFeed
  \/ part = "pairing" /\ Named /\ NoBreach /\ NoFeed
  \/ part = "feed" /\ Fed /\ NoBreach /\ NoPairing

MCNext ==
  /\ UNCHANGED part
  /\ \/ part = "breach" /\ Next /\ UNCHANGED <<pairingVars, feedVars>>
     \/ part = "pairing" /\ PairingNext /\ UNCHANGED <<vars, feedVars>>
     \/ part = "feed" /\ FeedNext /\ UNCHANGED <<vars, pairingVars>>

MCSpec == MCInit /\ [][MCNext]_MCVars
=============================================================================
