-------------------------- MODULE WormholePairing ---------------------------
(***************************************************************************)
(* How the indexer puts a Wormhole transfer together from the events of    *)
(* two chains (handlers/wormhole/nttManager.ts, wormholeTransceiver.ts,    *)
(* wormhole/pairing.ts, wormhole/status.ts).  Each chain delivers its log  *)
(* in order, the two in any order; a log may be missing from a pass; a     *)
(* chain may be read again over the rows it wrote.  Within a transaction   *)
(* an earlier event leaves a scratch row that a later one finds by walking *)
(* back through the log indexes.  Sends and deliveries are counted into    *)
(* daily rollups, which nothing ever corrects.                             *)
(*                                                                         *)
(* Transfers go from one chain to the other and are in one transaction on  *)
(* each, except that the redemption of a queued one comes later.           *)
(***************************************************************************)
EXTENDS Naturals, Sequences, FiniteSets, Functions

CONSTANTS
  Transfer,    \* manager digests
  Manager,     \* NTT managers, one token and one transceiver each
  Nothing,
  BackWalk,    \* MAX_PAIRING_BACKWALK
  MaxMissing,  \* bound on logs left out
  MaxReplays   \* bound on repeated passes

Side == {"source", "dest"}

ASSUME PairingAssumption ==
  /\ Nothing \notin Transfer \cup Manager \cup (Manager \X Side)
  /\ {BackWalk, MaxMissing, MaxReplays} \subseteq Nat /\ BackWalk >= 4

VARIABLES
  managerOf,    \* the manager of each transfer
  listed,       \* manager and side pairs the address manifest has
  log,          \* what happened on each side
  at,           \* how far each side has been read
  transfers,    \* BridgeTransfer and WormholeTransferDetail rows
  attestations, \* BridgeAttestation rows
  sending,      \* WormholeTransferPending
  arriving,     \* WormholeDestPending
  rolled,       \* BridgeDailySnapshot, and BridgeBridger beside its sends
  missing, replays,
  applied,      \* history: the events applied at least once
  paired        \* history: transfers whose first digest event had its details

pairingVars == <<managerOf, listed, log, at, transfers, attestations, sending,
                 arriving, rolled, missing, replays, applied, paired>>

Event(kind, t, tx) == [kind |-> kind, of |-> t, tx |-> tx]

NoTransfer == [token |-> Nothing, amount |-> Nothing, source |-> Nothing,
               digest |-> Nothing, sent |-> FALSE, attested |-> 0, queued |-> FALSE,
               delivered |-> FALSE]

\* A rollup's key, as far as it varies: what is counted, the day, the token.
Entry == [counts : {"sent", "delivered"}, amount : Transfer,
          day : Side, token : Manager]

-----------------------------------------------------------------------------
(* The logs.                                                                  *)

SourceLog(a, b) ==
  <<Event("TransferSentDetailed", a, 1), Event("TransferSentDigest", a, 1),
    Event("TransferSentDetailed", b, 1), Event("TransferSentDigest", b, 1)>>

\* A delivery's events come together; those of two managers may be interleaved.
DestLog(a, b, queued, together) ==
  LET received(t) == Event("ReceivedMessage", t, 1)
      attested(t) == Event("MessageAttestedTo", t, 1)
      ends(t)  == Event(IF t \in queued THEN "InboundTransferQueued" ELSE "TransferRedeemed", t, 1)
      later(t) == IF t \in queued THEN <<Event("TransferRedeemed", t, 2)>> ELSE <<>>
  IN  (IF together THEN <<received(a), attested(a), ends(a), received(b), attested(b), ends(b)>>
       ELSE <<received(a), received(b), attested(a), ends(a), attested(b), ends(b)>>)
      \o later(a) \o later(b)

PairingInit ==
  /\ managerOf \in [Transfer -> Manager]
  /\ \E out \in SUBSET (Manager \X Side) :
       Cardinality(out) <= 1 /\ listed = (Manager \X Side) \ out
  /\ \E order \in Bijection(1..2, Transfer), queued \in SUBSET Transfer,
        together \in BOOLEAN :
       /\ ~together => managerOf[order[1]] # managerOf[order[2]]
       /\ log = [source |-> SourceLog(order[1], order[2]),
                  dest |-> DestLog(order[1], order[2], queued, together)]
  /\ at = [s \in Side |-> 0]
  /\ transfers = [t \in Transfer |-> NoTransfer]
  /\ attestations = {} /\ sending = {} /\ arriving = {}
  /\ rolled = [e \in Entry |-> 0]
  /\ missing = 0 /\ replays = 0 /\ applied = {} /\ paired = {}

-----------------------------------------------------------------------------
(* wormhole/pairing.ts.  A scratch row is known by its transaction and log    *)
(* index, which is its place in the log.                                      *)

Scratch(i, e) == [index |-> i, tx |-> e.tx, of |-> e.of]

\* The earlier rows of the transaction within the walk.
Near(rows, i, e) == {r \in rows : r.tx = e.tx /\ r.index < i /\ r.index + BackWalk >= i}

\* Variant: the transceiver is not compared.
Scratched_Any(rows, i, e, transceiver) ==
  {r \in Near(rows, i, e) : \A q \in Near(rows, i, e) : q.index <= r.index}

\* Variant: only the log just before is looked at.
Scratched_Neighbour(rows, i, e, transceiver) == {r \in rows : r.tx = e.tx /\ r.index + 1 = i}

\* findPendingScratch: the nearest earlier row that matches, of one transceiver if
\* it is given.
Scratched(rows, i, e, transceiver) ==
  LET near == {r \in Near(rows, i, e) : transceiver \in {Nothing, managerOf[r.of]}}
  IN  {r \in near : \A q \in near : q.index <= r.index}

\* ensureNttManagerSeed finds the manager in the manifest.
Known(t, side) == <<managerOf[t], side>> \in listed

RollUp(entries) == [e \in Entry |-> rolled[e] + (IF e \in entries THEN 1 ELSE 0)]

Rollup(counts, amount, day, token) ==
  [counts |-> counts, amount |-> amount, day |-> day, token |-> token]

\* Variant: a transfer counts as sent whenever its digest is read.
FirstTimeSent_Always(t) == TRUE

\* firstTimeSent: the row had no sentBlock yet.
FirstTimeSent(t) == ~transfers[t].sent

\* The delivery came before anything of the source was known.
CatchUp(t) == transfers[t].delivered /\ transfers[t].amount = Nothing

-----------------------------------------------------------------------------
(* The handlers: i is the log index, e the event.                             *)

TransferSentDetailed(i, e) ==
  /\ sending' = sending \cup {Scratch(i, e)}
  /\ UNCHANGED <<transfers, attestations, arriving, rolled, paired>>

\* The send is counted on its own day, a delivery that was early on that of the
\* delivery.
TransferSentDigest(i, e) ==
  LET t      == e.of
      found  == Scratched(sending, i, e, Nothing)
      amount == IF found = {} THEN transfers[t].amount ELSE (CHOOSE r \in found : TRUE).of
      token  == IF Known(t, "source") THEN <<managerOf[t], "source">> ELSE transfers[t].token
      counts == {c \in {"sent", "delivered"} :
                   /\ found # {} /\ Known(t, "source")
                   /\ IF c = "sent" THEN FirstTimeSent(t) ELSE CatchUp(t)}
  IN  /\ transfers' = [transfers EXCEPT ![t] =
           [@ EXCEPT !.sent = TRUE, !.amount = amount, !.source = t, !.token = token]]
      /\ sending' = sending \ found
      /\ rolled' = RollUp({Rollup(c, amount, IF c = "sent" THEN "source" ELSE "dest",
                                  managerOf[t]) : c \in counts})
      /\ paired' = IF transfers[t].sent \/ found = {} THEN paired ELSE paired \cup {t}
      /\ UNCHANGED <<attestations, arriving>>

ReceivedMessage(i, e) ==
  /\ arriving' = arriving \cup {Scratch(i, e)}
  /\ UNCHANGED <<transfers, attestations, sending, rolled, paired>>

\* applyDestPendingToDelta: the source's own handler comes first.
Stamp(row, found) ==
  IF found = {} THEN row
  ELSE LET of == (CHOOSE r \in found : TRUE).of
       IN  [row EXCEPT !.source = IF @ = Nothing THEN of ELSE @, !.digest = of]

\* Variant: an attestation that is there already is counted again.
Attested_Again(t) == FALSE

\* The BridgeAttestation row exists.
Attested(t) == t \in attestations

MessageAttestedTo(i, e) ==
  LET t     == e.of
      found == Scratched(arriving, i, e, managerOf[t])
      row   == Stamp(transfers[t], found)
  IN  /\ attestations' = attestations \cup {t}
      /\ IF Attested(t) THEN UNCHANGED <<transfers, arriving>>
         ELSE /\ transfers' = [transfers EXCEPT ![t] = [row EXCEPT !.attested = row.attested + 1]]
              /\ arriving' = arriving \ found
      /\ UNCHANGED <<sending, rolled, paired>>

InboundTransferQueued(i, e) ==
  /\ transfers' = [transfers EXCEPT ![e.of] = [@ EXCEPT !.queued = TRUE]]
  /\ UNCHANGED <<attestations, sending, arriving, rolled, paired>>

\* sourceHasRun.
SourceHasRun(t) == transfers[t].sent

\* Without an attestation the scratch row is drained here, by the transceiver the
\* manifest gives, or by none.
TransferRedeemed(i, e) ==
  LET t     == e.of
      found == IF transfers[t].digest # Nothing THEN {}
               ELSE Scratched(arriving, i, e, IF Known(t, "dest") THEN managerOf[t] ELSE Nothing)
      token == IF Known(t, "dest") /\ ~SourceHasRun(t)
               THEN <<managerOf[t], "dest">> ELSE transfers[t].token
      row   == [Stamp(transfers[t], found) EXCEPT !.delivered = TRUE, !.token = token]
  IN  /\ transfers' = [transfers EXCEPT ![t] = row]
      /\ arriving' = arriving \ found
      /\ rolled' = IF /\ ~transfers[t].delivered /\ row.token # Nothing
                      /\ row.source # Nothing /\ row.amount # Nothing
                   THEN RollUp({Rollup("delivered", row.amount, "dest", row.token[1])})
                   ELSE rolled
      /\ UNCHANGED <<attestations, sending, paired>>

-----------------------------------------------------------------------------
Apply(s) ==
  LET i == at[s] + 1
      e == log[s][i]
  IN  /\ at[s] < Len(log[s])
      /\ at' = [at EXCEPT ![s] = i]
      /\ applied' = applied \cup {e}
      /\ \/ e.kind = "TransferSentDetailed"  /\ TransferSentDetailed(i, e)
         \/ e.kind = "TransferSentDigest"    /\ TransferSentDigest(i, e)
         \/ e.kind = "ReceivedMessage"       /\ ReceivedMessage(i, e)
         \/ e.kind = "MessageAttestedTo"     /\ MessageAttestedTo(i, e)
         \/ e.kind = "InboundTransferQueued" /\ InboundTransferQueued(i, e)
         \/ e.kind = "TransferRedeemed"      /\ TransferRedeemed(i, e)
      /\ UNCHANGED <<managerOf, listed, log, missing, replays>>

\* The source of the events leaves one out on this pass.
Miss(s) ==
  /\ at[s] < Len(log[s])
  /\ missing < MaxMissing /\ missing' = missing + 1
  /\ at' = [at EXCEPT ![s] = @ + 1]
  /\ UNCHANGED <<managerOf, listed, log, transfers, attestations, sending, arriving,
                 rolled, replays, applied, paired>>

\* What follows position k begins a transaction.
StartsTx(s, k) == k > 0 => log[s][k].tx # log[s][k + 1].tx

\* The chain is read again from the start of a transaction, over the rows as they
\* are.
Replay(s) ==
  /\ replays < MaxReplays /\ replays' = replays + 1
  /\ \E back \in {k \in 0..at[s] : k < at[s] /\ StartsTx(s, k)} :
       at' = [at EXCEPT ![s] = back]
  /\ UNCHANGED <<managerOf, listed, log, transfers, attestations, sending, arriving,
                 rolled, missing, applied, paired>>

PairingNext == \E s \in Side : Apply(s) \/ Miss(s) \/ Replay(s)

PairingSpec == PairingInit /\ [][PairingNext]_pairingVars

-----------------------------------------------------------------------------
(* Properties.                                                                *)

Happened(kind, t) == \E e \in applied : e.kind = kind /\ e.of = t

\* What the rollups hold of a transfer.
Due(t) ==
  {e \in Entry :
     /\ e.amount = t /\ e.token = managerOf[t]
     /\ Known(t, "source") /\ transfers[t].amount # Nothing
     /\ \/ e.counts = "sent" /\ e.day = "source" /\ t \in paired
        \/ e.counts = "delivered" /\ e.day = "dest" /\ Happened("TransferRedeemed", t)}

\* Whatever order the two chains are read in, with a log missing or either read
\* twice, every transfer is counted once as sent if its first digest event found its
\* details, and once as delivered if it was redeemed and its amount is known: by
\* whichever handler comes last, under its own amount, one token and its own day.
\* With two logs missing a send may take the details of another one, and it is
\* counted with that one's amount.
CountedOnce ==
  missing <= 1 => \A e \in Entry : rolled[e] = IF e \in Due(e.amount) THEN 1 ELSE 0

\* computeWormholeStatus, of the row and of what happened.
Status(row) ==
  CASE row.delivered -> "DELIVERED"
    [] ~row.delivered /\ row.queued -> "QUEUED_INBOUND"
    [] ~row.delivered /\ ~row.queued /\ row.attested > 0 -> "ATTESTED"
    [] ~row.delivered /\ ~row.queued /\ row.attested = 0 /\ row.sent -> "SENT"
    [] OTHER -> "PENDING"

\* The row is a function of the set of events read so far, not of their order or
\* number: its status is that of the latest stage, an attestation counts once,
\* the token is the source's as soon as that side is known.
RowIsOutcome ==
  \A t \in Transfer :
    LET row  == transfers[t]
        sent == Happened("TransferSentDigest", t)
    IN  /\ row.attested = IF Happened("MessageAttestedTo", t) THEN 1 ELSE 0
        /\ Status(row) =
             IF Happened("TransferRedeemed", t) THEN "DELIVERED"
             ELSE IF Happened("InboundTransferQueued", t) THEN "QUEUED_INBOUND"
             ELSE IF Happened("MessageAttestedTo", t) THEN "ATTESTED"
             ELSE IF sent THEN "SENT" ELSE "PENDING"
        /\ sent /\ Known(t, "source") => row.token = <<managerOf[t], "source">>
        /\ row.token = <<managerOf[t], "dest">> => Happened("TransferRedeemed", t)

\* No transfer takes the details, the source or the transceiver digest of another
\* one, however many share its transaction, as long as at most one log is missing
\* (without its own details and the other's digest, a digest finds the other's
\* details); and for what the destination tells, as long as the manifest has the
\* destination's managers (without it the walk after a missing attestation is not
\* filtered, as the code says) and no log is missing from a second reading (an
\* attestation that is there already leaves the scratch row behind, and the next one
\* of the transceiver would take it).
OwnData ==
  \A t \in Transfer :
    /\ missing <= 1 => transfers[t].amount \in {t, Nothing}
    /\ Manager \X {"dest"} \subseteq listed /\ (missing = 0 \/ (missing <= 1 /\ replays = 0)) =>
         {transfers[t].source, transfers[t].digest} \subseteq {t, Nothing}

\* With no log missing no scratch row is left of a chain read to its end
\* (wormholeCompleteFlow.test.ts: "leaves both scratch tables at 0 rows"): of the
\* source even when it was read twice; of the destination only after one reading,
\* for an attestation that is there already returns before it drains.
ScratchDrained ==
  missing = 0 =>
    /\ at["source"] = Len(log["source"]) => sending = {}
    /\ at["dest"] = Len(log["dest"]) /\ replays = 0 => arriving = {}
=============================================================================
