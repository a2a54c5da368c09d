-------------------------- MODULE DeviationBreach ---------------------------
(* The life of a deviation breach in the indexer: the anchor kept on the   *)
(* Pool entity, the DeviationThresholdBreach rows and the totals rolled up *)
(* from them, under the events of one FPMM pool. The reserves go through   *)
(* UpdateReserves followed, in the same transaction, by the event that     *)
(* says what it was (Swap, Mint, Burn, Rebalanced); the handlers read the  *)
(* price from the entity, from the contract, or not at all.                *)
EXTENDS Integers, FiniteSets, FiniteSetsExt

CONSTANTS
  Diff,       \* price differences that can be read, in bps
  Sides,      \* configurations: each the set of the two sides' thresholds
  Grace,      \* DEVIATION_BREACH_GRACE_SECONDS
  Weekend,    \* the times that are not trading time
  Blocks,     \* bound: the block timestamps
  MaxRows     \* bound: rows written

ASSUME BreachAssumption ==
  /\ Diff \subseteq Nat /\ Diff # {}
  /\ Sides \subseteq SUBSET Nat /\ \A S \in Sides : S # {}
  /\ Grace \in Nat /\ Blocks \subseteq Nat \ {0} /\ MaxRows \in Nat

Cause == {"named", "unknown"}

VARIABLES
  pool,     \* the Pool entity
  open,     \* rows without endedAt
  closed,   \* rows with endedAt
  now,      \* block timestamp
  median,   \* what the entity knows of the median: "fresh", "stale" or "none"
  read,     \* pool.diff was computed from the reserves and median as they are
  owed,     \* the transaction still owes the event that follows UpdateReserves
  cold      \* history: the contract answered, the entity still had no median
vars == <<pool, open, closed, now, median, read, owed, cold>>

(* Predicates of health.ts.                                                *)
Never(p)     == p.sides = {0}
Effective(p) == IF p.thr > 0 THEN p.thr ELSE 10000
InBreach(p)  == ~Never(p) /\ ~p.degen /\ p.diff * 100 > Effective(p) * 101
AboveCritical(diff, thr) == diff * 100 > thr * 105
EntryThreshold(p) == IF Never(p) THEN 0 ELSE Effective(p)

\* Variant: the hold looks at the previous price, not at the anchor.
NextAnchor_PriceHold(next, source) ==
  CASE next.degen                                   -> 0
    [] ~next.degen /\ ~InBreach(next)               ->
         IF source = "update_reserves" /\ InBreach(pool) THEN pool.anchor ELSE 0
    [] InBreach(next) /\ InBreach(pool) /\ pool.anchor > 0 -> pool.anchor
    [] OTHER                                        -> now

\* nextDeviationBreachStartedAt: UpdateReserves holds an anchor it finds, the
\* event that follows it closes.
NextAnchor(next, source) ==
  CASE next.degen                                   -> 0
    [] ~next.degen /\ ~InBreach(next)               ->
         IF source = "update_reserves" THEN pool.anchor ELSE 0
    [] InBreach(next) /\ InBreach(pool) /\ pool.anchor > 0 -> pool.anchor
    [] OTHER                                        -> now

\* Variant: the peak of the breach before is carried into the next one.
NextPeak_Carried(next) == IF pool.peak > next.diff THEN pool.peak ELSE next.diff

NextPeak(next) ==
  IF next.anchor = 0 THEN 0
  ELSE IF pool.peak > next.diff THEN pool.peak ELSE next.diff
NextEntry(next) ==
  IF next.anchor = 0 THEN 0
  ELSE IF pool.anchor = 0 THEN EntryThreshold(next) ELSE pool.entry

(* recordBreachTransition.                                                 *)
\* classifyBreachEvent: every event but UpdateReserves has a cause to name.
Category(source) == IF source = "update_reserves" THEN "unknown" ELSE "named"

\* tradingSecondsInRange and the part of it past the grace of a critical peak.
Trading(from, to) == Cardinality((from..(to - 1)) \ Weekend)
Critical(row, to) ==
  IF AboveCritical(row.peak, IF row.entry > 0 THEN row.entry ELSE 10000)
    THEN Trading(row.startedAt + Grace, to) ELSE 0

\* Rows carry a number in place of the transaction and log in their id.
Row(next, start, cause) ==
  [id |-> Cardinality(open) + Cardinality(closed), startedAt |-> start,
   entry |-> EntryThreshold(next), peak |-> next.diff, startedBy |-> cause]

\* getOpenBreach: an open row that the previous anchor points to.
Found == {row \in open : row.startedAt = pool.anchor}

NotBreached(next) ==
  /\ pool.anchor = 0 /\ next.anchor = 0
  /\ pool' = next /\ UNCHANGED <<open, closed>>

RisingEdge(next, source) ==
  /\ pool.anchor = 0 /\ next.anchor > 0
  /\ open' = open \cup {Row(next, now, Category(source))}
  /\ pool' = next /\ UNCHANGED closed

\* Variant: the total takes the weekend in.
Close_WallClock(row, next, source) ==
  /\ open' = open \ {row}
  /\ closed' = closed \cup
       {[row |-> row, endedAt |-> now, endedBy |-> Category(source),
         seconds |-> Trading(row.startedAt, now), critical |-> Critical(row, now)]}
  /\ pool' = [next EXCEPT !.seconds = @ + (now - row.startedAt),
                          !.critical = @ + Critical(row, now),
                          !.count = @ + 1]

Close(row, next, source) ==
  /\ open' = open \ {row}
  /\ closed' = closed \cup
       {[row |-> row, endedAt |-> now, endedBy |-> Category(source),
         seconds |-> Trading(row.startedAt, now), critical |-> Critical(row, now)]}
  /\ pool' = [next EXCEPT !.seconds = @ + Trading(row.startedAt, now),
                          !.critical = @ + Critical(row, now),
                          !.count = @ + 1]

FallingEdge(next, source) ==
  /\ pool.anchor > 0 /\ next.anchor = 0
  /\ \E row \in Found : Close(row, next, source)

\* The anchor points to no open row: only the number of breaches is kept.
FallingEdgeWithoutRow(next) ==
  /\ pool.anchor > 0 /\ next.anchor = 0 /\ Found = {}
  /\ pool' = [next EXCEPT !.count = @ + 1] /\ UNCHANGED <<open, closed>>

\* Variants: the peak is not bumped; the cause keeps its first value.
Bumped_Kept(row, next, source) ==
  [row EXCEPT !.startedBy = IF @ = "unknown" THEN Category(source) ELSE @]
Bumped_NoUpgrade(row, next, source) ==
  [row EXCEPT !.peak = IF next.diff > @ THEN next.diff ELSE @]

\* A later handler of the transaction replaces the cause "unknown".
Bumped(row, next, source) ==
  [row EXCEPT !.peak = IF next.diff > @ THEN next.diff ELSE @,
              !.startedBy = IF @ = "unknown" THEN Category(source) ELSE @]
Continuing(next, source) ==
  /\ pool.anchor > 0 /\ next.anchor > 0
  /\ \E row \in Found : open' = (open \ {row}) \cup {Bumped(row, next, source)}
  /\ pool' = next /\ UNCHANGED closed

ContinuingWithoutRow(next) ==
  /\ pool.anchor > 0 /\ next.anchor > 0 /\ Found = {}
  /\ open' = open \cup {Row(next, next.anchor, "unknown")}
  /\ pool' = next /\ UNCHANGED closed

Record(next, source) ==
  /\ \/ NotBreached(next) \/ RisingEdge(next, source)
     \/ FallingEdge(next, source) \/ FallingEdgeWithoutRow(next)
     \/ Continuing(next, source) \/ ContinuingWithoutRow(next)
  /\ Cardinality(open') + Cardinality(closed') <= MaxRows

\* Anchor, then the copies of peak and entry threshold, then the rows; the
\* OracleReported handler does not touch the copies.
Anchored(next, source) == [next EXCEPT !.anchor = NextAnchor(next, source)]
Mirrored(next) == [next EXCEPT !.peak = NextPeak(next), !.entry = NextEntry(next)]
Pipeline(next, source) == Record(Mirrored(Anchored(next, source)), source)

\* Variant: the exception for reserves that became degenerate is missing.
Upsert_FrozenDegenerate(next, source, trusted) ==
  IF trusted \/ Never(next)
    THEN Pipeline(next, source)
    ELSE pool' = next /\ UNCHANGED <<open, closed>>

\* upsertPool: a frozen price stays out of the pipeline, but for a pool that no
\* longer rebalances and a breach whose reserves became degenerate.
Upsert(next, source, trusted) ==
  IF trusted \/ Never(next) \/ (next.degen /\ pool.anchor > 0)
    THEN Pipeline(next, source)
    ELSE pool' = next /\ UNCHANGED <<open, closed>>

-----------------------------------------------------------------------------
(* The events.                                                             *)

Init ==
  /\ \E S \in Sides, d \in Diff : \E t \in S :
       /\ pool = [diff |-> d, thr |-> t, sides |-> S, degen |-> FALSE, anchor |-> 0,
                  peak |-> 0, entry |-> 0, seconds |-> 0, critical |-> 0, count |-> 0]
       /\ ~InBreach(pool)
  /\ open = {} /\ closed = {} /\ now \in Blocks
  /\ median \in {"fresh", "none"} /\ read = (median = "fresh") /\ owed = FALSE
  /\ cold = FALSE

\* Where a handler's price comes from: the fresh local median; the contract,
\* whose median's timestamp makes a stale local median fresh again, or is not
\* read, or is of no use as no MedianUpdated was indexed yet; or nowhere.
FromEntity   == median = "fresh" /\ UNCHANGED <<median, cold>>
FromContract ==
  \/ median = "stale" /\ median' = "fresh" /\ UNCHANGED cold
  \/ median # "fresh" /\ cold' = TRUE /\ UNCHANGED median
NoReading    == median # "fresh" /\ UNCHANGED <<median, cold>>
Reading == FromEntity \/ FromContract

\* While an anchor is held for the event to come, the reserves do not change.
Holding == owed /\ pool.anchor > 0 /\ ~InBreach(pool)

UpdateReserves(degen) ==
  /\ ~Holding
  /\ owed' = TRUE /\ UNCHANGED now
  /\ \/ /\ Reading /\ read' = TRUE
        /\ \E d \in Diff, t \in pool.sides :
             Upsert([pool EXCEPT !.diff = d, !.thr = t, !.degen = degen],
                    "update_reserves", TRUE)
     \/ /\ NoReading /\ read' = FALSE
        /\ Upsert([pool EXCEPT !.degen = degen], "update_reserves", FALSE)

\* UpdateReserves again, after the first one held the anchor.
ConfirmReserves ==
  /\ Holding
  /\ Upsert(pool, "update_reserves", median = "fresh")
  /\ UNCHANGED <<now, median, read, owed, cold>>

\* Swap, Mint and Burn bring no price of their own.
SwapOrLiquidity ==
  /\ owed
  /\ Upsert(pool, "swap", median = "fresh")
  /\ owed' = FALSE /\ UNCHANGED <<now, median, read, cold>>

\* Rebalanced carries the contract's price difference; its own reading of the
\* contract, which may fail, brings the threshold and the median's timestamp.
Rebalanced ==
  /\ owed
  /\ \E d \in Diff, t \in pool.sides \cup {pool.thr} :
       /\ read => d = pool.diff /\ t = pool.thr
       /\ Upsert([pool EXCEPT !.diff = d, !.thr = t], "rebalance", TRUE)
  /\ median' \in {median} \cup {m \in {"fresh"} : median = "stale"}
  /\ owed' = FALSE /\ read' = TRUE /\ UNCHANGED <<now, cold>>

MedianUpdated(d) ==
  /\ ~owed
  /\ \E t \in pool.sides : Pipeline([pool EXCEPT !.diff = d, !.thr = t], "oracle_update")
  /\ median' = "fresh" /\ read' = TRUE /\ UNCHANGED <<now, owed, cold>>

\* A median of zero: the price is frozen, the pipeline runs.
MedianOutage ==
  /\ ~owed
  /\ Pipeline(pool, "oracle_update")
  /\ median' = "none" /\ UNCHANGED <<now, read, owed, cold>>

\* OracleReported moves the freshness of a known median; without one it is held.
OracleReported(d) ==
  /\ ~owed /\ median # "none"
  /\ read => d = pool.diff
  /\ LET next == [pool EXCEPT !.diff = d] IN Record(Anchored(next, "oracle_update"), "oracle_update")
  /\ median' = "fresh" /\ read' = TRUE /\ UNCHANGED <<now, owed, cold>>

ThresholdUpdated(S) ==
  /\ ~owed /\ UNCHANGED <<now, owed>>
  /\ \/ /\ Reading /\ read' = TRUE
        /\ \E d \in Diff, t \in S :
             /\ read => d = pool.diff
             /\ Upsert([pool EXCEPT !.diff = d, !.thr = t, !.sides = S], "threshold_change", TRUE)
     \/ /\ NoReading /\ UNCHANGED read
        /\ \/ /\ S = {0}
              /\ Upsert([pool EXCEPT !.thr = 0, !.sides = S], "threshold_change", FALSE)
           \/ /\ S # {0}
              /\ pool' = [pool EXCEPT !.sides = S] /\ UNCHANGED <<open, closed>>

\* A removed report or a new expiry moves the freshness, and nothing else.
FreshnessMoved ==
  /\ ~owed /\ median # "none"
  /\ median' \in {"fresh", "stale"}
  /\ UNCHANGED <<pool, open, closed, now, read, owed, cold>>

\* The next block; the median's expiry may have passed.
NextBlock ==
  /\ ~owed
  /\ now' \in {t \in Blocks : t > now}
  /\ median' \in IF median = "fresh" THEN {"fresh", "stale"} ELSE {median}
  /\ UNCHANGED <<pool, open, closed, read, owed, cold>>

Next ==
  \/ \E degen \in BOOLEAN : UpdateReserves(degen)
  \/ ConfirmReserves \/ SwapOrLiquidity \/ Rebalanced \/ MedianOutage \/ FreshnessMoved \/ NextBlock
  \/ \E d \in Diff : MedianUpdated(d) \/ OracleReported(d)
  \/ \E S \in Sides : ThresholdUpdated(S)

Spec == Init /\ [][Next]_vars

-----------------------------------------------------------------------------
(* Properties.                                                             *)

TypeOK ==
  /\ pool.diff \in Diff /\ pool.sides \in Sides /\ pool.thr \in Nat
  /\ pool.anchor \in 0..now /\ pool.degen \in BOOLEAN
  /\ {pool.peak, pool.entry, pool.seconds, pool.critical, pool.count} \subseteq Nat
  /\ \A row \in open : row.startedAt \in 1..now /\ row.startedBy \in Cause
  /\ \A c \in closed : c.endedAt \in c.row.startedAt..now /\ c.endedBy \in Cause
  /\ now \in Nat /\ median \in {"fresh", "stale", "none"}
  /\ read \in BOOLEAN /\ owed \in BOOLEAN /\ cold \in BOOLEAN

\* The anchor and the rows say the same: no open row without an anchor, never
\* two, and the open one began at the anchor, by which alone
\* recordBreachTransition finds it. Only a cold reading can break this.
AnchorHasRow ==
  /\ (pool.anchor > 0) <=> (open # {})
  /\ \A row \in open : row.startedAt = pool.anchor
  /\ \A row, other \in open : row = other
OpenRowIsAnchor == ~cold => AnchorHasRow

\* A row is closed with its breach, cold reading or not.
ClosedOnFallingEdge == pool.anchor = 0 => open = {}

\* The totals on the pool, from which the uptime is shown, are those of the
\* closed rows, each counted once; the number of breaches may also count some
\* whose row was lost.
OfClosed(field) == MapThenSumSet(LAMBDA c : c[field], closed)
TotalsMatchRows ==
  /\ pool.seconds = OfClosed("seconds") /\ pool.critical = OfClosed("critical")
  /\ pool.count >= Cardinality(closed)
  /\ ~cold => pool.count = Cardinality(closed)

\* Critical seconds are scored on the peak: while the anchor has its row, the
\* row's peak is never below the price the pool shows.
PeakCoversPrice == AnchorHasRow => \A row \in open : pool.diff <= row.peak

\* The copies of the open row's peak and entry threshold on the pool, which the
\* live uptime and the alert read instead of the row, leave the row in no step
\* but OracleReported's.
Mirrors ==
  /\ pool.anchor = 0 => pool.peak = 0 /\ pool.entry = 0
  /\ AnchorHasRow /\ \A row \in open : pool.peak = row.peak /\ pool.entry = row.entry
MirrorKept ==
  [][Mirrors /\ ~cold' => Mirrors' \/ \E d \in Diff : OracleReported(d)]_vars

\* The pool's copy of the peak is the open row's, and 0 when no breach is open
\* (schema.graphql:137-141), for a pool whose anchor has its row.
CopyIsRowsPeak ==
  AnchorHasRow =>
    /\ open = {} => pool.peak = 0
    /\ \A row \in open : pool.peak = row.peak

\* After the transaction every row says what began it: the cause "unknown" that
\* UpdateReserves writes stays only on a breach that ended in the same block.
CauseIsKnown ==
  ~owed /\ ~cold =>
    /\ \A row \in open : row.startedBy # "unknown"
    /\ \A c \in closed : c.row.startedBy = "unknown" => c.endedAt = c.row.startedAt

\* UpdateReserves closes a breach itself only when the reserves are degenerate.
EndIsAttributed ==
  [][\A c \in closed' \ closed : c.endedBy = "unknown" => pool'.degen]_vars
=============================================================================
