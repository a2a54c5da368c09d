----------------------- MODULE DeviationBreach_proofs -----------------------
(* Type correctness of DeviationBreach; the agreement of the anchor with   *)
(* the rows and the causes of the rows as long as no reading was cold; the *)
(* peak, what ends a breach and the copies on the pool in any case.  Then  *)
(* the rows of WormholePairing: what each field is the trace of, what the  *)
(* rollups hold of them, whose data they have and which scratch rows stay. *)
(* Then the rows of OracleFeed: that they follow the contract, that each   *)
(* median is blended once, and that no handler throws.                     *)
EXTENDS DeviationBreach, WormholePairing, OracleFeed,
        FiniteSetTheorems, SequenceTheorems, WellFoundedInduction, TLAPS

PoolType ==
  [diff : Diff, thr : Nat, sides : Sides, degen : BOOLEAN, anchor : Nat,
   peak : Nat, entry : Nat, seconds : Nat, critical : Nat, count : Nat]
RowType == [id : Nat, startedAt : Nat, entry : Nat, peak : Nat, startedBy : Cause]
InTime  ==
  /\ pool.anchor <= now
  /\ \A row \in open : row.startedAt \in 1..now
  /\ \A c \in closed : c.endedAt \in c.row.startedAt..now /\ c.endedBy \in Cause
Rows  == open \subseteq RowType /\ IsFiniteSet(open) /\ IsFiniteSet(closed)
Types ==
  /\ pool \in PoolType /\ now \in Nat /\ now > 0
  /\ median \in {"fresh", "stale", "none"}
  /\ read \in BOOLEAN /\ owed \in BOOLEAN /\ cold \in BOOLEAN

\* Between transactions an anchor means a price in breach; an anchor that
\* UpdateReserves holds meets the next handler with a fresh median.
HeldIsFresh ==
  ~cold /\ pool.anchor > 0 =>
    \/ InBreach(pool)
    \/ owed /\ read /\ median = "fresh"

BreachInv == Types /\ Rows /\ InTime /\ OpenRowIsAnchor /\ HeldIsFresh

\* Trading time is a natural number.
LEMMA TradingType ==
  ASSUME NEW a \in Int, NEW b \in Int PROVE Trading(a, b) \in Nat
<1>1. IsFiniteSet(a..(b - 1))
  BY FS_Interval
<1>2. IsFiniteSet((a..(b - 1)) \ Weekend)
  BY <1>1, FS_Difference
<1> QED BY <1>2, FS_CardinalityType DEF Trading

LEMMA CriticalType ==
  ASSUME NEW row \in RowType, NEW to \in Nat PROVE Critical(row, to) \in Nat
<1>1. row.startedAt + Grace \in Int /\ to \in Int
  BY BreachAssumption DEF RowType
<1>2. Trading(row.startedAt + Grace, to) \in Nat
  BY <1>1, TradingType
<1> QED BY <1>2 DEF Critical

\* The sample a handler scores: the fields the breach is decided by.
Core(p, q) == /\ p.diff = q.diff /\ p.thr = q.thr
              /\ p.sides = q.sides /\ p.degen = q.degen
LEMMA CoreDecides ==
  ASSUME NEW p, NEW q, Core(p, q) PROVE InBreach(p) <=> InBreach(q)
BY DEF Core, InBreach, Never, Effective

\* recordBreachTransition keeps the sample and the anchor it is given, and the
\* types of the pool and the rows.
LEMMA RecordKeeps ==
  ASSUME NEW next \in PoolType, NEW source, next.anchor <= now,
         Types, Rows, InTime, UNCHANGED now, Record(next, source)
  PROVE  /\ pool' \in PoolType /\ Core(pool', next) /\ pool'.anchor = next.anchor
         /\ Rows' /\ InTime'
<1> USE DEF Types
<1>0. Category(source) \in Cause /\ "unknown" \in Cause
  BY DEF Category, Cause
<1>1. \A start \in Nat, cause \in Cause : Row(next, start, cause) \in RowType
  <2>1. Cardinality(open) + Cardinality(closed) \in Nat
    BY FS_CardinalityType DEF Rows
  <2>2. EntryThreshold(next) \in Nat
    BY DEF EntryThreshold, Effective, PoolType
  <2>3. next.diff \in Nat
    BY BreachAssumption DEF PoolType
  <2> QED BY <2>1, <2>2, <2>3 DEF Row, RowType
<1>2. \A start \in 1..now : Row(next, start, "unknown").startedAt \in 1..now
  BY DEF Row
<1>3. CASE NotBreached(next)
  BY <1>3 DEF NotBreached, Core, Rows, InTime
<1>4. CASE RisingEdge(next, source)
  <2>1. IsFiniteSet(open')
    BY <1>4, FS_AddElement DEF RisingEdge, Rows
  <2>2. Rows'
    BY <1>0, <1>1, <1>4, <2>1 DEF RisingEdge, Rows
  <2>3. InTime'
    BY <1>4 DEF RisingEdge, InTime, Row
  <2> QED BY <1>4, <2>2, <2>3 DEF RisingEdge, Core
<1>5. CASE FallingEdgeWithoutRow(next)
  BY <1>5 DEF FallingEdgeWithoutRow, Core, PoolType, Rows, InTime
<1>6. CASE ContinuingWithoutRow(next)
  <2>1. IsFiniteSet(open')
    BY <1>6, FS_AddElement DEF ContinuingWithoutRow, Rows
  <2>2. next.anchor \in 1..now
    BY <1>6 DEF ContinuingWithoutRow, PoolType
  <2>3. Rows'
    BY <1>0, <1>1, <1>6, <2>1, <2>2 DEF ContinuingWithoutRow, Rows
  <2>4. InTime'
    BY <1>6, <2>2 DEF ContinuingWithoutRow, InTime, Row
  <2> QED BY <1>6, <2>3, <2>4 DEF ContinuingWithoutRow, Core
<1>7. \A row \in Found : row \in open /\ row \in RowType
  BY DEF Found, Rows
<1>8. CASE FallingEdge(next, source)
  <2>1. PICK row \in Found : Close(row, next, source)
    BY <1>8 DEF FallingEdge
  <2>2. row \in open /\ row \in RowType
    BY <1>7
  <2>3. Trading(row.startedAt, now) \in Nat /\ Critical(row, now) \in Nat
    <3>1. row.startedAt \in Int /\ now \in Int /\ now \in Nat
      BY <2>2 DEF RowType
    <3> QED BY <2>2, <3>1, TradingType, CriticalType
  <2>4. pool' \in PoolType /\ Core(pool', next) /\ pool'.anchor = next.anchor
    <3>1. next.seconds \in Nat /\ next.critical \in Nat /\ next.count \in Nat
      BY DEF PoolType
    <3>2. /\ next.seconds + Trading(row.startedAt, now) \in Nat
          /\ next.critical + Critical(row, now) \in Nat /\ next.count + 1 \in Nat
      BY <2>3, <3>1
    <3> QED BY <2>1, <3>2 DEF Close, PoolType, Core
  <2>5. Rows'
    <3>1. IsFiniteSet(open \ {row})
      BY FS_RemoveElement DEF Rows
    <3>2. IsFiniteSet(closed')
      BY <2>1, FS_AddElement DEF Close, Rows
    <3> QED BY <2>1, <3>1, <3>2 DEF Close, Rows
  <2>6. InTime'
    <3>1. row.startedAt \in 1..now
      BY <2>2 DEF InTime
    <3> QED BY <1>0, <2>1, <2>4, <3>1 DEF Close, InTime
  <2> QED BY <2>4, <2>5, <2>6
<1>9. CASE Continuing(next, source)
  <2>1. PICK row \in Found : open' = (open \ {row}) \cup {Bumped(row, next, source)}
    BY <1>9 DEF Continuing
  <2>2. row \in open /\ row \in RowType
    BY <1>7
  <2>3. next.diff \in Nat
    BY BreachAssumption DEF PoolType
  <2>4. Bumped(row, next, source) \in RowType /\ Bumped(row, next, source).startedAt = row.startedAt
    BY <1>0, <2>2, <2>3 DEF Bumped, RowType
  <2>5. IsFiniteSet(open')
    <3>1. IsFiniteSet(open \ {row})
      BY FS_RemoveElement DEF Rows
    <3> QED BY <2>1, <3>1, FS_AddElement
  <2>6. Rows'
    BY <1>9, <2>1, <2>4, <2>5 DEF Continuing, Rows
  <2>7. InTime'
    BY <1>9, <2>1, <2>2, <2>4 DEF Continuing, InTime
  <2> QED BY <1>9, <2>6, <2>7 DEF Continuing, Core
<1> QED BY <1>3, <1>4, <1>5, <1>6, <1>8, <1>9 DEF Record

\* If the anchor given is the previous one, none, or the block's, as the case may
\* be, the anchor has its one row afterwards.
LEMMA RecordRow ==
  ASSUME NEW next \in PoolType, NEW source, Types, Rows, AnchorHasRow,
         next.anchor \in {0, pool.anchor, now},
         pool.anchor > 0 => next.anchor \in {0, pool.anchor},
         pool'.anchor = next.anchor, Record(next, source)
  PROVE  AnchorHasRow'
<1> USE DEF Types, PoolType
<1>1. pool.anchor > 0 => \E row \in open : open = {row} /\ Found = {row}
  BY DEF AnchorHasRow, Found
<1>2. CASE NotBreached(next)
  BY <1>2 DEF NotBreached, AnchorHasRow
<1>3. CASE RisingEdge(next, source)
  <2>1. open = {}
    BY <1>3 DEF RisingEdge, AnchorHasRow
  <2>2. next.anchor = now
    BY <1>3 DEF RisingEdge
  <2> QED BY <1>3, <2>1, <2>2 DEF RisingEdge, AnchorHasRow, Row
<1>4. CASE FallingEdge(next, source)
  <2>1. open' = {}
    BY <1>1, <1>4 DEF FallingEdge, Close
  <2> QED BY <1>4, <2>1 DEF FallingEdge, AnchorHasRow
<1>5. CASE FallingEdgeWithoutRow(next)
  BY <1>1, <1>5 DEF FallingEdgeWithoutRow
<1>6. CASE Continuing(next, source)
  <2>1. PICK row \in Found : open' = (open \ {row}) \cup {Bumped(row, next, source)}
    BY <1>6 DEF Continuing
  <2>2. open = {row} /\ row \in RowType /\ row.startedAt = pool.anchor
    BY <1>1, <1>6 DEF Continuing, Rows, Found
  <2>3. Bumped(row, next, source).startedAt = row.startedAt
    BY <2>2 DEF Bumped, RowType
  <2>4. next.anchor = pool.anchor
    BY <1>6 DEF Continuing
  <2>5. open' = {Bumped(row, next, source)}
    BY <2>1, <2>2
  <2> QED BY <1>6, <2>2, <2>3, <2>4, <2>5 DEF Continuing, AnchorHasRow
<1>7. CASE ContinuingWithoutRow(next)
  BY <1>1, <1>7 DEF ContinuingWithoutRow
<1> QED BY <1>2, <1>3, <1>4, <1>5, <1>6, <1>7 DEF Record

\* The copies of peak and entry threshold are numbers.
LEMMA CopiesType ==
  ASSUME NEW next \in PoolType, Types PROVE NextPeak(next) \in Nat /\ NextEntry(next) \in Nat
<1>1. next.diff \in Nat /\ next.thr \in Nat /\ pool.peak \in Nat /\ pool.entry \in Nat
  BY BreachAssumption DEF Types, PoolType
<1> QED BY <1>1 DEF NextPeak, NextEntry, EntryThreshold, Effective

\* One run of the pipeline, with or without the copies on the pool.
Scored(next, source) ==
  Pipeline(next, source) \/ Record(Anchored(next, source), source)
LEMMA PipelineKeeps ==
  ASSUME NEW next \in PoolType, NEW source, next.anchor = pool.anchor,
         Types, Rows, InTime, UNCHANGED now, Scored(next, source)
  PROVE  /\ pool' \in PoolType /\ Core(pool', next) /\ Rows' /\ InTime'
         /\ pool'.anchor = NextAnchor(next, source)
         /\ AnchorHasRow /\ (pool.anchor > 0 => InBreach(pool) \/ ~InBreach(next))
              => AnchorHasRow'
<1> DEFINE anchored == Anchored(next, source)
           mirrored == Mirrored(anchored)
<1>1. NextAnchor(next, source) \in {0, pool.anchor, now}
  BY DEF NextAnchor
<1>2. (pool.anchor > 0 => InBreach(pool) \/ ~InBreach(next)) =>
        (pool.anchor > 0 => NextAnchor(next, source) \in {0, pool.anchor})
  BY DEF NextAnchor, InBreach
<1>3. pool.anchor \in Nat /\ now \in Nat /\ pool.anchor <= now
  BY DEF Types, PoolType, InTime
<1>4. /\ anchored \in PoolType /\ Core(anchored, next)
      /\ anchored.anchor = NextAnchor(next, source)
  BY <1>1, <1>3 DEF Anchored, PoolType, Core
<1>5. NextPeak(anchored) \in Nat /\ NextEntry(anchored) \in Nat
  BY <1>4, CopiesType
<1>6. /\ mirrored \in PoolType /\ Core(mirrored, next)
      /\ mirrored.anchor = NextAnchor(next, source)
  BY <1>4, <1>5 DEF Mirrored, PoolType, Core
<1>7. NextAnchor(next, source) <= now
  BY <1>1, <1>3
<1> HIDE DEF anchored, mirrored
<1>8. CASE Record(anchored, source)
  <2>1. /\ pool' \in PoolType /\ Core(pool', anchored)
        /\ pool'.anchor = anchored.anchor /\ Rows' /\ InTime'
    BY <1>4, <1>7, <1>8, RecordKeeps
  <2>2. ASSUME AnchorHasRow, pool.anchor > 0 => InBreach(pool) \/ ~InBreach(next)
        PROVE  AnchorHasRow'
    BY <1>1, <1>2, <1>4, <1>8, <2>1, <2>2, RecordRow
  <2> QED BY <1>4, <2>1, <2>2 DEF Core
<1>9. CASE Record(mirrored, source)
  <2>1. /\ pool' \in PoolType /\ Core(pool', mirrored)
        /\ pool'.anchor = mirrored.anchor /\ Rows' /\ InTime'
    BY <1>6, <1>7, <1>9, RecordKeeps
  <2>2. ASSUME AnchorHasRow, pool.anchor > 0 => InBreach(pool) \/ ~InBreach(next)
        PROVE  AnchorHasRow'
    BY <1>1, <1>2, <1>6, <1>9, <2>1, <2>2, RecordRow
  <2> QED BY <1>6, <2>1, <2>2 DEF Core
<1> QED BY <1>8, <1>9 DEF Scored, Pipeline, anchored, mirrored

\* What a pipeline run leaves: the anchor of a price in breach, or one held for
\* UpdateReserves.
LEMMA ScoredAnchor ==
  ASSUME NEW next \in PoolType, NEW source, next.anchor = pool.anchor,
         Types, Rows, InTime, UNCHANGED now, Scored(next, source), pool'.anchor > 0
  PROVE  InBreach(pool') \/ source = "update_reserves"
<1>1. Core(pool', next) /\ pool'.anchor = NextAnchor(next, source)
  BY PipelineKeeps
<1>2. next.anchor \in Nat /\ pool.anchor \in Nat
  BY DEF Types, PoolType
<1>3. InBreach(next) \/ source = "update_reserves"
  BY <1>1, <1>2 DEF NextAnchor
<1> QED BY <1>1, <1>3, CoreDecides

\* upsertPool either runs the pipeline or leaves everything but the sample.
LEMMA UpsertIsScored ==
  ASSUME NEW next, NEW source, NEW trusted, Upsert(next, source, trusted)
  PROVE  \/ Scored(next, source)
         \/ /\ ~trusted /\ ~Never(next) /\ ~(next.degen /\ pool.anchor > 0)
            /\ pool' = next /\ UNCHANGED <<open, closed>>
BY DEF Upsert, Scored

\* A run of the pipeline keeps the invariant: (1) no breach is entered while an
\* anchor of another is there, (2) an anchor that UpdateReserves holds meets a
\* fresh median.
LEMMA ScoredKeeps ==
  ASSUME NEW next \in PoolType, NEW source, next.anchor = pool.anchor, BreachInv,
         UNCHANGED now, Scored(next, source),
         median' \in {"fresh", "stale", "none"}, read' \in BOOLEAN, owed' \in BOOLEAN,
         cold' \in BOOLEAN, cold => cold',
         ~cold' /\ pool.anchor > 0 => InBreach(pool) \/ ~InBreach(next),
         ~cold' /\ pool.anchor > 0 /\ source = "update_reserves"
           /\ ~next.degen /\ ~InBreach(next) => owed' /\ read' /\ median' = "fresh"
  PROVE  BreachInv'
<1>1. Types /\ Rows /\ InTime
  BY DEF BreachInv
<1>2. /\ pool' \in PoolType /\ Core(pool', next) /\ Rows' /\ InTime'
      /\ pool'.anchor = NextAnchor(next, source)
      /\ AnchorHasRow /\ (pool.anchor > 0 => InBreach(pool) \/ ~InBreach(next))
           => AnchorHasRow'
  BY <1>1, PipelineKeeps
<1>3. Types'
  BY <1>1, <1>2 DEF Types
<1>4. OpenRowIsAnchor'
  <2>1. CASE cold'
    BY <2>1 DEF OpenRowIsAnchor
  <2>2. CASE ~cold'
    BY <1>2, <2>2 DEF OpenRowIsAnchor, BreachInv
  <2> QED BY <2>1, <2>2
<1>5. HeldIsFresh'
  <2> SUFFICES ASSUME ~cold', pool'.anchor > 0, ~InBreach(pool')
               PROVE  owed' /\ read' /\ median' = "fresh"
    BY DEF HeldIsFresh
  <2>1. source = "update_reserves"
    BY <1>1, ScoredAnchor
  <2>2. ~InBreach(next)
    BY <1>2, CoreDecides
  <2>3. pool.anchor > 0 /\ ~next.degen
    BY <1>1, <1>2, <2>2 DEF NextAnchor, Types, PoolType
  <2> QED BY <2>1, <2>2, <2>3
<1> QED BY <1>2, <1>3, <1>4, <1>5 DEF BreachInv

\* A step that writes neither anchor nor rows keeps the invariant if the price
\* it leaves is in breach.
LEMMA FrozenKeeps ==
  ASSUME BreachInv, pool' \in PoolType, pool'.anchor = pool.anchor,
         UNCHANGED <<open, closed>>, now' \in Nat, now' >= now,
         median' \in {"fresh", "stale", "none"}, read' \in BOOLEAN, owed' \in BOOLEAN,
         cold' \in BOOLEAN, cold => cold',
         ~cold' /\ pool.anchor > 0 => InBreach(pool')
  PROVE  BreachInv'
<1>1. Types' /\ Rows'
  BY DEF BreachInv, Types, Rows
<1>2. InTime'
  BY DEF BreachInv, Types, PoolType, InTime
<1>3. OpenRowIsAnchor'
  BY DEF BreachInv, OpenRowIsAnchor, AnchorHasRow
<1>4. HeldIsFresh'
  BY DEF HeldIsFresh
<1> QED BY <1>1, <1>2, <1>3, <1>4 DEF BreachInv

\* upsertPool keeps it likewise; (3) a price that is frozen is in breach.
LEMMA UpsertKeeps ==
  ASSUME NEW next \in PoolType, NEW source, NEW trusted, next.anchor = pool.anchor,
         BreachInv, UNCHANGED now, Upsert(next, source, trusted),
         median' \in {"fresh", "stale", "none"}, read' \in BOOLEAN, owed' \in BOOLEAN,
         cold' \in BOOLEAN, cold => cold',
         ~cold' /\ pool.anchor > 0 => InBreach(pool) \/ ~InBreach(next),
         ~cold' /\ pool.anchor > 0 /\ source = "update_reserves"
           /\ ~next.degen /\ ~InBreach(next) => owed' /\ read' /\ median' = "fresh",
         ~cold' /\ pool.anchor > 0 /\ ~trusted /\ ~Never(next) /\ ~next.degen
           => InBreach(next)
  PROVE  BreachInv'
<1>1. CASE Scored(next, source)
  BY <1>1, ScoredKeeps
<1>2. CASE /\ ~trusted /\ ~Never(next) /\ ~(next.degen /\ pool.anchor > 0)
           /\ pool' = next /\ UNCHANGED <<open, closed>>
  <2>1. now' \in Nat /\ now' >= now
    BY DEF BreachInv, Types
  <2> QED BY <1>2, <2>1, FrozenKeeps
<1> QED BY <1>1, <1>2, UpsertIsScored

LEMMA BreachInit == Init => BreachInv
<1> SUFFICES ASSUME Init PROVE BreachInv
  OBVIOUS
<1>1. PICK S \in Sides, d \in Diff : \E t \in S :
        pool = [diff |-> d, thr |-> t, sides |-> S, degen |-> FALSE, anchor |-> 0,
                peak |-> 0, entry |-> 0, seconds |-> 0, critical |-> 0, count |-> 0]
  BY DEF Init
<1>2. pool \in PoolType /\ pool.anchor = 0
  BY <1>1, BreachAssumption DEF PoolType
<1>3. now \in Nat /\ now > 0
  BY BreachAssumption DEF Init
<1>4. Types /\ InTime
  <2>1. read \in BOOLEAN
    BY Zenon DEF Init
  <2>2. median \in {"fresh", "stale", "none"} /\ owed \in BOOLEAN /\ cold \in BOOLEAN
    BY DEF Init
  <2>3. InTime
    BY <1>2, <1>3 DEF Init, InTime
  <2> QED BY <1>2, <1>3, <2>1, <2>2, <2>3 DEF Types
<1>5. Rows
  BY FS_EmptySet DEF Init, Rows
<1>6. OpenRowIsAnchor /\ HeldIsFresh
  BY <1>2 DEF Init, OpenRowIsAnchor, AnchorHasRow, HeldIsFresh
<1> QED BY <1>4, <1>5, <1>6 DEF BreachInv

\* What a reading makes of the median.
LEMMA ReadingTypes ==
  ASSUME Types, Reading \/ NoReading
  PROVE  /\ median' \in {"fresh", "stale", "none"} /\ cold' \in BOOLEAN /\ (cold => cold')
         /\ Reading /\ ~cold' => median' = "fresh"
BY DEF Types, Reading, NoReading, FromEntity, FromContract

\* The invariant is inductive: one step per event.
LEMMA BreachStep == BreachInv /\ [Next]_vars => BreachInv'
<1> SUFFICES ASSUME BreachInv, [Next]_vars PROVE BreachInv'
  OBVIOUS
<1>0. /\ Types /\ pool \in PoolType /\ pool.sides \in Sides /\ pool.sides \subseteq Nat
      /\ \A S \in Sides : S \subseteq Nat
      /\ median \in {"fresh", "stale", "none"} /\ read \in BOOLEAN
      /\ owed \in BOOLEAN /\ cold \in BOOLEAN /\ now \in Nat
  BY BreachAssumption DEF BreachInv, Types, PoolType
<1>1. ~cold /\ pool.anchor > 0 /\ ~owed => InBreach(pool)
  BY DEF BreachInv, HeldIsFresh
<1>2. ASSUME NEW degen \in BOOLEAN, UpdateReserves(degen) PROVE BreachInv'
  <2>1. ~cold /\ pool.anchor > 0 => InBreach(pool)
    BY <1>2 DEF UpdateReserves, Holding, BreachInv, HeldIsFresh
  <2>2. owed' = TRUE /\ now' = now
    BY <1>2 DEF UpdateReserves
  <2>3. ASSUME Reading, read' = TRUE, NEW d \in Diff, NEW t \in pool.sides,
               Upsert([pool EXCEPT !.diff = d, !.thr = t, !.degen = degen],
                      "update_reserves", TRUE)
        PROVE  BreachInv'
    <3> DEFINE next == [pool EXCEPT !.diff = d, !.thr = t, !.degen = degen]
    <3>1. next \in PoolType /\ next.anchor = pool.anchor
      BY <1>0 DEF PoolType
    <3>2. Upsert(next, "update_reserves", TRUE)
      BY <2>3
    <3>3. /\ median' \in {"fresh", "stale", "none"} /\ cold' \in BOOLEAN
          /\ (cold => cold') /\ (~cold' => median' = "fresh")
      BY <1>0, <2>3, ReadingTypes
    <3> HIDE DEF next
    <3> QED BY <2>1, <2>2, <2>3, <3>1, <3>2, <3>3, UpsertKeeps
  <2>4. ASSUME NoReading, read' = FALSE,
               Upsert([pool EXCEPT !.degen = degen], "update_reserves", FALSE)
        PROVE  BreachInv'
    <3> DEFINE next == [pool EXCEPT !.degen = degen]
    <3>1. /\ next \in PoolType /\ next.anchor = pool.anchor /\ next.degen = degen
          /\ next.diff = pool.diff /\ next.thr = pool.thr /\ next.sides = pool.sides
      BY <1>0 DEF PoolType
    <3>2. Upsert(next, "update_reserves", FALSE)
      BY <2>4
    <3>3. /\ median' \in {"fresh", "stale", "none"} /\ cold' \in BOOLEAN /\ (cold => cold')
      BY <1>0, <2>4, ReadingTypes
    <3>4. InBreach(pool) /\ ~next.degen => InBreach(next)
      BY <3>1 DEF InBreach, Never, Effective
    <3> HIDE DEF next
    <3> QED BY <2>1, <2>2, <2>4, <3>1, <3>2, <3>3, <3>4, UpsertKeeps
  <2> QED BY <1>2, <2>3, <2>4 DEF UpdateReserves
<1>3. CASE ConfirmReserves
  <2>1. ~cold /\ pool.anchor > 0 => owed /\ read /\ median = "fresh"
    BY <1>3 DEF ConfirmReserves, Holding, BreachInv, HeldIsFresh
  <2>2. Upsert(pool, "update_reserves", median = "fresh")
    BY <1>3 DEF ConfirmReserves
  <2>3. now' = now /\ median' = median /\ read' = read /\ owed' = owed /\ cold' = cold
    BY <1>3 DEF ConfirmReserves
  <2> QED BY <1>0, <2>1, <2>2, <2>3, UpsertKeeps
<1>4. CASE SwapOrLiquidity
  <2>1. ~cold /\ pool.anchor > 0 /\ ~(median = "fresh") => InBreach(pool)
    BY DEF BreachInv, HeldIsFresh
  <2>2. Upsert(pool, "swap", median = "fresh")
    BY <1>4 DEF SwapOrLiquidity
  <2>3. now' = now /\ median' = median /\ read' = read /\ owed' = FALSE /\ cold' = cold
    BY <1>4 DEF SwapOrLiquidity
  <2> QED BY <1>0, <2>1, <2>2, <2>3, UpsertKeeps
<1>5. CASE Rebalanced
  <2>1. PICK d \in Diff, t \in pool.sides \cup {pool.thr} :
          /\ read => d = pool.diff /\ t = pool.thr
          /\ Upsert([pool EXCEPT !.diff = d, !.thr = t], "rebalance", TRUE)
    BY <1>5 DEF Rebalanced
  <2>2. /\ now' = now /\ median' \in {"fresh", "stale", "none"}
        /\ read' = TRUE /\ owed' = FALSE /\ cold' = cold
    BY <1>0, <1>5 DEF Rebalanced
  <2> DEFINE next == [pool EXCEPT !.diff = d, !.thr = t]
  <2>3. next \in PoolType /\ next.anchor = pool.anchor
    BY <1>0 DEF PoolType
  <2>4. read => Core(next, pool)
    BY <1>0, <2>1 DEF Core, PoolType
  <2>5. ~cold /\ pool.anchor > 0 => InBreach(pool) \/ ~InBreach(next)
    BY <2>4, CoreDecides DEF BreachInv, HeldIsFresh
  <2>6. Upsert(next, "rebalance", TRUE)
    BY <2>1
  <2> HIDE DEF next
  <2> QED BY <1>0, <2>2, <2>3, <2>5, <2>6, UpsertKeeps
<1>6. ASSUME NEW d \in Diff, MedianUpdated(d) PROVE BreachInv'
  <2>1. PICK t \in pool.sides : Pipeline([pool EXCEPT !.diff = d, !.thr = t], "oracle_update")
    BY <1>6 DEF MedianUpdated
  <2>2. /\ ~owed /\ now' = now /\ median' = "fresh" /\ read' = TRUE
        /\ owed' = owed /\ cold' = cold
    BY <1>6 DEF MedianUpdated
  <2> DEFINE next == [pool EXCEPT !.diff = d, !.thr = t]
  <2>3. next \in PoolType /\ next.anchor = pool.anchor
    BY <1>0 DEF PoolType
  <2>4. Scored(next, "oracle_update")
    BY <2>1 DEF Scored
  <2> HIDE DEF next
  <2> QED BY <1>0, <1>1, <2>2, <2>3, <2>4, ScoredKeeps
<1>7. CASE MedianOutage
  <2>1. /\ ~owed /\ now' = now /\ median' = "none" /\ read' = read
        /\ owed' = owed /\ cold' = cold
    BY <1>7 DEF MedianOutage
  <2>2. Scored(pool, "oracle_update")
    BY <1>7 DEF MedianOutage, Scored
  <2> QED BY <1>0, <1>1, <2>1, <2>2, ScoredKeeps
<1>8. ASSUME NEW d \in Diff, OracleReported(d) PROVE BreachInv'
  <2> DEFINE next == [pool EXCEPT !.diff = d]
  <2>1. /\ ~owed /\ now' = now /\ median' = "fresh" /\ read' = TRUE
        /\ owed' = owed /\ cold' = cold
    BY <1>8 DEF OracleReported
  <2>2. next \in PoolType /\ next.anchor = pool.anchor
    BY <1>0 DEF PoolType
  <2>3. Scored(next, "oracle_update")
    BY <1>8 DEF OracleReported, Scored
  <2> HIDE DEF next
  <2> QED BY <1>0, <1>1, <2>1, <2>2, <2>3, ScoredKeeps
<1>9. ASSUME NEW S \in Sides, ThresholdUpdated(S) PROVE BreachInv'
  <2>1. ~owed /\ owed' = owed /\ now' = now
    BY <1>9 DEF ThresholdUpdated
  <2>2. ASSUME Reading, read' = TRUE, NEW d \in Diff, NEW t \in S,
               Upsert([pool EXCEPT !.diff = d, !.thr = t, !.sides = S], "threshold_change", TRUE)
        PROVE  BreachInv'
    <3> DEFINE next == [pool EXCEPT !.diff = d, !.thr = t, !.sides = S]
    <3>1. next \in PoolType /\ next.anchor = pool.anchor
      BY <1>0 DEF PoolType
    <3>2. Upsert(next, "threshold_change", TRUE)
      BY <2>2
    <3>3. /\ median' \in {"fresh", "stale", "none"} /\ cold' \in BOOLEAN /\ (cold => cold')
      BY <1>0, <2>2, ReadingTypes
    <3> HIDE DEF next
    <3> QED BY <1>0, <1>1, <2>1, <2>2, <3>1, <3>2, <3>3, UpsertKeeps
  <2>3. ASSUME NoReading, read' = read, S = {0},
               Upsert([pool EXCEPT !.thr = 0, !.sides = S], "threshold_change", FALSE)
        PROVE  BreachInv'
    <3> DEFINE next == [pool EXCEPT !.thr = 0, !.sides = S]
    <3>1. next \in PoolType /\ next.anchor = pool.anchor /\ next.sides = S
      BY <1>0 DEF PoolType
    <3>2. Upsert(next, "threshold_change", FALSE)
      BY <2>3
    <3>3. /\ median' \in {"fresh", "stale", "none"} /\ cold' \in BOOLEAN /\ (cold => cold')
      BY <1>0, <2>3, ReadingTypes
    <3>4. Never(next)
      BY <2>3, <3>1 DEF Never
    <3> HIDE DEF next
    <3> QED BY <1>0, <1>1, <2>1, <2>3, <3>1, <3>2, <3>3, <3>4, UpsertKeeps
  <2>4. ASSUME NoReading, read' = read, S # {0},
               pool' = [pool EXCEPT !.sides = S], UNCHANGED <<open, closed>>
        PROVE  BreachInv'
    <3>1. pool' \in PoolType /\ pool'.anchor = pool.anchor
      BY <1>0, <2>4 DEF PoolType
    <3>2. InBreach(pool) => InBreach(pool')
      BY <1>0, <2>4 DEF InBreach, Never, Effective, PoolType
    <3>3. /\ median' \in {"fresh", "stale", "none"} /\ cold' \in BOOLEAN /\ (cold => cold')
      BY <1>0, <2>4, ReadingTypes
    <3>4. now' >= now
      BY <1>0, <2>1
    <3> QED BY <1>0, <1>1, <2>1, <2>4, <3>1, <3>2, <3>3, <3>4, FrozenKeeps
  <2> QED BY <1>9, <2>2, <2>3, <2>4 DEF ThresholdUpdated
<1>10. CASE FreshnessMoved
  <2>1. /\ ~owed /\ pool' = pool /\ open' = open /\ closed' = closed /\ now' = now
        /\ read' = read /\ owed' = owed /\ cold' = cold /\ median' \in {"fresh", "stale"}
    BY <1>10 DEF FreshnessMoved
  <2>2. InBreach(pool') <=> InBreach(pool)
    BY <2>1 DEF InBreach, Never, Effective
  <2>3. now' >= now
    BY <1>0, <2>1
  <2> QED BY <1>0, <1>1, <2>1, <2>2, <2>3, FrozenKeeps
<1>11. CASE NextBlock
  <2>1. /\ ~owed /\ pool' = pool /\ open' = open /\ closed' = closed /\ now' \in Blocks
        /\ now' > now /\ read' = read /\ owed' = owed /\ cold' = cold
        /\ median' \in {"fresh", "stale", median}
    BY <1>11 DEF NextBlock
  <2>2. InBreach(pool') <=> InBreach(pool)
    BY <2>1 DEF InBreach, Never, Effective
  <2>3. now' \in Nat /\ now' >= now
    BY <1>0, <2>1, BreachAssumption
  <2> QED BY <1>0, <1>1, <2>1, <2>2, <2>3, FrozenKeeps
<1>12. CASE UNCHANGED vars
  BY <1>12 DEF vars, BreachInv, Types, Rows, InTime, OpenRowIsAnchor, AnchorHasRow,
     HeldIsFresh, InBreach, Never, Effective
<1> QED
  BY <1>2, <1>3, <1>4, <1>5, <1>6, <1>7, <1>8, <1>9, <1>10, <1>11, <1>12 DEF Next

LEMMA BreachAlways == Spec => []BreachInv
BY BreachInit, BreachStep, PTL DEF Spec

LEMMA TypesImplied == BreachInv => TypeOK
<1> SUFFICES ASSUME BreachInv PROVE TypeOK
  OBVIOUS
<1>1. Types /\ Rows /\ InTime
  BY DEF BreachInv
<1>2. /\ pool.diff \in Diff /\ pool.sides \in Sides /\ pool.thr \in Nat
      /\ pool.anchor \in 0..now /\ pool.degen \in BOOLEAN
      /\ {pool.peak, pool.entry, pool.seconds, pool.critical, pool.count} \subseteq Nat
  BY <1>1 DEF Types, PoolType, InTime
<1>3. \A row \in open : row.startedAt \in 1..now /\ row.startedBy \in Cause
  BY <1>1 DEF Rows, RowType, InTime
<1>4. \A c \in closed : c.endedAt \in c.row.startedAt..now /\ c.endedBy \in Cause
  BY <1>1 DEF InTime
<1> QED BY <1>1, <1>2, <1>3, <1>4 DEF TypeOK, Types

\* Type correctness: every field of the Pool entity and of the rows has its
\* type in every reachable state, the times being those of blocks seen.
THEOREM BreachTypes == Spec => []TypeOK
BY BreachAlways, TypesImplied, PTL

\* As long as the contract's price was only read where the entity knew the
\* median, the anchor on the pool and the one open row agree: this is what
\* recordBreachTransition needs to find the row it must close.
THEOREM AnchorAndRowAgree == Spec => []OpenRowIsAnchor
<1>1. BreachInv => OpenRowIsAnchor
  BY DEF BreachInv
<1> QED BY <1>1, BreachAlways, PTL

-----------------------------------------------------------------------------
(* Every step, seen from the rows.                                         *)

Sources == {"update_reserves", "swap", "rebalance", "oracle_update", "threshold_change"}

\* The totals on the pool.
SameTotals(p, q) ==
  p.seconds = q.seconds /\ p.critical = q.critical /\ p.count = q.count

\* The pool with another sample.
Resampled(next) ==
  /\ next \in PoolType /\ next.anchor = pool.anchor
  /\ next.peak = pool.peak /\ next.entry = pool.entry
  /\ SameTotals(next, pool)

\* A handler runs the pipeline, OracleReported without the copies; where
\* UpdateReserves finds a breach the median is fresh, or the reading was cold.
Moves(next, source) ==
  /\ Resampled(next) /\ now' = now
  /\ \/ Pipeline(next, source)
     \/ Scored(next, source) /\ \E d \in Diff : OracleReported(d)
  /\ source = "update_reserves" =>
       /\ owed' = TRUE /\ (median = "fresh" => median' = "fresh")
       /\ InBreach(next) /\ ~cold' => median' = "fresh"

\* Or the rows and the price rest.
Rests ==
  /\ pool'.diff = pool.diff /\ pool'.anchor = pool.anchor
  /\ pool'.peak = pool.peak /\ pool'.entry = pool.entry
  /\ SameTotals(pool', pool)
  /\ UNCHANGED <<open, closed>>
  /\ ~owed \/ median # "fresh"

LEMMA UpsertMoves ==
  ASSUME NEW next, NEW source, NEW trusted, Resampled(next), now' = now,
         Upsert(next, source, trusted), trusted \/ next.diff = pool.diff,
         trusted \/ ~owed \/ median # "fresh",
         source = "update_reserves" =>
           /\ owed' = TRUE /\ (median = "fresh" => median' = "fresh")
           /\ InBreach(next) /\ ~cold' /\ (trusted \/ Never(next) \/ next.degen) => median' = "fresh"
  PROVE  Rests \/ Moves(next, source)
<1>1. CASE trusted \/ Never(next) \/ (next.degen /\ pool.anchor > 0)
  <2>1. Pipeline(next, source)
    BY <1>1 DEF Upsert
  <2> QED BY <1>1, <2>1 DEF Moves
<1>2. CASE ~(trusted \/ Never(next) \/ (next.degen /\ pool.anchor > 0))
  BY <1>2 DEF Upsert, Rests, Resampled, SameTotals
<1> QED BY <1>1, <1>2

LEMMA StepMoves ==
  ASSUME BreachInv, Next
  PROVE  /\ Rests \/ \E next \in PoolType, source \in Sources : Moves(next, source)
         /\ cold => cold'
<1>0. /\ Types /\ pool \in PoolType /\ pool.sides \in Sides /\ pool.sides \subseteq Nat
      /\ \A S \in Sides : S \subseteq Nat
  BY BreachAssumption DEF BreachInv, Types, PoolType
<1>1. cold => cold'
  BY DEF Next, UpdateReserves, ConfirmReserves, SwapOrLiquidity, Rebalanced, MedianUpdated, MedianOutage,
     OracleReported, ThresholdUpdated, FreshnessMoved, NextBlock, Reading, FromEntity, FromContract,
     NoReading
<1> DEFINE Goal == Rests \/ \E next \in PoolType, source \in Sources : Moves(next, source)
<1> SUFFICES Goal
  BY <1>1
<1>2. ASSUME NEW next, NEW source \in Sources, Moves(next, source) PROVE Goal
  BY <1>2 DEF Moves, Resampled
<1>3. Resampled(pool)
  BY <1>0 DEF Resampled, SameTotals
<1> HIDE DEF Goal
<1>4. Rests => Goal
  BY DEF Goal
<1>5. ASSUME NEW degen \in BOOLEAN, UpdateReserves(degen) PROVE Goal
  <2>1. owed' = TRUE /\ now' = now /\ "update_reserves" \in Sources
    BY <1>5 DEF UpdateReserves, Sources
  <2>2. ASSUME Reading, NEW d \in Diff, NEW t \in pool.sides,
               Upsert([pool EXCEPT !.diff = d, !.thr = t, !.degen = degen], "update_reserves", TRUE)
        PROVE  Goal
    <3> DEFINE next == [pool EXCEPT !.diff = d, !.thr = t, !.degen = degen]
    <3>1. Resampled(next)
      BY <1>0 DEF Resampled, SameTotals, PoolType
    <3>2. (median = "fresh" => median' = "fresh") /\ (~cold' => median' = "fresh")
      BY <2>2 DEF Reading, FromEntity, FromContract
    <3>3. Upsert(next, "update_reserves", TRUE)
      BY <2>2
    <3> HIDE DEF next
    <3> QED BY <1>2, <1>4, <2>1, <3>1, <3>2, <3>3, UpsertMoves
  <2>3. ASSUME NoReading, Upsert([pool EXCEPT !.degen = degen], "update_reserves", FALSE) PROVE Goal
    <3> DEFINE next == [pool EXCEPT !.degen = degen]
    <3>1. Resampled(next) /\ next.diff = pool.diff
      BY <1>0 DEF Resampled, SameTotals, PoolType
    <3>2. median # "fresh"
      BY <2>3 DEF NoReading
    <3>3. Upsert(next, "update_reserves", FALSE)
      BY <2>3
    <3>4. InBreach(next) => ~(Never(next) \/ next.degen)
      BY DEF InBreach
    <3> HIDE DEF next
    <3> QED BY <1>2, <1>4, <2>1, <3>1, <3>2, <3>3, <3>4, UpsertMoves
  <2> QED BY <1>5, <2>2, <2>3 DEF UpdateReserves
<1>6. CASE ConfirmReserves
  <2>1. /\ owed' = TRUE /\ now' = now /\ median' = median /\ ~InBreach(pool)
        /\ Upsert(pool, "update_reserves", median = "fresh") /\ "update_reserves" \in Sources
    BY <1>0, <1>6 DEF ConfirmReserves, Holding, Sources, Types
  <2> QED BY <1>2, <1>3, <1>4, <2>1, UpsertMoves
<1>7. CASE SwapOrLiquidity
  <2>1. /\ now' = now /\ Upsert(pool, "swap", median = "fresh") /\ "swap" \in Sources
        /\ "swap" # "update_reserves"
    BY <1>7 DEF SwapOrLiquidity, Sources
  <2> QED BY <1>2, <1>3, <1>4, <2>1, UpsertMoves
<1>8. CASE Rebalanced
  <2>1. PICK d \in Diff, t \in pool.sides \cup {pool.thr} :
          Upsert([pool EXCEPT !.diff = d, !.thr = t], "rebalance", TRUE)
    BY <1>8 DEF Rebalanced
  <2> DEFINE next == [pool EXCEPT !.diff = d, !.thr = t]
  <2>2. Resampled(next)
    BY <1>0 DEF Resampled, SameTotals, PoolType
  <2>3. now' = now /\ "rebalance" \in Sources /\ "rebalance" # "update_reserves"
    BY <1>8 DEF Rebalanced, Sources
  <2>4. Upsert(next, "rebalance", TRUE)
    BY <2>1
  <2> HIDE DEF next
  <2> QED BY <1>2, <1>4, <2>2, <2>3, <2>4, UpsertMoves
<1>9. "oracle_update" \in Sources /\ "oracle_update" # "update_reserves"
  BY DEF Sources
<1>10. ASSUME NEW d \in Diff, MedianUpdated(d) PROVE Goal
  <2>1. PICK t \in pool.sides : Pipeline([pool EXCEPT !.diff = d, !.thr = t], "oracle_update")
    BY <1>10 DEF MedianUpdated
  <2> DEFINE next == [pool EXCEPT !.diff = d, !.thr = t]
  <2>2. Resampled(next)
    BY <1>0 DEF Resampled, SameTotals, PoolType
  <2>3. now' = now
    BY <1>10 DEF MedianUpdated
  <2>4. Moves(next, "oracle_update")
    BY <1>9, <2>1, <2>2, <2>3 DEF Moves
  <2> QED BY <1>2, <1>9, <2>4
<1>11. CASE MedianOutage
  <2>1. Moves(pool, "oracle_update")
    BY <1>3, <1>9, <1>11 DEF MedianOutage, Moves
  <2> QED BY <1>2, <1>9, <2>1
<1>12. ASSUME NEW d \in Diff, OracleReported(d) PROVE Goal
  <2> DEFINE next == [pool EXCEPT !.diff = d]
  <2>1. Resampled(next)
    BY <1>0 DEF Resampled, SameTotals, PoolType
  <2>2. now' = now /\ Scored(next, "oracle_update")
    BY <1>12 DEF OracleReported, Scored
  <2>3. Moves(next, "oracle_update")
    BY <1>9, <1>12, <2>1, <2>2 DEF Moves
  <2> QED BY <1>2, <1>9, <2>3
<1>13. ASSUME NEW S \in Sides, ThresholdUpdated(S) PROVE Goal
  <2>1. /\ ~owed /\ now' = now /\ "threshold_change" \in Sources
        /\ "threshold_change" # "update_reserves"
    BY <1>13 DEF ThresholdUpdated, Sources
  <2>2. ASSUME NEW d \in Diff, NEW t \in S,
               Upsert([pool EXCEPT !.diff = d, !.thr = t, !.sides = S], "threshold_change", TRUE)
        PROVE  Goal
    <3> DEFINE next == [pool EXCEPT !.diff = d, !.thr = t, !.sides = S]
    <3>1. Resampled(next)
      BY <1>0 DEF Resampled, SameTotals, PoolType
    <3>2. Upsert(next, "threshold_change", TRUE)
      BY <2>2
    <3> HIDE DEF next
    <3> QED BY <1>2, <1>4, <2>1, <3>1, <3>2, UpsertMoves
  <2>3. ASSUME Upsert([pool EXCEPT !.thr = 0, !.sides = S], "threshold_change", FALSE) PROVE Goal
    <3> DEFINE next == [pool EXCEPT !.thr = 0, !.sides = S]
    <3>1. Resampled(next) /\ next.diff = pool.diff
      BY <1>0 DEF Resampled, SameTotals, PoolType
    <3>2. Upsert(next, "threshold_change", FALSE)
      BY <2>3
    <3> HIDE DEF next
    <3> QED BY <1>2, <1>4, <2>1, <3>1, <3>2, UpsertMoves
  <2>4. ASSUME pool' = [pool EXCEPT !.sides = S], UNCHANGED <<open, closed>> PROVE Goal
    BY <1>0, <1>4, <2>1, <2>4 DEF Rests, SameTotals, PoolType
  <2> QED BY <1>13, <2>2, <2>3, <2>4 DEF ThresholdUpdated
<1>14. CASE FreshnessMoved \/ NextBlock
  BY <1>4, <1>14 DEF FreshnessMoved, NextBlock, Rests, SameTotals
<1> QED BY <1>5, <1>6, <1>7, <1>8, <1>10, <1>11, <1>12, <1>13, <1>14 DEF Next

\* The sample and anchor a moving step hands to recordBreachTransition.
LEMMA MoveRecords ==
  ASSUME BreachInv, NEW next, NEW source, Moves(next, source)
  PROVE  \E given \in PoolType :
           /\ Record(given, source) /\ Core(given, next)
           /\ given.anchor = NextAnchor(next, source)
           /\ pool'.anchor = given.anchor /\ Core(pool', given) /\ given.anchor <= now
           /\ SameTotals(given, pool)
<1> DEFINE anchored == Anchored(next, source)
           mirrored == Mirrored(anchored)
<1>0. Types /\ Rows /\ InTime /\ next \in PoolType /\ now' = now
  BY DEF BreachInv, Moves, Resampled
<1>1. NextAnchor(next, source) \in Nat /\ NextAnchor(next, source) <= now
  BY <1>0 DEF NextAnchor, Types, PoolType, InTime
<1>2. /\ anchored \in PoolType /\ Core(anchored, next)
      /\ anchored.anchor = NextAnchor(next, source)
  BY <1>0, <1>1 DEF Anchored, PoolType, Core
<1>3. NextPeak(anchored) \in Nat /\ NextEntry(anchored) \in Nat
  BY <1>0, <1>2, CopiesType
<1>4. /\ mirrored \in PoolType /\ Core(mirrored, next)
      /\ mirrored.anchor = NextAnchor(next, source)
  BY <1>2, <1>3 DEF Mirrored, PoolType, Core
<1>7. SameTotals(anchored, pool) /\ SameTotals(mirrored, pool)
  BY <1>0, <1>1, <1>3 DEF Anchored, Mirrored, PoolType, SameTotals, Moves, Resampled
<1>5. Record(anchored, source) \/ Record(mirrored, source)
  BY DEF Moves, Scored, Pipeline
<1> HIDE DEF anchored, mirrored
<1>6. ASSUME NEW given \in PoolType, Record(given, source), given.anchor <= now
      PROVE  pool'.anchor = given.anchor /\ Core(pool', given)
  BY <1>0, <1>6, RecordKeeps
<1> QED BY <1>1, <1>2, <1>4, <1>5, <1>6, <1>7

-----------------------------------------------------------------------------
\* While the anchor has its row, that row is the one the step wrote.
LEMMA RecordPeak ==
  ASSUME NEW next \in PoolType, NEW source, Rows, Record(next, source),
         pool'.anchor = next.anchor, pool'.diff = next.diff
  PROVE  PeakCoversPrice'
<1> SUFFICES ASSUME AnchorHasRow', NEW row \in open' PROVE pool'.diff <= row.peak
  BY DEF PeakCoversPrice
<1>1. pool'.anchor > 0 /\ \A r \in open' : r = row
  BY DEF AnchorHasRow
<1>2. next.diff \in Nat
  BY BreachAssumption DEF PoolType
<1>3. CASE RisingEdge(next, source)
  <2>1. Row(next, now, Category(source)) \in open'
    BY <1>3 DEF RisingEdge
  <2> QED BY <1>1, <1>2, <2>1 DEF Row
<1>4. CASE ContinuingWithoutRow(next)
  <2>1. Row(next, next.anchor, "unknown") \in open'
    BY <1>4 DEF ContinuingWithoutRow
  <2> QED BY <1>1, <1>2, <2>1 DEF Row
<1>5. CASE Continuing(next, source)
  <2>1. PICK r \in Found : open' = (open \ {r}) \cup {Bumped(r, next, source)}
    BY <1>5 DEF Continuing
  <2>2. r \in RowType
    BY DEF Found, Rows
  <2>3. Bumped(r, next, source).peak >= next.diff
    BY <1>2, <2>2 DEF Bumped, RowType
  <2> QED BY <1>1, <2>1, <2>3
<1>6. ~NotBreached(next) /\ ~FallingEdge(next, source) /\ ~FallingEdgeWithoutRow(next)
  BY <1>1 DEF NotBreached, FallingEdge, FallingEdgeWithoutRow
<1> QED BY <1>3, <1>4, <1>5, <1>6 DEF Record

\* While an anchor has its row, the row's peak covers the price: every step that
\* moves the price writes the row, cold reading or not.
THEOREM PeakCovers == Spec => []PeakCoversPrice
<1>1. Init => PeakCoversPrice
  BY DEF Init, PeakCoversPrice
<1>2. BreachInv /\ PeakCoversPrice /\ [Next]_vars => PeakCoversPrice'
  <2> SUFFICES ASSUME BreachInv, PeakCoversPrice, [Next]_vars PROVE PeakCoversPrice'
    OBVIOUS
  <2>1. CASE Rests \/ UNCHANGED vars
    BY <2>1 DEF Rests, vars, PeakCoversPrice, AnchorHasRow
  <2>2. ASSUME NEW next \in PoolType, NEW source \in Sources, Moves(next, source)
        PROVE  PeakCoversPrice'
    <3>1. PICK given \in PoolType : /\ Record(given, source)
                                   /\ pool'.anchor = given.anchor /\ Core(pool', given)
      BY <2>2, MoveRecords
    <3> QED BY <3>1, RecordPeak DEF Core, BreachInv
  <2> QED BY <2>1, <2>2, StepMoves
<1> QED BY <1>1, <1>2, BreachAlways, PTL DEF Spec

-----------------------------------------------------------------------------
\* A row with the cause "unknown" is of this block, and the event that will name
\* it meets a fresh median; a closed one ended in the block it began.
CauseInv ==
  ~cold =>
    /\ \A row \in open : row.startedBy = "unknown" =>
         owed /\ median = "fresh" /\ row.startedAt = now
    /\ \A c \in closed : c.row.startedBy = "unknown" => c.endedAt = c.row.startedAt

LEMMA RecordCause ==
  ASSUME NEW next \in PoolType, NEW source \in Sources, Rows, AnchorHasRow, UNCHANGED now,
         Record(next, source), CauseInv, ~cold,
         source = "update_reserves" =>
           /\ owed' = TRUE /\ (median = "fresh" => median' = "fresh")
           /\ pool.anchor = 0 /\ next.anchor > 0 => median' = "fresh"
  PROVE  CauseInv'
<1>0. source # "update_reserves" => Category(source) # "unknown"
  BY DEF Category
<1>1. pool.anchor > 0 => Found # {}
  BY DEF AnchorHasRow, Found
<1>2. \A row \in open : row.startedBy = "unknown" => owed /\ median = "fresh" /\ row.startedAt = now
  BY DEF CauseInv
<1>3. \A c \in closed : c.row.startedBy = "unknown" => c.endedAt = c.row.startedAt
  BY DEF CauseInv
<1>4. CASE NotBreached(next)
  <2>1. open' = {} /\ closed' = closed
    BY <1>4 DEF NotBreached, AnchorHasRow
  <2> QED BY <1>3, <2>1 DEF CauseInv
<1>5. CASE RisingEdge(next, source)
  <2>1. /\ closed' = closed /\ open' = {Row(next, now, Category(source))}
        /\ pool.anchor = 0 /\ next.anchor > 0
    BY <1>5 DEF RisingEdge, AnchorHasRow
  <2>2. Row(next, now, Category(source)).startedBy = Category(source)
        /\ Row(next, now, Category(source)).startedAt = now
    BY DEF Row
  <2> QED BY <1>0, <1>3, <2>1, <2>2 DEF CauseInv
<1>6. CASE FallingEdge(next, source)
  <2>1. PICK row \in Found : Close(row, next, source)
    BY <1>6 DEF FallingEdge
  <2>2. row \in open /\ open' = open \ {row} /\ open' = {}
    BY <2>1 DEF Found, Close, AnchorHasRow
  <2>3. \A c \in closed' : c \in closed \/ (c.row = row /\ c.endedAt = now)
    BY <2>1 DEF Close
  <2> QED BY <1>2, <1>3, <2>2, <2>3 DEF CauseInv
<1>7. CASE Continuing(next, source)
  <2>1. PICK row \in Found : open' = (open \ {row}) \cup {Bumped(row, next, source)}
    BY <1>7 DEF Continuing
  <2>2. row \in open /\ row \in RowType /\ closed' = closed /\ open' = {Bumped(row, next, source)}
    BY <1>7, <2>1 DEF Found, Rows, Continuing, AnchorHasRow
  <2>3. /\ Bumped(row, next, source).startedAt = row.startedAt
        /\ Bumped(row, next, source).startedBy =
             IF row.startedBy = "unknown" THEN Category(source) ELSE row.startedBy
    BY <2>2 DEF Bumped, RowType
  <2> QED BY <1>0, <1>2, <1>3, <2>2, <2>3 DEF CauseInv
<1>8. ~FallingEdgeWithoutRow(next) /\ ~ContinuingWithoutRow(next)
  BY <1>1 DEF FallingEdgeWithoutRow, ContinuingWithoutRow
<1> QED BY <1>4, <1>5, <1>6, <1>7, <1>8 DEF Record

\* After each transaction every row says what began it, unless the breach ended
\* in the block it began: the event that follows UpdateReserves always reaches the
\* row, because a median found fresh stays fresh within a transaction.
THEOREM CauseKnown == Spec => []CauseIsKnown
<1>1. Init => CauseInv
  BY DEF Init, CauseInv
<1>2. BreachInv /\ CauseInv /\ [Next]_vars => CauseInv'
  <2> SUFFICES ASSUME BreachInv, CauseInv, [Next]_vars, ~cold' PROVE CauseInv'
    BY DEF CauseInv
  <2>1. CASE UNCHANGED vars
    BY <2>1 DEF vars, CauseInv
  <2>2. CASE Next /\ Rests
    BY <2>2, StepMoves DEF Rests, CauseInv
  <2>3. ASSUME Next, NEW next \in PoolType, NEW source \in Sources, Moves(next, source)
        PROVE  CauseInv'
    <3>1. PICK given \in PoolType : /\ Record(given, source)
                                   /\ given.anchor = NextAnchor(next, source)
      BY <2>3, MoveRecords
    <3>2. pool.anchor = 0 /\ given.anchor > 0 => InBreach(next)
      BY <3>1 DEF NextAnchor
    <3>3. now' = now /\ (source = "update_reserves" =>
            /\ owed' = TRUE /\ (median = "fresh" => median' = "fresh")
            /\ InBreach(next) /\ ~cold' => median' = "fresh")
      BY <2>3 DEF Moves
    <3>4. ~cold /\ AnchorHasRow /\ Rows
      BY <2>3, StepMoves DEF BreachInv, OpenRowIsAnchor
    <3> QED BY <3>1, <3>2, <3>3, <3>4, RecordCause
  <2> QED BY <2>1, <2>2, <2>3, StepMoves
<1>3. CauseInv => CauseIsKnown
  BY DEF CauseInv, CauseIsKnown
<1> QED BY <1>1, <1>2, <1>3, BreachAlways, PTL DEF Spec

\* UpdateReserves ends a breach itself only for degenerate reserves: a price back
\* within its threshold is left to the event that explains it.
THEOREM EndAttributed == Spec => EndIsAttributed
<1>1. BreachInv /\ [Next]_vars =>
        [\A c \in closed' \ closed : c.endedBy = "unknown" => pool'.degen]_vars
  <2> SUFFICES ASSUME BreachInv, Next, NEW c \in closed' \ closed, c.endedBy = "unknown"
               PROVE  pool'.degen
    BY DEF vars
  <2>1. ~Rests
    BY DEF Rests
  <2>2. PICK next \in PoolType, source \in Sources : Moves(next, source)
    BY <2>1, StepMoves
  <2>3. PICK given \in PoolType :
          /\ Record(given, source) /\ Core(given, next)
          /\ given.anchor = NextAnchor(next, source) /\ Core(pool', given)
    BY <2>2, MoveRecords
  <2>4. FallingEdge(given, source)
    BY <2>3 DEF Record, NotBreached, RisingEdge, FallingEdgeWithoutRow, Continuing, ContinuingWithoutRow
  <2>5. source = "update_reserves" /\ pool.anchor > 0 /\ given.anchor = 0
    <3>1. PICK row \in Found : Close(row, given, source)
      BY <2>4 DEF FallingEdge
    <3>2. c.endedBy = Category(source)
      BY <3>1 DEF Close
    <3> QED BY <2>4, <3>2 DEF FallingEdge, Category
  <2>6. next.degen
    BY <2>3, <2>5 DEF NextAnchor, BreachInv, Types
  <2> QED BY <2>3, <2>6 DEF Core
<1> QED BY <1>1, BreachAlways, PTL DEF Spec, EndIsAttributed

-----------------------------------------------------------------------------
\* Pool and row compute peak and entry threshold apart, from the same sample.
LEMMA RecordMirrors ==
  ASSUME NEW next, NEW source, BreachInv, Moves(next, source), Pipeline(next, source),
         Mirrors, AnchorHasRow'
  PROVE  Mirrors'
<1> DEFINE anchored == Anchored(next, source)
           given    == Mirrored(anchored)
<1>0. Types /\ Rows /\ next \in PoolType /\ next.anchor = pool.anchor /\ pool \in PoolType
  BY DEF BreachInv, Moves, Resampled, Types
<1>1. /\ given.anchor = anchored.anchor /\ given.diff = next.diff
      /\ given.peak = NextPeak(anchored) /\ given.entry = NextEntry(anchored)
      /\ EntryThreshold(given) = EntryThreshold(anchored) /\ anchored.diff = next.diff
  BY <1>0 DEF Anchored, Mirrored, PoolType, EntryThreshold, Never, Effective
<1>2. next.diff \in Nat
  BY <1>0, BreachAssumption DEF PoolType
<1>3. Record(given, source) /\ AnchorHasRow
  BY DEF Pipeline, Mirrors
<1> HIDE DEF anchored, given
<1>4. \A row \in open : row \in RowType /\ pool.peak = row.peak /\ pool.entry = row.entry
  BY <1>0 DEF Mirrors, Rows
<1>5. pool.anchor > 0 => Found # {}
  BY DEF AnchorHasRow, Found, Mirrors
<1>6. CASE given.anchor = 0
  <2>1. given.peak = 0 /\ given.entry = 0
    BY <1>1, <1>6 DEF NextPeak, NextEntry
  <2>2. pool'.anchor = 0 /\ pool'.peak = 0 /\ pool'.entry = 0 => Mirrors'
    BY DEF Mirrors, AnchorHasRow
  <2>3. CASE NotBreached(given)
    BY <1>6, <2>3, <2>1, <2>2 DEF NotBreached
  <2>4. CASE FallingEdge(given, source)
    <3>1. PICK row \in Found : Close(row, given, source)
      BY <2>4 DEF FallingEdge
    <3>2. pool'.anchor = 0 /\ pool'.peak = given.peak /\ pool'.entry = given.entry
      BY <1>0, <1>6, <3>1 DEF Close, given, anchored, Mirrored, Anchored, PoolType
    <3> QED BY <2>1, <2>2, <3>2
  <2> QED BY <1>3, <1>5, <1>6, <2>3, <2>4 DEF Record, RisingEdge, Continuing, FallingEdgeWithoutRow,
       ContinuingWithoutRow
<1>7. CASE RisingEdge(given, source)
  <2>1. pool.peak = 0 /\ pool.anchor = 0 /\ given.anchor > 0 /\ open = {}
    BY <1>3, <1>7 DEF RisingEdge, Mirrors, AnchorHasRow
  <2>2. given.peak = given.diff /\ given.entry = EntryThreshold(given)
    BY <1>1, <1>2, <2>1 DEF NextPeak, NextEntry
  <2>3. pool' = given /\ open' = {Row(given, now, Category(source))}
    BY <1>7, <2>1 DEF RisingEdge
  <2> QED BY <2>1, <2>2, <2>3 DEF Mirrors, Row
<1>8. CASE Continuing(given, source)
  <2>1. PICK row \in Found : open' = (open \ {row}) \cup {Bumped(row, given, source)}
    BY <1>8 DEF Continuing
  <2>2. /\ row \in RowType /\ pool.peak = row.peak /\ pool.entry = row.entry
        /\ open' = {Bumped(row, given, source)}
    BY <1>3, <1>4, <2>1 DEF Found, AnchorHasRow
  <2>3. pool' = given /\ pool.anchor > 0 /\ given.anchor > 0
    BY <1>8 DEF Continuing
  <2>4. /\ Bumped(row, given, source).entry = row.entry
        /\ Bumped(row, given, source).peak = IF given.diff > row.peak THEN given.diff ELSE row.peak
    BY <2>2 DEF Bumped, RowType
  <2>5. /\ given.entry = pool.entry
        /\ given.peak = IF pool.peak > given.diff THEN pool.peak ELSE given.diff
    BY <1>1, <2>3 DEF NextPeak, NextEntry
  <2> QED BY <1>1, <1>2, <2>2, <2>3, <2>4, <2>5 DEF Mirrors, RowType
<1>9. ~FallingEdgeWithoutRow(given) /\ ~ContinuingWithoutRow(given)
  BY <1>5 DEF FallingEdgeWithoutRow, ContinuingWithoutRow
<1> QED BY <1>3, <1>6, <1>7, <1>8, <1>9 DEF Record, NotBreached, FallingEdge

\* The copies of the open row's peak and entry threshold on the pool leave the row
\* in no step but OracleReported's.
THEOREM MirrorsKept == Spec => MirrorKept
<1>1. BreachInv /\ BreachInv' /\ [Next]_vars =>
        [Mirrors /\ ~cold' => Mirrors' \/ \E d \in Diff : OracleReported(d)]_vars
  <2> SUFFICES ASSUME BreachInv, BreachInv', Next, Mirrors, ~cold',
                      ~\E d \in Diff : OracleReported(d)
               PROVE  Mirrors'
    BY DEF vars
  <2>1. AnchorHasRow'
    BY DEF BreachInv, OpenRowIsAnchor
  <2>2. CASE Rests
    BY <2>1, <2>2 DEF Rests, Mirrors
  <2>3. ASSUME NEW next \in PoolType, NEW source \in Sources, Moves(next, source) PROVE Mirrors'
    <3>1. Pipeline(next, source)
      BY <2>3 DEF Moves
    <3> QED BY <2>1, <2>3, <3>1, RecordMirrors
  <2> QED BY <2>2, <2>3, StepMoves
<1> QED BY <1>1, BreachAlways, PTL DEF Spec, MirrorKept

-----------------------------------------------------------------------------
(* Sums over the closed rows.                                              *)

\* Induction over the numbers, for a set instead of a predicate.
LEMMA Upward ==
  ASSUME NEW S, 0 \in S, \A n \in Nat : n \in S => n + 1 \in S
  PROVE  Nat \subseteq S
  <1> DEFINE T == Nat \ S
             R == OpToRel(<, Nat)
  <1>1. IsWellFoundedOn(R, Nat)
      BY NatLessThanWellFounded, Zenon DEF R
  <1>2. SUFFICES ASSUME T # {} PROVE FALSE
      OBVIOUS
  <1>3. PICK x \in T : \A y \in T : ~(<<y, x>> \in R)
    <2> HIDE DEF R, T
    <2>1. T \subseteq Nat
        BY DEF T
    <2> QED BY <1>1, <1>2, <2>1, WFMin
  <1>4. x # 0 /\ x - 1 \in Nat /\ x - 1 \notin S
      OBVIOUS
  <1>5. <<x - 1, x>> \in R
    <2>1. x - 1 < x /\ x - 1 \in Nat /\ x \in Nat
        BY <1>4
    <2> QED BY <2>1, Zenon DEF OpToRel
  <1> QED BY <1>3, <1>4, <1>5

\* What a sum over the subsets of a set is.
Gathers(g, field, S) ==
  g = [s \in SUBSET S |-> IF s = {} THEN 0
                          ELSE LET x == CHOOSE y \in s : TRUE IN x[field] + g[s \ {x}]]

Total(field, S) == MapThenSumSet(LAMBDA c : c[field], S)

\* There is one, built up by the size of the subsets.
LEMMA GatherIs ==
  ASSUME NEW field, NEW S, IsFiniteSet(S)
  PROVE  \E g : Gathers(g, field, S)
<1> DEFINE One(s)   == CHOOSE y \in s : TRUE
           e(g, s)  == IF s = {} THEN 0 ELSE One(s)[field] + g[s \ {One(s)}]
           Upto(n)  == {s \in SUBSET S : Cardinality(s) <= n}
           Is(g, n) == g = [s \in Upto(n) |-> e(g, s)]
           U        == {n \in Nat : \E g : Is(g, n)}
<1>1. \A s \in SUBSET S : IsFiniteSet(s) /\ Cardinality(s) \in Nat /\ Cardinality(s) <= Cardinality(S)
  BY FS_Subset, FS_CardinalityType
<1>2. \A s \in SUBSET S : s # {} => /\ One(s) \in s /\ s \ {One(s)} \in SUBSET S
                                    /\ Cardinality(s \ {One(s)}) = Cardinality(s) - 1
  BY <1>1, FS_RemoveElement
<1>3. \A s \in SUBSET S : Cardinality(s) = 0 <=> s = {}
  BY <1>1, FS_EmptySet
<1> HIDE DEF One
<1>4. 0 \in U
  <2> DEFINE g == [s \in Upto(0) |-> 0]
  <2>1. \A s \in Upto(0) : e(g, s) = 0
    BY <1>1, <1>3
  <2>2. g = [s \in Upto(0) |-> e(g, s)]
    <3> HIDE DEF e
    <3> QED BY <2>1
  <2> HIDE DEF g, e, Upto
  <2> QED BY <2>2
<1>5. ASSUME NEW n \in Nat, n \in U PROVE n + 1 \in U
  <2>1. PICK g : Is(g, n)
    BY <1>5
  <2> DEFINE h == [s \in Upto(n + 1) |-> IF s \in Upto(n) THEN g[s] ELSE e(g, s)]
  <2>2. ASSUME NEW s \in Upto(n + 1) PROVE h[s] = e(h, s)
    <3>1. s # {} => s \ {One(s)} \in Upto(n) /\ s \ {One(s)} \in Upto(n + 1)
      BY <1>1, <1>2, <2>2
    <3>2. s # {} => h[s \ {One(s)}] = g[s \ {One(s)}]
      BY <3>1
    <3>3. e(h, s) = e(g, s)
      BY <3>2
    <3>4. s \in Upto(n) => g[s] = e(g, s)
      <4> HIDE DEF e, Upto
      <4> QED BY <2>1
    <3>5. h[s] = IF s \in Upto(n) THEN g[s] ELSE e(g, s)
      <4> HIDE DEF e, Upto
      <4> QED BY <2>2
    <3> HIDE DEF h, e, Upto
    <3> QED BY <3>3, <3>4, <3>5
  <2>3. h = [s \in Upto(n + 1) |-> e(h, s)]
    <3>1. h = [s \in Upto(n + 1) |-> h[s]]
      <4> HIDE DEF e, Upto
      <4> QED OBVIOUS
    <3> HIDE DEF h, e, Upto
    <3> QED BY <2>2, <3>1
  <2> HIDE DEF h, e, Upto
  <2> QED BY <2>3
<1> HIDE DEF U
<1>6. Nat \subseteq U
  BY <1>4, <1>5, Upward
<1>7. Cardinality(S) \in U
  BY <1>1, <1>6
<1>8. PICK g : Is(g, Cardinality(S))
  BY <1>7 DEF U
<1>9. Upto(Cardinality(S)) = SUBSET S
  BY <1>1
<1>10. g = [s \in SUBSET S |-> e(g, s)]
  <2> HIDE DEF e, Upto
  <2> QED BY <1>8, <1>9
<1> QED BY <1>10, Zenon DEF Gathers, One

\* Whichever element is taken first.
LEMMA GatherTakes ==
  ASSUME NEW field, NEW S, IsFiniteSet(S), \A c \in S : c[field] \in Nat,
         NEW g, Gathers(g, field, S)
  PROVE  \A T \in SUBSET S : g[T] \in Nat /\ \A x \in T : g[T] = x[field] + g[T \ {x}]
<1> DEFINE Good(T) == g[T] \in Nat /\ \A x \in T : g[T] = x[field] + g[T \ {x}]
           One(s)  == CHOOSE y \in s : TRUE
           U       == {n \in Nat : \A T \in SUBSET S : Cardinality(T) <= n => Good(T)}
<1>1. \A s \in SUBSET S : IsFiniteSet(s) /\ Cardinality(s) \in Nat
  BY FS_Subset, FS_CardinalityType
<1>2. \A s \in SUBSET S : \A x \in s : /\ s \ {x} \in SUBSET S
                                       /\ Cardinality(s \ {x}) = Cardinality(s) - 1
  BY <1>1, FS_RemoveElement
<1>3. \A s \in SUBSET S : Cardinality(s) = 0 <=> s = {}
  BY <1>1, FS_EmptySet
<1>4. \A s \in SUBSET S : g[s] = IF s = {} THEN 0 ELSE One(s)[field] + g[s \ {One(s)}]
  BY DEF Gathers
<1>5. \A s \in SUBSET S : s # {} => One(s) \in s
  OBVIOUS
<1> HIDE DEF One
<1>6. 0 \in U
  <2>1. ASSUME NEW T \in SUBSET S, Cardinality(T) <= 0 PROVE Good(T)
    <3>1. T = {}
      BY <1>1, <1>3, <2>1
    <3> QED BY <1>4, <3>1
  <2> HIDE DEF Good
  <2> QED BY <2>1
<1>7. ASSUME NEW n \in Nat, n \in U PROVE n + 1 \in U
  <2>0. \A T \in SUBSET S : Cardinality(T) <= n => Good(T)
    BY <1>7
  <2> SUFFICES ASSUME NEW T \in SUBSET S, Cardinality(T) = n + 1 PROVE Good(T)
    <3> HIDE DEF Good
    <3> QED BY <1>1, <2>0
  <2>1. T # {} /\ One(T) \in T
    BY <1>3, <1>5
  <2> DEFINE p == One(T)
  <2>2. \A x \in T : Good(T \ {x}) /\ x[field] \in Nat /\ g[T \ {x}] \in Nat
    <3>1. \A x \in T : Cardinality(T \ {x}) <= n /\ T \ {x} \in SUBSET S
      BY <1>2
    <3> QED BY <2>0, <3>1
  <2>3. p \in T /\ g[T] = p[field] + g[T \ {p}]
    BY <1>4, <2>1
  <2> HIDE DEF p
  <2>4. g[T] \in Nat
    <3>1. p[field] \in Nat /\ g[T \ {p}] \in Nat
      <4> HIDE DEF Good
      <4> QED BY <2>2, <2>3
    <3> QED BY <2>3, <3>1
  <2>5. ASSUME NEW x \in T, x # p PROVE g[T] = x[field] + g[T \ {x}]
    <3>1. g[T \ {p}] = x[field] + g[(T \ {p}) \ {x}]
      <4>1. x \in T \ {p}
        BY <2>5
      <4> QED BY <2>2, <2>3, <4>1
    <3>2. g[T \ {x}] = p[field] + g[(T \ {x}) \ {p}]
      <4>1. p \in T \ {x}
        BY <2>3, <2>5
      <4> QED BY <2>2, <2>5, <4>1
    <3>3. (T \ {p}) \ {x} = (T \ {x}) \ {p}
      OBVIOUS
    <3>4. g[T \ {x}] \in Nat /\ g[T \ {p}] \in Nat /\ x[field] \in Nat /\ p[field] \in Nat
      BY <2>2, <2>3, <2>5
    <3>5. g[(T \ {p}) \ {x}] \in Nat
      <4>1. (T \ {p}) \ {x} \in SUBSET S
        OBVIOUS
      <4>2. Cardinality(T \ {p}) = n /\ T \ {p} \in SUBSET S /\ x \in T \ {p}
        BY <1>2, <2>3, <2>5
      <4>3. Cardinality((T \ {p}) \ {x}) = n - 1
        <5> DEFINE s == T \ {p}
        <5>1. Cardinality(s) = n /\ s \in SUBSET S /\ x \in s
          BY <4>2
        <5> HIDE DEF s
        <5>2. Cardinality(s \ {x}) = n - 1
          BY <1>2, <5>1
        <5> QED BY <5>2 DEF s
      <4>4. Good((T \ {p}) \ {x})
        <5> DEFINE s == (T \ {p}) \ {x}
        <5>1. s \in SUBSET S /\ Cardinality(s) <= n
          BY <4>1, <4>3
        <5> HIDE DEF Good, s
        <5>2. Good(s)
          BY <2>0, <5>1
        <5> QED BY <5>2 DEF s
      <4> QED BY <4>4
    <3> DEFINE both == g[(T \ {p}) \ {x}]
               a == g[T]  b == g[T \ {p}]  c == g[T \ {x}]
    <3>6. a = p[field] + b /\ b = x[field] + both
      BY <2>3, <3>1
    <3>7. c = p[field] + both
      BY <3>2, <3>3
    <3>8. both \in Nat
      BY <3>5
    <3> HIDE DEF both, a, b, c
    <3>9. a = x[field] + c
      BY <3>4, <3>6, <3>7, <3>8
    <3> QED BY <3>9 DEF a, c
  <2> QED BY <2>3, <2>4, <2>5
<1> HIDE DEF U
<1>8. Nat \subseteq U
  BY <1>6, <1>7, Upward
<1>9. ASSUME NEW T \in SUBSET S PROVE Good(T)
  <2>1. Cardinality(T) \in U /\ Cardinality(T) <= Cardinality(T)
    BY <1>1, <1>8
  <2> HIDE DEF Good
  <2> QED BY <2>1 DEF U
<1> QED BY <1>9

\* A sum over a subset is the same within any set that holds it.
LEMMA GatherSame ==
  ASSUME NEW field, NEW R, IsFiniteSet(R), \A c \in R : c[field] \in Nat, NEW S \in SUBSET R,
         NEW g, Gathers(g, field, S), NEW h, Gathers(h, field, R)
  PROVE  \A T \in SUBSET S : g[T] = h[T]
<1> DEFINE One(s) == CHOOSE y \in s : TRUE
           U      == {n \in Nat : \A T \in SUBSET S : Cardinality(T) <= n => g[T] = h[T]}
<1>1. \A s \in SUBSET S : IsFiniteSet(s) /\ Cardinality(s) \in Nat
  BY FS_Subset, FS_CardinalityType
<1>2. \A s \in SUBSET S : \A x \in s : /\ s \ {x} \in SUBSET S
                                       /\ Cardinality(s \ {x}) = Cardinality(s) - 1
  BY <1>1, FS_RemoveElement
<1>3. \A s \in SUBSET S : Cardinality(s) = 0 <=> s = {}
  BY <1>1, FS_EmptySet
<1>4. \A s \in SUBSET S :
        /\ g[s] = IF s = {} THEN 0 ELSE One(s)[field] + g[s \ {One(s)}]
        /\ h[s] = IF s = {} THEN 0 ELSE One(s)[field] + h[s \ {One(s)}]
  BY DEF Gathers
<1>5. \A s \in SUBSET S : s # {} => One(s) \in s
  OBVIOUS
<1> HIDE DEF One
<1>6. 0 \in U
  <2>1. ASSUME NEW T \in SUBSET S, Cardinality(T) <= 0 PROVE g[T] = h[T]
    <3>1. T = {}
      BY <1>1, <1>3, <2>1
    <3> QED BY <1>4, <3>1
  <2> QED BY <2>1
<1>7. ASSUME NEW n \in Nat, n \in U PROVE n + 1 \in U
  <2>1. ASSUME NEW T \in SUBSET S, Cardinality(T) <= n + 1 PROVE g[T] = h[T]
    <3>1. CASE T = {}
      BY <1>4, <3>1
    <3>2. CASE T # {}
      <4>1. /\ One(T) \in T /\ T \ {One(T)} \in SUBSET S
            /\ Cardinality(T \ {One(T)}) <= n
        BY <1>1, <1>2, <1>5, <2>1, <3>2
      <4>2. g[T \ {One(T)}] = h[T \ {One(T)}]
        BY <1>7, <4>1
      <4> QED BY <1>4, <3>2, <4>2
    <3> QED BY <3>1, <3>2
  <2> QED BY <2>1
<1> HIDE DEF U
<1>8. Nat \subseteq U
  BY <1>6, <1>7, Upward
<1>9. ASSUME NEW T \in SUBSET S PROVE g[T] = h[T]
  <2>1. Cardinality(T) \in U /\ Cardinality(T) <= Cardinality(T)
    BY <1>1, <1>8
  <2> QED BY <2>1 DEF U
<1> QED BY <1>9

\* The library's sum is one of these.
LEMMA TotalGathers ==
  ASSUME NEW field, NEW S, IsFiniteSet(S)
  PROVE  \E g : Gathers(g, field, S) /\ Total(field, S) = g[S]
<1>1. PICK f : Gathers(f, field, S)
  BY GatherIs
<1> DEFINE g == CHOOSE k : Gathers(k, field, S)
<1>2. Gathers(g, field, S)
  BY <1>1, Zenon
<1>3. Total(field, S) = g[S]
  BY Zenon DEF Total, MapThenSumSet, MapThenFoldSet, Gathers
<1> QED BY <1>2, <1>3, Zenon

LEMMA TotalAdds ==
  ASSUME NEW field, NEW S, IsFiniteSet(S), \A c \in S : c[field] \in Nat,
         NEW x, x \notin S, x[field] \in Nat
  PROVE  Total(field, S \cup {x}) = Total(field, S) + x[field]
<1> DEFINE R == S \cup {x}
<1>1. IsFiniteSet(R) /\ (\A c \in R : c[field] \in Nat) /\ S \in SUBSET R
  BY FS_AddElement
<1>2. PICK g : Gathers(g, field, S) /\ Total(field, S) = g[S]
  BY TotalGathers
<1>3. x \in R /\ R \in SUBSET R /\ R \ {x} = S
  OBVIOUS
<1> HIDE DEF R
<1>4. PICK h : Gathers(h, field, R) /\ Total(field, R) = h[R]
  BY <1>1, TotalGathers
<1>5. h[R] = x[field] + h[S]
  BY <1>1, <1>3, <1>4, GatherTakes
<1>6. g[S] = h[S] /\ g[S] \in Nat
  <2>1. S \in SUBSET S
    OBVIOUS
  <2>2. \A T \in SUBSET S : g[T] = h[T]
    <3>1. IsFiniteSet(R)
      BY <1>1
    <3>2. \A c \in R : c[field] \in Nat
      BY <1>1
    <3>3. S \in SUBSET R
      BY <1>1
    <3>4. Gathers(g, field, S)
      BY <1>2
    <3>5. Gathers(h, field, R)
      BY <1>4
    <3> QED BY <3>1, <3>2, <3>3, <3>4, <3>5, GatherSame
  <2> QED BY <1>2, <2>1, <2>2, GatherTakes
<1> QED BY <1>2, <1>4, <1>5, <1>6 DEF R

LEMMA TotalEmpty == ASSUME NEW field PROVE Total(field, {}) = 0
<1>1. PICK g : Gathers(g, field, {}) /\ Total(field, {}) = g[{}]
  BY FS_EmptySet, TotalGathers
<1>2. {} \in SUBSET {}
  OBVIOUS
<1>3. g[{}] = 0
  BY <1>1, <1>2 DEF Gathers
<1> QED BY <1>1, <1>3

\* Each row has a number of its own.
Numbered ==
  /\ \A row \in open : row.id < Cardinality(open) + Cardinality(closed)
  /\ \A row, other \in open : row.id = other.id => row = other
  /\ \A c \in closed :
       /\ c.row.id \in Nat /\ c.row.id < Cardinality(open) + Cardinality(closed)
       /\ c.seconds \in Nat /\ c.critical \in Nat
       /\ \A row \in open : row.id # c.row.id

TotalsInv == Numbered /\ TotalsMatchRows

\* The rows written, whether open or closed.
LEMMA RowsWritten ==
  ASSUME Rows
  PROVE  /\ Cardinality(open) \in Nat /\ Cardinality(closed) \in Nat
         /\ \A row : /\ IsFiniteSet(open \cup {row}) /\ IsFiniteSet(open \ {row})
                     /\ IsFiniteSet(closed \cup {row})
                     /\ row \notin open => Cardinality(open \cup {row}) = Cardinality(open) + 1
                     /\ row \in open => Cardinality(open \ {row}) = Cardinality(open) - 1
                     /\ row \notin closed => Cardinality(closed \cup {row}) = Cardinality(closed) + 1
<1>1. IsFiniteSet(open) /\ IsFiniteSet(closed)
  BY DEF Rows
<1> QED BY <1>1, FS_CardinalityType, FS_AddElement, FS_RemoveElement

\* A new row has the next number.
LEMMA RowIsNew ==
  ASSUME Rows, Numbered, NEW next \in PoolType, NEW start \in Nat, NEW cause \in Cause,
         open' = open \cup {Row(next, start, cause)}, closed' = closed
  PROVE  Numbered'
<1> DEFINE new == Row(next, start, cause)
           n   == Cardinality(open) + Cardinality(closed)
<1>1. new.id = n /\ n \in Nat
  BY RowsWritten DEF Row
<1> HIDE DEF new
<1>2. \A row \in open : row.id \in Nat /\ row.id < n
  BY DEF Rows, RowType, Numbered
<1>3. new \notin open
  BY <1>1, <1>2
<1>4. Cardinality(open') + Cardinality(closed') = n + 1
  <2>1. Cardinality(open \cup {new}) = Cardinality(open) + 1
    BY <1>3, RowsWritten
  <2>2. open' = open \cup {new}
    BY DEF new
  <2> QED BY <2>1, <2>2, RowsWritten
<1> HIDE DEF n
<1>5. \A row \in open' : row \in open \/ row = new
  BY DEF new
<1>6. \A row \in open' : row.id < n + 1
  BY <1>1, <1>2, <1>5
<1>7. \A row, other \in open' : row.id = other.id => row = other
  BY <1>1, <1>2, <1>5 DEF Numbered
<1>8. \A c \in closed' :
       /\ c.row.id \in Nat /\ c.row.id < n + 1
       /\ c.seconds \in Nat /\ c.critical \in Nat
       /\ \A row \in open' : row.id # c.row.id
  BY <1>1, <1>5 DEF Numbered, n
<1> QED BY <1>4, <1>6, <1>7, <1>8 DEF Numbered

\* What recordBreachTransition adds to the totals, it adds to the closed rows.
LEMMA RecordTotals ==
  ASSUME NEW next \in PoolType, NEW source, BreachInv, TotalsInv, SameTotals(next, pool),
         Record(next, source), next.anchor <= now, cold => cold', now' = now
  PROVE  TotalsInv'
<1>0. /\ Rows /\ Numbered /\ pool \in PoolType /\ now \in Nat
      /\ TotalsMatchRows /\ (~cold' => AnchorHasRow)
      /\ Category(source) \in Cause /\ "unknown" \in Cause
  BY DEF BreachInv, Types, TotalsInv, OpenRowIsAnchor, Category, Cause
<1>1. /\ pool.seconds = OfClosed("seconds") /\ pool.critical = OfClosed("critical")
      /\ pool.count >= Cardinality(closed) /\ (~cold' => pool.count = Cardinality(closed))
  BY <1>0 DEF TotalsMatchRows
<1>2. ASSUME closed' = closed, pool'.seconds = pool.seconds, pool'.critical = pool.critical,
             pool'.count >= Cardinality(closed), ~cold' => pool'.count = Cardinality(closed)
      PROVE  TotalsMatchRows'
  <2>1. OfClosed("seconds")' = OfClosed("seconds") /\ OfClosed("critical")' = OfClosed("critical")
    BY <1>2, Zenon DEF OfClosed, MapThenSumSet, MapThenFoldSet
  <2> QED BY <1>1, <1>2, <2>1 DEF TotalsMatchRows
<1>3. ASSUME closed' = closed, pool' = next PROVE TotalsMatchRows'
  <2>1. pool'.seconds = pool.seconds /\ pool'.critical = pool.critical /\ pool'.count = pool.count
    BY <1>3 DEF SameTotals
  <2> QED BY <1>1, <1>2, <1>3, <2>1
<1>4. CASE NotBreached(next)
  <2>1. Numbered'
    BY <1>0, <1>4 DEF NotBreached, Numbered
  <2> QED BY <1>3, <1>4, <2>1 DEF NotBreached, TotalsInv
<1>5. CASE RisingEdge(next, source)
  BY <1>0, <1>3, <1>5, RowIsNew DEF RisingEdge, TotalsInv
<1>6. CASE ContinuingWithoutRow(next)
  <2>1. next.anchor \in Nat
    BY DEF PoolType
  <2> QED BY <1>0, <1>3, <1>6, <2>1, RowIsNew DEF ContinuingWithoutRow, TotalsInv
<1>7. CASE FallingEdgeWithoutRow(next)
  <2>1. Numbered'
    BY <1>0, <1>7 DEF FallingEdgeWithoutRow, Numbered
  <2>2. cold'
    BY <1>0, <1>7 DEF FallingEdgeWithoutRow, AnchorHasRow, Found
  <2>3. /\ pool'.seconds = pool.seconds /\ pool'.critical = pool.critical
        /\ pool'.count = pool.count + 1
    BY <1>7 DEF FallingEdgeWithoutRow, PoolType, SameTotals
  <2>4. pool.count \in Nat /\ Cardinality(closed) \in Nat
    BY <1>0, RowsWritten DEF PoolType
  <2>5. TotalsMatchRows'
    BY <1>1, <1>2, <1>7, <2>2, <2>3, <2>4 DEF FallingEdgeWithoutRow
  <2> QED BY <2>1, <2>5 DEF TotalsInv
<1>8. CASE Continuing(next, source)
  <2>1. PICK row \in Found : open' = (open \ {row}) \cup {Bumped(row, next, source)}
    BY <1>8 DEF Continuing
  <2> DEFINE bumped == Bumped(row, next, source)
  <2>2. row \in open /\ row \in RowType /\ closed' = closed /\ pool' = next
    BY <1>0, <1>8, <2>1 DEF Found, Rows, Continuing
  <2>3. bumped.id = row.id
    BY <2>2 DEF Bumped, RowType
  <2> HIDE DEF bumped
  <2>4. bumped \notin open \ {row}
    BY <1>0, <2>2, <2>3 DEF Numbered
  <2>5. Cardinality(open') = Cardinality(open)
    <3>1. IsFiniteSet(open \ {row}) /\ Cardinality(open \ {row}) = Cardinality(open) - 1
      BY <1>0, <2>2, RowsWritten
    <3>2. Cardinality((open \ {row}) \cup {bumped}) = Cardinality(open \ {row}) + 1
      BY <2>4, <3>1, FS_AddElement
    <3>3. Cardinality(open) \in Nat
      BY <1>0, RowsWritten
    <3> QED BY <2>1, <3>1, <3>2, <3>3 DEF bumped
  <2>6. \A r \in open' : \E old \in open : old.id = r.id /\ IF old = row THEN r = bumped ELSE r = old
    BY <2>1, <2>2, <2>3 DEF bumped
  <2>7. Numbered'
    BY <1>0, <2>2, <2>5, <2>6 DEF Numbered
  <2> QED BY <1>3, <2>2, <2>7 DEF TotalsInv
<1>9. CASE FallingEdge(next, source)
  <2>1. PICK row \in Found : Close(row, next, source)
    BY <1>9 DEF FallingEdge
  <2> DEFINE c == [row |-> row, endedAt |-> now, endedBy |-> Category(source),
                   seconds |-> Trading(row.startedAt, now), critical |-> Critical(row, now)]
  <2>2. row \in open /\ row \in RowType /\ row.id \in Nat
    BY <1>0, <2>1 DEF Found, Rows, RowType
  <2>3. /\ open' = open \ {row} /\ closed' = closed \cup {c}
        /\ pool' = [next EXCEPT !.seconds = @ + Trading(row.startedAt, now),
                                !.critical = @ + Critical(row, now), !.count = @ + 1]
    BY <2>1 DEF Close
  <2>4. Trading(row.startedAt, now) \in Nat /\ Critical(row, now) \in Nat
    <3>1. row.startedAt \in Int /\ now \in Int
      BY <1>0, <2>2 DEF RowType
    <3> QED BY <1>0, <2>2, <3>1, TradingType, CriticalType
  <2>5. c.row = row /\ c.seconds \in Nat /\ c.critical \in Nat
    BY <2>4
  <2>6. /\ pool'.seconds = pool.seconds + c.seconds /\ pool'.critical = pool.critical + c.critical
        /\ pool'.count = pool.count + 1
    BY <2>3 DEF SameTotals, PoolType
  <2> HIDE DEF c
  <2>7. c \notin closed
    BY <1>0, <2>2, <2>5 DEF Numbered
  <2>8. /\ Cardinality(open') = Cardinality(open) - 1 /\ Cardinality(closed') = Cardinality(closed) + 1
        /\ Cardinality(open) \in Nat /\ Cardinality(closed) \in Nat
    BY <1>0, <2>2, <2>3, <2>7, RowsWritten
  <2>9. Numbered'
    <3> DEFINE n == Cardinality(open) + Cardinality(closed)
    <3>1. Cardinality(open') + Cardinality(closed') = n
      BY <2>8
    <3> HIDE DEF n
    <3>2. \A r \in open : r.id < n
      BY <1>0 DEF Numbered, n
    <3>3. \A d \in closed' : d \in closed \/ d = c
      BY <2>3
    <3>4. \A r \in open' : r \in open /\ r # row
      BY <2>3
    <3>5. \A r \in open' : r.id # row.id
      BY <1>0, <2>2, <3>4 DEF Numbered
    <3>6. \A d \in closed' :
            /\ d.row.id \in Nat /\ d.row.id < n
            /\ d.seconds \in Nat /\ d.critical \in Nat
            /\ \A r \in open' : r.id # d.row.id
      <4>1. ASSUME NEW d \in closed
            PROVE  /\ d.row.id \in Nat /\ d.row.id < n
                   /\ d.seconds \in Nat /\ d.critical \in Nat
                   /\ \A r \in open' : r.id # d.row.id
        BY <1>0, <3>4 DEF Numbered, n
      <4> QED BY <2>2, <2>5, <3>2, <3>3, <3>5, <4>1
    <3>7. \A r, other \in open' : r.id = other.id => r = other
      BY <1>0, <3>4 DEF Numbered
    <3> QED BY <3>1, <3>2, <3>4, <3>6, <3>7 DEF Numbered
  <2>10. TotalsMatchRows'
    <3>1. IsFiniteSet(closed) /\ \A d \in closed : d.seconds \in Nat /\ d.critical \in Nat
      BY <1>0 DEF Rows, Numbered
    <3>2. Total("seconds", closed \cup {c}) = Total("seconds", closed) + c.seconds
      BY <2>5, <2>7, <3>1, TotalAdds
    <3>3. Total("critical", closed \cup {c}) = Total("critical", closed) + c.critical
      BY <2>5, <2>7, <3>1, TotalAdds
    <3>4. OfClosed("seconds") = Total("seconds", closed) /\ OfClosed("critical") = Total("critical", closed)
      BY Zenon DEF OfClosed, Total
    <3>5. /\ OfClosed("seconds")' = Total("seconds", closed \cup {c})
          /\ OfClosed("critical")' = Total("critical", closed \cup {c})
      BY <2>3, Zenon DEF OfClosed, Total, MapThenSumSet, MapThenFoldSet
    <3>6. pool'.seconds = OfClosed("seconds")' /\ pool'.critical = OfClosed("critical")'
      BY <1>1, <2>6, <3>2, <3>3, <3>4, <3>5
    <3>7. pool'.count >= Cardinality(closed') /\ (~cold' => pool'.count = Cardinality(closed'))
      BY <1>0, <1>1, <2>6, <2>8 DEF PoolType
    <3> QED BY <3>6, <3>7 DEF TotalsMatchRows
  <2> QED BY <2>9, <2>10 DEF TotalsInv
<1> QED BY <1>4, <1>5, <1>6, <1>7, <1>8, <1>9 DEF Record

\* The totals on the pool, from which the uptime is shown, are those of the closed rows,
\* each counted once; the number of breaches also counts those whose row was lost.
THEOREM TotalsAreRows == Spec => []TotalsMatchRows
<1>1. Init => TotalsInv
  <2> SUFFICES ASSUME Init PROVE TotalsInv
    OBVIOUS
  <2>1. open = {} /\ closed = {} /\ pool.seconds = 0 /\ pool.critical = 0 /\ pool.count = 0
    BY DEF Init
  <2>2. OfClosed("seconds") = 0 /\ OfClosed("critical") = 0
    <3>1. OfClosed("seconds") = Total("seconds", {}) /\ OfClosed("critical") = Total("critical", {})
      BY <2>1, Zenon DEF OfClosed, Total
    <3> QED BY <3>1, TotalEmpty
  <2>3. Cardinality(closed) = 0
    BY <2>1, FS_EmptySet
  <2> QED BY <2>1, <2>2, <2>3 DEF TotalsInv, Numbered, TotalsMatchRows
<1>2. BreachInv /\ TotalsInv /\ [Next]_vars => TotalsInv'
  <2> SUFFICES ASSUME BreachInv, TotalsInv, [Next]_vars PROVE TotalsInv'
    OBVIOUS
  <2>1. ASSUME UNCHANGED <<open, closed>>, SameTotals(pool', pool), cold => cold' PROVE TotalsInv'
    <3>1. Numbered'
      BY <2>1 DEF TotalsInv, Numbered
    <3>2. OfClosed("seconds")' = OfClosed("seconds") /\ OfClosed("critical")' = OfClosed("critical")
      BY <2>1, Zenon DEF OfClosed, MapThenSumSet, MapThenFoldSet
    <3> QED BY <2>1, <3>1, <3>2 DEF TotalsInv, TotalsMatchRows, SameTotals
  <2>2. CASE UNCHANGED vars
    BY <2>1, <2>2 DEF vars, SameTotals
  <2>3. CASE Next
    <3>1. cold => cold'
      BY <2>3, StepMoves
    <3>2. CASE Rests
      BY <2>1, <3>1, <3>2 DEF Rests
    <3>3. ASSUME NEW next \in PoolType, NEW source \in Sources, Moves(next, source)
          PROVE  TotalsInv'
      <4>1. PICK given \in PoolType :
              Record(given, source) /\ given.anchor <= now /\ SameTotals(given, pool)
        BY <3>3, MoveRecords
      <4>2. now' = now
        BY <3>3 DEF Moves
      <4> QED BY <3>1, <4>1, <4>2, RecordTotals
    <3> QED BY <2>3, <3>2, <3>3, StepMoves
  <2> QED BY <2>2, <2>3
<1>3. TotalsInv => TotalsMatchRows
  BY DEF TotalsInv
<1> QED BY <1>1, <1>2, <1>3, BreachAlways, PTL DEF Spec

-----------------------------------------------------------------------------
(* The pairing of Wormhole transfers.                                      *)

Kind == {"TransferSentDetailed", "TransferSentDigest", "ReceivedMessage",
         "MessageAttestedTo", "InboundTransferQueued", "TransferRedeemed"}
EventType   == [kind : Kind, of : Transfer, tx : Nat]
ScratchType == [index : Nat, tx : Nat, of : Transfer]
TransferType ==
  [token : (Manager \X Side) \cup {Nothing}, amount : Transfer \cup {Nothing},
   source : Transfer \cup {Nothing}, digest : Transfer \cup {Nothing},
   sent : BOOLEAN, attested : Nat, queued : BOOLEAN, delivered : BOOLEAN]

LogTypes ==
  /\ managerOf \in [Transfer -> Manager]
  /\ log \in [Side -> Seq(EventType)] /\ at \in [Side -> Nat]
RowTypes ==
  /\ transfers \in [Transfer -> TransferType] /\ attestations \subseteq Transfer
  /\ sending \subseteq ScratchType /\ arriving \subseteq ScratchType

\* What each field of a row records of the events applied so far.
Records(t) ==
  /\ transfers[t].attested = IF Happened("MessageAttestedTo", t) THEN 1 ELSE 0
  /\ Attested(t) <=> Happened("MessageAttestedTo", t)
  /\ transfers[t].delivered <=> Happened("TransferRedeemed", t)
  /\ transfers[t].queued <=> Happened("InboundTransferQueued", t)
  /\ transfers[t].sent <=> Happened("TransferSentDigest", t)
  /\ transfers[t].sent /\ Known(t, "source") => transfers[t].token = <<managerOf[t], "source">>
  /\ transfers[t].token = <<managerOf[t], "dest">> => transfers[t].delivered

PairingInv == LogTypes /\ RowTypes /\ \A t \in Transfer : Records(t)

\* The rows after an event, field by field.
Becomes(row, old, token, sent, attested, queued, delivered) ==
  /\ row.token = token /\ row.sent = sent /\ row.attested = attested
  /\ row.queued = queued /\ row.delivered = delivered
Others(t) == \A u \in Transfer \ {t} : transfers'[u] = transfers[u] /\ (Attested(u)' <=> Attested(u))

\* A walk back returns scratch rows, and one of them is a transfer's.
LEMMA ScratchedType ==
  ASSUME LogTypes, NEW pile, pile \subseteq ScratchType, NEW i, NEW e, NEW tr
  PROVE  /\ Scratched(pile, i, e, tr) \subseteq pile
         /\ Scratched(pile, i, e, tr) # {} =>
              (CHOOSE r \in Scratched(pile, i, e, tr) : TRUE).of \in Transfer
<1>1. Scratched(pile, i, e, tr) \subseteq pile
  BY DEF Scratched, Near
<1>2. ASSUME NEW found, found \subseteq pile, found # {}
      PROVE  (CHOOSE r \in found : TRUE).of \in Transfer
  <2>1. (CHOOSE r \in found : TRUE) \in found
    BY <1>2
  <2> QED BY <1>2, <2>1 DEF ScratchType
<1> QED BY <1>1, <1>2

\* A destination's scratch row stamps source and digest, and nothing else.
LEMMA StampKeeps ==
  ASSUME NEW row \in TransferType, NEW found,
         found # {} => (CHOOSE r \in found : TRUE).of \in Transfer
  PROVE  /\ Stamp(row, found) \in TransferType
         /\ Stamp(row, found).sent = row.sent /\ Stamp(row, found).queued = row.queued
         /\ Stamp(row, found).delivered = row.delivered
         /\ Stamp(row, found).attested = row.attested /\ Stamp(row, found).token = row.token
<1> DEFINE of == (CHOOSE r \in found : TRUE).of
<1>1. found = {} \/ of \in Transfer
  OBVIOUS
<1>2. Stamp(row, found) =
        IF found = {} THEN row
        ELSE [row EXCEPT !.source = IF @ = Nothing THEN of ELSE @, !.digest = of]
  BY DEF Stamp
<1> HIDE DEF of
<1> QED BY <1>1, <1>2 DEF TransferType

\* One step per handler: the types, the row of the event's transfer, the others.
LEMMA SentDigest ==
  ASSUME LogTypes, RowTypes, NEW i \in Nat, NEW e \in EventType, TransferSentDigest(i, e)
  PROVE  /\ RowTypes' /\ Others(e.of) /\ (Attested(e.of)' <=> Attested(e.of))
         /\ transfers'[e.of].sent /\ transfers'[e.of].attested = transfers[e.of].attested
         /\ transfers'[e.of].queued = transfers[e.of].queued
         /\ transfers'[e.of].delivered = transfers[e.of].delivered
         /\ transfers'[e.of].token = IF Known(e.of, "source") THEN <<managerOf[e.of], "source">>
                                     ELSE transfers[e.of].token
<1> DEFINE t      == e.of
           found  == Scratched(sending, i, e, Nothing)
           amount == IF found = {} THEN transfers[t].amount ELSE (CHOOSE r \in found : TRUE).of
           token  == IF Known(t, "source") THEN <<managerOf[t], "source">> ELSE transfers[t].token
<1>1. t \in Transfer /\ transfers[t] \in TransferType /\ transfers \in [Transfer -> TransferType]
  BY DEF EventType, RowTypes
<1>2. found \subseteq sending /\ amount \in Transfer \cup {Nothing}
  BY <1>1, ScratchedType DEF RowTypes, TransferType
<1>3. token \in (Manager \X Side) \cup {Nothing}
  BY <1>1 DEF LogTypes, TransferType, Side
<1>4. /\ transfers' = [transfers EXCEPT ![t] =
           [transfers[t] EXCEPT !.sent = TRUE, !.amount = amount, !.source = t, !.token = token]]
      /\ sending' = sending \ found /\ UNCHANGED <<attestations, arriving>>
  BY DEF TransferSentDigest
<1> HIDE DEF t, found, amount, token
<1> DEFINE row == [transfers[t] EXCEPT !.sent = TRUE, !.amount = amount, !.source = t, !.token = token]
<1>5. /\ row \in TransferType /\ row.sent /\ row.attested = transfers[t].attested
      /\ row.queued = transfers[t].queued /\ row.delivered = transfers[t].delivered
      /\ row.token = token
  BY <1>1, <1>2, <1>3 DEF TransferType
<1> HIDE DEF row
<1>6. transfers' = [transfers EXCEPT ![t] = row]
  BY <1>4 DEF row
<1>7. RowTypes' /\ transfers'[t] = row /\ Others(t) /\ (Attested(t)' <=> Attested(t))
  BY <1>1, <1>2, <1>4, <1>5, <1>6 DEF RowTypes, Others, Attested
<1> QED BY <1>5, <1>7 DEF t, token

LEMMA AttestedTo ==
  ASSUME LogTypes, RowTypes, NEW i \in Nat, NEW e \in EventType, MessageAttestedTo(i, e)
  PROVE  /\ RowTypes' /\ Others(e.of) /\ Attested(e.of)'
         /\ transfers'[e.of].attested =
              IF Attested(e.of) THEN transfers[e.of].attested ELSE transfers[e.of].attested + 1
         /\ transfers'[e.of].sent = transfers[e.of].sent
         /\ transfers'[e.of].queued = transfers[e.of].queued
         /\ transfers'[e.of].delivered = transfers[e.of].delivered
         /\ transfers'[e.of].token = transfers[e.of].token
<1> DEFINE t       == e.of
           found   == Scratched(arriving, i, e, managerOf[t])
           stamped == Stamp(transfers[t], found)
           row     == [stamped EXCEPT !.attested = stamped.attested + 1]
<1>1. t \in Transfer /\ transfers[t] \in TransferType /\ transfers \in [Transfer -> TransferType]
  BY DEF EventType, RowTypes
<1>2. found \subseteq arriving /\ (found # {} => (CHOOSE r \in found : TRUE).of \in Transfer)
  BY ScratchedType DEF RowTypes
<1> HIDE DEF found
<1>3. /\ stamped \in TransferType /\ stamped.sent = transfers[t].sent
      /\ stamped.queued = transfers[t].queued /\ stamped.delivered = transfers[t].delivered
      /\ stamped.attested = transfers[t].attested /\ stamped.token = transfers[t].token
  BY <1>1, <1>2, StampKeeps
<1>4. /\ attestations' = attestations \cup {t} /\ UNCHANGED sending
      /\ IF Attested(t) THEN UNCHANGED <<transfers, arriving>>
         ELSE transfers' = [transfers EXCEPT ![t] = row] /\ arriving' = arriving \ found
  BY DEF MessageAttestedTo, found
<1> HIDE DEF stamped, t
<1>5. /\ row \in TransferType /\ row.attested = transfers[t].attested + 1
      /\ row.sent = transfers[t].sent /\ row.queued = transfers[t].queued
      /\ row.delivered = transfers[t].delivered /\ row.token = transfers[t].token
  BY <1>3 DEF TransferType
<1> HIDE DEF row
<1>6. RowTypes' /\ Others(t) /\ Attested(t)'
  BY <1>1, <1>2, <1>4, <1>5 DEF RowTypes, Others, Attested
<1>7. transfers'[t] = IF Attested(t) THEN transfers[t] ELSE row
  BY <1>1, <1>4
<1> QED BY <1>5, <1>6, <1>7 DEF t

LEMMA Queued ==
  ASSUME LogTypes, RowTypes, NEW i \in Nat, NEW e \in EventType, InboundTransferQueued(i, e)
  PROVE  /\ RowTypes' /\ Others(e.of) /\ (Attested(e.of)' <=> Attested(e.of))
         /\ transfers'[e.of].queued /\ transfers'[e.of].attested = transfers[e.of].attested
         /\ transfers'[e.of].sent = transfers[e.of].sent
         /\ transfers'[e.of].delivered = transfers[e.of].delivered
         /\ transfers'[e.of].token = transfers[e.of].token
<1>1. /\ e.of \in Transfer /\ transfers[e.of] \in TransferType
      /\ transfers \in [Transfer -> TransferType]
  BY DEF EventType, RowTypes
<1> DEFINE row == [transfers[e.of] EXCEPT !.queued = TRUE]
<1>2. /\ row \in TransferType /\ row.queued /\ row.attested = transfers[e.of].attested
      /\ row.sent = transfers[e.of].sent /\ row.delivered = transfers[e.of].delivered
      /\ row.token = transfers[e.of].token
  BY <1>1 DEF TransferType
<1>3. /\ transfers' = [transfers EXCEPT ![e.of] = row]
      /\ UNCHANGED <<attestations, sending, arriving>>
  BY DEF InboundTransferQueued
<1> HIDE DEF row
<1>4. transfers'[e.of] = row /\ RowTypes' /\ Others(e.of) /\ (Attested(e.of)' <=> Attested(e.of))
  BY <1>1, <1>2, <1>3 DEF RowTypes, Others, Attested
<1> QED BY <1>2, <1>4

LEMMA Redeemed ==
  ASSUME LogTypes, RowTypes, NEW i \in Nat, NEW e \in EventType, TransferRedeemed(i, e)
  PROVE  /\ RowTypes' /\ Others(e.of) /\ (Attested(e.of)' <=> Attested(e.of))
         /\ transfers'[e.of].delivered /\ transfers'[e.of].attested = transfers[e.of].attested
         /\ transfers'[e.of].sent = transfers[e.of].sent
         /\ transfers'[e.of].queued = transfers[e.of].queued
         /\ transfers'[e.of].token = IF Known(e.of, "dest") /\ ~transfers[e.of].sent
                                     THEN <<managerOf[e.of], "dest">> ELSE transfers[e.of].token
<1> DEFINE t       == e.of
           found   == IF transfers[t].digest # Nothing THEN {}
                      ELSE Scratched(arriving, i, e, IF Known(t, "dest") THEN managerOf[t] ELSE Nothing)
           token   == IF Known(t, "dest") /\ ~SourceHasRun(t)
                      THEN <<managerOf[t], "dest">> ELSE transfers[t].token
           stamped == Stamp(transfers[t], found)
           row     == [stamped EXCEPT !.delivered = TRUE, !.token = token]
<1>1. t \in Transfer /\ transfers[t] \in TransferType /\ transfers \in [Transfer -> TransferType]
  BY DEF EventType, RowTypes
<1>2. found \subseteq arriving /\ (found # {} => (CHOOSE r \in found : TRUE).of \in Transfer)
  BY ScratchedType DEF RowTypes
<1>3. /\ transfers' = [transfers EXCEPT ![t] = row] /\ arriving' = arriving \ found
      /\ UNCHANGED <<attestations, sending>>
  BY DEF TransferRedeemed
<1> HIDE DEF found
<1>4. token \in (Manager \X Side) \cup {Nothing}
  BY <1>1 DEF LogTypes, TransferType, Side
<1>5. /\ stamped \in TransferType /\ stamped.sent = transfers[t].sent
      /\ stamped.queued = transfers[t].queued /\ stamped.attested = transfers[t].attested
  BY <1>1, <1>2, StampKeeps
<1> HIDE DEF stamped, t, token
<1>6. /\ row \in TransferType /\ row.delivered /\ row.attested = transfers[t].attested
      /\ row.sent = transfers[t].sent /\ row.queued = transfers[t].queued /\ row.token = token
  BY <1>4, <1>5 DEF TransferType
<1> HIDE DEF row
<1>7. transfers'[t] = row /\ RowTypes' /\ Others(t) /\ (Attested(t)' <=> Attested(t))
  BY <1>1, <1>2, <1>3, <1>6 DEF RowTypes, Others, Attested
<1> QED BY <1>6, <1>7 DEF t, token, SourceHasRun

\* The two events that only leave a scratch row.
LEMMA ScratchLeft ==
  ASSUME RowTypes, NEW i \in Nat, NEW e \in EventType,
         TransferSentDetailed(i, e) \/ ReceivedMessage(i, e)
  PROVE  RowTypes' /\ transfers' = transfers /\ attestations' = attestations
<1>1. Scratch(i, e) \in ScratchType
  BY DEF Scratch, ScratchType, EventType
<1> QED BY <1>1 DEF TransferSentDetailed, ReceivedMessage, RowTypes

\* A handler's event is known as having happened, and nothing else is new.
LEMMA HappenedThen ==
  ASSUME NEW e \in EventType, applied' = applied \cup {e}
  PROVE  /\ \A k \in Kind : Happened(k, e.of)' <=> Happened(k, e.of) \/ e.kind = k
         /\ \A k \in Kind, t \in Transfer : t # e.of => (Happened(k, t)' <=> Happened(k, t))
BY DEF Happened

\* The kinds of events are five facts about a transfer and one that leaves no trace.
LEMMA ApplyRecords ==
  ASSUME PairingInv, NEW s \in Side, Apply(s)
  PROVE  RowTypes' /\ \A t \in Transfer : Records(t)'
<1>1. at[s] + 1 \in Nat /\ log[s][at[s] + 1] \in EventType
  <2>1. at[s] \in Nat /\ log[s] \in Seq(EventType) /\ at[s] < Len(log[s])
    BY DEF PairingInv, LogTypes, Apply
  <2>2. Len(log[s]) \in Nat
    BY <2>1
  <2> QED BY <2>1, <2>2
<1>2. PICK i \in Nat, e \in EventType : i = at[s] + 1 /\ e = log[s][i]
  BY <1>1
<1>3. /\ applied' = applied \cup {e} /\ managerOf' = managerOf /\ listed' = listed
      /\ \/ e.kind = "TransferSentDetailed"  /\ TransferSentDetailed(i, e)
         \/ e.kind = "TransferSentDigest"    /\ TransferSentDigest(i, e)
         \/ e.kind = "ReceivedMessage"       /\ ReceivedMessage(i, e)
         \/ e.kind = "MessageAttestedTo"     /\ MessageAttestedTo(i, e)
         \/ e.kind = "InboundTransferQueued" /\ InboundTransferQueued(i, e)
         \/ e.kind = "TransferRedeemed"      /\ TransferRedeemed(i, e)
  BY <1>2 DEF Apply
<1>4. e.of \in Transfer /\ LogTypes /\ RowTypes /\ Records(e.of) /\ transfers[e.of].attested \in Nat
  BY <1>2 DEF EventType, PairingInv, RowTypes, TransferType
<1>5. \A t, side : Known(t, side)' = Known(t, side)
  BY <1>3 DEF Known
<1>6. /\ \A k \in Kind : Happened(k, e.of)' <=> Happened(k, e.of) \/ e.kind = k
      /\ \A k \in Kind, t \in Transfer : t # e.of => (Happened(k, t)' <=> Happened(k, t))
  BY <1>2, <1>3, HappenedThen
<1>7. Others(e.of) => \A t \in Transfer \ {e.of} : Records(t)'
  <2> SUFFICES ASSUME Others(e.of), NEW t \in Transfer \ {e.of} PROVE Records(t)'
    OBVIOUS
  <2>1. Records(t) /\ transfers'[t] = transfers[t] /\ (Attested(t)' <=> Attested(t))
    BY DEF PairingInv, Others
  <2>2. \A k \in Kind : Happened(k, t)' <=> Happened(k, t)
    BY <1>6
  <2> QED BY <1>3, <1>5, <2>1, <2>2 DEF Records, Kind
<1>8. CASE e.kind = "TransferSentDetailed" \/ e.kind = "ReceivedMessage"
  <2>1. RowTypes' /\ transfers' = transfers /\ attestations' = attestations
    BY <1>1, <1>2, <1>3, <1>4, <1>8, ScratchLeft
  <2>2. Others(e.of)
    BY <2>1 DEF Others, Attested
  <2>3. Records(e.of)'
    BY <1>3, <1>4, <1>5, <1>6, <1>8, <2>1 DEF Records, Attested, Kind
  <2> QED BY <1>7, <2>1, <2>2, <2>3
<1>9. CASE e.kind = "TransferSentDigest"
  <2>1. TransferSentDigest(i, e)
    BY <1>3, <1>9
  <2>2. /\ transfers'[e.of].sent /\ transfers'[e.of].attested = transfers[e.of].attested
        /\ transfers'[e.of].queued = transfers[e.of].queued
        /\ transfers'[e.of].delivered = transfers[e.of].delivered
        /\ transfers'[e.of].token = IF Known(e.of, "source") THEN <<managerOf[e.of], "source">>
                                    ELSE transfers[e.of].token
        /\ Attested(e.of)' <=> Attested(e.of)
    BY <1>2, <1>4, <2>1, SentDigest
  <2>3. /\ Happened("TransferSentDigest", e.of)'
        /\ \A k \in Kind \ {"TransferSentDigest"} : Happened(k, e.of)' <=> Happened(k, e.of)
    BY <1>6, <1>9 DEF Kind
  <2>4. <<managerOf[e.of], "source">> # <<managerOf[e.of], "dest">>
    OBVIOUS
  <2>5. /\ transfers'[e.of].token = <<managerOf'[e.of], "dest">> => transfers'[e.of].delivered
        /\ transfers'[e.of].sent /\ Known(e.of, "source")' =>
             transfers'[e.of].token = <<managerOf'[e.of], "source">>
    BY <1>3, <1>4, <1>5, <2>2, <2>4 DEF Records
  <2>6. Records(e.of)'
    BY <1>4, <2>2, <2>3, <2>5 DEF Records, Kind
  <2> QED BY <1>2, <1>4, <1>7, <2>1, <2>6, SentDigest
<1>10. CASE e.kind = "MessageAttestedTo"
  <2>1. MessageAttestedTo(i, e)
    BY <1>3, <1>10
  <2>2. /\ transfers'[e.of].attested =
             IF Attested(e.of) THEN transfers[e.of].attested ELSE transfers[e.of].attested + 1
        /\ transfers'[e.of].sent = transfers[e.of].sent
        /\ transfers'[e.of].queued = transfers[e.of].queued
        /\ transfers'[e.of].delivered = transfers[e.of].delivered
        /\ transfers'[e.of].token = transfers[e.of].token
        /\ Attested(e.of)'
    BY <1>2, <1>4, <2>1, AttestedTo
  <2>3. /\ Happened("MessageAttestedTo", e.of)'
        /\ \A k \in Kind \ {"MessageAttestedTo"} : Happened(k, e.of)' <=> Happened(k, e.of)
    BY <1>6, <1>10 DEF Kind
  <2>4. transfers'[e.of].attested = 1
    BY <1>4, <2>2 DEF Records
  <2>5. Records(e.of)'
    BY <1>3, <1>4, <1>5, <2>2, <2>3, <2>4 DEF Records, Kind
  <2> QED BY <1>2, <1>4, <1>7, <2>1, <2>5, AttestedTo
<1>11. CASE e.kind = "InboundTransferQueued"
  <2>1. InboundTransferQueued(i, e)
    BY <1>3, <1>11
  <2>2. Records(e.of)'
    BY <1>1, <1>2, <1>3, <1>4, <1>5, <1>6, <1>11, <2>1, Queued, ZenonT(40) DEF Records, Kind
  <2> QED BY <1>1, <1>2, <1>4, <1>7, <2>1, <2>2, Queued
<1>12. CASE e.kind = "TransferRedeemed"
  <2>1. TransferRedeemed(i, e)
    BY <1>3, <1>12
  <2>2. Records(e.of)'
    BY <1>1, <1>2, <1>3, <1>4, <1>5, <1>6, <1>12, <2>1, Redeemed, ZenonT(40) DEF Records, Kind
  <2> QED BY <1>1, <1>2, <1>4, <1>7, <2>1, <2>2, Redeemed
<1> QED BY <1>3, <1>8, <1>9, <1>10, <1>11, <1>12

LEMMA PairingStep == PairingInv /\ [PairingNext]_pairingVars => PairingInv'
<1>1. ASSUME PairingInv, NEW s \in Side, Apply(s) PROVE PairingInv'
  <2>1. LogTypes'
    BY <1>1 DEF PairingInv, LogTypes, Apply
  <2> QED BY <1>1, <2>1, ApplyRecords DEF PairingInv
<1>2. ASSUME PairingInv, NEW s \in Side, Miss(s) \/ Replay(s) PROVE PairingInv'
  <2>1. LogTypes'
    BY <1>2 DEF PairingInv, LogTypes, Miss, Replay
  <2> QED BY <1>2, <2>1 DEF PairingInv, Miss, Replay, RowTypes, Records, Happened, Attested, Known
<1>3. ASSUME PairingInv, UNCHANGED pairingVars PROVE PairingInv'
  BY <1>3 DEF pairingVars, PairingInv, LogTypes, RowTypes, Records, Happened, Attested, Known
<1> QED BY <1>1, <1>2, <1>3 DEF PairingNext

\* The two transfers, in the order of their sends, and the logs there can be: the
\* deliveries come one after the other, or the messages of both come first.
one == log["source"][1].of
two == log["source"][3].of
LogShape ==
  /\ Transfer = {one, two} /\ one # two
  /\ log["source"] = <<Event("TransferSentDetailed", one, 1), Event("TransferSentDigest", one, 1),
                       Event("TransferSentDetailed", two, 1), Event("TransferSentDigest", two, 1)>>
  /\ Len(log["dest"]) \in 6..8
  /\ \A i \in 7..Len(log["dest"]) :
       \E t \in Transfer : log["dest"][i] = Event("TransferRedeemed", t, 2)
Ends(i, t) ==
  \E k \in {"InboundTransferQueued", "TransferRedeemed"} : log["dest"][i] = Event(k, t, 1)
Together ==
  /\ log["dest"][1] = Event("ReceivedMessage", one, 1)
  /\ log["dest"][2] = Event("MessageAttestedTo", one, 1) /\ Ends(3, one)
  /\ log["dest"][4] = Event("ReceivedMessage", two, 1)
  /\ log["dest"][5] = Event("MessageAttestedTo", two, 1) /\ Ends(6, two)
Apart ==
  /\ managerOf[one] # managerOf[two]
  /\ log["dest"][1] = Event("ReceivedMessage", one, 1)
  /\ log["dest"][2] = Event("ReceivedMessage", two, 1)
  /\ log["dest"][3] = Event("MessageAttestedTo", one, 1) /\ Ends(4, one)
  /\ log["dest"][5] = Event("MessageAttestedTo", two, 1) /\ Ends(6, two)

\* The scratch rows there can be: the source's are left at log indexes 1 and 3, the
\* destination's at 1 and at 4, or 2 if the deliveries are interleaved.
LeftRow(i, t) == [index |-> i, tx |-> 1, of |-> t]
Second == IF Together THEN 4 ELSE 2

\* What the source's scratch rows tell of the logs that were left out.
SendingInv ==
  /\ at["source"] \in 0..4
  /\ sending \subseteq {LeftRow(1, one), LeftRow(3, two)}
  /\ at["source"] = 1 /\ LeftRow(1, one) \notin sending => missing >= 1
  /\ at["source"] \in 2..4 /\ LeftRow(1, one) \in sending => missing >= 1
  /\ at["source"] = 3 /\ LeftRow(3, two) \notin sending => missing >= 1
  /\ at["source"] = 3 /\ LeftRow(3, two) \notin sending /\ LeftRow(1, one) \in sending => missing >= 2
  /\ at["source"] = 4 /\ LeftRow(3, two) \in sending => missing >= 1

\* The same of the destination's, which a second reading leaves behind.
ArrivingInv ==
  /\ at["dest"] \in 0..Len(log["dest"])
  /\ arriving \subseteq {LeftRow(1, one), LeftRow(Second, two)}
  /\ Together /\ at["dest"] = 4 /\ LeftRow(Second, two) \notin arriving => missing >= 1
  /\ missing = 0 /\ at["dest"] >= 5 => Attested(two)
  /\ missing = 0 /\ Together /\ Attested(two) => transfers[two].digest # Nothing
  /\ replays = 0 =>
       /\ Attested(one) => at["dest"] >= IF Together THEN 2 ELSE 3
       /\ Attested(two) => at["dest"] >= 5
       /\ at["dest"] >= (IF Together THEN 2 ELSE 3) /\ LeftRow(1, one) \in arriving => missing >= 1
       /\ at["dest"] >= 5 /\ LeftRow(Second, two) \in arriving => missing >= 1
       /\ Together /\ at["dest"] >= 4 /\ LeftRow(1, one) \in arriving /\ LeftRow(Second, two) \notin arriving
            => missing >= 2 \/ (at["dest"] > 4 /\ transfers[two].digest # Nothing)

\* What a row's fields say of each other.
FieldInv ==
  \A t \in Transfer :
    LET row == transfers[t]
    IN  /\ t \in paired => row.sent /\ row.amount # Nothing
        /\ row.amount # Nothing => row.sent
        /\ row.sent => row.source # Nothing
        /\ row.token \in {Nothing, <<managerOf[t], "source">>, <<managerOf[t], "dest">>}
        /\ row.token = <<managerOf[t], "source">> => Known(t, "source")
        /\ missing <= 1 => row.amount \in {t, Nothing}

\* A row's source and digest are its own.
DataInv ==
  Manager \X {"dest"} \subseteq listed /\ (missing = 0 \/ (missing <= 1 /\ replays = 0)) =>
    \A t \in Transfer : {transfers[t].source, transfers[t].digest} \subseteq {t, Nothing}

\* The logs the initial states choose from (SourceLog and DestLog) have that shape.
LEMMA PairingLogs == PairingInit => LogShape /\ (Together \/ Apart) /\ log \in [Side -> Seq(EventType)]
<1> SUFFICES ASSUME PairingInit PROVE LogShape /\ (Together \/ Apart) /\ log \in [Side -> Seq(EventType)]
  OBVIOUS
<1>1. PICK order \in Bijection(1..2, Transfer), queued \in SUBSET Transfer, together \in BOOLEAN :
        /\ ~together => managerOf[order[1]] # managerOf[order[2]]
        /\ log = [source |-> SourceLog(order[1], order[2]),
                  dest |-> DestLog(order[1], order[2], queued, together)]
  BY DEF PairingInit
<1> DEFINE a == order[1]
           b == order[2]
<1>2. Transfer = {a, b} /\ a # b
  <2>1. order \in [{1, 2} -> Transfer] /\ (\A t \in Transfer : \E i \in {1, 2} : order[i] = t)
        /\ (order[1] = order[2] => 1 = 2)
    BY DEF Bijection, Injection, Surjection, IsInjective
  <2> QED BY <2>1
<1>3. log["source"] = <<Event("TransferSentDetailed", a, 1), Event("TransferSentDigest", a, 1),
                        Event("TransferSentDetailed", b, 1), Event("TransferSentDigest", b, 1)>>
  BY <1>1 DEF SourceLog
<1>4. one = a /\ two = b
  BY <1>3 DEF one, two, Event
<1> DEFINE received(t) == Event("ReceivedMessage", t, 1)
           attested(t) == Event("MessageAttestedTo", t, 1)
           x(t) == Event(IF t \in queued THEN "InboundTransferQueued" ELSE "TransferRedeemed", t, 1)
           later(t) == IF t \in queued THEN <<Event("TransferRedeemed", t, 2)>> ELSE <<>>
           first == IF together THEN <<received(a), attested(a), x(a), received(b), attested(b), x(b)>>
                    ELSE <<received(a), received(b), attested(a), x(a), attested(b), x(b)>>
           E == [kind : Kind, of : Transfer, tx : {1, 2}]
           L == {Event("TransferRedeemed", t, 2) : t \in Transfer}
<1>5. L \subseteq E /\ \A k \in Kind, t \in Transfer : Event(k, t, 1) \in E
  BY DEF Event, Kind
<1>6. log["dest"] = (first \o later(a)) \o later(b)
  BY <1>1 DEF DestLog
<1>7. received(a) \in E /\ received(b) \in E /\ attested(a) \in E /\ attested(b) \in E
      /\ x(a) \in E /\ x(b) \in E
  BY <1>2, <1>5 DEF Kind
<1> HIDE DEF E, L
<1>8. /\ first \in Seq(E) /\ Len(first) = 6
      /\ first[1] = received(a) /\ first[6] = x(b)
      /\ first[5] = attested(b)
      /\ together => first[2] = attested(a) /\ first[3] = x(a) /\ first[4] = received(b)
      /\ ~together => first[2] = received(b) /\ first[3] = attested(a) /\ first[4] = x(a)
  BY <1>7
<1>9. \A t \in Transfer : later(t) \in Seq(E) /\ Len(later(t)) \in 0..1
                          /\ \A i \in 1..Len(later(t)) : later(t)[i] \in L
  <2> SUFFICES ASSUME NEW t \in Transfer
               PROVE later(t) \in Seq(E) /\ Len(later(t)) \in 0..1
                     /\ \A i \in 1..Len(later(t)) : later(t)[i] \in L
    OBVIOUS
  <2>1. Event("TransferRedeemed", t, 2) \in L
    BY DEF L
  <2>2. CASE t \in queued
    BY <1>5, <2>1, <2>2
  <2>3. CASE t \notin queued
    BY <1>5, <2>1, <2>3
  <2> QED BY <2>2, <2>3
<1> HIDE DEF first, later
<1>10. a \in Transfer /\ b \in Transfer
  BY <1>2
<1> HIDE DEF a, b
<1> DEFINE la == later(a)
           lb == later(b)
           six == first \o la
<1>11. la \in Seq(E) /\ lb \in Seq(E)
       /\ Len(la) \in 0..1 /\ Len(lb) \in 0..1
       /\ (\A i \in 1..Len(la) : la[i] \in L) /\ (\A i \in 1..Len(lb) : lb[i] \in L)
  BY <1>9, <1>10
<1> HIDE DEF la, lb
<1>12. /\ six \in Seq(E) /\ Len(six) = 6 + Len(la)
       /\ \A i \in 1..(6 + Len(la)) : six[i] = IF i <= 6 THEN first[i] ELSE la[i - 6]
  <2>1. /\ six \in Seq(E) /\ Len(six) = Len(first) + Len(la)
        /\ \A i \in 1..(Len(first) + Len(la)) :
             six[i] = IF i <= Len(first) THEN first[i] ELSE la[i - Len(first)]
    BY <1>8, <1>11, ConcatProperties
  <2> QED BY <1>8, <2>1
<1> HIDE DEF six
<1>13. /\ Len(six \o lb) = 6 + Len(la) + Len(lb)
       /\ \A i \in 1..(6 + Len(la) + Len(lb)) :
            (six \o lb)[i] = IF i <= 6 + Len(la) THEN six[i] ELSE lb[i - (6 + Len(la))]
  BY <1>11, <1>12, ConcatProperties, SMTT(30)
<1>14. log["dest"] = six \o lb
  BY <1>6 DEF six, la, lb
<1> DEFINE d == log["dest"]
<1>15. /\ Len(d) \in 6..8 /\ d[1] = first[1] /\ d[2] = first[2] /\ d[3] = first[3]
       /\ d[4] = first[4] /\ d[5] = first[5] /\ d[6] = first[6]
       /\ \A i \in 7..Len(d) : d[i] \in L
  <2>1. Len(d) = 6 + Len(la) + Len(lb) /\ Len(d) \in 6..8
    BY <1>11, <1>13, <1>14
  <2>2. \A i \in 1..6 : d[i] = first[i]
    BY <1>11, <1>12, <1>13, <1>14
  <2>3. ASSUME NEW i \in 7..Len(d) PROVE d[i] \in L
    <3>1. d[i] = IF i <= 6 + Len(la) THEN la[i - 6] ELSE lb[i - (6 + Len(la))]
      BY <1>11, <1>12, <1>13, <1>14, <2>1
    <3> QED BY <1>11, <2>1, <3>1
  <2> QED BY <2>1, <2>2, <2>3
<1>16. \A e \in L : \E t \in Transfer : e = Event("TransferRedeemed", t, 2)
  BY DEF L
<1>21. log \in [Side -> Seq(EventType)]
  <2>1. E \subseteq EventType
    BY DEF E, EventType
  <2>2. log["source"] \in Seq(EventType)
    BY <1>3, <1>10, <2>1 DEF E, Event, EventType, Kind
  <2>3. log["dest"] \in Seq(E)
    BY <1>11, <1>12, <1>14, ConcatProperties
  <2>4. log["dest"] \in Seq(EventType)
    BY <2>1, <2>3, SeqMonotonic
  <2>5. DOMAIN log = Side /\ log = [s \in Side |-> log[s]]
    BY <1>1 DEF Side
  <2> QED BY <2>2, <2>4, <2>5 DEF Side
<1>17. LogShape
  BY <1>2, <1>3, <1>4, <1>15, <1>16 DEF LogShape
<1>18. \A t : \E k \in {"InboundTransferQueued", "TransferRedeemed"} : x(t) = Event(k, t, 1)
  OBVIOUS
<1>19. CASE together
  <2>1. Ends(3, one) /\ Ends(6, two)
    BY <1>4, <1>8, <1>15, <1>18, <1>19 DEF Ends
  <2> QED BY <1>4, <1>8, <1>15, <1>17, <1>21, <1>19, <2>1 DEF Together
<1>20. CASE ~together
  <2>1. Ends(4, one) /\ Ends(6, two)
    BY <1>4, <1>8, <1>15, <1>18, <1>20 DEF Ends
  <2>2. managerOf[one] # managerOf[two]
    BY <1>1, <1>4, <1>20 DEF a, b
  <2> QED BY <1>4, <1>8, <1>15, <1>17, <1>21, <1>20, <2>1, <2>2 DEF Apart
<1> QED BY <1>17, <1>19, <1>20

\* The rows start empty, as nothing has happened.
LEMMA PairingStart == PairingInit => PairingInv
<1> SUFFICES ASSUME PairingInit PROVE PairingInv
  OBVIOUS
<1>1. LogTypes
  BY PairingLogs DEF PairingInit, LogTypes, Side
<1>2. RowTypes
  BY DEF PairingInit, RowTypes, TransferType, NoTransfer
<1>3. ASSUME NEW t \in Transfer PROVE Records(t)
  <2>1. transfers[t] = NoTransfer /\ ~Attested(t) /\ \A k : ~Happened(k, t)
    BY DEF PairingInit, Attested, Happened
  <2>2. <<managerOf[t], "dest">> # Nothing
    BY <1>1, PairingAssumption DEF LogTypes, Side
  <2> QED BY <2>1, <2>2 DEF Records, NoTransfer
<1> QED BY <1>1, <1>2, <1>3 DEF PairingInv

\* The rows' invariant: each field of the row of either transfer is the trace of one
\* kind of event, whichever chain it came from and however often it was read.
THEOREM PairingInvariant == PairingSpec => []PairingInv
<1>1. PairingInit => PairingInv
  BY PairingStart
<1>2. PairingInv /\ [PairingNext]_pairingVars => PairingInv'
  BY PairingStep
<1> QED BY <1>1, <1>2, PTL DEF PairingSpec

\* The status, attestation count and token of two transfers (handlers/wormhole/*.ts)
\* depend on which of its events were read, never on their order, on how far apart the two
\* chains are, on a log left out or on a chain read again.
THEOREM OutcomeOnly == PairingSpec => []RowIsOutcome
<1>1. PairingInv => RowIsOutcome
  <2> SUFFICES ASSUME PairingInv, NEW t \in Transfer
               PROVE  /\ transfers[t].attested = IF Happened("MessageAttestedTo", t) THEN 1 ELSE 0
                      /\ Status(transfers[t]) =
                           IF Happened("TransferRedeemed", t) THEN "DELIVERED"
                           ELSE IF Happened("InboundTransferQueued", t) THEN "QUEUED_INBOUND"
                           ELSE IF Happened("MessageAttestedTo", t) THEN "ATTESTED"
                           ELSE IF Happened("TransferSentDigest", t) THEN "SENT" ELSE "PENDING"
                      /\ Happened("TransferSentDigest", t) /\ Known(t, "source") =>
                           transfers[t].token = <<managerOf[t], "source">>
                      /\ transfers[t].token = <<managerOf[t], "dest">> =>
                           Happened("TransferRedeemed", t)
    BY DEF RowIsOutcome
  <2>1. Records(t) /\ transfers[t] \in TransferType
    BY DEF PairingInv, RowTypes
  <2>2. /\ transfers[t].delivered \in BOOLEAN /\ transfers[t].queued \in BOOLEAN
        /\ transfers[t].sent \in BOOLEAN /\ transfers[t].attested \in Nat
    BY <2>1 DEF TransferType
  <2> QED BY <2>1, <2>2 DEF Records, Status
<1> QED BY <1>1, PairingInvariant, PTL

\* The logs of a behaviour, which no step changes.
Shape == LogShape /\ (Together \/ Apart)

\* The log an Apply reads, by its place on the source.
LEMMA SourceSteps ==
  ASSUME LogShape, at \in [Side -> Nat], Apply("source")
  PROVE  /\ at["source"] \in 0..3 /\ at' = [at EXCEPT !["source"] = at["source"] + 1]
         /\ UNCHANGED <<managerOf, listed, log, missing, replays>>
         /\ \/ at["source"] = 0 /\ TransferSentDetailed(1, Event("TransferSentDetailed", one, 1))
            \/ at["source"] = 1 /\ TransferSentDigest(2, Event("TransferSentDigest", one, 1))
            \/ at["source"] = 2 /\ TransferSentDetailed(3, Event("TransferSentDetailed", two, 1))
            \/ at["source"] = 3 /\ TransferSentDigest(4, Event("TransferSentDigest", two, 1))
<1> DEFINE i == at["source"] + 1
           e == log["source"][i]
<1>1. /\ at["source"] \in Nat /\ at["source"] < Len(log["source"])
      /\ at' = [at EXCEPT !["source"] = i]
      /\ UNCHANGED <<managerOf, listed, log, missing, replays>>
      /\ \/ e.kind = "TransferSentDetailed"  /\ TransferSentDetailed(i, e)
         \/ e.kind = "TransferSentDigest"    /\ TransferSentDigest(i, e)
         \/ e.kind \in Kind \ {"TransferSentDetailed", "TransferSentDigest"}
  BY DEF Apply, Side, Kind
<1>2. at["source"] \in 0..3
  <2>1. Len(log["source"]) = 4
    BY DEF LogShape
  <2> QED BY <1>1, <2>1
<1>3. /\ i \in {1, 3} => e = Event("TransferSentDetailed", IF i = 1 THEN one ELSE two, 1)
      /\ i \in {2, 4} => e = Event("TransferSentDigest", IF i = 2 THEN one ELSE two, 1)
  BY <1>2 DEF LogShape
<1>4. \A k, t : Event(k, t, 1).kind = k
  BY DEF Event
<1> HIDE DEF e
<1>5. /\ i \in {1, 3} => TransferSentDetailed(i, e)
      /\ i \in {2, 4} => TransferSentDigest(i, e)
  BY <1>1, <1>3, <1>4 DEF Kind
<1> QED BY <1>1, <1>2, <1>3, <1>5

\* By its place on the destination: after the attestations, and after the two
\* transactions of the deliveries, only ends of transfers come.
LEMMA DestSteps ==
  ASSUME Shape, at \in [Side -> Nat], Apply("dest")
  PROVE  LET i == at["dest"] + 1
             m == IF Together THEN 2 ELSE 3
         IN  /\ i \in 1..Len(log["dest"]) /\ at' = [at EXCEPT !["dest"] = i]
             /\ UNCHANGED <<managerOf, listed, log, missing, replays>>
             /\ \/ i = 1 /\ ReceivedMessage(1, Event("ReceivedMessage", one, 1))
                \/ i = m /\ MessageAttestedTo(i, Event("MessageAttestedTo", one, 1))
                \/ i = Second /\ ReceivedMessage(i, Event("ReceivedMessage", two, 1))
                \/ i = 5 /\ MessageAttestedTo(i, Event("MessageAttestedTo", two, 1))
                \/ \E t \in Transfer, tx \in {1, 2} :
                     /\ \/ i = m + 1 /\ t = one /\ tx = 1
                        \/ i = 6 /\ t = two /\ tx = 1
                        \/ i >= 7 /\ tx = 2
                     /\ \/ InboundTransferQueued(i, Event("InboundTransferQueued", t, tx))
                        \/ TransferRedeemed(i, Event("TransferRedeemed", t, tx))
<1> DEFINE i == at["dest"] + 1
           m == IF Together THEN 2 ELSE 3
           e == log["dest"][i]
<1>1. /\ at["dest"] \in Nat /\ at["dest"] < Len(log["dest"])
      /\ at' = [at EXCEPT !["dest"] = i]
      /\ UNCHANGED <<managerOf, listed, log, missing, replays>>
      /\ \/ e.kind \in {"TransferSentDetailed", "TransferSentDigest"}
         \/ e.kind = "ReceivedMessage"       /\ ReceivedMessage(i, e)
         \/ e.kind = "MessageAttestedTo"     /\ MessageAttestedTo(i, e)
         \/ e.kind = "InboundTransferQueued" /\ InboundTransferQueued(i, e)
         \/ e.kind = "TransferRedeemed"      /\ TransferRedeemed(i, e)
  BY DEF Apply, Side
<1>2. i \in 1..Len(log["dest"]) /\ Len(log["dest"]) \in 6..8
  BY <1>1 DEF Shape, LogShape
<1>3. one \in Transfer /\ two \in Transfer
  BY DEF Shape, LogShape
<1>4. \A k, t, n : Event(k, t, n).kind = k
  BY DEF Event
<1>5. /\ i = 1 => e = Event("ReceivedMessage", one, 1)
      /\ i = m => e = Event("MessageAttestedTo", one, 1)
      /\ i = m + 1 => Ends(i, one)
      /\ i = Second => e = Event("ReceivedMessage", two, 1)
      /\ i = 5 => e = Event("MessageAttestedTo", two, 1)
      /\ i = 6 => Ends(i, two)
  BY DEF Shape, Together, Apart, Second
<1>6. i >= 7 => \E t \in Transfer : e = Event("TransferRedeemed", t, 2)
  BY <1>2 DEF Shape, LogShape
<1>7. i = 1 \/ i = m \/ i = m + 1 \/ i = Second \/ i = 5 \/ i = 6 \/ i >= 7
  BY <1>2 DEF Second
<1> HIDE DEF e
<1>8. CASE i = 1 \/ i = m \/ i = Second \/ i = 5
  BY <1>1, <1>2, <1>4, <1>5, <1>8
<1>9. CASE i = m + 1 \/ i = 6
  <2>1. PICK t \in Transfer, k \in {"InboundTransferQueued", "TransferRedeemed"} :
          e = Event(k, t, 1) /\ ((i = m + 1 /\ t = one) \/ (i = 6 /\ t = two))
    BY <1>3, <1>5, <1>9 DEF Ends, e
  <2> QED BY <1>1, <1>2, <1>4, <2>1
<1>10. CASE i >= 7
  <2>1. PICK t \in Transfer : e = Event("TransferRedeemed", t, 2)
    BY <1>6, <1>10
  <2> QED BY <1>1, <1>2, <1>4, <1>10, <2>1
<1> QED BY <1>7, <1>8, <1>9, <1>10

\* findPendingScratch on the source: its own row if it is there, else the other's.
LEMMA FoundSending ==
  ASSUME LogShape, sending \subseteq {LeftRow(1, one), LeftRow(3, two)}
  PROVE  /\ Scratched(sending, 2, Event("TransferSentDigest", one, 1), Nothing)
              = sending \cap {LeftRow(1, one)}
         /\ Scratched(sending, 4, Event("TransferSentDigest", two, 1), Nothing)
              = IF LeftRow(3, two) \in sending THEN {LeftRow(3, two)} ELSE sending \cap {LeftRow(1, one)}
<1> BackWalk \in Nat /\ BackWalk >= 4
  BY PairingAssumption
<1>1. Near(sending, 2, Event("TransferSentDigest", one, 1)) = sending \cap {LeftRow(1, one)}
  BY DEF Near, LeftRow, Event
<1>2. Near(sending, 4, Event("TransferSentDigest", two, 1)) = sending
  BY DEF Near, LeftRow, Event
<1>3. \A r : Nothing \in {Nothing, managerOf[r.of]}
  OBVIOUS
<1> QED BY <1>1, <1>2, <1>3 DEF Scratched, LeftRow

\* What the source's rows and the place on it become.
LEMMA SendingStep ==
  ASSUME PairingInv, Shape, SendingInv, missing \in Nat, [PairingNext]_pairingVars
  PROVE  SendingInv'
<1>1. one' = one /\ two' = two /\ log' = log
  BY DEF one, two, PairingNext, pairingVars, Apply, Miss, Replay
<1>2. one # two /\ LeftRow(1, one) # LeftRow(3, two) /\ Len(log["source"]) = 4
      /\ \A k \in 1..4 : log["source"][k].tx = 1
  BY DEF Shape, LogShape, LeftRow, Event
<1>3. at \in [Side -> Nat] /\ at["source"] \in 0..4
  BY DEF PairingInv, LogTypes, SendingInv
<1>4. ASSUME sending' = sending, at'["source"] = at["source"], missing' \in Nat, missing' >= missing
      PROVE  SendingInv'
  BY <1>1, <1>3, <1>4 DEF SendingInv, LeftRow
<1>5. CASE Apply("source")
  <2>1. /\ at["source"] \in 0..3 /\ at'["source"] = at["source"] + 1 /\ missing' = missing
        /\ \/ at["source"] = 0 /\ TransferSentDetailed(1, Event("TransferSentDetailed", one, 1))
           \/ at["source"] = 1 /\ TransferSentDigest(2, Event("TransferSentDigest", one, 1))
           \/ at["source"] = 2 /\ TransferSentDetailed(3, Event("TransferSentDetailed", two, 1))
           \/ at["source"] = 3 /\ TransferSentDigest(4, Event("TransferSentDigest", two, 1))
    BY <1>3, <1>5, SourceSteps DEF Shape, Side
  <2>2. CASE at["source"] = 0
    <3>1. sending' = sending \cup {LeftRow(1, one)}
      BY <2>1, <2>2 DEF TransferSentDetailed, Scratch, Event, LeftRow
    <3> QED BY <1>1, <1>2, <2>1, <2>2, <3>1 DEF SendingInv, LeftRow
  <2>3. CASE at["source"] = 1
    <3>1. sending' = sending \ {LeftRow(1, one)}
      BY <2>1, <2>3, FoundSending DEF TransferSentDigest, Shape, SendingInv
    <3> QED BY <1>1, <1>2, <2>1, <2>3, <3>1 DEF SendingInv, LeftRow
  <2>4. CASE at["source"] = 2
    <3>1. sending' = sending \cup {LeftRow(3, two)}
      BY <2>1, <2>4 DEF TransferSentDetailed, Scratch, Event, LeftRow
    <3> QED BY <1>1, <1>2, <2>1, <2>4, <3>1 DEF SendingInv, LeftRow
  <2>5. CASE at["source"] = 3
    <3>1. sending' = IF LeftRow(3, two) \in sending THEN sending \ {LeftRow(3, two)}
                     ELSE sending \ {LeftRow(1, one)}
      BY <2>1, <2>5, FoundSending DEF TransferSentDigest, Shape, SendingInv
    <3> QED BY <1>1, <1>2, <2>1, <2>5, <3>1 DEF SendingInv, LeftRow
  <2> QED BY <2>1, <2>2, <2>3, <2>4, <2>5
<1>6. CASE Miss("source")
  <2>1. /\ at["source"] \in 0..3 /\ at'["source"] = at["source"] + 1
        /\ sending' = sending /\ missing' = missing + 1
    BY <1>2, <1>3, <1>6 DEF Miss, Side
  <2> QED BY <1>1, <1>3, <2>1 DEF SendingInv, LeftRow
<1>7. CASE Replay("source")
  <2>1. PICK back \in 0..at["source"] : back < at["source"] /\ StartsTx("source", back)
                                        /\ at' = [at EXCEPT !["source"] = back]
    BY <1>7 DEF Replay
  <2>2. back = 0
    BY <1>2, <1>3, <2>1 DEF StartsTx
  <2> QED BY <1>1, <1>3, <1>7, <2>1, <2>2 DEF Replay, SendingInv, LeftRow, Side
<1>8. CASE Apply("dest")
  <2>1. /\ at' = [at EXCEPT !["dest"] = at["dest"] + 1] /\ missing' = missing
        /\ sending' = sending
    <3>1. /\ at' = [at EXCEPT !["dest"] = at["dest"] + 1] /\ missing' = missing
          /\ \E i, e : \/ ReceivedMessage(i, e) \/ MessageAttestedTo(i, e)
                      \/ InboundTransferQueued(i, e) \/ TransferRedeemed(i, e)
      BY <1>3, <1>8, DestSteps
    <3> QED BY <3>1 DEF ReceivedMessage, MessageAttestedTo, InboundTransferQueued, TransferRedeemed
  <2> QED BY <1>3, <1>4, <2>1 DEF Side
<1>9. CASE Miss("dest") \/ Replay("dest") \/ UNCHANGED pairingVars
  BY <1>3, <1>4, <1>9 DEF Miss, Replay, Side, pairingVars
<1> QED BY <1>5, <1>6, <1>7, <1>8, <1>9 DEF PairingNext, Side

\* findPendingScratch on the destination, for an attestation and for a redemption.
LEMMA FoundArriving ==
  ASSUME Shape, LogTypes, arriving \subseteq {LeftRow(1, one), LeftRow(Second, two)},
         NEW k, NEW tr \in Manager \cup {Nothing}
  PROVE  /\ Scratched(arriving, IF Together THEN 2 ELSE 3, Event(k, one, 1), managerOf[one])
              = arriving \cap {LeftRow(1, one)}
         /\ LeftRow(Second, two) \in arriving =>
              Scratched(arriving, 5, Event(k, two, 1), managerOf[two]) = {LeftRow(Second, two)}
         /\ LeftRow(Second, two) \notin arriving =>
              Scratched(arriving, 5, Event(k, two, 1), managerOf[two]) \subseteq arriving \cap {LeftRow(1, one)}
         /\ Together /\ LeftRow(Second, two) \in arriving /\ tr \in {Nothing, managerOf[two]} =>
              Scratched(arriving, 6, Event(k, two, 1), tr) = {LeftRow(Second, two)}
         /\ Together => Scratched(arriving, 3, Event(k, one, 1), tr) \subseteq {LeftRow(1, one)}
         /\ \A i, t : Scratched(arriving, i, Event(k, t, 2), tr) = {}
         /\ \A i : \A t \in Transfer :
              Scratched(arriving, i, Event(k, t, 1), managerOf[t]) \subseteq
                {r \in arriving : managerOf[r.of] = managerOf[t]}
<1>1. BackWalk \in Nat /\ BackWalk >= 4 /\ one # two /\ one \in Transfer /\ two \in Transfer
  BY PairingAssumption DEF Shape, LogShape
<1>2. \A t \in Transfer : managerOf[t] \in Manager /\ managerOf[t] # Nothing
  BY PairingAssumption DEF LogTypes
<1>3. \A i, t : Near(arriving, i, Event(k, t, 2)) = {}
  BY DEF Near, Event, LeftRow
<1>4. /\ Near(arriving, 5, Event(k, two, 1)) = arriving
      /\ Together => Near(arriving, 2, Event(k, one, 1)) = arriving \cap {LeftRow(1, one)}
      /\ ~Together => Near(arriving, 3, Event(k, one, 1)) = arriving
      /\ Together /\ LeftRow(Second, two) \in arriving => /\ LeftRow(Second, two) \in Near(arriving, 6, Event(k, two, 1))
                                                     /\ Near(arriving, 6, Event(k, two, 1)) \subseteq arriving
  BY <1>1 DEF Near, Event, LeftRow, Second
<1>5. ~Together => managerOf[one] # managerOf[two]
  BY DEF Shape, Apart
<1>6. LeftRow(1, one).index = 1 /\ LeftRow(Second, two).index = Second /\ LeftRow(1, one).of = one /\ LeftRow(Second, two).of = two
      /\ LeftRow(1, one) # LeftRow(Second, two) /\ 1 < Second /\ Second \in Nat
  BY <1>1 DEF LeftRow, Second
<1>7. \A i : \A t \in Transfer :
        Scratched(arriving, i, Event(k, t, 1), managerOf[t]) \subseteq
          {r \in arriving : managerOf[r.of] = managerOf[t]}
  BY <1>2 DEF Scratched, Near
<1>8. \A i, t : Scratched(arriving, i, Event(k, t, 2), tr) = {}
  BY <1>3 DEF Scratched
<1> DEFINE R1 == LeftRow(1, one)
           R2 == LeftRow(Second, two)
<1> HIDE DEF R1, R2
<1>9. /\ arriving \subseteq {R1, R2} /\ R1.index = 1 /\ R2.index = Second /\ R1.of = one /\ R2.of = two /\ R1 # R2
  BY <1>6 DEF R1, R2
<1>10. Scratched(arriving, IF Together THEN 2 ELSE 3, Event(k, one, 1), managerOf[one]) = arriving \cap {R1}
  BY <1>1, <1>2, <1>4, <1>5, <1>6, <1>9 DEF Scratched, R1
<1>11. R2 \in arriving => Scratched(arriving, 5, Event(k, two, 1), managerOf[two]) = {R2}
  BY <1>1, <1>2, <1>4, <1>6, <1>9 DEF Scratched
<1>12. R2 \notin arriving => Scratched(arriving, 5, Event(k, two, 1), managerOf[two]) \subseteq arriving \cap {R1}
  BY <1>4, <1>9 DEF Scratched
<1>13. Together /\ R2 \in arriving /\ tr \in {Nothing, managerOf[two]} =>
         Scratched(arriving, 6, Event(k, two, 1), tr) = {R2}
  BY <1>1, <1>2, <1>4, <1>6, <1>9 DEF Scratched, R2
<1>14. Together => Scratched(arriving, 3, Event(k, one, 1), tr) \subseteq {R1}
  <2>1. Together => Near(arriving, 3, Event(k, one, 1)) \subseteq {R1}
    BY <1>1, <1>9 DEF Near, Second
  <2> QED BY <2>1 DEF Scratched
<1> QED BY <1>7, <1>8, <1>10, <1>11, <1>12, <1>13, <1>14 DEF R1, R2

\* What the two handlers that drain a destination's row do to the rows.
LEMMA StampMoves ==
  ASSUME NEW row \in TransferType, NEW found,
         found # {} => (CHOOSE r \in found : TRUE).of \in Transfer
  PROVE  /\ Stamp(row, found).amount = row.amount
         /\ Stamp(row, found).source =
              IF found = {} \/ row.source # Nothing THEN row.source ELSE (CHOOSE r \in found : TRUE).of
         /\ Stamp(row, found).digest =
              IF found = {} THEN row.digest ELSE (CHOOSE r \in found : TRUE).of
<1> DEFINE of == (CHOOSE r \in found : TRUE).of
<1>1. found = {} \/ of \in Transfer
  OBVIOUS
<1>2. Stamp(row, found) =
        IF found = {} THEN row
        ELSE [row EXCEPT !.source = IF @ = Nothing THEN of ELSE @, !.digest = of]
  BY DEF Stamp
<1> HIDE DEF of
<1>3. /\ Stamp(row, found).amount = row.amount
      /\ Stamp(row, found).source = IF found = {} \/ row.source # Nothing THEN row.source ELSE of
      /\ Stamp(row, found).digest = IF found = {} THEN row.digest ELSE of
  BY <1>1, <1>2 DEF TransferType
<1> QED BY <1>3 DEF of

\* Before and after a drain: the rows of the others stay, amount and sent as well.
Drained(t, found) ==
  LET of == (CHOOSE r \in found : TRUE).of
  IN  /\ found \subseteq arriving /\ arriving' = arriving \ found
      /\ found # {} => of \in Transfer /\ \E q \in found : of = q.of
      /\ transfers'[t].amount = transfers[t].amount /\ transfers'[t].sent = transfers[t].sent
      /\ transfers'[t].source =
           IF found = {} \/ transfers[t].source # Nothing THEN transfers[t].source ELSE of
      /\ transfers'[t].digest = IF found = {} THEN transfers[t].digest ELSE of
      /\ \A u \in Transfer \ {t} : transfers'[u] = transfers[u]

\* handleMessageAttestedTo, seen from the row it drains.
LEMMA AttestedDrains ==
  ASSUME LogTypes, RowTypes, NEW i \in Nat, NEW t \in Transfer, NEW n \in Nat,
         MessageAttestedTo(i, Event("MessageAttestedTo", t, n))
  PROVE  /\ attestations' = attestations \cup {t} /\ sending' = sending /\ rolled' = rolled
         /\ paired' = paired
         /\ Attested(t) => arriving' = arriving /\ transfers' = transfers
         /\ ~Attested(t) =>
              /\ Drained(t, Scratched(arriving, i, Event("MessageAttestedTo", t, n), managerOf[t]))
              /\ transfers'[t].token = transfers[t].token
              /\ transfers'[t].delivered = transfers[t].delivered
<1> DEFINE e       == Event("MessageAttestedTo", t, n)
           found   == Scratched(arriving, i, e, managerOf[t])
           stamped == Stamp(transfers[t], found)
           row     == [stamped EXCEPT !.attested = stamped.attested + 1]
<1>1. transfers[t] \in TransferType /\ transfers \in [Transfer -> TransferType] /\ e.of = t
  BY DEF RowTypes, Event
<1>2. found \subseteq arriving /\ (found # {} => (CHOOSE r \in found : TRUE).of \in Transfer)
  BY ScratchedType DEF RowTypes
<1>3. found # {} => \E q \in found : (CHOOSE r \in found : TRUE).of = q.of
  OBVIOUS
<1>4. /\ attestations' = attestations \cup {t} /\ UNCHANGED <<sending, rolled, paired>>
      /\ IF Attested(t) THEN UNCHANGED <<transfers, arriving>>
         ELSE transfers' = [transfers EXCEPT ![t] = row] /\ arriving' = arriving \ found
  BY <1>1 DEF MessageAttestedTo
<1> HIDE DEF e, found
<1>5. /\ stamped \in TransferType /\ stamped.sent = transfers[t].sent
      /\ stamped.token = transfers[t].token /\ stamped.delivered = transfers[t].delivered
      /\ stamped.amount = transfers[t].amount
      /\ stamped.source = IF found = {} \/ transfers[t].source # Nothing THEN transfers[t].source
                          ELSE (CHOOSE r \in found : TRUE).of
      /\ stamped.digest = IF found = {} THEN transfers[t].digest ELSE (CHOOSE r \in found : TRUE).of
  <2>1. /\ stamped \in TransferType /\ stamped.sent = transfers[t].sent
        /\ stamped.token = transfers[t].token /\ stamped.delivered = transfers[t].delivered
    BY <1>1, <1>2, StampKeeps
  <2>2. /\ stamped.amount = transfers[t].amount
        /\ stamped.source = IF found = {} \/ transfers[t].source # Nothing THEN transfers[t].source
                            ELSE (CHOOSE r \in found : TRUE).of
        /\ stamped.digest = IF found = {} THEN transfers[t].digest ELSE (CHOOSE r \in found : TRUE).of
    BY <1>1, <1>2, StampMoves
  <2> QED BY <2>1, <2>2
<1> HIDE DEF stamped
<1>6. /\ row.sent = stamped.sent /\ row.token = stamped.token /\ row.delivered = stamped.delivered
      /\ row.amount = stamped.amount /\ row.source = stamped.source /\ row.digest = stamped.digest
  BY <1>5 DEF TransferType
<1> HIDE DEF row
<1>7. ~Attested(t) => transfers'[t] = row /\ \A u \in Transfer \ {t} : transfers'[u] = transfers[u]
  BY <1>1, <1>4
<1>8. ~Attested(t) => Drained(t, found)
  BY <1>2, <1>3, <1>4, <1>5, <1>6, <1>7 DEF Drained
<1> QED BY <1>4, <1>5, <1>6, <1>7, <1>8 DEF e, found

\* handleTransferRedeemed, seen from the row it drains and the rollup it bumps.
LEMMA RedeemedDrains ==
  ASSUME LogTypes, RowTypes, NEW i \in Nat, NEW t \in Transfer, NEW n \in Nat,
         TransferRedeemed(i, Event("TransferRedeemed", t, n))
  PROVE  LET found == IF transfers[t].digest # Nothing THEN {}
                      ELSE Scratched(arriving, i, Event("TransferRedeemed", t, n),
                                     IF Known(t, "dest") THEN managerOf[t] ELSE Nothing)
         IN  /\ attestations' = attestations /\ sending' = sending /\ paired' = paired
             /\ Drained(t, found) /\ transfers'[t].delivered
             /\ transfers'[t].token = IF Known(t, "dest") /\ ~transfers[t].sent
                                      THEN <<managerOf[t], "dest">> ELSE transfers[t].token
             /\ rolled' = IF /\ ~transfers[t].delivered /\ transfers'[t].token # Nothing
                             /\ transfers'[t].source # Nothing /\ transfers'[t].amount # Nothing
                          THEN RollUp({Rollup("delivered", transfers'[t].amount, "dest",
                                              transfers'[t].token[1])})
                          ELSE rolled
<1> DEFINE e       == Event("TransferRedeemed", t, n)
           found   == IF transfers[t].digest # Nothing THEN {}
                      ELSE Scratched(arriving, i, e, IF Known(t, "dest") THEN managerOf[t] ELSE Nothing)
           token   == IF Known(t, "dest") /\ ~SourceHasRun(t)
                      THEN <<managerOf[t], "dest">> ELSE transfers[t].token
           stamped == Stamp(transfers[t], found)
           row     == [stamped EXCEPT !.delivered = TRUE, !.token = token]
<1>1. transfers[t] \in TransferType /\ transfers \in [Transfer -> TransferType] /\ e.of = t
  BY DEF RowTypes, Event
<1>2. found \subseteq arriving /\ (found # {} => (CHOOSE r \in found : TRUE).of \in Transfer)
  BY ScratchedType DEF RowTypes
<1>3. found # {} => \E q \in found : (CHOOSE r \in found : TRUE).of = q.of
  OBVIOUS
<1>4. /\ transfers' = [transfers EXCEPT ![t] = row] /\ arriving' = arriving \ found
      /\ UNCHANGED <<attestations, sending, paired>>
      /\ rolled' = IF /\ ~transfers[t].delivered /\ row.token # Nothing
                      /\ row.source # Nothing /\ row.amount # Nothing
                   THEN RollUp({Rollup("delivered", row.amount, "dest", row.token[1])})
                   ELSE rolled
  <2> DEFINE of    == e.of
             had   == IF transfers[of].digest # Nothing THEN {}
                      ELSE Scratched(arriving, i, e, IF Known(of, "dest") THEN managerOf[of] ELSE Nothing)
             next  == [Stamp(transfers[of], had) EXCEPT !.delivered = TRUE,
                        !.token = IF Known(of, "dest") /\ ~SourceHasRun(of)
                                  THEN <<managerOf[of], "dest">> ELSE transfers[of].token]
  <2>1. /\ transfers' = [transfers EXCEPT ![of] = next] /\ arriving' = arriving \ had
        /\ UNCHANGED <<attestations, sending, paired>>
        /\ rolled' = IF /\ ~transfers[of].delivered /\ next.token # Nothing
                        /\ next.source # Nothing /\ next.amount # Nothing
                     THEN RollUp({Rollup("delivered", next.amount, "dest", next.token[1])})
                     ELSE rolled
    BY DEF TransferRedeemed
  <2>2. of = t /\ had = found /\ next = row
    BY <1>1
  <2> HIDE DEF of, had, next, found, row
  <2> QED BY <2>1, <2>2
<1> HIDE DEF e, found
<1>5. /\ stamped \in TransferType /\ stamped.sent = transfers[t].sent
      /\ stamped.amount = transfers[t].amount
      /\ stamped.source = IF found = {} \/ transfers[t].source # Nothing THEN transfers[t].source
                          ELSE (CHOOSE r \in found : TRUE).of
      /\ stamped.digest = IF found = {} THEN transfers[t].digest ELSE (CHOOSE r \in found : TRUE).of
  <2>1. /\ stamped \in TransferType /\ stamped.sent = transfers[t].sent
    BY <1>1, <1>2, StampKeeps
  <2>2. /\ stamped.amount = transfers[t].amount
        /\ stamped.source = IF found = {} \/ transfers[t].source # Nothing THEN transfers[t].source
                            ELSE (CHOOSE r \in found : TRUE).of
        /\ stamped.digest = IF found = {} THEN transfers[t].digest ELSE (CHOOSE r \in found : TRUE).of
    BY <1>1, <1>2, StampMoves
  <2> QED BY <2>1, <2>2
<1> HIDE DEF stamped, token
<1>6. /\ row.sent = stamped.sent /\ row.token = token /\ row.delivered
      /\ row.amount = stamped.amount /\ row.source = stamped.source /\ row.digest = stamped.digest
  BY <1>5 DEF TransferType
<1> HIDE DEF row
<1>7. transfers'[t] = row /\ \A u \in Transfer \ {t} : transfers'[u] = transfers[u]
  BY <1>1, <1>4
<1>8. Drained(t, found)
  BY <1>2, <1>3, <1>4, <1>5, <1>6, <1>7 DEF Drained
<1> QED BY <1>4, <1>6, <1>7, <1>8 DEF e, found, token, SourceHasRun

\* What the destination's scratch rows and the place on it become.
LEMMA ArrivingStep ==
  ASSUME PairingInv, Shape, ArrivingInv, missing \in Nat, replays \in Nat,
         [PairingNext]_pairingVars
  PROVE  ArrivingInv'
<1>1. one' = one /\ two' = two /\ log' = log /\ managerOf' = managerOf
  BY DEF one, two, PairingNext, pairingVars, Apply, Miss, Replay
<1> DEFINE R1 == LeftRow(1, one)
           R2 == LeftRow(Second, two)
           m  == IF Together THEN 2 ELSE 3
<1>2. /\ (Together <=> Together') /\ Second' = Second /\ R1' = R1 /\ R2' = R2
  BY <1>1 DEF Together, Second, LeftRow, Ends
<1>3. /\ one # two /\ one \in Transfer /\ two \in Transfer /\ Transfer = {one, two}
      /\ R1 # R2 /\ R1.of = one /\ R2.of = two /\ Len(log["dest"]) \in 6..8 /\ Nothing \notin Transfer
      /\ Second \in {2, 4} /\ (Second = 4 <=> Together)
  BY PairingAssumption DEF Shape, LogShape, LeftRow, Second
<1> DEFINE Held(a, pile, n, r, att, digest) ==
             /\ a \in 0..Len(log["dest"])
             /\ pile \subseteq {R1, R2}
             /\ Together /\ a = 4 /\ R2 \notin pile => n >= 1
             /\ n = 0 /\ a >= 5 => two \in att
             /\ n = 0 /\ Together /\ two \in att => digest # Nothing
             /\ r = 0 =>
                  /\ one \in att => a >= m
                  /\ two \in att => a >= 5
                  /\ a >= m /\ R1 \in pile => n >= 1
                  /\ a >= 5 /\ R2 \in pile => n >= 1
                  /\ Together /\ a >= 4 /\ R1 \in pile /\ R2 \notin pile
                       => n >= 2 \/ (a > 4 /\ digest # Nothing)
<1>4. Held(at["dest"], arriving, missing, replays, attestations, transfers[two].digest)
  BY DEF ArrivingInv, Attested
<1>5. Held(at'["dest"], arriving', missing', replays', attestations', transfers'[two].digest) => ArrivingInv'
  BY <1>1, <1>2 DEF ArrivingInv, Attested
<1> HIDE DEF R1, R2
<1>6. at \in [Side -> Nat] /\ LogTypes /\ RowTypes
  BY DEF PairingInv, LogTypes
<1>7. CASE Apply("dest")
  <2> DEFINE i == at["dest"] + 1
  <2>1. /\ at'["dest"] = i /\ missing' = missing /\ replays' = replays /\ i \in 1..Len(log["dest"])
        /\ \/ i = 1 /\ ReceivedMessage(1, Event("ReceivedMessage", one, 1))
           \/ i = m /\ MessageAttestedTo(i, Event("MessageAttestedTo", one, 1))
           \/ i = Second /\ ReceivedMessage(i, Event("ReceivedMessage", two, 1))
           \/ i = 5 /\ MessageAttestedTo(i, Event("MessageAttestedTo", two, 1))
           \/ \E t \in Transfer, tx \in {1, 2} :
                     /\ \/ i = m + 1 /\ t = one /\ tx = 1
                        \/ i = 6 /\ t = two /\ tx = 1
                        \/ i >= 7 /\ tx = 2
                     /\ \/ InboundTransferQueued(i, Event("InboundTransferQueued", t, tx))
                        \/ TransferRedeemed(i, Event("TransferRedeemed", t, tx))
    BY <1>6, <1>7, DestSteps DEF Side
  <2>2. arriving \subseteq {LeftRow(1, one), LeftRow(Second, two)}
    BY <1>4 DEF R1, R2
  <2>3. CASE i = 1 /\ ReceivedMessage(1, Event("ReceivedMessage", one, 1))
    <3>1. arriving' = arriving \cup {R1} /\ attestations' = attestations
          /\ transfers'[two].digest = transfers[two].digest
      BY <2>3 DEF ReceivedMessage, Scratch, Event, LeftRow, R1
    <3> QED BY <1>3, <1>4, <1>5, <2>1, <2>3, <3>1
  <2>4. CASE i = m /\ MessageAttestedTo(i, Event("MessageAttestedTo", one, 1))
    <3>1. Scratched(arriving, i, Event("MessageAttestedTo", one, 1), managerOf[one]) = arriving \cap {R1}
      BY <1>6, <2>2, <2>4, FoundArriving DEF R1
    <3>2. /\ attestations' = attestations \cup {one}
          /\ Attested(one) => arriving' = arriving /\ transfers' = transfers
          /\ ~Attested(one) => /\ arriving' = arriving \ {R1}
                               /\ transfers'[two] = transfers[two]
      <4>1. i \in Nat /\ one \in Transfer /\ MessageAttestedTo(i, Event("MessageAttestedTo", one, 1))
        BY <1>3, <2>1, <2>4
      <4> HIDE DEF i
      <4>2. /\ attestations' = attestations \cup {one}
            /\ Attested(one) => arriving' = arriving /\ transfers' = transfers
            /\ ~Attested(one) =>
                 Drained(one, Scratched(arriving, i, Event("MessageAttestedTo", one, 1), managerOf[one]))
        BY <1>6, <4>1, 1 \in Nat, AttestedDrains
      <4> QED BY <1>3, <3>1, <4>2 DEF Drained
    <3> QED BY <1>3, <1>4, <1>5, <2>1, <2>4, <3>2 DEF Attested
  <2>5. CASE i = Second /\ ReceivedMessage(i, Event("ReceivedMessage", two, 1))
    <3>1. arriving' = arriving \cup {R2} /\ attestations' = attestations
          /\ transfers'[two].digest = transfers[two].digest
      BY <2>5 DEF ReceivedMessage, Scratch, Event, LeftRow, R2
    <3> QED BY <1>3, <1>4, <1>5, <2>1, <2>5, <3>1
  <2>6. CASE i = 5 /\ MessageAttestedTo(i, Event("MessageAttestedTo", two, 1))
    <3> DEFINE found == Scratched(arriving, 5, Event("MessageAttestedTo", two, 1), managerOf[two])
    <3>1. /\ R2 \in arriving => found = {R2}
          /\ R2 \notin arriving => found \subseteq arriving \cap {R1}
      BY <1>6, <2>2, FoundArriving DEF R1, R2
    <3>2. /\ attestations' = attestations \cup {two}
          /\ two \in attestations => arriving' = arriving /\ transfers' = transfers
          /\ two \notin attestations => Drained(two, found)
      BY <1>3, <1>6, <2>6, AttestedDrains DEF Attested
    <3> HIDE DEF found
    <3>3. two \notin attestations =>
            /\ arriving' = arriving \ found
            /\ transfers'[two].digest = IF found = {} THEN transfers[two].digest
                                        ELSE (CHOOSE r \in found : TRUE).of
            /\ found # {} => (CHOOSE r \in found : TRUE).of # Nothing
      BY <1>3, <3>2 DEF Drained
    <3> QED BY <1>3, <1>4, <1>5, <2>1, <2>6, <3>1, <3>2, <3>3
  <2>7. ASSUME NEW t \in Transfer, NEW tx \in {1, 2},
               \/ i = m + 1 /\ t = one /\ tx = 1
               \/ i = 6 /\ t = two /\ tx = 1
               \/ i >= 7 /\ tx = 2,
               InboundTransferQueued(i, Event("InboundTransferQueued", t, tx))
        PROVE  ArrivingInv'
    <3>1. /\ attestations' = attestations /\ arriving' = arriving
          /\ transfers'[two].digest = transfers[two].digest
      BY <1>3, <1>6, <2>7 DEF InboundTransferQueued, RowTypes, TransferType, Event
    <3> QED BY <1>3, <1>4, <1>5, <2>1, <2>7, <3>1, SMTT(30)
  <2>8. ASSUME NEW t \in Transfer, NEW tx \in {1, 2},
               \/ i = m + 1 /\ t = one /\ tx = 1
               \/ i = 6 /\ t = two /\ tx = 1
               \/ i >= 7 /\ tx = 2,
               TransferRedeemed(i, Event("TransferRedeemed", t, tx))
        PROVE  ArrivingInv'
    <3> DEFINE tr == IF Known(t, "dest") THEN managerOf[t] ELSE Nothing
               found == IF transfers[t].digest # Nothing THEN {}
                        ELSE Scratched(arriving, i, Event("TransferRedeemed", t, tx), tr)
    <3>1. attestations' = attestations /\ Drained(t, found)
      <4>1. i \in Nat /\ tx \in Nat
        BY <2>1
      <4> QED BY <1>6, <2>8, <4>1, RedeemedDrains
    <3>2. tr \in Manager \cup {Nothing} /\ tr \in {Nothing, managerOf[t]}
      BY <1>6 DEF LogTypes
    <3>3. /\ tx = 2 => found = {}
          /\ Together /\ i = 6 /\ R2 \in arriving /\ transfers[two].digest = Nothing /\ t = two /\ tx = 1
               => found = {R2}
      <4>1. \A j : Scratched(arriving, j, Event("TransferRedeemed", t, 2), tr) = {}
        BY <1>6, <2>2, <3>2, FoundArriving
      <4>2. Together /\ R2 \in arriving /\ t = two =>
              Scratched(arriving, 6, Event("TransferRedeemed", two, 1), tr) = {R2}
        BY <1>6, <2>2, <3>2, FoundArriving DEF R2
      <4> HIDE DEF tr
      <4> QED BY <4>1, <4>2
    <3> HIDE DEF found
    <3>4. /\ found \subseteq arriving /\ arriving' = arriving \ found
          /\ t # two => transfers'[two] = transfers[two]
          /\ found = {} /\ t = two => transfers'[two].digest = transfers[two].digest
          /\ found # {} /\ t = two => transfers'[two].digest # Nothing
      BY <1>3, <3>1 DEF Drained
    <3>5. t = two /\ transfers[two].digest # Nothing => found = {}
      BY DEF found
    <3> QED BY <1>3, <1>4, <1>5, <2>1, <2>8, <3>1, <3>3, <3>4, <3>5
  <2> QED BY <2>1, <2>3, <2>4, <2>5, <2>6, <2>7, <2>8
<1>8. ASSUME arriving' = arriving, attestations' = attestations, transfers'[two].digest = transfers[two].digest,
             at'["dest"] = at["dest"], missing' \in Nat, missing' >= missing,
             replays' \in Nat, replays' >= replays
      PROVE  ArrivingInv'
  BY <1>3, <1>4, <1>5, <1>8
<1>9. CASE Miss("dest")
  <2>1. /\ at'["dest"] = at["dest"] + 1 /\ at'["dest"] \in 1..Len(log["dest"]) /\ missing' = missing + 1
        /\ UNCHANGED <<arriving, attestations, transfers, replays>>
    BY <1>3, <1>6, <1>9 DEF Miss, Side
  <2> QED BY <1>3, <1>4, <1>5, <2>1
<1>10. CASE Replay("dest")
  <2>1. PICK back \in 0..at["dest"] : back < at["dest"] /\ StartsTx("dest", back)
                                      /\ at' = [at EXCEPT !["dest"] = back]
    BY <1>10 DEF Replay
  <2>2. \A k \in 1..6 : log["dest"][k].tx = 1
    BY DEF Shape, Together, Apart, Event, Ends
  <2>3. \A k \in 7..Len(log["dest"]) : log["dest"][k].tx = 2
    BY DEF Shape, LogShape, Event
  <2>4. back = 0 \/ back = 6
    <3>1. back \in Nat /\ back + 1 <= Len(log["dest"])
      BY <1>3, <1>4, <2>1
    <3>2. back \in 1..5 => log["dest"][back].tx = log["dest"][back + 1].tx
      BY <2>2
    <3>3. back >= 7 => log["dest"][back].tx = log["dest"][back + 1].tx
      BY <2>3, <3>1
    <3> QED BY <2>1, <3>1, <3>2, <3>3 DEF StartsTx
  <2>5. /\ at'["dest"] = back /\ replays' = replays + 1
        /\ UNCHANGED <<arriving, attestations, transfers, missing>>
    BY <1>6, <1>10, <2>1 DEF Replay, Side
  <2> QED BY <1>3, <1>4, <1>5, <2>1, <2>4, <2>5
<1>11. CASE Apply("source")
  <2>1. /\ at'["dest"] = at["dest"] /\ missing' = missing /\ replays' = replays
        /\ arriving' = arriving /\ attestations' = attestations
        /\ \E i, e : TransferSentDetailed(i, e) \/ TransferSentDigest(i, e)
    <3>1. \E i, e : TransferSentDetailed(i, e) \/ TransferSentDigest(i, e)
      BY <1>6, <1>11, SourceSteps DEF Shape
    <3>2. at' = [at EXCEPT !["source"] = at["source"] + 1] /\ missing' = missing /\ replays' = replays
      BY <1>11 DEF Apply
    <3> QED BY <1>6, <3>1, <3>2 DEF TransferSentDetailed, TransferSentDigest, Side
  <2>2. PICK i, e : TransferSentDetailed(i, e) \/ TransferSentDigest(i, e)
    BY <2>1
  <2>3. transfers'[two].digest = transfers[two].digest
    <3>1. CASE TransferSentDetailed(i, e)
      BY <3>1 DEF TransferSentDetailed
    <3>2. CASE TransferSentDigest(i, e)
      <4>1. PICK amount, token : transfers' = [transfers EXCEPT ![e.of] =
               [transfers[e.of] EXCEPT !.sent = TRUE, !.amount = amount, !.source = e.of, !.token = token]]
        BY <3>2 DEF TransferSentDigest
      <4> QED BY <1>3, <1>6, <4>1 DEF RowTypes, TransferType
    <3> QED BY <2>2, <3>1, <3>2
  <2> QED BY <1>8, <2>1, <2>3
<1>12. CASE Miss("source") \/ Replay("source") \/ UNCHANGED pairingVars
  BY <1>6, <1>8, <1>12 DEF Miss, Replay, Side, pairingVars
<1> QED BY <1>7, <1>9, <1>10, <1>11, <1>12 DEF PairingNext, Side

-----------------------------------------------------------------------------
(* Whose data a drain can bring, and what each event leaves of a transfer.   *)

\* When what the destination tells can be relied on.
OwnCase == Manager \X {"dest"} \subseteq listed /\ (missing = 0 \/ (missing <= 1 /\ replays = 0))

\* A walk for a transfer of one manager passes the other's row, and of the same
\* manager its own is the nearer, unless it was left out or drained already.
LEMMA OwnFound ==
  ASSUME PairingInv, Shape, ArrivingInv, missing \in Nat, replays \in Nat, OwnCase,
         NEW k, NEW t \in Transfer, NEW i, NEW r,
         \/ /\ t = one /\ i = IF Together THEN 2 ELSE 3
            /\ r \in Scratched(arriving, i, Event(k, t, 1), managerOf[t])
         \/ /\ t = two /\ i = 5 /\ at["dest"] = 4 /\ ~Attested(two)
            /\ r \in Scratched(arriving, i, Event(k, t, 1), managerOf[t])
         \/ /\ t = one /\ i = 1 + (IF Together THEN 2 ELSE 3)
            /\ r \in Scratched(arriving, i, Event(k, t, 1), managerOf[t])
         \/ /\ t = two /\ i = 6 /\ at["dest"] = 5 /\ transfers[two].digest = Nothing
            /\ r \in Scratched(arriving, i, Event(k, t, 1), managerOf[t])
  PROVE  r.of = t
<1> DEFINE R1 == LeftRow(1, one)
           R2 == LeftRow(Second, two)
<1>1. /\ one # two /\ one \in Transfer /\ two \in Transfer /\ Transfer = {one, two}
      /\ R1 # R2 /\ R1.of = one /\ R2.of = two
  BY DEF Shape, LogShape, LeftRow, Second
<1>2. arriving \subseteq {R1, R2}
  BY DEF ArrivingInv
<1>3. LogTypes /\ managerOf[t] \in Manager \cup {Nothing} /\ managerOf[t] \in {Nothing, managerOf[t]}
  BY DEF PairingInv, LogTypes
<1>4. r \in arriving /\ managerOf[r.of] = managerOf[t]
  <2>1. \A j : Scratched(arriving, j, Event(k, t, 1), managerOf[t]) \subseteq
                {q \in arriving : managerOf[q.of] = managerOf[t]}
    <3>1. managerOf[t] # Nothing
      BY <1>3, PairingAssumption DEF LogTypes
    <3> QED BY <3>1 DEF Scratched, Near
  <2> QED BY <2>1
<1>5. CASE managerOf[one] # managerOf[two]
  BY <1>1, <1>2, <1>4, <1>5
<1>6. CASE managerOf[one] = managerOf[two]
  <2>1. Together
    BY <1>6 DEF Shape, Apart
  <2>2. CASE t = one
    <3>1. /\ Scratched(arriving, 2, Event(k, one, 1), managerOf[one]) = arriving \cap {R1}
          /\ Scratched(arriving, 3, Event(k, one, 1), managerOf[one]) \subseteq {R1}
      BY <1>2, <1>3, <2>1, <2>2, FoundArriving
    <3>2. i = 2 \/ i = 3
      BY <1>1, <2>1, <2>2
    <3>3. r = R1
      BY <1>1, <2>2, <3>1, <3>2
    <3> QED BY <1>1, <2>2, <3>3
  <2>3. CASE t = two /\ i = 5 /\ at["dest"] = 4
    <3>1. R2 \in arriving => r = R2
      <4>1. R2 \in arriving => Scratched(arriving, 5, Event(k, two, 1), managerOf[two]) = {R2}
        BY <1>2, <1>3, FoundArriving
      <4> HIDE DEF R2
      <4> QED BY <1>1, <2>3, <4>1
    <3>2. R2 \notin arriving => r = R1 /\ R1 \in arriving
      BY <1>2, <1>4
    <3>3. R2 \in arriving
      BY <2>1, <2>3, <3>2 DEF ArrivingInv, OwnCase
    <3> QED BY <1>1, <2>3, <3>1, <3>3
  <2>4. CASE t = two /\ i = 6 /\ at["dest"] = 5 /\ transfers[two].digest = Nothing
    <3>1. R2 \in arriving => r = R2
      <4>1. R2 \in arriving => Scratched(arriving, 6, Event(k, two, 1), managerOf[two]) = {R2}
        <5>1. \A tr \in Manager \cup {Nothing} :
                R2 \in arriving /\ tr \in {Nothing, managerOf[two]} =>
                  Scratched(arriving, 6, Event(k, two, 1), tr) = {R2}
          BY <1>2, <1>3, <2>1, FoundArriving
        <5> QED BY <1>3, <2>4, <5>1
      <4> HIDE DEF R2
      <4> QED BY <1>1, <2>4, <4>1
    <3>2. R2 \notin arriving => r = R1 /\ R1 \in arriving
      BY <1>2, <1>4
    <3>3. R2 \in arriving
      BY <2>1, <2>4, <3>2 DEF ArrivingInv, OwnCase
    <3> QED BY <1>1, <2>4, <3>1, <3>3
  <2> QED BY <1>1, <2>2, <2>3, <2>4
<1> QED BY <1>5, <1>6

\* The rows of the others, and what the scratch row can have brought.
Alone(t) == \A u \in Transfer \ {t} : transfers'[u] = transfers[u]
Brought(t) ==
  /\ transfers'[t].amount = transfers[t].amount /\ transfers'[t].sent = transfers[t].sent
  /\ \E of \in Transfer :
       /\ OwnCase => of = t
       /\ transfers'[t].source \in {transfers[t].source, of}
       /\ transfers[t].source # Nothing => transfers'[t].source # Nothing
       /\ transfers'[t].digest \in {transfers[t].digest, of}

\* A digest event, with or without its details; an attestation or a queueing; a
\* redemption, counted when it is the first and its row can tell token and amount.
Sends(t) ==
  \E found \in BOOLEAN, amount \in Transfer \cup {Nothing} :
    /\ IF found THEN amount # Nothing /\ (missing <= 1 => amount = t)
       ELSE amount = transfers[t].amount
    /\ transfers'[t].sent /\ transfers'[t].source = t /\ transfers'[t].amount = amount
    /\ transfers'[t].token = IF Known(t, "source") THEN <<managerOf[t], "source">>
                             ELSE transfers[t].token
    /\ transfers'[t].delivered = transfers[t].delivered
    /\ transfers'[t].digest = transfers[t].digest
    /\ rolled' = RollUp({Rollup(c, amount, IF c = "sent" THEN "source" ELSE "dest", managerOf[t]) :
                          c \in {d \in {"sent", "delivered"} :
                                   /\ found /\ Known(t, "source")
                                   /\ IF d = "sent" THEN ~transfers[t].sent
                                      ELSE transfers[t].delivered /\ transfers[t].amount = Nothing}})
    /\ paired' = IF transfers[t].sent \/ ~found THEN paired ELSE paired \cup {t}

Keeps(t) ==
  /\ Brought(t) /\ rolled' = rolled /\ paired' = paired
  /\ transfers'[t].token = transfers[t].token
  /\ transfers'[t].delivered = transfers[t].delivered

Redeems(t) ==
  /\ Brought(t) /\ paired' = paired /\ transfers'[t].delivered
  /\ transfers'[t].token = IF Known(t, "dest") /\ ~transfers[t].sent
                           THEN <<managerOf[t], "dest">> ELSE transfers[t].token
  /\ rolled' = IF /\ ~transfers[t].delivered /\ transfers'[t].token # Nothing
                  /\ transfers'[t].source # Nothing /\ transfers'[t].amount # Nothing
               THEN RollUp({Rollup("delivered", transfers'[t].amount, "dest",
                                   transfers'[t].token[1])})
               ELSE rolled

\* handleTransferSentDigest, seen from the rows, the rollups and the history.
LEMMA DigestSends ==
  ASSUME PairingInv, Shape, SendingInv, NEW i \in Nat, NEW t \in Transfer,
         \/ i = 2 /\ t = one /\ at["source"] = 1
         \/ i = 4 /\ t = two /\ at["source"] = 3,
         TransferSentDigest(i, Event("TransferSentDigest", t, 1)), missing \in Nat
  PROVE  Sends(t) /\ Alone(t)
<1> DEFINE e      == Event("TransferSentDigest", t, 1)
           found  == Scratched(sending, i, e, Nothing)
           amount == IF found = {} THEN transfers[t].amount ELSE (CHOOSE r \in found : TRUE).of
           token  == IF Known(t, "source") THEN <<managerOf[t], "source">> ELSE transfers[t].token
           counts == {c \in {"sent", "delivered"} :
                        /\ found # {} /\ Known(t, "source")
                        /\ IF c = "sent" THEN FirstTimeSent(t) ELSE CatchUp(t)}
           row    == [transfers[t] EXCEPT !.sent = TRUE, !.amount = amount, !.source = t, !.token = token]
<1>1. e.of = t /\ transfers[t] \in TransferType /\ transfers \in [Transfer -> TransferType]
  BY DEF Event, PairingInv, RowTypes
<1>2. /\ transfers' = [transfers EXCEPT ![t] = row]
      /\ rolled' = RollUp({Rollup(c, amount, IF c = "sent" THEN "source" ELSE "dest",
                                  managerOf[t]) : c \in counts})
      /\ paired' = IF transfers[t].sent \/ found = {} THEN paired ELSE paired \cup {t}
  <2> DEFINE of     == e.of
             had    == IF found = {} THEN transfers[of].amount ELSE (CHOOSE r \in found : TRUE).of
             marked == IF Known(of, "source") THEN <<managerOf[of], "source">> ELSE transfers[of].token
             due    == {c \in {"sent", "delivered"} :
                          /\ found # {} /\ Known(of, "source")
                          /\ IF c = "sent" THEN FirstTimeSent(of) ELSE CatchUp(of)}
             next   == [transfers[of] EXCEPT !.sent = TRUE, !.amount = had, !.source = of, !.token = marked]
  <2>1. /\ transfers' = [transfers EXCEPT ![of] = next]
        /\ rolled' = RollUp({Rollup(c, had, IF c = "sent" THEN "source" ELSE "dest",
                                    managerOf[of]) : c \in due})
        /\ paired' = IF transfers[of].sent \/ found = {} THEN paired ELSE paired \cup {of}
    BY DEF TransferSentDigest
  <2>2. of = t /\ had = amount /\ marked = token /\ due = counts /\ next = row
    BY <1>1
  <2> HIDE DEF of, had, marked, due, next, row, counts, amount, token, found, e
  <2> QED BY <2>1, <2>2
<1>3. found # {} => amount \in Transfer /\ (missing <= 1 => amount = t)
  <2>1. /\ i = 2 => found = sending \cap {LeftRow(1, one)}
        /\ i = 4 => found = IF LeftRow(3, two) \in sending THEN {LeftRow(3, two)} ELSE sending \cap {LeftRow(1, one)}
    BY FoundSending DEF Shape, SendingInv
  <2>2. LeftRow(1, one).of = one /\ LeftRow(3, two).of = two /\ one \in Transfer /\ two \in Transfer
    BY DEF LeftRow, Shape, LogShape
  <2>3. i = 4 /\ missing <= 1 /\ found # {} => LeftRow(3, two) \in sending
    BY <2>1 DEF SendingInv
  <2>4. found # {} => \E r \in found : amount = r.of
    <3> HIDE DEF found
    <3> QED OBVIOUS
  <2> QED BY <2>1, <2>2, <2>3, <2>4
<1>4. amount \in Transfer \cup {Nothing}
  BY <1>1, <1>3 DEF TransferType
<1>5. counts = {d \in {"sent", "delivered"} :
                  /\ found # {} /\ Known(t, "source")
                  /\ IF d = "sent" THEN ~transfers[t].sent
                     ELSE transfers[t].delivered /\ transfers[t].amount = Nothing}
  BY DEF FirstTimeSent, CatchUp
<1>6. Nothing \notin Transfer
  BY PairingAssumption
<1>7. amount = IF found = {} THEN transfers[t].amount ELSE amount
  OBVIOUS
<1> HIDE DEF found, amount, token
<1>8. /\ row.sent /\ row.source = t /\ row.amount = amount /\ row.token = token
      /\ row.delivered = transfers[t].delivered /\ row.digest = transfers[t].digest
  BY <1>1 DEF TransferType
<1> HIDE DEF row
<1>9. transfers'[t] = row /\ Alone(t)
  BY <1>1, <1>2 DEF Alone
<1> HIDE DEF counts
<1>10. Sends(t)
  <2>1. (found # {}) \in BOOLEAN
    OBVIOUS
  <2>2. token = IF Known(t, "source") THEN <<managerOf[t], "source">> ELSE transfers[t].token
    BY DEF token
  <2>3. IF found # {} THEN amount # Nothing /\ (missing <= 1 => amount = t)
        ELSE amount = transfers[t].amount
    BY <1>3, <1>6, <1>7
  <2> QED BY <1>2, <1>4, <1>5, <1>8, <1>9, <2>1, <2>2, <2>3, ZenonT(40) DEF Sends
<1> QED BY <1>9, <1>10

\* A drain changes one row, by what the scratch row brings.
LEMMA DrainBrings ==
  ASSUME RowTypes, NEW t \in Transfer, NEW found, Drained(t, found),
         OwnCase => \A r \in found : r.of = t
  PROVE  Brought(t) /\ Alone(t)
<1> DEFINE of == IF found = {} THEN t ELSE (CHOOSE r \in found : TRUE).of
<1>1. of \in Transfer /\ (OwnCase => of = t)
  <2>1. CASE found = {}
    BY <2>1
  <2>2. CASE found # {}
    BY <2>2 DEF Drained
  <2> QED BY <2>1, <2>2
<1>2. /\ transfers'[t].amount = transfers[t].amount /\ transfers'[t].sent = transfers[t].sent
      /\ transfers'[t].source \in {transfers[t].source, of}
      /\ transfers[t].source # Nothing => transfers'[t].source # Nothing
      /\ transfers'[t].digest \in {transfers[t].digest, of}
  BY DEF Drained
<1> HIDE DEF of
<1>3. Brought(t)
  BY <1>1, <1>2 DEF Brought
<1>4. Alone(t)
  BY DEF Drained, Alone
<1> QED BY <1>3, <1>4

\* A step is one of four: nothing a transfer's data depend on, a send, an
\* attestation or queueing, a redemption.
Frame ==
  /\ UNCHANGED <<transfers, rolled, paired>>
  /\ missing' \in Nat /\ missing' >= missing /\ replays' \in Nat /\ replays' >= replays

LEMMA StepKinds ==
  ASSUME PairingInv, Shape, SendingInv, ArrivingInv, missing \in Nat, replays \in Nat,
         [PairingNext]_pairingVars
  PROVE  /\ UNCHANGED <<managerOf, listed, log>>
         /\ \/ Frame
            \/ /\ UNCHANGED <<missing, replays>>
               /\ \E t \in Transfer : Alone(t) /\ (Sends(t) \/ Keeps(t) \/ Redeems(t))
<1>1. UNCHANGED <<managerOf, listed, log>>
  BY DEF PairingNext, pairingVars, Apply, Miss, Replay
<1>2. LogTypes /\ RowTypes /\ at \in [Side -> Nat] /\ one \in Transfer /\ two \in Transfer
      /\ {1, 2, 3, 4} \subseteq Nat
  BY DEF PairingInv, LogTypes, Shape, LogShape
<1>3. CASE Apply("source")
  <2>1. /\ UNCHANGED <<missing, replays>>
        /\ \/ \E i, e : TransferSentDetailed(i, e)
           \/ at["source"] = 1 /\ TransferSentDigest(2, Event("TransferSentDigest", one, 1))
           \/ at["source"] = 3 /\ TransferSentDigest(4, Event("TransferSentDigest", two, 1))
    BY <1>2, <1>3, SourceSteps DEF Shape
  <2>2. CASE \E i, e : TransferSentDetailed(i, e)
    BY <1>1, <2>1, <2>2 DEF TransferSentDetailed, Frame
  <2>3. CASE at["source"] = 1 /\ TransferSentDigest(2, Event("TransferSentDigest", one, 1))
    <3>1. Sends(one) /\ Alone(one)
      BY <1>2, <2>3, DigestSends
    <3> QED BY <1>1, <1>2, <2>1, <3>1
  <2>4. CASE at["source"] = 3 /\ TransferSentDigest(4, Event("TransferSentDigest", two, 1))
    <3>1. Sends(two) /\ Alone(two)
      BY <1>2, <2>4, DigestSends
    <3> QED BY <1>1, <1>2, <2>1, <3>1
  <2> QED BY <1>1, <2>1, <2>2, <2>3, <2>4
<1>4. CASE Apply("dest")
  <2> DEFINE i == at["dest"] + 1
             m == IF Together THEN 2 ELSE 3
  <2>1. /\ UNCHANGED <<missing, replays>> /\ i \in Nat /\ at["dest"] = i - 1
        /\ \/ i = 1 /\ ReceivedMessage(1, Event("ReceivedMessage", one, 1))
           \/ i = m /\ MessageAttestedTo(i, Event("MessageAttestedTo", one, 1))
           \/ i = Second /\ ReceivedMessage(i, Event("ReceivedMessage", two, 1))
           \/ i = 5 /\ MessageAttestedTo(i, Event("MessageAttestedTo", two, 1))
           \/ \E t \in Transfer, tx \in {1, 2} :
                     /\ \/ i = m + 1 /\ t = one /\ tx = 1
                        \/ i = 6 /\ t = two /\ tx = 1
                        \/ i >= 7 /\ tx = 2
                     /\ \/ InboundTransferQueued(i, Event("InboundTransferQueued", t, tx))
                        \/ TransferRedeemed(i, Event("TransferRedeemed", t, tx))
    <3>1. at["dest"] \in Nat
      BY <1>2 DEF Side
    <3>2. i \in Nat /\ at["dest"] = i - 1
      BY <3>1
    <3> QED BY <1>2, <1>4, <3>2, DestSteps
  <2> HIDE DEF i
  <2>2. ASSUME NEW j, NEW e, ReceivedMessage(j, e) PROVE Frame
    BY <2>1, <2>2 DEF ReceivedMessage, Frame
  <2>3. ASSUME NEW t \in Transfer, MessageAttestedTo(i, Event("MessageAttestedTo", t, 1)),
               (i = m /\ t = one) \/ (i = 5 /\ t = two)
        PROVE  Frame \/ (Keeps(t) /\ Alone(t))
    <3> DEFINE found == Scratched(arriving, i, Event("MessageAttestedTo", t, 1), managerOf[t])
    <3>1. /\ rolled' = rolled /\ paired' = paired
          /\ Attested(t) => transfers' = transfers
          /\ ~Attested(t) => /\ Drained(t, found)
                             /\ transfers'[t].token = transfers[t].token
                             /\ transfers'[t].delivered = transfers[t].delivered
      BY <1>2, <2>1, <2>3, AttestedDrains
    <3>2. CASE Attested(t)
      BY <2>1, <3>1, <3>2 DEF Frame
    <3>3. CASE ~Attested(t)
      <4>1. ASSUME OwnCase, NEW r \in found PROVE r.of = t
        BY <2>1, <2>3, <3>3, <4>1, OwnFound
      <4>2. Brought(t) /\ Alone(t)
        BY <1>2, <3>1, <3>3, <4>1, DrainBrings
      <4> QED BY <3>1, <3>3, <4>2 DEF Keeps
    <3> QED BY <3>2, <3>3
  <2>4. ASSUME NEW t \in Transfer, NEW e, e.of = t, InboundTransferQueued(i, e)
        PROVE  Keeps(t) /\ Alone(t)
    <3> DEFINE row == [transfers[t] EXCEPT !.queued = TRUE]
    <3>1. transfers[t] \in TransferType /\ transfers \in [Transfer -> TransferType]
      BY <1>2 DEF RowTypes
    <3>2. /\ row.amount = transfers[t].amount /\ row.sent = transfers[t].sent
          /\ row.source = transfers[t].source /\ row.digest = transfers[t].digest
          /\ row.token = transfers[t].token /\ row.delivered = transfers[t].delivered
      BY <3>1 DEF TransferType
    <3>3. transfers' = [transfers EXCEPT ![t] = row] /\ rolled' = rolled /\ paired' = paired
      BY <2>4 DEF InboundTransferQueued
    <3> HIDE DEF row
    <3>4. transfers'[t] = row /\ Alone(t)
      BY <3>1, <3>3 DEF Alone
    <3> QED BY <3>2, <3>3, <3>4 DEF Keeps, Brought
  <2>5. ASSUME NEW t \in Transfer, NEW tx \in {1, 2},
               \/ i = m + 1 /\ t = one /\ tx = 1
               \/ i = 6 /\ t = two /\ tx = 1
               \/ i >= 7 /\ tx = 2,
               TransferRedeemed(i, Event("TransferRedeemed", t, tx))
        PROVE  Redeems(t) /\ Alone(t)
    <3> DEFINE tr == IF Known(t, "dest") THEN managerOf[t] ELSE Nothing
               found == IF transfers[t].digest # Nothing THEN {}
                        ELSE Scratched(arriving, i, Event("TransferRedeemed", t, tx), tr)
    <3>1. tx \in Nat
      OBVIOUS
    <3>2. /\ paired' = paired /\ Drained(t, found) /\ transfers'[t].delivered
          /\ transfers'[t].token = IF Known(t, "dest") /\ ~transfers[t].sent
                                   THEN <<managerOf[t], "dest">> ELSE transfers[t].token
          /\ rolled' = IF /\ ~transfers[t].delivered /\ transfers'[t].token # Nothing
                          /\ transfers'[t].source # Nothing /\ transfers'[t].amount # Nothing
                       THEN RollUp({Rollup("delivered", transfers'[t].amount, "dest",
                                           transfers'[t].token[1])})
                       ELSE rolled
      BY <1>2, <2>1, <2>5, <3>1, RedeemedDrains
    <3>3. ASSUME OwnCase, NEW r \in found PROVE r.of = t
      <4>1. tr = managerOf[t] /\ tr \in Manager
        BY <1>2, <3>3 DEF OwnCase, Known, LogTypes
      <4>2. tx = 1
        <5>1. arriving \subseteq {LeftRow(1, one), LeftRow(Second, two)}
          BY DEF ArrivingInv
        <5>2. Scratched(arriving, i, Event("TransferRedeemed", t, 2), tr) = {}
          BY <1>2, <4>1, <5>1, FoundArriving
        <5> QED BY <3>3, <5>2
      <4>3. /\ transfers[t].digest = Nothing
            /\ r \in Scratched(arriving, i, Event("TransferRedeemed", t, 1), managerOf[t])
        BY <3>3, <4>1, <4>2
      <4> HIDE DEF found, tr
      <4>4. (t = one /\ i = 1 + m) \/ (t = two /\ i = 6 /\ at["dest"] = 5)
        BY <2>1, <2>5, <4>2
      <4> QED BY <3>3, <4>3, <4>4, OwnFound
    <3>4. Brought(t) /\ Alone(t)
      BY <1>2, <3>2, <3>3, DrainBrings
    <3> HIDE DEF found
    <3> QED BY <3>2, <3>4 DEF Redeems
  <2>6. \A k, t, n : Event(k, t, n).of = t
    BY DEF Event
  <2> QED BY <1>1, <1>2, <2>1, <2>2, <2>3, <2>4, <2>5, <2>6
<1>5. CASE \E s \in Side : Miss(s) \/ Replay(s)
  BY <1>1, <1>5 DEF Miss, Replay, Frame
<1>6. CASE UNCHANGED pairingVars
  BY <1>6 DEF pairingVars, Frame
<1> QED BY <1>3, <1>4, <1>5, <1>6 DEF PairingNext, Side

\* What a row's fields say of each other stays true.
LEMMA FieldStep ==
  ASSUME PairingInv, Shape, SendingInv, ArrivingInv, FieldInv, missing \in Nat,
         replays \in Nat, [PairingNext]_pairingVars
  PROVE  FieldInv'
<1> DEFINE Fields(t) ==
             /\ t \in paired => transfers[t].sent /\ transfers[t].amount # Nothing
             /\ transfers[t].amount # Nothing => transfers[t].sent
             /\ transfers[t].sent => transfers[t].source # Nothing
             /\ transfers[t].token \in {Nothing, <<managerOf[t], "source">>, <<managerOf[t], "dest">>}
             /\ transfers[t].token = <<managerOf[t], "source">> => Known(t, "source")
             /\ missing <= 1 => transfers[t].amount \in {t, Nothing}
<1>1. (FieldInv <=> \A t \in Transfer : Fields(t)) /\ (FieldInv' <=> \A t \in Transfer : Fields(t)')
  BY DEF FieldInv
<1>2. UNCHANGED <<managerOf, listed, log>>
  BY StepKinds
<1>3. \A t, s : Known(t, s)' = Known(t, s)
  BY <1>2 DEF Known
<1>4. CASE Frame
  BY <1>1, <1>2, <1>3, <1>4 DEF Frame
<1>5. ASSUME NEW t \in Transfer, Alone(t), Sends(t) \/ Keeps(t) \/ Redeems(t), missing' = missing
      PROVE  FieldInv'
  <2>1. Fields(t) /\ \A u \in Transfer \ {t} : Fields(u)
    BY <1>1
  <2>2. t # Nothing /\ <<managerOf[t], "source">> # <<managerOf[t], "dest">>
    BY PairingAssumption
  <2>3. paired' \ {t} = paired \ {t}
    BY <1>5 DEF Sends, Keeps, Redeems
  <2>4. \A u \in Transfer \ {t} : Fields(u)'
    <3> TAKE u \in Transfer \ {t}
    <3>1. transfers'[u] = transfers[u] /\ (u \in paired' <=> u \in paired) /\ Fields(u)
      BY <1>5, <2>1, <2>3 DEF Alone
    <3> QED BY <1>2, <1>3, <1>5, <3>1
  <2>5. CASE Sends(t)
    <3>1. PICK found \in BOOLEAN, amount \in Transfer \cup {Nothing} :
            /\ IF found THEN amount # Nothing /\ (missing <= 1 => amount = t)
               ELSE amount = transfers[t].amount
            /\ transfers'[t].sent /\ transfers'[t].source = t /\ transfers'[t].amount = amount
            /\ transfers'[t].token = IF Known(t, "source") THEN <<managerOf[t], "source">>
                                     ELSE transfers[t].token
            /\ paired' = IF transfers[t].sent \/ ~found THEN paired ELSE paired \cup {t}
      BY <2>5 DEF Sends
    <3>2. Fields(t)'
      BY <1>2, <1>3, <1>5, <2>1, <2>2, <3>1
    <3> QED BY <1>1, <2>4, <3>2
  <2>6. CASE Keeps(t) \/ Redeems(t)
    <3>1. /\ transfers'[t].amount = transfers[t].amount /\ transfers'[t].sent = transfers[t].sent
          /\ transfers[t].source # Nothing => transfers'[t].source # Nothing
          /\ paired' = paired
          /\ transfers'[t].token \in {transfers[t].token, <<managerOf[t], "dest">>}
      BY <2>6 DEF Keeps, Redeems, Brought
    <3>2. Fields(t)'
      BY <1>2, <1>3, <1>5, <2>1, <2>2, <3>1
    <3> QED BY <1>1, <2>4, <3>2
  <2> QED BY <1>5, <2>5, <2>6
<1> QED BY <1>4, <1>5, StepKinds

\* And so does whose data they are.
LEMMA DataStep ==
  ASSUME PairingInv, Shape, SendingInv, ArrivingInv, DataInv, missing \in Nat,
         replays \in Nat, [PairingNext]_pairingVars
  PROVE  DataInv'
<1> SUFFICES ASSUME OwnCase', NEW u \in Transfer
             PROVE  {transfers'[u].source, transfers'[u].digest} \subseteq {u, Nothing}
  BY DEF DataInv, OwnCase
<1>1. UNCHANGED <<managerOf, listed, log>>
  BY StepKinds
<1>2. CASE Frame
  <2>1. OwnCase
    BY <1>1, <1>2 DEF Frame, OwnCase
  <2> QED BY <1>2, <2>1 DEF Frame, DataInv, OwnCase
<1>3. ASSUME NEW t \in Transfer, Alone(t), Sends(t) \/ Keeps(t) \/ Redeems(t),
             UNCHANGED <<missing, replays>>
      PROVE  {transfers'[u].source, transfers'[u].digest} \subseteq {u, Nothing}
  <2>1. OwnCase
    BY <1>1, <1>3 DEF OwnCase
  <2>2. \A v \in Transfer : {transfers[v].source, transfers[v].digest} \subseteq {v, Nothing}
    BY <2>1 DEF OwnCase, DataInv
  <2>3. CASE u # t
    BY <1>3, <2>2, <2>3 DEF Alone
  <2>4. CASE u = t /\ Sends(t)
    BY <2>2, <2>4 DEF Sends
  <2>5. CASE u = t /\ (Keeps(t) \/ Redeems(t))
    <3>1. Brought(t)
      BY <2>5 DEF Keeps, Redeems
    <3> QED BY <2>1, <2>2, <2>5, <3>1 DEF Brought
  <2> QED BY <1>3, <2>3, <2>4, <2>5
<1> QED BY <1>2, <1>3, StepKinds

\* What the rollups should hold, told from the rows.
Owed(e) ==
  /\ e.token = managerOf[e.amount] /\ Known(e.amount, "source")
  /\ transfers[e.amount].amount # Nothing
  /\ \/ e.counts = "sent" /\ e.day = "source" /\ e.amount \in paired
     \/ e.counts = "delivered" /\ e.day = "dest" /\ transfers[e.amount].delivered

\* They hold it as long as at most one log was left out.
CountInv ==
  /\ rolled \in [Entry -> Nat]
  /\ missing <= 1 => \A e \in Entry : rolled[e] = IF Owed(e) THEN 1 ELSE 0

\* A rollup is known by its four key fields.
LEMMA RollupIs ==
  ASSUME NEW e \in Entry, NEW c, NEW a, NEW d, NEW k
  PROVE  e = Rollup(c, a, d, k) <=> e.counts = c /\ e.amount = a /\ e.day = d /\ e.token = k
BY DEF Entry, Rollup

\* Each step counts exactly what it makes a row owe.
LEMMA CountStep ==
  ASSUME PairingInv, Shape, SendingInv, ArrivingInv, FieldInv, CountInv, missing \in Nat,
         replays \in Nat, [PairingNext]_pairingVars
  PROVE  CountInv'
<1>1. UNCHANGED <<managerOf, listed, log>> /\ \A u, s : Known(u, s)' = Known(u, s)
  BY StepKinds DEF Known
<1>2. CASE Frame
  <2>1. \A e : Owed(e)' <=> Owed(e)
    BY <1>1, <1>2 DEF Frame, Owed
  <2> QED BY <1>2, <2>1 DEF Frame, CountInv
<1>3. ASSUME NEW t \in Transfer, Alone(t), Sends(t) \/ Keeps(t) \/ Redeems(t),
             UNCHANGED <<missing, replays>>
      PROVE  CountInv'
  <2>1. rolled' \in [Entry -> Nat]
    <3>1. \A entries : RollUp(entries) \in [Entry -> Nat]
      BY DEF RollUp, CountInv
    <3> QED BY <1>3, <3>1 DEF Sends, Keeps, Redeems, CountInv
  <2> SUFFICES ASSUME missing <= 1, NEW e \in Entry
               PROVE  rolled'[e] = IF Owed(e)' THEN 1 ELSE 0
    BY <1>3, <2>1 DEF CountInv
  <2>2. rolled[e] = IF Owed(e) THEN 1 ELSE 0
    BY DEF CountInv
  <2>3. e.amount \in Transfer /\ t # Nothing
    BY PairingAssumption DEF Entry
  <2>4. /\ t \in paired => transfers[t].sent /\ transfers[t].amount # Nothing
        /\ transfers[t].amount # Nothing => transfers[t].sent
        /\ transfers[t].sent => transfers[t].source # Nothing
        /\ transfers[t].token \in {Nothing, <<managerOf[t], "source">>, <<managerOf[t], "dest">>}
        /\ transfers[t].token = <<managerOf[t], "source">> => Known(t, "source")
        /\ transfers[t].amount \in {t, Nothing}
    BY DEF FieldInv
  <2>5. /\ transfers[t].sent /\ Known(t, "source") => transfers[t].token = <<managerOf[t], "source">>
        /\ transfers[t].token = <<managerOf[t], "dest">> => transfers[t].delivered
    BY DEF PairingInv, Records
  <2>6. \A entries : RollUp(entries)[e] = rolled[e] + (IF e \in entries THEN 1 ELSE 0)
    BY DEF RollUp
  <2>7. CASE Sends(t)
    <3>1. PICK found \in BOOLEAN, amount \in Transfer \cup {Nothing} :
            /\ IF found THEN amount # Nothing /\ amount = t ELSE amount = transfers[t].amount
            /\ transfers'[t].amount = amount
            /\ transfers'[t].delivered = transfers[t].delivered
            /\ rolled' = RollUp({Rollup(c, amount, IF c = "sent" THEN "source" ELSE "dest", managerOf[t]) :
                          c \in {d \in {"sent", "delivered"} :
                                   /\ found /\ Known(t, "source")
                                   /\ IF d = "sent" THEN ~transfers[t].sent
                                      ELSE transfers[t].delivered /\ transfers[t].amount = Nothing}})
            /\ paired' = IF transfers[t].sent \/ ~found THEN paired ELSE paired \cup {t}
      BY <2>7 DEF Sends
    <3> DEFINE bumped == {Rollup(c, amount, IF c = "sent" THEN "source" ELSE "dest", managerOf[t]) :
                          c \in {d \in {"sent", "delivered"} :
                                   /\ found /\ Known(t, "source")
                                   /\ IF d = "sent" THEN ~transfers[t].sent
                                      ELSE transfers[t].delivered /\ transfers[t].amount = Nothing}}
    <3>2. e \in bumped <=>
            /\ found /\ Known(t, "source") /\ e.amount = amount /\ e.token = managerOf[t]
            /\ \/ e.counts = "sent" /\ e.day = "source" /\ ~transfers[t].sent
               \/ /\ e.counts = "delivered" /\ e.day = "dest"
                  /\ transfers[t].delivered /\ transfers[t].amount = Nothing
      <4>1. e \in bumped <=> \E c \in {"sent", "delivered"} :
              /\ found /\ Known(t, "source")
              /\ IF c = "sent" THEN ~transfers[t].sent
                 ELSE transfers[t].delivered /\ transfers[t].amount = Nothing
              /\ e = Rollup(c, amount, IF c = "sent" THEN "source" ELSE "dest", managerOf[t])
        OBVIOUS
      <4>2. \A c, d : e = Rollup(c, amount, d, managerOf[t]) <=>
              e.counts = c /\ e.amount = amount /\ e.day = d /\ e.token = managerOf[t]
        BY RollupIs
      <4> HIDE DEF bumped
      <4> QED BY <4>1, <4>2
    <3>3. rolled'[e] = rolled[e] + (IF e \in bumped THEN 1 ELSE 0)
      BY <2>6, <3>1
    <3> HIDE DEF bumped
    <3>4. CASE e.amount # t
      <4>1. transfers'[e.amount] = transfers[e.amount] /\ (e.amount \in paired' <=> e.amount \in paired)
        BY <1>3, <2>3, <3>1, <3>4 DEF Alone
      <4>2. Owed(e)' <=> Owed(e)
        BY <1>1, <4>1 DEF Owed
      <4>3. e \notin bumped
        BY <3>1, <3>2, <3>4
      <4> QED BY <2>2, <3>3, <4>2, <4>3
    <3>5. CASE e.amount = t
      <4>1. CASE found
        <5>1. /\ transfers'[t].amount # Nothing /\ amount = t
              /\ t \in paired' <=> t \in paired \/ ~transfers[t].sent
          BY <2>3, <3>1, <4>1
        <5>2. Owed(e)' <=>
                /\ e.token = managerOf[t] /\ Known(t, "source")
                /\ \/ e.counts = "sent" /\ e.day = "source" /\ (t \in paired \/ ~transfers[t].sent)
                   \/ e.counts = "delivered" /\ e.day = "dest" /\ transfers[t].delivered
          BY <1>1, <3>1, <3>5, <5>1 DEF Owed
        <5>3. Owed(e) <=>
                /\ e.token = managerOf[t] /\ Known(t, "source") /\ transfers[t].amount # Nothing
                /\ \/ e.counts = "sent" /\ e.day = "source" /\ t \in paired
                   \/ e.counts = "delivered" /\ e.day = "dest" /\ transfers[t].delivered
          BY <3>5 DEF Owed
        <5> QED BY <2>2, <2>4, <3>2, <3>3, <3>5, <4>1, <5>1, <5>2, <5>3
      <4>2. CASE ~found
        <5>1. e \notin bumped /\ paired' = paired /\ transfers'[t].amount = transfers[t].amount
          BY <3>1, <3>2, <4>2
        <5>2. Owed(e)' <=> Owed(e)
          BY <1>1, <3>1, <3>5, <5>1 DEF Owed
        <5> QED BY <2>2, <3>3, <5>1, <5>2
      <4> QED BY <4>1, <4>2
    <3> QED BY <3>4, <3>5
  <2>8. CASE Keeps(t)
    <3>1. /\ transfers'[e.amount].amount = transfers[e.amount].amount /\ paired' = paired
          /\ transfers'[e.amount].delivered = transfers[e.amount].delivered /\ rolled' = rolled
      BY <1>3, <2>3, <2>8 DEF Keeps, Brought, Alone
    <3>2. Owed(e)' <=> Owed(e)
      BY <1>1, <3>1 DEF Owed
    <3> QED BY <2>2, <3>1, <3>2
  <2>9. CASE Redeems(t)
    <3> DEFINE first == /\ ~transfers[t].delivered /\ transfers'[t].token # Nothing
                        /\ transfers'[t].source # Nothing /\ transfers'[t].amount # Nothing
    <3>1. /\ transfers'[t].amount = transfers[t].amount /\ transfers'[t].delivered /\ paired' = paired
          /\ transfers[t].source # Nothing => transfers'[t].source # Nothing
          /\ transfers[t].sent => transfers'[t].token = transfers[t].token
          /\ rolled' = IF first THEN RollUp({Rollup("delivered", transfers[t].amount, "dest",
                                                    transfers'[t].token[1])})
                       ELSE rolled
      BY <2>9 DEF Redeems, Brought
    <3>2. <<managerOf[t], "source">> # Nothing /\ <<managerOf[t], "source">> # <<managerOf[t], "dest">>
          /\ <<managerOf[t], "source">>[1] = managerOf[t]
      <4>1. managerOf[t] \in Manager
        BY DEF PairingInv, LogTypes
      <4> QED BY <4>1, PairingAssumption DEF Side
    <3>3. first <=> ~transfers[t].delivered /\ transfers[t].amount # Nothing /\ Known(t, "source")
      BY <2>4, <2>5, <3>1, <3>2
    <3>4. first => transfers'[t].token[1] = managerOf[t] /\ transfers[t].amount = t
      BY <2>4, <2>5, <3>1, <3>2, <3>3
    <3> HIDE DEF first
    <3>5. rolled'[e] = rolled[e] + (IF /\ first /\ e.counts = "delivered" /\ e.amount = t
                                       /\ e.day = "dest" /\ e.token = managerOf[t] THEN 1 ELSE 0)
      <4>1. rolled[e] \in Nat
        BY DEF CountInv
      <4>2. e = Rollup("delivered", t, "dest", managerOf[t]) <=>
              e.counts = "delivered" /\ e.amount = t /\ e.day = "dest" /\ e.token = managerOf[t]
        BY RollupIs
      <4> QED BY <2>6, <3>1, <3>4, <4>1, <4>2
    <3>6. CASE e.amount # t
      <4>1. transfers'[e.amount] = transfers[e.amount]
        BY <1>3, <2>3, <3>6 DEF Alone
      <4>2. Owed(e)' <=> Owed(e)
        BY <1>1, <3>1, <4>1 DEF Owed
      <4> QED BY <2>2, <3>5, <3>6, <4>2
    <3>7. CASE e.amount = t
      <4>1. Owed(e)' <=>
              /\ e.token = managerOf[t] /\ Known(t, "source") /\ transfers[t].amount # Nothing
              /\ \/ e.counts = "sent" /\ e.day = "source" /\ t \in paired
                 \/ e.counts = "delivered" /\ e.day = "dest"
        BY <1>1, <3>1, <3>7 DEF Owed
      <4>2. Owed(e) <=>
              /\ e.token = managerOf[t] /\ Known(t, "source") /\ transfers[t].amount # Nothing
              /\ \/ e.counts = "sent" /\ e.day = "source" /\ t \in paired
                 \/ e.counts = "delivered" /\ e.day = "dest" /\ transfers[t].delivered
        BY <3>7 DEF Owed
      <4> QED BY <2>2, <3>3, <3>5, <3>7, <4>1, <4>2
    <3> QED BY <3>6, <3>7
  <2> QED BY <1>3, <2>7, <2>8, <2>9
<1> QED BY <1>2, <1>3, StepKinds

\* The invariant behind the properties: the rows record what happened, the scratch
\* rows what was left out, and the rollups what the rows owe.
DeepInv ==
  /\ PairingInv /\ Shape /\ SendingInv /\ ArrivingInv /\ FieldInv /\ DataInv /\ CountInv
  /\ missing \in Nat /\ replays \in Nat

\* The invariant holds at the start and after every step.
LEMMA DeepStart == PairingInit => DeepInv
<1> SUFFICES ASSUME PairingInit PROVE DeepInv
  OBVIOUS
<1>1. PairingInv
  BY PairingStart
<1>2. Shape
  BY PairingLogs DEF Shape
<1>3. /\ at["source"] = 0 /\ at["dest"] = 0 /\ sending = {} /\ arriving = {} /\ missing = 0
      /\ attestations = {} /\ paired = {} /\ replays = 0
      /\ \A t \in Transfer : transfers[t] = NoTransfer
      /\ rolled = [e \in Entry |-> 0]
  BY DEF PairingInit, Side
<1>4. SendingInv
  BY <1>3 DEF SendingInv
<1>5. ArrivingInv
  BY <1>2, <1>3 DEF ArrivingInv, Attested, Shape, LogShape
<1>6. FieldInv /\ DataInv
  <2>1. \A t \in Transfer : <<managerOf[t], "source">> # Nothing
    BY <1>1, PairingAssumption DEF PairingInv, LogTypes, Side
  <2>2. \A t \in Transfer : /\ transfers[t].amount = Nothing /\ ~transfers[t].sent
                            /\ transfers[t].token = Nothing /\ transfers[t].source = Nothing
                            /\ transfers[t].digest = Nothing
    BY <1>3 DEF NoTransfer
  <2>3. FieldInv
    BY <1>3, <2>1, <2>2 DEF FieldInv
  <2> QED BY <2>2, <2>3 DEF DataInv
<1>7. CountInv
  <2>1. \A e \in Entry : ~Owed(e)
    BY <1>3 DEF Owed, NoTransfer, Entry
  <2> QED BY <1>3, <2>1 DEF CountInv
<1> QED BY <1>1, <1>2, <1>3, <1>4, <1>5, <1>6, <1>7 DEF DeepInv

LEMMA DeepInvariant == PairingSpec => []DeepInv
<1>1. PairingInit => DeepInv
  BY DeepStart
<1>2. DeepInv /\ [PairingNext]_pairingVars => DeepInv'
  <2> SUFFICES ASSUME DeepInv, [PairingNext]_pairingVars PROVE DeepInv'
    OBVIOUS
  <2>1. /\ PairingInv /\ Shape /\ SendingInv /\ ArrivingInv /\ FieldInv /\ DataInv /\ CountInv
        /\ missing \in Nat /\ replays \in Nat
    BY DEF DeepInv
  <2>2. PairingInv'
    BY <2>1, PairingStep
  <2>3. UNCHANGED <<managerOf, log>> /\ missing' \in Nat /\ replays' \in Nat
    BY <2>1, StepKinds DEF Frame
  <2>4. Shape'
    BY <2>1, <2>3 DEF Shape, LogShape, Together, Apart, Ends, one, two
  <2>5. SendingInv' /\ ArrivingInv'
    BY <2>1, SendingStep, ArrivingStep
  <2>6. FieldInv' /\ DataInv' /\ CountInv'
    BY <2>1, FieldStep, DataStep, CountStep
  <2> QED BY <2>2, <2>3, <2>4, <2>5, <2>6 DEF DeepInv
<1> QED BY <1>1, <1>2, PTL DEF PairingSpec

\* BridgeDailySnapshot and BridgeBridger (bumpSentRollups, bumpDeliveredRollups,
\* which nothing corrects): however the chains interleave and however often one is
\* read again, the send and the delivery of each of the two transfers are counted
\* exactly when its row can tell them, and once.  Two logs left out are beyond it,
\* since a send may then take the other's amount.
THEOREM RollupsExact == PairingSpec => []CountedOnce
<1>1. DeepInv => CountedOnce
  <2> SUFFICES ASSUME DeepInv, missing <= 1, NEW e \in Entry
               PROVE  rolled[e] = IF e \in Due(e.amount) THEN 1 ELSE 0
    BY DEF CountedOnce
  <2>1. rolled[e] = IF Owed(e) THEN 1 ELSE 0
    BY DEF DeepInv, CountInv
  <2>2. e.amount \in Transfer
    BY DEF Entry
  <2>3. transfers[e.amount].delivered <=> Happened("TransferRedeemed", e.amount)
    BY <2>2 DEF DeepInv, PairingInv, Records
  <2>4. e \in Due(e.amount) <=> Owed(e)
    BY <2>3 DEF Due, Owed
  <2> QED BY <2>1, <2>4
<1> QED BY <1>1, DeepInvariant, PTL

\* findPendingScratch brings a handler no other transfer's data, where two transfers
\* share their transactions: no amount as long as at most one log is left out; no
\* source and no digest either, if the manifest lists the destination's managers and
\* either no log is left out or only one and nothing is read again.
THEOREM DataIsOwn == PairingSpec => []OwnData
<1>1. DeepInv => OwnData
  BY DEF DeepInv, FieldInv, DataInv, OwnData
<1> QED BY <1>1, DeepInvariant, PTL

\* With every log of two transfers delivered nothing is left in WormholeTransferPending
\* once the source is read, the first time or again, nor in WormholeDestPending once
\* the destination is, as long as no chain has been read again.
THEOREM NothingLeft == PairingSpec => []ScratchDrained
<1>1. DeepInv => ScratchDrained
  <2> SUFFICES ASSUME DeepInv, missing = 0
               PROVE  /\ at["source"] = Len(log["source"]) => sending = {}
                      /\ at["dest"] = Len(log["dest"]) /\ replays = 0 => arriving = {}
    BY DEF ScratchDrained
  <2>1. Len(log["source"]) = 4 /\ Len(log["dest"]) \in 6..8
    BY DEF DeepInv, Shape, LogShape
  <2>2. at["source"] = 4 => sending = {}
    BY DEF DeepInv, SendingInv
  <2>3. at["dest"] \in 6..8 /\ replays = 0 => arriving = {}
    BY DEF DeepInv, ArrivingInv
  <2> QED BY <2>1, <2>2, <2>3
<1> QED BY <1>1, DeepInvariant, PTL

-----------------------------------------------------------------------------
(* The feed's rows.                                                           *)
(*                                                                            *)
(* What the rows hold at the end of a block depends on where they came to     *)
(* exist and on how much of the block they knew before a restart, and the     *)
(* state does not say how much that is.  Knows(r, a) says what it means that  *)
(* rows know the block's first a logs; the handlers are then shown to keep    *)
(* it where the log is one of these, and to bring it to a + 1 where it is the *)
(* next.                                                                      *)
Contract == [reports : Lists, token : Nat, global : Nat]

Changes == {"Reported", "Removed"}
Expiries == {"TokenExpiry", "GlobalExpiry"}

\* The pools of the rows; those of them that were not changed in this block.
PoolsOf(r) == {p \in Pool : r.pools[p] > 0}
Unmoved(r) == {p \in PoolsOf(r) : r.pools[p] < number}

\* A row that was first read before this block has met each of these logs.
Met(row, events, a) ==
  \A j \in 1..a : logs[j].event \in events => row.mark[1] = number /\ j <= row.mark[2]

\* A row's watermark is no later than what it knows.
Marked(row, a) ==
  /\ row.through <= number /\ row.mark[1] <= number
  /\ row.mark[1] = number => row.mark[2] <= a
  /\ row.through = number => row.mark[1] = number

\* A row shows what the log at its watermark says.
ExpiryShown(row) ==
  LET here == logs[row.mark[2]]
  IN  /\ row.mark[2] > 0
      /\ here.event = "TokenExpiry" => row.token = here.is
      /\ here.event = "GlobalExpiry" => row.global = here.is
ReportShown(row) ==
  LET here == logs[row.mark[2]]
  IN  /\ row.mark[2] > 0
      /\ here.event = "Reported" => here.by \in DOMAIN row.reports /\ row.reports[here.by] = number

ExpiryKnown(row, a) ==
  /\ row \in ExpiryRow /\ Marked(row, a)
  /\ row.through = number => row.token = Closing.token /\ row.global = Closing.global
  /\ row.through < number => /\ row.token = After[a].token /\ row.global = After[a].global
                             /\ Met(row, Expiries, a)
                             /\ row.mark[1] = number => ExpiryShown(row)

FeedKnown(row, a) ==
  /\ row \in FeedRow /\ Marked(row, a)
  /\ row.through = number => row.reports = Closing.reports
  /\ row.through < number => /\ row.reports = After[a].reports
                             /\ Met(row, Changes, a)
                             /\ row.mark[1] = number => ReportShown(row)

\* Without a row: a pool that was there before the block would have brought it.
ExpiryUnknown(r, a) ==
  Unmoved(r) # {} => /\ After[a].token = opening.token /\ After[a].global = opening.global
                     /\ \A j \in 1..a : logs[j].event \notin Expiries \cup Changes
FeedUnknown(r, a) ==
  Unmoved(r) # {} => /\ After[a].reports = opening.reports
                     /\ \A j \in 1..a : logs[j].event \notin Changes

\* The i-th log is a median of a pool that has joined by then.
Awaited(r, i) ==
  /\ logs[i].event = "Median"
  /\ \E p \in PoolsOf(r) : \A j \in DOMAIN logs :
       logs[j].event = "Joins" /\ logs[j].pool = p => j < i

BlendsKnown(r, a) ==
  /\ r.blended \in [1..Len(logs) -> 0..2]
  /\ \A i \in 1..Len(logs) : i > a => r.blended[i] = 0
  /\ \A i \in 1..a : Awaited(r, i) =>
       r.blended[i] = 1 /\ r.feed # NoRow /\ r.feed.mark[1] = number /\ i <= r.feed.mark[2]

Knows(r, a) ==
  /\ r = [feed |-> r.feed, expiry |-> r.expiry, pools |-> r.pools, blended |-> r.blended]
  /\ r.pools \in [Pool -> Nat] /\ \A p \in Pool : r.pools[p] <= number
  /\ \A j \in 1..a : logs[j].event = "Joins" => logs[j].pool \in PoolsOf(r)
  /\ IF r.expiry = NoRow THEN ExpiryUnknown(r, a) ELSE ExpiryKnown(r.expiry, a)
  /\ IF r.feed = NoRow THEN FeedUnknown(r, a) ELSE FeedKnown(r.feed, a)
  /\ r.feed # NoRow => /\ r.expiry # NoRow /\ PoolsOf(r) # {}
                       /\ r.feed.expiry = EffectiveExpiry(r.expiry)
  /\ BlendsKnown(r, a)

\* A pool is written once it is one of the feed's.
Announced(S) ==
  \A i \in DOMAIN logs : logs[i].event = "Written" =>
    logs[i].pool \in S \cup {logs[j].pool : j \in {k \in 1..(i - 1) : logs[k].event = "Joins"}}
PoolsAnnounced ==
  \E S \in SUBSET Pool : S \subseteq PoolsOf(rows) /\ S \subseteq PoolsOf(disk) /\ Announced(S)

\* A removed reporter is on the list, and a median follows a change of it.
LogsInOrder ==
  \A i \in DOMAIN logs :
    /\ logs[i].event = "Removed" => logs[i].by \in DOMAIN After[i - 1].reports
    /\ logs[i].event = "Median" => i > 1 /\ logs[i - 1].event \in Changes

\* A handler of the list leaves a row behind it.
ListHasRow ==
  place > 1 /\ logs[place - 1].event \in Changes /\ PoolIds # {} => rows.feed # NoRow

BlockType ==
  /\ number \in Nat /\ number > Before /\ logs \in Seq(Log)
  /\ opening \in Contract /\ place \in 1..(Len(logs) + 1)

FeedInv ==
  /\ BlockType /\ LogsInOrder /\ PoolsAnnounced /\ ListHasRow
  /\ \E a \in (place - 1)..Len(logs) : Knows(rows, a)
  /\ \E a \in 0..Len(logs) : Knows(disk, a)

-----------------------------------------------------------------------------
(* What the contract holds after each log.                                   *)

\* The recursion has a value.
LEMMA AfterUnfolds ==
  ASSUME logs \in Seq(Log)
  PROVE  /\ After[0] = opening
         /\ \A k \in 1..Len(logs) : After[k] = Step(After[k - 1], logs[k])
  <1> DEFINE Is(g, n) == g = [k \in 0..n |-> IF k = 0 THEN opening ELSE Step(g[k - 1], logs[k])]
             S == {n \in Nat : \E g : Is(g, n)}
  <1>1. Len(logs) \in Nat
      OBVIOUS
  <1>2. 0 \in S
    <2>1. Is([k \in 0..0 |-> opening], 0)
        OBVIOUS
    <2> QED BY <2>1
  <1>3. ASSUME NEW n \in Nat, n \in S PROVE n + 1 \in S
    <2>1. PICK g : Is(g, n)
        BY <1>3
    <2> DEFINE h == [k \in 0..(n + 1) |-> IF k <= n THEN g[k] ELSE Step(g[n], logs[n + 1])]
    <2>2. ASSUME NEW k \in 0..(n + 1)
          PROVE  h[k] = IF k = 0 THEN opening ELSE Step(h[k - 1], logs[k])
      <3>1. CASE k = 0
          BY <2>1, <3>1
      <3>2. CASE k # 0 /\ k <= n
        <4>1. k \in 0..n /\ k - 1 \in 0..n /\ h[k] = g[k] /\ h[k - 1] = g[k - 1]
            BY <3>2
        <4>2. g[k] = Step(g[k - 1], logs[k])
            BY <2>1, <3>2, <4>1
        <4> QED BY <3>2, <4>1, <4>2
      <3>3. CASE k = n + 1
        <4>1. k # 0 /\ k - 1 = n /\ h[k] = Step(g[n], logs[k]) /\ h[n] = g[n]
            BY <3>3
        <4> QED BY <4>1
      <3> QED BY <3>1, <3>2, <3>3
    <2>3. Is(h, n + 1)
      <3> DEFINE e(k) == IF k = 0 THEN opening ELSE Step(h[k - 1], logs[k])
      <3>1. h = [k \in 0..(n + 1) |-> h[k]]
          OBVIOUS
      <3>2. \A k \in 0..(n + 1) : h[k] = e(k)
          BY <2>2
      <3> HIDE DEF h, e
      <3>3. h = [k \in 0..(n + 1) |-> e(k)]
          BY <3>1, <3>2
      <3> QED BY <3>3 DEF e
    <2> HIDE DEF h, Is
    <2> QED BY <2>3
  <1> HIDE DEF S
  <1>4. Nat \subseteq S
      BY <1>2, <1>3, Upward
  <1>5. Len(logs) \in S
      BY <1>1, <1>4
  <1>6. \E g : Is(g, Len(logs))
      BY <1>5 DEF S
  <1>7. Is(After, Len(logs))
      BY <1>6, Zenon DEF After
  <1> QED BY <1>1, <1>7

LEMMA ReportsTypes ==
  ASSUME NEW l \in Lists, NEW e \in Log, e.event \in Changes, number \in Nat
  PROVE  /\ Reports(l, e) \in Lists
         /\ e.event = "Reported" => e.by \in DOMAIN Reports(l, e) /\ Reports(l, e)[e.by] = number
  <1>1. PICK S \in SUBSET Reporter : l \in [S -> Nat]
      BY DEF Lists
  <1>2. e.by \in Reporter
      BY DEF Log, Changes
  <1> DEFINE T == IF e.event = "Removed" THEN DOMAIN l \ {e.by} ELSE DOMAIN l \cup {e.by}
  <1>3. T \in SUBSET Reporter
      BY <1>1, <1>2
  <1>4. Reports(l, e) \in [T -> Nat]
    <2>1. \A r \in T : r # e.by => r \in S
        BY <1>1
    <2> QED BY <1>1, <2>1 DEF Reports
  <1>5. e.event = "Reported" => e.by \in T /\ Reports(l, e)[e.by] = number
      BY DEF Reports
  <1> HIDE DEF T
  <1> QED BY <1>3, <1>4, <1>5 DEF Lists

\* Each log changes what it is about.
LEMMA ContractMoves ==
  ASSUME NEW c \in Contract, NEW e \in Log, number \in Nat
  PROVE  /\ Step(c, e) \in Contract
         /\ e.event \in Changes => Step(c, e).reports = Reports(c.reports, e)
         /\ e.event \notin Changes => Step(c, e).reports = c.reports
         /\ Step(c, e).token = IF e.event = "TokenExpiry" THEN e.is ELSE c.token
         /\ Step(c, e).global = IF e.event = "GlobalExpiry" THEN e.is ELSE c.global
  <1>1. CASE e.event \in Changes
    <2>1. Reports(c.reports, e) \in Lists
        BY <1>1, ReportsTypes DEF Contract
    <2>2. Step(c, e) = [c EXCEPT !.reports = Reports(c.reports, e)]
        BY <1>1 DEF Step, Changes
    <2> QED BY <1>1, <2>1, <2>2 DEF Contract, Changes
  <1>2. CASE e.event = "TokenExpiry"
    <2>1. e.is \in Expiry \cup {0}
        BY <1>2 DEF Log
    <2>2. e.is \in Nat
      <3>1. \A t \in Expiry \cup {0} : t \in Nat
          BY FeedAssumption
      <3> QED BY <2>1, <3>1
    <2>3. Step(c, e) = [c EXCEPT !.token = e.is]
        BY <1>2 DEF Step
    <2> QED BY <1>2, <2>2, <2>3 DEF Contract, Changes
  <1>3. CASE e.event = "GlobalExpiry"
    <2>1. e.is \in Nat
        BY <1>3, FeedAssumption DEF Log
    <2>2. Step(c, e) = [c EXCEPT !.global = e.is]
        BY <1>3 DEF Step
    <2> QED BY <1>3, <2>1, <2>2 DEF Contract, Changes
  <1>4. CASE e.event \notin Changes \cup Expiries
      BY <1>4 DEF Step, Changes, Expiries
  <1> QED BY <1>1, <1>2, <1>3, <1>4 DEF Expiries

LEMMA AfterTypes ==
  ASSUME BlockType PROVE \A k \in 0..Len(logs) : After[k] \in Contract
  <1> DEFINE S == {n \in Nat : n <= Len(logs) => After[n] \in Contract}
  <1>1. 0 \in S
      BY AfterUnfolds DEF BlockType
  <1>2. ASSUME NEW n \in Nat, n \in S PROVE n + 1 \in S
    <2>1. CASE n + 1 <= Len(logs)
      <3>1. After[n] \in Contract /\ n + 1 \in 1..Len(logs) /\ logs[n + 1] \in Log
          BY <1>2, <2>1 DEF BlockType
      <3>2. After[n + 1] = Step(After[n], logs[n + 1])
          BY <3>1, AfterUnfolds DEF BlockType
      <3> QED BY <3>1, <3>2, ContractMoves DEF BlockType
    <2> QED BY <2>1
  <1> HIDE DEF S
  <1>3. Nat \subseteq S
      BY <1>1, <1>2, Upward
  <1> QED BY <1>3 DEF S, BlockType

-----------------------------------------------------------------------------
(* The rows a handler reads or makes.                                         *)

\* A handler has a log to read, over rows that know the first a logs; what they know
\* once it is done.
Handling(a) ==
  /\ BlockType /\ place <= Len(logs)
  /\ a \in (place - 1)..Len(logs) /\ Knows(rows, a)

Told(a) == IF place <= a THEN a ELSE place

LEMMA ReadingNow ==
  ASSUME NEW a, Handling(a)
  PROVE  /\ number \in Nat /\ number > 1 /\ place \in 1..Len(logs) /\ Len(logs) \in Nat
         /\ a \in 0..Len(logs) /\ Told(a) \in 1..Len(logs)
         /\ place <= Told(a) /\ a <= Told(a)
         /\ Told(a) = a \/ (Told(a) = place /\ place = a + 1)
         /\ place <= a <=> Told(a) = a
         /\ this \in Log
         /\ After[a] \in Contract /\ After[Told(a)] \in Contract
         /\ opening \in Contract /\ Closing \in Contract
         /\ Told(a) # a => After[Told(a)] = Step(After[a], this)
  <1>1. number \in Nat /\ number > 1 /\ place \in 1..Len(logs) /\ Len(logs) \in Nat
        /\ a \in 0..Len(logs) /\ opening \in Contract
      BY DEF Handling, BlockType, Before
  <1>2. Told(a) \in 1..Len(logs) /\ place <= Told(a) /\ a <= Told(a)
        /\ (Told(a) = a \/ (Told(a) = place /\ place = a + 1))
        /\ (place <= a <=> Told(a) = a)
      BY <1>1 DEF Handling, Told
  <1>3. this \in Log
      BY <1>1 DEF this, Handling, BlockType
  <1>4. \A k \in 0..Len(logs) : After[k] \in Contract
      BY AfterTypes DEF Handling
  <1>5. After[a] \in Contract /\ After[Told(a)] \in Contract /\ Closing \in Contract
      BY <1>1, <1>2, <1>4 DEF Closing
  <1>6. ASSUME Told(a) # a PROVE After[Told(a)] = Step(After[a], this)
    <2>1. Told(a) = place /\ place - 1 = a /\ place \in 1..Len(logs)
        BY <1>1, <1>2, <1>6
    <2>2. After[place] = Step(After[place - 1], logs[place])
        BY <2>1, AfterUnfolds DEF Handling, BlockType
    <2> QED BY <2>1, <2>2 DEF this
  <1> QED BY <1>1, <1>2, <1>3, <1>5, <1>6

\* A handler's log moves the contract from what the rows know to what they will.
LEMMA ToldMoves ==
  ASSUME NEW a, Handling(a)
  PROVE  /\ this.event \notin Changes => After[Told(a)].reports = After[a].reports
         /\ this.event \notin Expiries => /\ After[Told(a)].token = After[a].token
                                          /\ After[Told(a)].global = After[a].global
         /\ Told(a) # a /\ this.event \in Changes =>
              After[Told(a)].reports = Reports(After[a].reports, this)
         /\ Told(a) # a /\ this.event = "TokenExpiry" =>
              After[Told(a)].token = this.is /\ After[Told(a)].global = After[a].global
         /\ Told(a) # a /\ this.event = "GlobalExpiry" =>
              After[Told(a)].global = this.is /\ After[Told(a)].token = After[a].token
  <1>1. CASE Told(a) = a
      BY <1>1
  <1>2. CASE Told(a) # a
      BY <1>2, ReadingNow, ContractMoves DEF Expiries
  <1> QED BY <1>1, <1>2

LEMMA Pools ==
  ASSUME NEW a, Handling(a)
  PROVE  /\ PoolIds = PoolsOf(rows)
         /\ Unmoved(rows) # {} => PoolIds # {}
         /\ BootstrapThrough = IF Unmoved(rows) # {} THEN number - 1 ELSE number
         /\ BootstrapThrough \in Nat
  <1>1. PoolIds = PoolsOf(rows)
      BY DEF PoolIds, PoolsOf
  <1>2. Unmoved(rows) # {} <=> \E p \in PoolIds : rows.pools[p] < number
      BY <1>1 DEF Unmoved
  <1> QED BY <1>1, <1>2, ReadingNow DEF BootstrapThrough

\* What the contract held at the end of a block that brings the first row is what it
\* holds before this log, or what it will hold.
LEMMA ExpiryReads ==
  ASSUME NEW a, Handling(a), this.event \in Expiries \cup Changes
  PROVE  /\ ExpiryKnown(ExpiryBase, a)
         /\ rows.expiry # NoRow => ExpiryBase = rows.expiry
         /\ rows.expiry = NoRow => ExpiryBase.through = number \/ place = a + 1
  <1>1. CASE rows.expiry # NoRow
      BY <1>1 DEF ExpiryBase, Handling, Knows
  <1>2. CASE rows.expiry = NoRow
    <2> DEFINE c == AtClose(BootstrapThrough)
    <2>1. ExpiryBase = [through |-> BootstrapThrough, mark |-> <<BootstrapThrough, 0>>,
                        token |-> c.token, global |-> c.global]
        BY <1>2 DEF ExpiryBase
    <2>2. ExpiryUnknown(rows, a) /\ number - 1 # number /\ number - 1 \in Nat
        BY <1>2, ReadingNow DEF Handling, Knows
    <2>3. ExpiryBase \in ExpiryRow /\ Marked(ExpiryBase, a)
      <3>1. c.token \in Nat /\ c.global \in Nat
          BY ReadingNow DEF AtClose, Contract
      <3> HIDE DEF c
      <3> QED BY <2>1, <2>2, <3>1, Pools, ReadingNow DEF ExpiryRow, Marked
    <2>4. CASE Unmoved(rows) = {}
      <3>1. BootstrapThrough = number /\ c = Closing
          BY <2>4, Pools DEF AtClose
      <3> HIDE DEF c
      <3> QED BY <1>2, <2>1, <2>3, <3>1, ReadingNow DEF ExpiryKnown
    <2>5. CASE Unmoved(rows) # {}
      <3>1. BootstrapThrough = number - 1 /\ c = opening
          BY <2>2, <2>5, Pools DEF AtClose
      <3>2. /\ opening.token = After[a].token /\ opening.global = After[a].global
            /\ \A j \in 1..a : logs[j].event \notin Expiries \cup Changes
          BY <2>2, <2>5 DEF ExpiryUnknown
      <3>3. place = a + 1
          BY <3>2, ReadingNow DEF this
      <3> HIDE DEF c
      <3>4. Met(ExpiryBase, Expiries, a)
          BY <3>2 DEF Met
      <3> QED BY <1>2, <2>1, <2>2, <2>3, <3>1, <3>2, <3>3, <3>4 DEF ExpiryKnown
    <2> QED BY <2>4, <2>5
  <1> QED BY <1>1, <1>2

LEMMA FeedReads ==
  ASSUME NEW a, Handling(a), this.event \in Changes
  PROVE  /\ FeedKnown(FeedBase, a)
         /\ FeedBase.expiry = EffectiveExpiry(ExpiryBase)
         /\ rows.feed # NoRow => FeedBase = rows.feed
         /\ rows.feed = NoRow => FeedBase.through = number \/ place = a + 1
  <1>1. CASE rows.feed # NoRow
      BY <1>1, ExpiryReads DEF FeedBase, Handling, Knows, Changes
  <1>2. CASE rows.feed = NoRow
    <2> DEFINE l == AtClose(BootstrapThrough).reports
               x == EffectiveExpiry(ExpiryBase)
    <2>1. FeedBase = [through |-> BootstrapThrough, mark |-> <<BootstrapThrough, 0>>,
                      reports |-> l, expiry |-> x]
        BY <1>2 DEF FeedBase, Bootstrap
    <2>2. FeedUnknown(rows, a) /\ number - 1 # number /\ number - 1 \in Nat
        BY <1>2, ReadingNow DEF Handling, Knows
    <2>3. FeedBase \in FeedRow /\ Marked(FeedBase, a)
      <3>1. l \in Lists
          BY ReadingNow DEF AtClose, Contract
      <3>2. x \in Nat
          BY ExpiryReads DEF EffectiveExpiry, ExpiryKnown, ExpiryRow
      <3> HIDE DEF l, x
      <3> QED BY <2>1, <2>2, <3>1, <3>2, Pools, ReadingNow DEF FeedRow, Marked
    <2>4. CASE Unmoved(rows) = {}
      <3>1. BootstrapThrough = number /\ l = Closing.reports
          BY <2>4, Pools DEF AtClose
      <3> HIDE DEF l
      <3> QED BY <1>2, <2>1, <2>3, <3>1, ReadingNow DEF FeedKnown
    <2>5. CASE Unmoved(rows) # {}
      <3>1. BootstrapThrough = number - 1 /\ l = opening.reports
          BY <2>2, <2>5, Pools DEF AtClose
      <3>2. /\ opening.reports = After[a].reports
            /\ \A j \in 1..a : logs[j].event \notin Changes
          BY <2>2, <2>5 DEF FeedUnknown
      <3>3. place = a + 1
          BY <3>2, ReadingNow DEF this
      <3> HIDE DEF l
      <3>4. Met(FeedBase, Changes, a)
          BY <3>2 DEF Met
      <3> QED BY <1>2, <2>1, <2>2, <2>3, <3>1, <3>2, <3>3, <3>4 DEF FeedKnown
    <2> QED BY <2>4, <2>5
  <1> QED BY <1>1, <1>2

-----------------------------------------------------------------------------
(* What a log does to a row.                                                  *)

LEMMA Stands ==
  ASSUME NEW a, Handling(a), NEW row, row.mark \in Nat \X Nat, row.through \in Nat, Marked(row, a)
  PROVE  /\ Behind(row) \/ On(row) <=> row.mark[1] = number /\ place <= row.mark[2]
         /\ Ignored(row) <=> Behind(row) \/ row.through = number
  <1>1. row.mark = <<row.mark[1], row.mark[2]>> /\ row.mark[1] \in Nat /\ row.mark[2] \in Nat
      OBVIOUS
  <1>2. row.mark[1] <= number /\ row.through <= number
      BY DEF Marked
  <1>3. On(row) <=> row.mark[1] = number /\ row.mark[2] = place
      BY <1>1 DEF On, Here
  <1>4. Behind(row) <=> row.mark[1] = number /\ place < row.mark[2]
      BY <1>1, <1>2, ReadingNow DEF Behind
  <1>5. number <= row.through <=> row.through = number
      BY <1>2, ReadingNow DEF Marked
  <1> QED BY <1>1, <1>3, <1>4, <1>5, ReadingNow DEF Ignored

LEMMA HereIs ==
  ASSUME NEW a, Handling(a)
  PROVE  Here \in Nat \X Nat /\ Here = <<number, place>>
  <1>1. number \in Nat /\ place \in Nat
      BY ReadingNow
  <1> QED BY <1>1 DEF Here

LEMMA ExpiryRests ==
  ASSUME NEW a, Handling(a), NEW row, ExpiryKnown(row, a),
         this.event \notin Expiries \/ row.through = number \/ Told(a) = a
  PROVE  ExpiryKnown(row, Told(a))
  <1>1. CASE Told(a) = a
      BY <1>1
  <1>2. CASE Told(a) # a
    <2>1. Told(a) = place /\ place = a + 1
        BY <1>2, ReadingNow
    <2>2. row \in ExpiryRow /\ Marked(row, Told(a))
        BY <2>1, ReadingNow DEF ExpiryKnown, Marked, ExpiryRow
    <2>3. CASE row.through = number
        BY <2>2, <2>3, ReadingNow DEF ExpiryKnown
    <2>4. CASE row.through < number
      <3>1. this.event \notin Expiries
          BY <1>2, <2>4, ReadingNow DEF ExpiryKnown, ExpiryRow
      <3>2. Met(row, Expiries, Told(a))
          BY <2>1, <2>4, <3>1, ReadingNow DEF ExpiryKnown, Met, this
      <3> QED BY <2>2, <2>4, <3>1, <3>2, ToldMoves, ReadingNow DEF ExpiryKnown, ExpiryRow
    <2> QED BY <2>2, <2>3, <2>4, ReadingNow DEF Marked, ExpiryRow
  <1> QED BY <1>1, <1>2

LEMMA FeedRests ==
  ASSUME NEW a, Handling(a), NEW row, FeedKnown(row, a),
         this.event \notin Changes \/ row.through = number \/ Told(a) = a
  PROVE  FeedKnown(row, Told(a))
  <1>1. CASE Told(a) = a
      BY <1>1
  <1>2. CASE Told(a) # a
    <2>1. Told(a) = place /\ place = a + 1
        BY <1>2, ReadingNow
    <2>2. row \in FeedRow /\ Marked(row, Told(a))
        BY <2>1, ReadingNow DEF FeedKnown, Marked, FeedRow
    <2>3. CASE row.through = number
        BY <2>2, <2>3, ReadingNow DEF FeedKnown
    <2>4. CASE row.through < number
      <3>1. this.event \notin Changes
          BY <1>2, <2>4, ReadingNow DEF FeedKnown, FeedRow
      <3>2. Met(row, Changes, Told(a))
          BY <2>1, <2>4, <3>1, ReadingNow DEF FeedKnown, Met, this
      <3> QED BY <2>2, <2>4, <3>1, <3>2, ToldMoves, ReadingNow DEF FeedKnown, FeedRow
    <2> QED BY <2>2, <2>3, <2>4, ReadingNow DEF Marked, FeedRow
  <1> QED BY <1>1, <1>2

\* A log that a row has met is behind its watermark or on it.
LEMMA MetIsMarked ==
  ASSUME NEW a, Handling(a), NEW row, NEW events, Met(row, events, a), Told(a) = a,
         this.event \in events
  PROVE  row.mark[1] = number /\ place <= row.mark[2]
  <1>1. place \in 1..a
      BY ReadingNow
  <1> QED BY <1>1 DEF Met, this

LEMMA ExpiryMoves ==
  ASSUME NEW a, Handling(a), NEW field,
         \/ this.event = "TokenExpiry" /\ field = "token"
         \/ this.event = "GlobalExpiry" /\ field = "global"
  PROVE  ExpiryKnown(ExpiryAfter(field), Told(a))
  <1> DEFINE x == ExpiryBase
  <1>1. ExpiryKnown(x, a) /\ this.event \in Expiries
      BY ExpiryReads DEF Expiries
  <1> HIDE DEF x
  <1>2. x \in ExpiryRow /\ Marked(x, a) /\ x.mark \in Nat \X Nat /\ x.through \in Nat
      BY <1>1 DEF ExpiryKnown, ExpiryRow
  <1>3. CASE number = x.through \/ Ignored(x) \/ On(x)
    <2>1. x.through = number \/ Told(a) = a
      <3>1. x.through = number \/ (x.mark[1] = number /\ place <= x.mark[2])
          BY <1>2, <1>3, Stands
      <3> QED BY <1>2, <3>1, ReadingNow DEF Marked
    <2> QED BY <1>1, <1>3, <2>1, ExpiryRests DEF ExpiryAfter, x
  <1>4. CASE ~(number = x.through \/ Ignored(x) \/ On(x))
    <2>1. ~(x.mark[1] = number /\ place <= x.mark[2]) /\ x.through < number
        BY <1>2, <1>4, Stands, ReadingNow DEF Marked
    <2>2. Told(a) # a
        BY <1>1, <2>1, MetIsMarked DEF ExpiryKnown
    <2>3. this.is \in Nat
      <3>1. this.is \in Expiry \cup {0}
          BY ReadingNow DEF Log
      <3>2. \A t \in Expiry \cup {0} : t \in Nat
          BY FeedAssumption
      <3> QED BY <3>1, <3>2
    <2> DEFINE y == [x EXCEPT ![field] = this.is, !.mark = Here]
    <2>3a. ExpiryAfter(field) = y
        BY <1>4 DEF ExpiryAfter, Expected, x
    <2>4. /\ y \in ExpiryRow /\ y.through = x.through /\ y.mark = <<number, place>>
          /\ field = "token" => y.token = this.is /\ y.global = x.global
          /\ field = "global" => y.global = this.is /\ y.token = x.token
      <3>1. x = [through |-> x.through, mark |-> x.mark, token |-> x.token, global |-> x.global]
          BY <1>2 DEF ExpiryRow
      <3>2. CASE field = "token"
        <4>1. y = [x EXCEPT !.token = this.is, !.mark = Here]
            BY <3>2, Zenon
        <4>2. y = [through |-> x.through, mark |-> Here, token |-> this.is, global |-> x.global]
          <5> HIDE DEF y
          <5> QED BY <3>1, <4>1
        <4> QED BY <1>2, <2>3, <3>2, <4>2, HereIs DEF ExpiryRow
      <3>3. CASE field = "global"
        <4>1. y = [x EXCEPT !.global = this.is, !.mark = Here]
            BY <3>3, Zenon
        <4>2. y = [through |-> x.through, mark |-> Here, token |-> x.token, global |-> this.is]
          <5> HIDE DEF y
          <5> QED BY <3>1, <4>1
        <4> QED BY <1>2, <2>3, <3>3, <4>2, HereIs DEF ExpiryRow
      <3> QED BY <3>2, <3>3
    <2> HIDE DEF y
    <2>5. Told(a) = place
        BY <2>2, ReadingNow
    <2>6. Marked(y, Told(a))
        BY <1>2, <2>1, <2>4, <2>5, ReadingNow DEF Marked
    <2>7. Met(y, Expiries, Told(a))
        BY <2>4, <2>5 DEF Met
    <2>8. ExpiryShown(y)
        BY <2>4, ReadingNow DEF ExpiryShown, this
    <2>9. y.token = After[Told(a)].token /\ y.global = After[Told(a)].global
        BY <1>1, <2>1, <2>2, <2>4, ToldMoves DEF ExpiryKnown
    <2> QED BY <2>1, <2>3a, <2>4, <2>6, <2>7, <2>8, <2>9, <1>2, ReadingNow DEF ExpiryKnown
  <1> QED BY <1>3, <1>4

\* An expiry or a median moves the feed's watermark, and its expiry perhaps.
LEMMA FeedMarks ==
  ASSUME NEW a, Handling(a), NEW row, FeedKnown(row, a), ~Behind(row), ~On(row),
         this.event \notin Changes, NEW e \in Nat
  PROVE  FeedKnown([row EXCEPT !.expiry = e, !.mark = Here], Told(a))
  <1> DEFINE y == [row EXCEPT !.expiry = e, !.mark = Here]
  <1>1. row \in FeedRow /\ Marked(row, a)
      BY DEF FeedKnown
  <1>2. y \in FeedRow /\ y.through = row.through /\ y.mark = <<number, place>>
        /\ y.reports = row.reports
      BY <1>1, HereIs DEF FeedRow
  <1> HIDE DEF y
  <1>3. Marked(y, Told(a))
      BY <1>1, <1>2, ReadingNow DEF Marked
  <1>4. CASE row.through = number
      BY <1>2, <1>3, <1>4, ReadingNow DEF FeedKnown, y
  <1>5. CASE row.through < number
    <2>1. Met(y, Changes, Told(a))
      <3> SUFFICES ASSUME NEW j \in 1..Told(a), logs[j].event \in Changes PROVE j <= place
          BY <1>2 DEF Met
      <3>1. CASE j <= a
        <4>1. row.mark[1] = number /\ j <= row.mark[2]
            BY <1>5, <3>1, ReadingNow DEF FeedKnown, Met
        <4>2. ~(row.mark[1] = number /\ place <= row.mark[2])
            BY <1>1, Stands DEF FeedRow
        <4>3. row.mark[2] \in Nat
            BY <1>1 DEF FeedRow
        <4> QED BY <4>1, <4>2, <4>3, ReadingNow
      <3>2. CASE ~(j <= a)
          BY <3>2, ReadingNow
      <3> QED BY <3>1, <3>2
    <2>2. ReportShown(y)
        BY <1>2, ReadingNow DEF ReportShown, this, Changes
    <2>3. y.reports = After[Told(a)].reports
        BY <1>2, <1>5, ToldMoves DEF FeedKnown
    <2> QED BY <1>1, <1>2, <1>3, <1>5, <2>1, <2>2, <2>3, ReadingNow DEF FeedKnown, FeedRow, y
  <1> QED BY <1>1, <1>4, <1>5, ReadingNow DEF Marked, FeedRow

LEMMA FeedMoves ==
  ASSUME NEW a, Handling(a), this.event \in Changes
  PROVE  /\ FeedKnown(FeedAfter, Told(a))
         /\ FeedAfter.expiry = FeedBase.expiry
         /\ \/ FeedAfter.mark = FeedBase.mark
            \/ ~Behind(FeedBase) /\ ~On(FeedBase) /\ FeedAfter.mark = Here
  <1> DEFINE x == FeedBase
  <1>1. FeedKnown(x, a)
      BY FeedReads
  <1> HIDE DEF x
  <1>2. x \in FeedRow /\ Marked(x, a) /\ x.mark \in Nat \X Nat /\ x.through \in Nat
      BY <1>1 DEF FeedKnown, FeedRow
  <1>3. CASE Absorbed \/ Replayed
    <2>1. x.through = number \/ Told(a) = a
      <3>1. x.through = number \/ (x.mark[1] = number /\ place <= x.mark[2])
          BY <1>2, <1>3, Stands DEF Absorbed, Replayed, x
      <3> QED BY <1>2, <3>1, ReadingNow DEF Marked
    <2> QED BY <1>1, <1>3, <2>1, FeedRests DEF FeedAfter, x
  <1>4. CASE ~(Absorbed \/ Replayed)
    <2>1. ~(x.mark[1] = number /\ place <= x.mark[2]) /\ x.through < number
          /\ ~Behind(x) /\ ~On(x)
        BY <1>2, <1>4, Stands, ReadingNow DEF Marked, Absorbed, Replayed, x
    <2>2. Told(a) # a
        BY <1>1, <2>1, MetIsMarked DEF FeedKnown
    <2> DEFINE l == Reports(x.reports, this)
               y == [x EXCEPT !.reports = l, !.mark = Here]
    <2>3. /\ l \in Lists
          /\ this.event = "Reported" => this.by \in DOMAIN l /\ l[this.by] = number
      <3>1. x.reports \in Lists
          BY <1>2 DEF FeedRow
      <3> QED BY <3>1, ReportsTypes, ReadingNow
    <2>3a. FeedAfter = y
        BY <1>4 DEF FeedAfter, x
    <2> HIDE DEF l
    <2>4. /\ y \in FeedRow /\ y.through = x.through /\ y.mark = <<number, place>>
          /\ y.reports = l /\ y.expiry = x.expiry
        BY <1>2, <2>3, HereIs DEF FeedRow
    <2> HIDE DEF y
    <2>5. Told(a) = place
        BY <2>2, ReadingNow
    <2>6. Marked(y, Told(a))
        BY <1>2, <2>1, <2>4, <2>5, ReadingNow DEF Marked
    <2>7. Met(y, Changes, Told(a))
        BY <2>4, <2>5 DEF Met
    <2>8. ReportShown(y)
        BY <2>3, <2>4, ReadingNow DEF ReportShown, this
    <2>9. y.reports = After[Told(a)].reports
        BY <1>1, <2>1, <2>2, <2>4, ToldMoves DEF FeedKnown, l
    <2> QED BY <2>1, <2>3a, <2>4, <2>6, <2>7, <2>8, <2>9, <1>2, ReadingNow DEF FeedKnown, x, Here
  <1> QED BY <1>3, <1>4

-----------------------------------------------------------------------------
(* What a handler leaves.                                                     *)

LEMMA RowsAre ==
  ASSUME NEW a, Handling(a)
  PROVE  /\ rows = [feed |-> rows.feed, expiry |-> rows.expiry, pools |-> rows.pools,
                    blended |-> rows.blended]
         /\ rows.pools \in [Pool -> Nat] /\ \A p \in Pool : rows.pools[p] <= number
         /\ \A j \in 1..a : logs[j].event = "Joins" => logs[j].pool \in PoolIds
         /\ rows.feed # NoRow => rows.expiry # NoRow /\ PoolIds # {}
         /\ PoolIds = {} => Unmoved(rows) = {}
  BY Pools DEF Handling, Knows

LEMMA StampedPools ==
  ASSUME NEW a, Handling(a), NEW w \in SUBSET Pool, NEW r, r.pools = Stamped(w)
  PROVE  /\ r.pools \in [Pool -> Nat] /\ \A p \in Pool : r.pools[p] <= number
         /\ PoolsOf(r) = PoolIds \cup w
         /\ Unmoved(r) \subseteq Unmoved(rows)
  <1>1. \A p \in Pool : r.pools[p] = IF p \in w THEN number ELSE rows.pools[p]
      BY DEF Stamped
  <1>2. r.pools \in [Pool -> Nat]
      BY RowsAre, ReadingNow DEF Stamped
  <1> QED BY <1>1, <1>2, RowsAre, ReadingNow, SMTT(30) DEF PoolsOf, Unmoved, PoolIds

LEMMA JoinsStay ==
  ASSUME NEW a, Handling(a), NEW r, PoolIds \subseteq PoolsOf(r),
         this.event = "Joins" => this.pool \in PoolsOf(r)
  PROVE  \A j \in 1..Told(a) : logs[j].event = "Joins" => logs[j].pool \in PoolsOf(r)
  <1> SUFFICES ASSUME NEW j \in 1..Told(a), logs[j].event = "Joins"
               PROVE  logs[j].pool \in PoolsOf(r)
      OBVIOUS
  <1>1. CASE j <= a
      BY <1>1, RowsAre, ReadingNow
  <1>2. CASE ~(j <= a)
    <2>1. j = place
        BY <1>2, ReadingNow
    <2> QED BY <2>1 DEF this
  <1> QED BY <1>1, <1>2

LEMMA UnknownStays ==
  ASSUME NEW a, Handling(a), NEW r, Unmoved(r) \subseteq Unmoved(rows)
  PROVE  /\ /\ ExpiryUnknown(rows, a)
            /\ Unmoved(r) # {} => this.event \notin Expiries \cup Changes
            => ExpiryUnknown(r, Told(a))
         /\ /\ FeedUnknown(rows, a)
            /\ Unmoved(r) # {} => this.event \notin Changes
            => FeedUnknown(r, Told(a))
  <1>1. ASSUME NEW events, this.event \notin events,
               \A j \in 1..a : logs[j].event \notin events
        PROVE  \A j \in 1..Told(a) : logs[j].event \notin events
      BY <1>1, ReadingNow DEF this
  <1>2. ASSUME ExpiryUnknown(rows, a), Unmoved(r) # {}, this.event \notin Expiries \cup Changes
        PROVE  /\ After[Told(a)].token = opening.token /\ After[Told(a)].global = opening.global
               /\ \A j \in 1..Told(a) : logs[j].event \notin Expiries \cup Changes
    <2>1. \A j \in 1..a : logs[j].event \notin Expiries \cup Changes
        BY <1>2 DEF ExpiryUnknown
    <2> QED BY <1>1, <1>2, <2>1, ToldMoves DEF ExpiryUnknown
  <1>3. ASSUME FeedUnknown(rows, a), Unmoved(r) # {}, this.event \notin Changes
        PROVE  /\ After[Told(a)].reports = opening.reports
               /\ \A j \in 1..Told(a) : logs[j].event \notin Changes
    <2>1. \A j \in 1..a : logs[j].event \notin Changes
        BY <1>3 DEF FeedUnknown
    <2> QED BY <1>1, <1>3, <2>1, ToldMoves DEF FeedUnknown
  <1>4. ASSUME ExpiryUnknown(rows, a), Unmoved(r) # {} => this.event \notin Expiries \cup Changes
        PROVE  ExpiryUnknown(r, Told(a))
      BY <1>2, <1>4 DEF ExpiryUnknown
  <1>5. ASSUME FeedUnknown(rows, a), Unmoved(r) # {} => this.event \notin Changes
        PROVE  FeedUnknown(r, Told(a))
      BY <1>3, <1>5 DEF FeedUnknown
  <1> QED BY <1>4, <1>5

\* A watermark does not go back.
Onward(row, next) ==
  next.mark = row.mark \/ (~Behind(row) /\ ~On(row) /\ next.mark = Here)

\* No other log than a median touches what is blended.
LEMMA BlendsRest ==
  ASSUME NEW a, Handling(a), NEW r, r.blended = rows.blended,
         \A i \in 1..Told(a) : Awaited(r, i) => Awaited(rows, i),
         rows.feed # NoRow => r.feed # NoRow /\ Onward(rows.feed, r.feed),
         this.event # "Median"
  PROVE  BlendsKnown(r, Told(a))
  <1>1. BlendsKnown(rows, a)
      BY DEF Handling, Knows
  <1>2. r.blended \in [1..Len(logs) -> 0..2]
        /\ \A i \in 1..Len(logs) : i > Told(a) => r.blended[i] = 0
      BY <1>1, ReadingNow DEF BlendsKnown
  <1>3. ASSUME NEW i \in 1..Told(a), Awaited(r, i)
        PROVE  r.blended[i] = 1 /\ r.feed # NoRow /\ r.feed.mark[1] = number /\ i <= r.feed.mark[2]
    <2>1. i \in 1..a
      <3>1. i # place
          BY <1>3 DEF Awaited, this
      <3> QED BY <3>1, ReadingNow
    <2>2. /\ rows.blended[i] = 1 /\ rows.feed # NoRow
          /\ rows.feed.mark[1] = number /\ i <= rows.feed.mark[2]
        BY <1>1, <1>3, <2>1 DEF BlendsKnown
    <2>3. rows.feed.mark \in Nat \X Nat /\ Marked(rows.feed, a) /\ rows.feed.through \in Nat
        BY <2>2 DEF Handling, Knows, FeedKnown, FeedRow
    <2>4. CASE r.feed.mark = rows.feed.mark
        BY <2>2, <2>4
    <2>5. CASE ~Behind(rows.feed) /\ ~On(rows.feed) /\ r.feed.mark = Here
      <3>1. ~(place <= rows.feed.mark[2])
          BY <2>2, <2>3, <2>5, Stands
      <3> QED BY <2>1, <2>2, <2>3, <2>5, <3>1, HereIs, ReadingNow
    <2> QED BY <2>2, <2>4, <2>5 DEF Onward
  <1> QED BY <1>2, <1>3 DEF BlendsKnown

\* Where no pool refers to the feed there is no row to be changed.
LEMMA Passes ==
  ASSUME NEW a, Handling(a), PoolIds = {}, this.event # "Joins",
         this.event \in Expiries => rows.expiry = NoRow,
         NEW r, r = [rows EXCEPT !.blended = r.blended], BlendsKnown(r, Told(a))
  PROVE  Knows(r, Told(a))
  <1>1. /\ r = [feed |-> r.feed, expiry |-> r.expiry, pools |-> r.pools, blended |-> r.blended]
        /\ r.feed = rows.feed /\ r.expiry = rows.expiry /\ r.pools = rows.pools
      BY RowsAre
  <1>2. PoolsOf(r) = PoolIds /\ Unmoved(r) = Unmoved(rows) /\ Unmoved(r) = {}
        /\ rows.feed = NoRow
      BY <1>1, RowsAre, Pools DEF PoolsOf, Unmoved
  <1>3. \A j \in 1..Told(a) : logs[j].event = "Joins" => logs[j].pool \in PoolsOf(r)
      BY <1>2, JoinsStay
  <1>4. IF r.expiry = NoRow THEN ExpiryUnknown(r, Told(a)) ELSE ExpiryKnown(r.expiry, Told(a))
    <2>1. CASE r.expiry = NoRow
        BY <1>2, <2>1 DEF ExpiryUnknown
    <2>2. CASE r.expiry # NoRow
        BY <1>1, <2>2, ExpiryRests DEF Handling, Knows
    <2> QED BY <2>1, <2>2
  <1>5. FeedUnknown(r, Told(a))
      BY <1>2 DEF FeedUnknown
  <1> QED BY <1>1, <1>2, <1>3, <1>4, <1>5, RowsAre DEF Knows

LEMMA PassesUnread ==
  ASSUME NEW a, Handling(a), PoolIds = {}, this.event \in Changes \cup Expiries,
         this.event \in Expiries => rows.expiry = NoRow
  PROVE  Knows(rows, Told(a))
  <1>1. this.event # "Median" /\ this.event # "Joins"
      BY DEF Changes, Expiries
  <1>2. BlendsKnown(rows, Told(a))
      BY <1>1, BlendsRest DEF Onward
  <1>3. rows = [rows EXCEPT !.blended = rows.blended]
      BY RowsAre
  <1> QED BY <1>1, <1>2, <1>3, Passes

\* A report or a removal, with or without its first reading.
LEMMA ResolveKnows ==
  ASSUME NEW a, Handling(a), this.event \in Changes, PoolIds # {}, NEW w \in SUBSET PoolIds,
         NEW r, r = [rows EXCEPT !.feed = FeedAfter, !.expiry = ExpiryBase, !.pools = Stamped(w)]
  PROVE  Knows(r, Told(a)) /\ r.feed # NoRow
  <1>1. /\ r = [feed |-> r.feed, expiry |-> r.expiry, pools |-> r.pools, blended |-> r.blended]
        /\ r.feed = FeedAfter /\ r.expiry = ExpiryBase /\ r.pools = Stamped(w)
        /\ r.blended = rows.blended
      BY RowsAre
  <1>2. /\ r.pools \in [Pool -> Nat] /\ \A p \in Pool : r.pools[p] <= number
        /\ PoolsOf(r) = PoolIds
    <2>1. w \in SUBSET Pool /\ PoolIds \cup w = PoolIds
        BY DEF PoolIds
    <2> QED BY <1>1, <2>1, StampedPools
  <1>3. this.event \notin Expiries /\ this.event # "Joins" /\ this.event # "Median"
      BY DEF Changes, Expiries
  <1>4. \A j \in 1..Told(a) : logs[j].event = "Joins" => logs[j].pool \in PoolsOf(r)
      BY <1>2, <1>3, JoinsStay
  <1>5. ExpiryKnown(r.expiry, Told(a)) /\ r.expiry # NoRow
    <2>1. ExpiryKnown(ExpiryBase, a)
        BY ExpiryReads
    <2>2. ExpiryKnown(r.expiry, Told(a))
        BY <1>1, <1>3, <2>1, ExpiryRests
    <2> QED BY <2>2, RowAssumption DEF ExpiryKnown
  <1>6. FeedKnown(r.feed, Told(a)) /\ r.feed # NoRow
    <2>1. FeedKnown(r.feed, Told(a))
        BY <1>1, FeedMoves
    <2> QED BY <2>1, RowAssumption DEF FeedKnown
  <1>7. r.feed.expiry = EffectiveExpiry(r.expiry)
      BY <1>1, FeedReads, FeedMoves
  <1>8. BlendsKnown(r, Told(a))
    <2>1. \A i \in 1..Told(a) : Awaited(r, i) => Awaited(rows, i)
        BY <1>2, Pools DEF Awaited
    <2>2. rows.feed # NoRow => Onward(rows.feed, r.feed)
        BY <1>1, FeedReads, FeedMoves DEF Onward
    <2> QED BY <1>1, <1>3, <1>6, <2>1, <2>2, BlendsRest
  <1> QED BY <1>1, <1>2, <1>4, <1>5, <1>6, <1>7, <1>8 DEF Knows

\* The feed's row when an expiry is set or a median claimed.
LEMMA FeedExpires ==
  ASSUME NEW a, Handling(a), this.event \in Expiries, NEW x, ExpiryKnown(x, Told(a)),
         rows.feed # NoRow, Told(a) = a => x = rows.expiry
  PROVE  /\ FeedKnown(FeedExpiry(x), Told(a))
         /\ FeedExpiry(x).expiry = EffectiveExpiry(x)
         /\ Onward(rows.feed, FeedExpiry(x))
  <1> DEFINE f == rows.feed
  <1>1. FeedKnown(f, a) /\ f.expiry = EffectiveExpiry(rows.expiry)
      BY DEF Handling, Knows
  <1>2. EffectiveExpiry(x) \in Nat
      BY DEF EffectiveExpiry, ExpiryKnown, ExpiryRow
  <1>3. this.event \notin Changes
      BY DEF Changes, Expiries
  <1> HIDE DEF f
  <1>4. f \in FeedRow /\ Marked(f, a) /\ f.mark \in Nat \X Nat /\ f.through \in Nat
      BY <1>1 DEF FeedKnown, FeedRow
  <1>5. CASE Behind(f) \/ On(f)
    <2>1. Told(a) = a
        BY <1>4, <1>5, Stands, ReadingNow DEF Marked
    <2>2. FeedExpiry(x) = f
        BY <1>5 DEF FeedExpiry, f
    <2> QED BY <1>1, <2>1, <2>2 DEF Onward, f
  <1>6. CASE ~(Behind(f) \/ On(f))
    <2> DEFINE y == [f EXCEPT !.expiry = EffectiveExpiry(x), !.mark = Here]
    <2>1. FeedExpiry(x) = y
        BY <1>6 DEF FeedExpiry, f
    <2>2. FeedKnown(y, Told(a))
        BY <1>1, <1>2, <1>3, <1>6, FeedMarks
    <2>3. y.expiry = EffectiveExpiry(x) /\ y.mark = Here
        BY <1>4 DEF FeedRow
    <2> QED BY <1>6, <2>1, <2>2, <2>3 DEF Onward, f
  <1> QED BY <1>5, <1>6

LEMMA ExpiryKnows ==
  ASSUME NEW a, Handling(a), Relevant, NEW field, NEW w \in SUBSET PoolIds,
         \/ this.event = "TokenExpiry" /\ field = "token"
         \/ this.event = "GlobalExpiry" /\ field = "global",
         NEW r, r = [rows EXCEPT !.expiry = ExpiryAfter(field),
                                 !.feed = FeedExpiry(ExpiryAfter(field)), !.pools = Stamped(w)]
  PROVE  Knows(r, Told(a))
  <1> DEFINE x == ExpiryAfter(field)
  <1>1. /\ r = [feed |-> r.feed, expiry |-> r.expiry, pools |-> r.pools, blended |-> r.blended]
        /\ r.feed = FeedExpiry(x) /\ r.expiry = x /\ r.pools = Stamped(w)
        /\ r.blended = rows.blended
      BY RowsAre
  <1> HIDE DEF x
  <1>2. /\ r.pools \in [Pool -> Nat] /\ \A p \in Pool : r.pools[p] <= number
        /\ PoolsOf(r) = PoolIds /\ Unmoved(r) \subseteq Unmoved(rows)
    <2>1. w \in SUBSET Pool /\ PoolIds \cup w = PoolIds
        BY DEF PoolIds
    <2> QED BY <1>1, <2>1, StampedPools
  <1>3. /\ this.event \in Expiries /\ this.event \notin Changes
        /\ this.event # "Joins" /\ this.event # "Median"
      BY DEF Changes, Expiries
  <1>4. \A j \in 1..Told(a) : logs[j].event = "Joins" => logs[j].pool \in PoolsOf(r)
      BY <1>2, <1>3, JoinsStay
  <1>5. ExpiryKnown(x, Told(a)) /\ x # NoRow
    <2>1. ExpiryKnown(x, Told(a))
        BY ExpiryMoves DEF x
    <2> QED BY <2>1, RowAssumption DEF ExpiryKnown
  <1>6. IF r.feed = NoRow THEN FeedUnknown(r, Told(a))
        ELSE /\ FeedKnown(r.feed, Told(a)) /\ r.feed.expiry = EffectiveExpiry(x)
             /\ PoolsOf(r) # {}
    <2>1. CASE rows.feed = NoRow
      <3>1. r.feed = NoRow /\ FeedUnknown(rows, a)
          BY <1>1, <2>1 DEF FeedExpiry, Handling, Knows
      <3> QED BY <1>2, <1>3, <3>1, UnknownStays
    <2>2. CASE rows.feed # NoRow
      <3>1. Told(a) = a => x = rows.expiry
        <4> SUFFICES ASSUME Told(a) = a PROVE x = rows.expiry
            OBVIOUS
        <4>1. rows.expiry # NoRow /\ ExpiryBase = rows.expiry /\ ExpiryKnown(rows.expiry, a)
            BY <1>3, <2>2, RowsAre, ExpiryReads DEF Handling, Knows
        <4>2. rows.expiry.through = number \/ Ignored(rows.expiry) \/ On(rows.expiry)
          <5>1. rows.expiry \in ExpiryRow /\ Marked(rows.expiry, a)
                /\ rows.expiry.mark \in Nat \X Nat /\ rows.expiry.through \in Nat
              BY <4>1 DEF ExpiryKnown, ExpiryRow
          <5>2. CASE rows.expiry.through < number
            <6>1. Met(rows.expiry, Expiries, a)
                BY <4>1, <5>2 DEF ExpiryKnown
            <6>2. rows.expiry.mark[1] = number /\ place <= rows.expiry.mark[2]
                BY <1>3, <6>1, MetIsMarked
            <6> QED BY <5>1, <6>2, Stands
          <5> QED BY <5>1, <5>2, ReadingNow DEF Marked
        <4> QED BY <4>1, <4>2 DEF ExpiryAfter, x
      <3>2. FeedKnown(r.feed, Told(a)) /\ r.feed.expiry = EffectiveExpiry(x)
          BY <1>1, <1>3, <1>5, <2>2, <3>1, FeedExpires
      <3>3. r.feed # NoRow
          BY <3>2, RowAssumption DEF FeedKnown
      <3>4. PoolsOf(r) # {}
          BY <1>2, <2>2, RowsAre
      <3> QED BY <3>2, <3>3, <3>4
    <2> QED BY <2>1, <2>2
  <1>7. BlendsKnown(r, Told(a))
    <2>1. \A i \in 1..Told(a) : Awaited(r, i) => Awaited(rows, i)
        BY <1>2, Pools DEF Awaited
    <2>2. rows.feed # NoRow => r.feed # NoRow /\ Onward(rows.feed, r.feed)
      <3> SUFFICES ASSUME rows.feed # NoRow
                   PROVE  r.feed # NoRow /\ Onward(rows.feed, r.feed)
          OBVIOUS
      <3>1. FeedKnown(rows.feed, a) /\ rows.feed \in FeedRow
          BY DEF Handling, Knows, FeedKnown
      <3>2. r.feed = rows.feed \/
              (~Behind(rows.feed) /\ ~On(rows.feed) /\ r.feed.mark = Here /\ r.feed \in FeedRow)
        <4>1. EffectiveExpiry(x) \in Nat
            BY <1>5 DEF EffectiveExpiry, ExpiryKnown, ExpiryRow
        <4>2. [rows.feed EXCEPT !.expiry = EffectiveExpiry(x), !.mark = Here] \in FeedRow
              /\ [rows.feed EXCEPT !.expiry = EffectiveExpiry(x), !.mark = Here].mark = Here
            BY <3>1, <4>1, HereIs DEF FeedRow
        <4> QED BY <1>1, <4>2 DEF FeedExpiry
      <3> QED BY <3>2, RowAssumption DEF Onward
    <2> QED BY <1>1, <1>3, <2>1, <2>2, BlendsRest
  <1> QED BY <1>1, <1>2, <1>4, <1>5, <1>6, <1>7 DEF Knows

\* A pool comes to the feed, or is written as one of it.
LEMMA WrittenKnows ==
  ASSUME NEW a, Handling(a), PoolsAnnounced, this.event \in {"Joins", "Written"},
         NEW r, r = [rows EXCEPT !.pools = Stamped({this.pool})]
  PROVE  Knows(r, Told(a))
  <1>1. /\ r = [feed |-> r.feed, expiry |-> r.expiry, pools |-> r.pools, blended |-> r.blended]
        /\ r.feed = rows.feed /\ r.expiry = rows.expiry /\ r.pools = Stamped({this.pool})
        /\ r.blended = rows.blended
      BY RowsAre
  <1>2. this.pool \in Pool
      BY ReadingNow DEF Log
  <1>3. /\ r.pools \in [Pool -> Nat] /\ \A p \in Pool : r.pools[p] <= number
        /\ PoolsOf(r) = PoolIds \cup {this.pool} /\ Unmoved(r) \subseteq Unmoved(rows)
    <2>1. {this.pool} \in SUBSET Pool
        BY <1>2
    <2> QED BY <1>1, <2>1, StampedPools
  <1>4. this.event \notin Expiries /\ this.event \notin Changes /\ this.event # "Median"
      BY DEF Changes, Expiries
  <1>5. \A j \in 1..Told(a) : logs[j].event = "Joins" => logs[j].pool \in PoolsOf(r)
      BY <1>3, JoinsStay
  <1>6. IF r.expiry = NoRow THEN ExpiryUnknown(r, Told(a)) ELSE ExpiryKnown(r.expiry, Told(a))
    <2>1. CASE rows.expiry = NoRow
        BY <1>1, <1>3, <1>4, <2>1, UnknownStays DEF Handling, Knows
    <2>2. CASE rows.expiry # NoRow
        BY <1>1, <1>4, <2>2, ExpiryRests DEF Handling, Knows
    <2> QED BY <2>1, <2>2
  <1>7. IF r.feed = NoRow THEN FeedUnknown(r, Told(a)) ELSE FeedKnown(r.feed, Told(a))
    <2>1. CASE rows.feed = NoRow
        BY <1>1, <1>3, <1>4, <2>1, UnknownStays DEF Handling, Knows
    <2>2. CASE rows.feed # NoRow
        BY <1>1, <1>4, <2>2, FeedRests DEF Handling, Knows
    <2> QED BY <2>1, <2>2
  <1>8. r.feed # NoRow => /\ r.expiry # NoRow /\ PoolsOf(r) # {}
                          /\ r.feed.expiry = EffectiveExpiry(r.expiry)
      BY <1>1, <1>3 DEF Handling, Knows
  <1>9. ASSUME NEW i \in 1..Told(a), Awaited(r, i) PROVE Awaited(rows, i)
    <2>1. i \in 1..Len(logs) /\ i # place
      <3>1. i # place
          BY <1>4, <1>9 DEF Awaited, this
      <3> QED BY <3>1, ReadingNow
    <2>2. PICK p \in PoolsOf(r) : \A j \in DOMAIN logs :
                   logs[j].event = "Joins" /\ logs[j].pool = p => j < i
        BY <1>9 DEF Awaited
    <2>3. p \in PoolIds
      <3> SUFFICES ASSUME p \notin PoolIds PROVE FALSE
          OBVIOUS
      <3>1. p = this.pool /\ p \in Pool
          BY <1>2, <1>3
      <3>2. CASE this.event = "Joins"
        <4>1. place < i /\ place \in 1..Len(logs)
          <5>1. place \in DOMAIN logs
              BY ReadingNow DEF Handling, BlockType
          <5> QED BY <2>2, <3>1, <3>2, <5>1, ReadingNow DEF this
        <4>2. place \in 1..a
            BY <4>1, ReadingNow
        <4> QED BY <3>1, <3>2, <4>2, RowsAre DEF this
      <3>3. CASE this.event = "Written"
        <4>1. PICK S \in SUBSET Pool :
                /\ S \subseteq PoolsOf(rows)
                /\ \A k \in DOMAIN logs : logs[k].event = "Written" =>
                     logs[k].pool \in S \cup {logs[j].pool :
                                              j \in {m \in 1..(k - 1) : logs[m].event = "Joins"}}
            BY DEF PoolsAnnounced, Announced
        <4>2. place \in DOMAIN logs
            BY ReadingNow DEF Handling, BlockType
        <4>3. p \in S \cup {logs[j].pool : j \in {m \in 1..(place - 1) : logs[m].event = "Joins"}}
            BY <3>1, <3>3, <4>1, <4>2 DEF this
        <4>4. PICK j \in 1..(place - 1) : logs[j].event = "Joins" /\ logs[j].pool = p
            BY <4>1, <4>3, Pools
        <4>5. j \in 1..a
            BY ReadingNow
        <4> QED BY <4>4, <4>5, RowsAre
      <3> QED BY <3>2, <3>3
    <2> QED BY <1>9, <2>2, <2>3, Pools DEF Awaited
  <1>10. BlendsKnown(r, Told(a))
      BY <1>1, <1>4, <1>9, BlendsRest DEF Onward
  <1> QED BY <1>1, <1>3, <1>5, <1>6, <1>7, <1>8, <1>10 DEF Knows

LEMMA BlendedOnce ==
  ASSUME NEW a, Handling(a)
  PROVE  /\ Blended \in [1..Len(logs) -> 0..2]
         /\ \A i \in 1..Len(logs) : i # place => Blended[i] = rows.blended[i]
         /\ rows.blended[place] = 0 => Blended[place] = 1
  <1>1. rows.blended \in [1..Len(logs) -> 0..2]
      BY DEF Handling, Knows, BlendsKnown
  <1>2. place \in 1..Len(logs)
      BY ReadingNow
  <1> DEFINE n == rows.blended[place]
             m == IF n = 2 THEN 2 ELSE n + 1
  <1>3. Blended = [rows.blended EXCEPT ![place] = m]
      BY DEF Blended
  <1>4. n \in 0..2 /\ m \in 0..2 /\ (n = 0 => m = 1)
      BY <1>1, <1>2
  <1> HIDE DEF m
  <1> QED BY <1>1, <1>2, <1>3, <1>4

\* A median where there is no pool, one that was claimed before, and one that is not.
LEMMA UnclaimedKnows ==
  ASSUME NEW a, Handling(a), this.event = "Median", PoolIds = {},
         NEW r, r = [rows EXCEPT !.blended = Blended]
  PROVE  Knows(r, Told(a))
  <1>1. r.blended = Blended /\ r.pools = rows.pools
      BY RowsAre
  <1>2. PoolsOf(r) = {}
      BY <1>1, Pools DEF PoolsOf
  <1>3. BlendsKnown(rows, a)
      BY DEF Handling, Knows
  <1>4. \A i \in 1..Len(logs) : i > Told(a) => r.blended[i] = 0
      BY <1>1, <1>3, BlendedOnce, ReadingNow DEF BlendsKnown
  <1>5. BlendsKnown(r, Told(a))
      BY <1>1, <1>2, <1>4, BlendedOnce DEF BlendsKnown, Awaited
  <1>6. r = [rows EXCEPT !.blended = r.blended]
      BY <1>1
  <1>7. this.event # "Joins" /\ this.event \notin Expiries
      BY DEF Expiries
  <1> QED BY <1>5, <1>6, <1>7, Passes

LEMMA ClaimedKnows ==
  ASSUME NEW a, Handling(a), rows.feed # NoRow, Behind(rows.feed) \/ On(rows.feed)
  PROVE  Knows(rows, Told(a))
  <1>1. rows.feed \in FeedRow /\ Marked(rows.feed, a)
      BY DEF Handling, Knows, FeedKnown
  <1>2. rows.feed.mark \in Nat \X Nat /\ rows.feed.through \in Nat
      BY <1>1 DEF FeedRow
  <1>3. rows.feed.mark[1] = number /\ place <= rows.feed.mark[2]
      BY <1>1, <1>2, Stands
  <1>4. Told(a) = a
      BY <1>1, <1>2, <1>3, ReadingNow DEF Marked
  <1> QED BY <1>4 DEF Handling

LEMMA ClaimKnows ==
  ASSUME NEW a, Handling(a), this.event = "Median", rows.feed # NoRow,
         ~Behind(rows.feed), ~On(rows.feed), NEW w \in SUBSET PoolIds,
         NEW r, r = [rows EXCEPT !.feed = Claim(@), !.pools = Stamped(w), !.blended = Blended]
  PROVE  Knows(r, Told(a))
  <1>1. /\ r = [feed |-> r.feed, expiry |-> r.expiry, pools |-> r.pools, blended |-> r.blended]
        /\ r.feed = Claim(rows.feed) /\ r.expiry = rows.expiry /\ r.pools = Stamped(w)
        /\ r.blended = Blended
      BY RowsAre
  <1>2. /\ r.pools \in [Pool -> Nat] /\ \A p \in Pool : r.pools[p] <= number
        /\ PoolsOf(r) = PoolIds
    <2>1. w \in SUBSET Pool /\ PoolIds \cup w = PoolIds
        BY DEF PoolIds
    <2> QED BY <1>1, <2>1, StampedPools
  <1>3. this.event \notin Expiries /\ this.event \notin Changes /\ this.event # "Joins"
      BY DEF Changes, Expiries
  <1>4. \A j \in 1..Told(a) : logs[j].event = "Joins" => logs[j].pool \in PoolsOf(r)
      BY <1>2, <1>3, JoinsStay
  <1>5. r.expiry # NoRow /\ ExpiryKnown(r.expiry, Told(a))
      BY <1>1, <1>3, RowsAre, ExpiryRests DEF Handling, Knows
  <1> DEFINE f == rows.feed
  <1>6. FeedKnown(f, a) /\ f.expiry = EffectiveExpiry(rows.expiry) /\ f \in FeedRow
        /\ f.mark \in Nat \X Nat /\ f.through \in Nat /\ Marked(f, a)
      BY DEF Handling, Knows, FeedKnown, FeedRow
  <1>7. /\ FeedKnown(r.feed, Told(a)) /\ r.feed # NoRow
        /\ r.feed.expiry = EffectiveExpiry(r.expiry) /\ r.feed.mark = Here
    <2> HIDE DEF f
    <2>1. f.expiry \in Nat /\ [f EXCEPT !.expiry = f.expiry, !.mark = Here] = Claim(f)
          /\ Claim(f).mark = Here /\ Claim(f).expiry = f.expiry
        BY <1>6, HereIs DEF FeedRow, Claim
    <2>2. FeedKnown(Claim(f), Told(a))
      <3>1. FeedKnown([f EXCEPT !.expiry = f.expiry, !.mark = Here], Told(a))
        <4>1. ~Behind(f) /\ ~On(f)
            BY DEF f
        <4> QED BY <1>3, <1>6, <2>1, <4>1, FeedMarks
      <3> QED BY <2>1, <3>1
    <2> QED BY <1>1, <1>6, <2>1, <2>2, RowAssumption DEF FeedKnown, f
  <1>8. BlendsKnown(r, Told(a))
    <2>1. BlendsKnown(rows, a)
        BY DEF Handling, Knows
    <2>2. \A i \in 1..Len(logs) : i > Told(a) => r.blended[i] = 0
        BY <1>1, <2>1, BlendedOnce, ReadingNow DEF BlendsKnown
    <2>3. ASSUME NEW i \in 1..Told(a), Awaited(r, i)
          PROVE  r.blended[i] = 1 /\ i <= place
      <3>1. Awaited(rows, i)
          BY <1>2, <2>3, Pools DEF Awaited
      <3>2. ~(f.mark[1] = number /\ place <= f.mark[2])
          BY <1>6, Stands
      <3>3. i \in 1..a => /\ rows.blended[i] = 1 /\ f.mark[1] = number /\ i <= f.mark[2]
          BY <2>1, <3>1 DEF BlendsKnown
      <3>4. CASE i = place
        <4>1. ~(i \in 1..a)
            BY <3>2, <3>3, <3>4
        <4>2. rows.blended[place] = 0
            BY <2>1, <3>4, <4>1, ReadingNow DEF BlendsKnown
        <4> QED BY <1>1, <3>4, <4>2, BlendedOnce, ReadingNow
      <3>5. CASE i # place
        <4>1. i \in 1..a
            BY <3>5, ReadingNow
        <4>2. i <= place
            BY <1>6, <3>2, <3>3, <4>1, ReadingNow
        <4> QED BY <1>1, <3>3, <3>5, <4>1, <4>2, BlendedOnce, ReadingNow
      <3> QED BY <3>4, <3>5
    <2>4. r.feed.mark[1] = number /\ r.feed.mark[2] = place
        BY <1>7, HereIs
    <2> QED BY <1>1, <1>7, <2>2, <2>3, <2>4, BlendedOnce DEF BlendsKnown
  <1>9. PoolsOf(r) # {}
      BY <1>2, RowsAre
  <1> QED BY <1>1, <1>2, <1>4, <1>5, <1>7, <1>8, <1>9 DEF Knows

-----------------------------------------------------------------------------
(* The steps.                                                                 *)

\* Within a block the rows are judged by the same logs.
LEMMA KnownCarried ==
  ASSUME UNCHANGED <<number, opening, logs>>, NEW a, NEW r, Knows(r, a)
  PROVE  /\ r = rows' => Knows(rows, a)'
         /\ r = disk' => Knows(disk, a)'
  <1>1. After' = After /\ Closing' = Closing
      BY DEF After, Closing, Step, Reports
  <1> QED BY <1>1, ZenonT(40) DEF Knows, ExpiryUnknown, FeedUnknown, ExpiryKnown, FeedKnown, BlendsKnown,
             Marked, Met, ExpiryShown, ReportShown, Awaited, PoolsOf, Unmoved

LEMMA HandlerKnows ==
  ASSUME FeedInv, Handle, NEW a, Handling(a), NEW r, r = rows'
  PROVE  /\ Knows(r, Told(a))
         /\ this.event \in Changes /\ PoolsOf(r) # {} => r.feed # NoRow
         /\ PoolIds \subseteq PoolsOf(r)
  <1>1. CASE this.event \in Changes /\ PoolIds = {}
    <2>1. r = rows
        BY <1>1 DEF Handle, FeedReported, FeedReportRemoved, FeedMedianUpdated,
                    TokenReportExpirySet, ReportExpirySet, PoolWritten, Changes
    <2>2. this.event \notin Expiries
        BY <1>1 DEF Changes, Expiries
    <2> QED BY <1>1, <2>1, <2>2, PassesUnread, Pools
  <1>2. CASE this.event \in Changes /\ PoolIds # {}
    <2>1. PICK w \in SUBSET PoolIds :
            rows' = [rows EXCEPT !.feed = FeedAfter, !.expiry = ExpiryBase, !.pools = Stamped(w)]
        BY <1>2 DEF Handle, FeedReported, FeedReportRemoved, FeedMedianUpdated, ResolveFeed,
                    TokenReportExpirySet, ReportExpirySet, PoolWritten, Changes
    <2>2. r = [rows EXCEPT !.feed = FeedAfter, !.expiry = ExpiryBase, !.pools = Stamped(w)]
        BY <2>1
    <2>3. Knows(r, Told(a)) /\ r.feed # NoRow
        BY <1>2, <2>2, ResolveKnows
    <2>4. r.pools = Stamped(w) /\ w \in SUBSET Pool
        BY <2>2, RowsAre DEF PoolIds
    <2>5. PoolIds \subseteq PoolsOf(r)
        BY <2>4, StampedPools
    <2> QED BY <2>3, <2>5
  <1>3. CASE this.event = "Median"
    <2>1. CASE PoolIds = {}
      <3>1. r = [rows EXCEPT !.blended = Blended]
          BY <1>3, <2>1 DEF Handle, FeedReported, FeedReportRemoved, FeedMedianUpdated,
                    TokenReportExpirySet, ReportExpirySet, PoolWritten
      <3> QED BY <1>3, <2>1, <3>1, UnclaimedKnows DEF Changes
    <2>2. CASE PoolIds # {} /\ (Behind(rows.feed) \/ On(rows.feed))
      <3>1. r = rows /\ rows.feed # NoRow
          BY <1>3, <2>2 DEF Handle, Throws, FeedReported, FeedReportRemoved, FeedMedianUpdated,
                    TokenReportExpirySet, ReportExpirySet, PoolWritten
      <3> QED BY <1>3, <2>2, <3>1, ClaimedKnows, Pools DEF Changes
    <2>3. CASE PoolIds # {} /\ ~(Behind(rows.feed) \/ On(rows.feed))
      <3>1. PICK w \in SUBSET PoolIds :
              rows' = [rows EXCEPT !.feed = Claim(@), !.pools = Stamped(w), !.blended = Blended]
          BY <1>3, <2>3 DEF Handle, FeedReported, FeedReportRemoved, FeedMedianUpdated,
                    TokenReportExpirySet, ReportExpirySet, PoolWritten
      <3>2. r = [rows EXCEPT !.feed = Claim(@), !.pools = Stamped(w), !.blended = Blended]
          BY <3>1
      <3>3. rows.feed # NoRow
          BY <1>3, <2>3 DEF Handle, Throws
      <3>4. Knows(r, Told(a))
          BY <1>3, <2>3, <3>2, <3>3, ClaimKnows
      <3>5. r.pools = Stamped(w) /\ w \in SUBSET Pool
          BY <3>2, RowsAre DEF PoolIds
      <3>6. PoolIds \subseteq PoolsOf(r)
          BY <3>5, StampedPools
      <3> QED BY <1>3, <3>4, <3>6 DEF Changes
    <2> QED BY <2>1, <2>2, <2>3
  <1>4. CASE this.event \in Expiries /\ Relevant
    <2>0. PICK field : /\ \/ this.event = "TokenExpiry" /\ field = "token"
                          \/ this.event = "GlobalExpiry" /\ field = "global"
                       /\ ExpirySet(field)
      <3>1. CASE this.event = "TokenExpiry"
        <4>1. TokenReportExpirySet
            BY <3>1 DEF Handle, FeedReported, FeedReportRemoved, FeedMedianUpdated,
                    ReportExpirySet, PoolWritten
        <4>2. ExpirySet("token")
            BY <1>4, <4>1, Zenon DEF TokenReportExpirySet
        <4> QED BY <3>1, <4>2
      <3>2. CASE this.event = "GlobalExpiry"
        <4>1. ReportExpirySet
            BY <3>2 DEF Handle, FeedReported, FeedReportRemoved, FeedMedianUpdated,
                    TokenReportExpirySet, PoolWritten
        <4>2. ExpirySet("global")
            BY <1>4, <4>1, Zenon DEF ReportExpirySet
        <4> QED BY <3>2, <4>2
      <3> QED BY <1>4, <3>1, <3>2 DEF Expiries
    <2>1. PICK w \in SUBSET PoolIds :
            rows' = [rows EXCEPT !.expiry = ExpiryAfter(field),
                                 !.feed = FeedExpiry(ExpiryAfter(field)), !.pools = Stamped(w)]
        BY <2>0 DEF ExpirySet
    <2>2. r = [rows EXCEPT !.expiry = ExpiryAfter(field),
                           !.feed = FeedExpiry(ExpiryAfter(field)), !.pools = Stamped(w)]
        BY <2>1
    <2>3. Knows(r, Told(a))
        BY <1>4, <2>0, <2>2, ExpiryKnows
    <2>4. r.pools = Stamped(w) /\ w \in SUBSET Pool
        BY <2>2, RowsAre DEF PoolIds
    <2>5. PoolIds \subseteq PoolsOf(r)
        BY <2>4, StampedPools
    <2> QED BY <1>4, <2>3, <2>5 DEF Changes, Expiries
  <1>5. CASE this.event \in Expiries /\ ~Relevant
    <2>1. r = rows
        BY <1>5 DEF Handle, FeedReported, FeedReportRemoved, FeedMedianUpdated,
                    TokenReportExpirySet, ReportExpirySet, PoolWritten, Expiries
    <2>2. PoolIds = {} /\ rows.expiry = NoRow
        BY <1>5 DEF Relevant
    <2> QED BY <1>5, <2>1, <2>2, PassesUnread, Pools DEF Changes, Expiries
  <1>6. CASE this.event \in {"Joins", "Written"}
    <2>1. r = [rows EXCEPT !.pools = Stamped({this.pool})]
        BY <1>6 DEF Handle, FeedReported, FeedReportRemoved, FeedMedianUpdated,
                    TokenReportExpirySet, ReportExpirySet, PoolWritten
    <2>2. r.pools = Stamped({this.pool}) /\ {this.pool} \in SUBSET Pool
        BY <1>6, <2>1, RowsAre, ReadingNow DEF Log
    <2>3. PoolIds \subseteq PoolsOf(r)
        BY <2>2, StampedPools
    <2> QED BY <1>6, <2>1, <2>3, WrittenKnows DEF FeedInv, Changes
  <1>7. this.event \in Changes \cup Expiries \cup {"Median", "Joins", "Written"}
      BY ReadingNow DEF Log, Changes, Expiries
  <1> QED BY <1>1, <1>2, <1>3, <1>4, <1>5, <1>6, <1>7

\* A block's beginning, of a feed that the contract has and the rows have followed.
Starting ==
  /\ number \in Nat /\ number > Before /\ opening \in Contract /\ place = 1 /\ disk = rows
  /\ \E n \in Nat : logs \in LegalBlocks(n, DOMAIN opening.reports, PoolIds)
  /\ rows = [feed |-> rows.feed, expiry |-> rows.expiry, pools |-> rows.pools,
             blended |-> Unread(Len(logs))]
  /\ rows.pools \in [Pool -> Nat] /\ \A p \in Pool : rows.pools[p] < number
  /\ rows.expiry # NoRow =>
       /\ rows.expiry \in ExpiryRow
       /\ rows.expiry.through < number /\ rows.expiry.mark[1] < number
       /\ rows.expiry.token = opening.token /\ rows.expiry.global = opening.global
  /\ rows.feed # NoRow =>
       /\ rows.feed \in FeedRow
       /\ rows.feed.through < number /\ rows.feed.mark[1] < number
       /\ rows.feed.reports = opening.reports
       /\ rows.expiry # NoRow /\ PoolIds # {} /\ rows.feed.expiry = EffectiveExpiry(rows.expiry)

\* The reporters on the contract's list are those whose last log is a report.
LEMMA ListIsActive ==
  ASSUME number \in Nat, opening \in Contract, logs \in Seq(Log)
  PROVE  \A i \in 1..Len(logs) :
           DOMAIN After[i - 1].reports = Active(logs, i, DOMAIN opening.reports)
  <1> DEFINE Own(r, i) == {j \in Reporting(logs, i) : logs[j].by = r}
             Listed(i) == Active(logs, i, DOMAIN opening.reports)
             S == {n \in Nat : n < Len(logs) => /\ After[n] \in Contract
                                                /\ DOMAIN After[n].reports = Listed(n + 1)}
  <1>1. 0 \in S
    <2>1. After[0] = opening
        BY AfterUnfolds
    <2>2. \A r : Own(r, 1) = {}
        BY DEF Reporting
    <2>3. DOMAIN opening.reports \subseteq Reporter
        BY DEF Contract, Lists
    <2>4. Listed(1) = DOMAIN opening.reports
        BY <2>2, <2>3 DEF Active
    <2> QED BY <2>1, <2>4
  <1>2. ASSUME NEW n \in Nat, n \in S PROVE n + 1 \in S
    <2> SUFFICES ASSUME n + 1 < Len(logs)
                 PROVE  /\ After[n + 1] \in Contract
                        /\ DOMAIN After[n + 1].reports = Listed(n + 2)
        OBVIOUS
    <2> DEFINE e == logs[n + 1]
               l == After[n].reports
    <2>1. /\ After[n] \in Contract /\ DOMAIN l = Listed(n + 1)
          /\ e \in Log /\ n + 1 \in 1..Len(logs)
        BY <1>2
    <2>2. After[n + 1] = Step(After[n], e)
        BY <2>1, AfterUnfolds
    <2>3. /\ After[n + 1] \in Contract
          /\ e.event \in Changes => After[n + 1].reports = Reports(l, e)
          /\ e.event \notin Changes => After[n + 1].reports = l
        BY <2>1, <2>2, ContractMoves
    <2>4. CASE e.event \notin Changes
      <3>1. Reporting(logs, n + 2) = Reporting(logs, n + 1)
          BY <2>4 DEF Reporting, Changes
      <3>2. Listed(n + 2) = Listed(n + 1)
          BY <3>1 DEF Active
      <3> QED BY <2>1, <2>3, <2>4, <3>2
    <2>5. CASE e.event \in Changes
      <3>1. e.by \in Reporter
          BY <2>1, <2>5 DEF Log, Changes
      <3>2. ASSUME NEW r, r # e.by PROVE Own(r, n + 2) = Own(r, n + 1)
          BY <3>2 DEF Reporting
      <3>3. n + 1 \in Own(e.by, n + 2) /\ \A j \in Own(e.by, n + 2) : j \in Nat /\ n + 1 >= j
          BY <2>5 DEF Reporting, Changes
      <3>4. Max(Own(e.by, n + 2)) = n + 1
        <4> HIDE DEF Own
        <4>1. \E x \in Own(e.by, n + 2) : \A y \in Own(e.by, n + 2) : x >= y
            BY <3>3
        <4>2. /\ Max(Own(e.by, n + 2)) \in Own(e.by, n + 2)
              /\ \A y \in Own(e.by, n + 2) : Max(Own(e.by, n + 2)) >= y
            BY <4>1, Zenon DEF Max
        <4> QED BY <3>3, <4>2
      <3>5. e.by \in Listed(n + 2) <=> e.event = "Reported"
          BY <3>1, <3>3, <3>4 DEF Active
      <3>6. ASSUME NEW r \in Reporter, r # e.by PROVE r \in Listed(n + 2) <=> r \in Listed(n + 1)
          BY <3>2, <3>6 DEF Active
      <3>7. DOMAIN Reports(l, e) = IF e.event = "Removed" THEN DOMAIN l \ {e.by}
                                   ELSE DOMAIN l \cup {e.by}
          BY DEF Reports
      <3>8. Listed(n + 1) \subseteq Reporter /\ Listed(n + 2) \subseteq Reporter
          BY DEF Active
      <3> HIDE DEF Listed
      <3> QED BY <2>1, <2>3, <2>5, <3>1, <3>5, <3>6, <3>7, <3>8 DEF Changes
    <2> QED BY <2>3, <2>4, <2>5
  <1> HIDE DEF S
  <1>3. Nat \subseteq S
      BY <1>1, <1>2, Upward
  <1>4. ASSUME NEW i \in 1..Len(logs) PROVE DOMAIN After[i - 1].reports = Listed(i)
    <2>1. i - 1 \in Nat /\ i - 1 < Len(logs) /\ (i - 1) + 1 = i
        OBVIOUS
    <2>2. i - 1 \in S
        BY <1>3, <2>1
    <2> QED BY <2>1, <2>2 DEF S
  <1> QED BY <1>4

LEMMA StartsKnown == Starting => FeedInv
  <1> SUFFICES ASSUME Starting PROVE FeedInv
      OBVIOUS
  <1>1. PICK n \in Nat : logs \in LegalBlocks(n, DOMAIN opening.reports, PoolIds)
      BY DEF Starting
  <1>2. logs \in Seq(Log)
    <2>1. logs \in SeqOf(Log, n)
        BY <1>1 DEF LegalBlocks
    <2>2. PICK m \in 0..n : logs \in [1..m -> Log]
        BY <2>1 DEF SeqOf
    <2> QED BY <2>2
  <1>3. BlockType
      BY <1>2 DEF BlockType, Starting
  <1>4. \A i \in DOMAIN logs :
          /\ logs[i].event = "Median" => i - 1 \in Reporting(logs, i)
          /\ logs[i].event = "Removed" => logs[i].by \in Active(logs, i, DOMAIN opening.reports)
          /\ logs[i].event = "Written" => logs[i].pool \in
               PoolIds \cup {logs[j].pool : j \in {k \in 1..(i - 1) : logs[k].event = "Joins"}}
      BY <1>1 DEF LegalBlocks
  <1>5. LogsInOrder
    <2> SUFFICES ASSUME NEW i \in DOMAIN logs
                 PROVE  /\ logs[i].event = "Removed" => logs[i].by \in DOMAIN After[i - 1].reports
                        /\ logs[i].event = "Median" => i > 1 /\ logs[i - 1].event \in Changes
        BY DEF LogsInOrder
    <2>1. i \in 1..Len(logs)
        BY <1>2
    <2>2. DOMAIN After[i - 1].reports = Active(logs, i, DOMAIN opening.reports)
        BY <1>2, <2>1, ListIsActive DEF Starting
    <2>3. logs[i].event = "Median" => i - 1 \in 1..(i - 1) /\ logs[i - 1].event \in Changes
        BY <1>4 DEF Reporting, Changes
    <2> QED BY <1>4, <2>1, <2>2, <2>3
  <1>6. PoolsOf(rows) = PoolIds /\ PoolsOf(disk) = PoolIds
      BY DEF PoolsOf, PoolIds, Starting
  <1>7. PoolsAnnounced
    <2>1. PoolIds \in SUBSET Pool
        BY DEF PoolIds
    <2> QED BY <1>4, <1>6, <2>1 DEF PoolsAnnounced, Announced
  <1>8. ListHasRow
      BY DEF ListHasRow, Starting
  <1>9. Knows(rows, 0)
    <2>1. After[0] = opening /\ Len(logs) \in Nat
        BY <1>2, AfterUnfolds
    <2>2. ExpiryUnknown(rows, 0) /\ FeedUnknown(rows, 0)
        BY <2>1 DEF ExpiryUnknown, FeedUnknown
    <2>3. rows.expiry # NoRow => ExpiryKnown(rows.expiry, 0)
        BY <2>1 DEF Starting, ExpiryKnown, ExpiryRow, Marked, Met
    <2>4. rows.feed # NoRow => FeedKnown(rows.feed, 0)
        BY <2>1 DEF Starting, FeedKnown, FeedRow, Marked, Met
    <2>5. rows.blended = [k \in 1..Len(logs) |-> 0]
        BY DEF Starting, Unread
    <2>6. BlendsKnown(rows, 0)
        BY <2>1, <2>5 DEF BlendsKnown
    <2>7. rows = [feed |-> rows.feed, expiry |-> rows.expiry, pools |-> rows.pools,
                  blended |-> rows.blended]
        BY DEF Starting
    <2>8. rows.pools \in [Pool -> Nat] /\ \A p \in Pool : rows.pools[p] <= number
        BY DEF Starting
    <2> QED BY <1>6, <2>2, <2>3, <2>4, <2>6, <2>7, <2>8 DEF Knows, Starting
  <1>10. 0 \in (place - 1)..Len(logs) /\ 0 \in 0..Len(logs) /\ disk = rows
      BY <1>2 DEF Starting
  <1> QED BY <1>3, <1>5, <1>7, <1>8, <1>9, <1>10 DEF FeedInv

LEMMA FeedStarts == FeedInit => FeedInv
  <1> SUFFICES ASSUME FeedInit PROVE Starting
      BY StartsKnown
  <1>1. PICK S \in SUBSET Reporter, g \in Expiry, t \in Expiry \cup {0} :
          opening = [reports |-> [r \in S |-> Before], token |-> t, global |-> g]
      BY DEF FeedInit
  <1>2. opening \in Contract
    <2>1. [r \in S |-> Before] \in Lists
        BY DEF Lists, Before
    <2>2. \A x \in Expiry \cup {0} : x \in Nat
        BY FeedAssumption
    <2> QED BY <1>1, <2>1, <2>2 DEF Contract
  <1>3. PoolIds = {}
      BY DEF FeedInit, PoolIds
  <1>4. Lengths[1] \in Nat
      BY FeedAssumption
  <1>5. rows.pools = [p \in Pool |-> 0] /\ rows.feed = NoRow /\ rows.expiry = NoRow
      BY DEF FeedInit
  <1> QED BY <1>2, <1>3, <1>4, <1>5 DEF FeedInit, Starting, Before

\* At the end of a block the rows know all of it.
LEMMA BlockIsKnown ==
  ASSUME FeedInv, place > Len(logs)
  PROVE  Knows(rows, Len(logs)) /\ After[Len(logs)] = Closing /\ Closing \in Contract
  <1>1. PICK a \in (place - 1)..Len(logs) : Knows(rows, a)
      BY DEF FeedInv
  <1>2. a = Len(logs) /\ Len(logs) \in Nat
      BY <1>1 DEF FeedInv, BlockType
  <1> QED BY <1>1, <1>2, AfterTypes DEF Closing, FeedInv

LEMMA NextBlockStarts ==
  ASSUME FeedInv, FeedNextBlock PROVE Starting'
  <1>1. /\ place > Len(logs) /\ number' = number + 1 /\ place' = 1 /\ opening' = Closing
        /\ logs' \in LegalBlocks(Lengths[number - Before + 1], DOMAIN Closing.reports, PoolIds)
        /\ rows' = [rows EXCEPT !.blended = Unread(Len(logs'))] /\ disk' = rows'
        /\ number - Before < Len(Lengths)
      BY DEF FeedNextBlock
  <1>2. Knows(rows, Len(logs)) /\ After[Len(logs)] = Closing /\ Closing \in Contract
      BY <1>1, BlockIsKnown
  <1>3. number \in Nat /\ number > 1
      BY DEF FeedInv, BlockType, Before
  <1>4. Lengths[number - Before + 1] \in Nat
    <2>1. number - Before + 1 \in 1..Len(Lengths) /\ Lengths \in Seq(Nat)
        BY <1>1, <1>3, FeedAssumption DEF Before
    <2> QED BY <2>1
  <1>5. /\ rows' = [feed |-> rows'.feed, expiry |-> rows'.expiry, pools |-> rows'.pools,
                    blended |-> Unread(Len(logs'))]
        /\ rows'.feed = rows.feed /\ rows'.expiry = rows.expiry /\ rows'.pools = rows.pools
      BY <1>1, <1>2 DEF Knows
  <1>6. PoolIds' = PoolIds /\ PoolIds = PoolsOf(rows)
      BY <1>5 DEF PoolIds, PoolsOf
  <1>7. LegalBlocks(Lengths[number - Before + 1], DOMAIN Closing.reports, PoolIds)
          = LegalBlocks(Lengths[number - Before + 1], DOMAIN opening'.reports, PoolIds')
      BY <1>1, <1>6
  <1>8. rows.pools \in [Pool -> Nat] /\ \A p \in Pool : rows.pools[p] <= number
      BY <1>2 DEF Knows
  <1>9. rows.expiry # NoRow =>
          /\ rows.expiry \in ExpiryRow
          /\ rows.expiry.through < number + 1 /\ rows.expiry.mark[1] < number + 1
          /\ rows.expiry.token = Closing.token /\ rows.expiry.global = Closing.global
      BY <1>2, <1>3 DEF Knows, ExpiryKnown, ExpiryRow, Marked
  <1>10. rows.feed # NoRow =>
          /\ rows.feed \in FeedRow
          /\ rows.feed.through < number + 1 /\ rows.feed.mark[1] < number + 1
          /\ rows.feed.reports = Closing.reports
          /\ rows.expiry # NoRow /\ PoolsOf(rows) # {}
          /\ rows.feed.expiry = EffectiveExpiry(rows.expiry)
      BY <1>2, <1>3 DEF Knows, FeedKnown, FeedRow, Marked
  <1>11. (\E n \in Nat : logs \in LegalBlocks(n, DOMAIN opening.reports, PoolIds))'
      BY <1>1, <1>4, <1>7
  <1>12. \A p \in Pool : rows'.pools[p] < number'
      BY <1>1, <1>3, <1>5, <1>8
  <1>13. number' \in Nat /\ number' > Before
      BY <1>1, <1>3 DEF Before
  <1>14. (rows.feed # NoRow =>
          /\ rows.feed \in FeedRow
          /\ rows.feed.through < number /\ rows.feed.mark[1] < number
          /\ rows.feed.reports = opening.reports
          /\ rows.expiry # NoRow /\ PoolIds # {} /\ rows.feed.expiry = EffectiveExpiry(rows.expiry))'
      BY <1>1, <1>5, <1>6, <1>10 DEF EffectiveExpiry
  <1>15. (rows.expiry # NoRow =>
          /\ rows.expiry \in ExpiryRow
          /\ rows.expiry.through < number /\ rows.expiry.mark[1] < number
          /\ rows.expiry.token = opening.token /\ rows.expiry.global = opening.global)'
      BY <1>1, <1>5, <1>9
  <1> QED BY <1>1, <1>2, <1>5, <1>8, <1>11, <1>12, <1>13, <1>14, <1>15 DEF Starting

LEMMA FeedKept == FeedInv /\ [FeedNext]_feedVars => FeedInv'
  <1> SUFFICES ASSUME FeedInv, [FeedNext]_feedVars PROVE FeedInv'
      OBVIOUS
  <1>1. PICK a \in (place - 1)..Len(logs) : Knows(rows, a)
      BY DEF FeedInv
  <1>2. PICK d \in 0..Len(logs) : Knows(disk, d)
      BY DEF FeedInv
  <1>3. number \in Nat /\ Len(logs) \in Nat /\ place \in 1..(Len(logs) + 1) /\ a \in 0..Len(logs)
      BY <1>1 DEF FeedInv, BlockType
  <1>4. ASSUME UNCHANGED <<number, opening, logs>>
        PROVE  LogsInOrder' /\ Len(logs)' = Len(logs)
    <2>1. After' = After
        BY <1>4 DEF After, Step, Reports
    <2> QED BY <1>4, <2>1 DEF LogsInOrder, FeedInv
  <1>5. CASE Handle
    <2>1. Handling(a) /\ UNCHANGED <<number, opening, logs, disk>> /\ place' = place + 1
        BY <1>1, <1>5 DEF Handling, FeedInv, Handle
    <2>2. PICK r : r = rows'
        OBVIOUS
    <2>3. /\ Knows(r, Told(a))
          /\ this.event \in Changes /\ PoolsOf(r) # {} => r.feed # NoRow
          /\ PoolIds \subseteq PoolsOf(r)
        BY <1>5, <2>1, <2>2, HandlerKnows
    <2>4. PICK k : k = Told(a)
        OBVIOUS
    <2>5. k \in place..Len(logs) /\ place <= Len(logs)
        BY <2>1, <2>4, ReadingNow
    <2>6. Knows(rows, k)'
        BY <2>1, <2>2, <2>3, <2>4, KnownCarried
    <2>7. Knows(disk, d)'
      <3>1. PICK s : s = disk
          OBVIOUS
      <3> QED BY <1>2, <2>1, <3>1, KnownCarried
    <2>8. BlockType'
        BY <1>3, <2>1, <2>5 DEF BlockType, FeedInv
    <2>9. PoolsAnnounced'
      <3>1. /\ \A p \in PoolsOf(rows) : p \in Pool /\ rows'.pools[p] > 0
            /\ \A p \in PoolsOf(disk) : p \in Pool /\ disk'.pools[p] > 0
          BY <2>1, <2>2, <2>3, Pools DEF PoolsOf
      <3>2. PICK S \in SUBSET Pool :
              S \subseteq PoolsOf(rows) /\ S \subseteq PoolsOf(disk) /\ Announced(S)
          BY DEF FeedInv, PoolsAnnounced
      <3>3. S \subseteq PoolsOf(rows)' /\ S \subseteq PoolsOf(disk)'
          BY <3>1, <3>2 DEF PoolsOf
      <3>4. Announced(S)'
          BY <2>1, <3>2 DEF Announced
      <3> QED BY <3>3, <3>4 DEF PoolsAnnounced
    <2>10. ListHasRow'
      <3>1. PoolIds' = PoolsOf(r)
          BY <2>2 DEF PoolIds, PoolsOf
      <3>2. logs'[place' - 1] = this
          BY <1>3, <2>1 DEF this
      <3> QED BY <2>2, <2>3, <3>1, <3>2 DEF ListHasRow
    <2>11. k \in (place' - 1)..Len(logs)' /\ d \in 0..Len(logs)'
        BY <1>2, <1>3, <2>1, <2>5
    <2> QED BY <1>4, <2>1, <2>6, <2>7, <2>8, <2>9, <2>10, <2>11 DEF FeedInv
  <1>6. CASE Cut \/ Restart \/ UNCHANGED feedVars
    <2>1. /\ UNCHANGED <<number, opening, logs>>
          /\ \/ disk' = rows /\ rows' = rows /\ place' = place
             \/ disk' = disk /\ rows' = disk /\ place' = 1
             \/ disk' = disk /\ rows' = rows /\ place' = place
        BY <1>6 DEF Cut, Restart, feedVars
    <2>2. BlockType'
        BY <1>3, <2>1 DEF BlockType, FeedInv
    <2>3. PICK s, t : s = rows /\ t = disk
        OBVIOUS
    <2>4. Knows(s, a) /\ Knows(t, d)
        BY <1>1, <1>2, <2>3
    <2>5. /\ s = rows' => Knows(rows, a)'
          /\ s = disk' => Knows(disk, a)'
          /\ t = rows' => Knows(rows, d)'
          /\ t = disk' => Knows(disk, d)'
        BY <2>1, <2>4, KnownCarried
    <2>6. \E x \in (place' - 1)..Len(logs)' : Knows(rows, x)'
      <3>1. rows' = rows /\ place' = place => a \in (place' - 1)..Len(logs)' /\ Knows(rows, a)'
          BY <1>1, <2>1, <2>3, <2>5
      <3>2. rows' = disk /\ place' = 1 => d \in (place' - 1)..Len(logs)' /\ Knows(rows, d)'
          BY <1>2, <2>1, <2>3, <2>5
      <3> QED BY <2>1, <3>1, <3>2
    <2>7. \E x \in 0..Len(logs)' : Knows(disk, x)'
      <3>1. disk' = rows => a \in 0..Len(logs)' /\ Knows(disk, a)'
          BY <1>3, <2>1, <2>3, <2>5
      <3>2. disk' = disk => d \in 0..Len(logs)' /\ Knows(disk, d)'
          BY <1>2, <2>1, <2>3, <2>5
      <3> QED BY <2>1, <3>1, <3>2
    <2>8. PoolsAnnounced'
      <3>1. PICK S \in SUBSET Pool :
              S \subseteq PoolsOf(rows) /\ S \subseteq PoolsOf(disk) /\ Announced(S)
          BY DEF FeedInv, PoolsAnnounced
      <3>2. S \subseteq PoolsOf(rows)' /\ S \subseteq PoolsOf(disk)'
        <4>1. \A p \in S : p \in Pool /\ rows.pools[p] > 0 /\ disk.pools[p] > 0
            BY <3>1 DEF PoolsOf
        <4>2. \A p \in S : rows'.pools[p] > 0 /\ disk'.pools[p] > 0
            BY <2>1, <4>1
        <4> QED BY <4>1, <4>2 DEF PoolsOf
      <3>3. Announced(S)'
          BY <2>1, <3>1 DEF Announced
      <3> QED BY <3>2, <3>3 DEF PoolsAnnounced
    <2>9. ListHasRow'
        BY <2>1 DEF ListHasRow, FeedInv, PoolIds
    <2> QED BY <1>4, <2>1, <2>2, <2>6, <2>7, <2>8, <2>9 DEF FeedInv
  <1>7. CASE FeedNextBlock
    <2>1. Starting'
        BY <1>7, NextBlockStarts
    <2> QED BY <2>1, StartsKnown, PTL
  <1> QED BY <1>5, <1>6, <1>7 DEF FeedNext

\* The inductive invariant of a feed: what its rows know of the block is what the
\* contract held after some part of it.
THEOREM FeedKnows == FeedSpec => []FeedInv
  <1> QED BY FeedStarts, FeedKept, PTL DEF FeedSpec

\* Both rows agree with the contract at the end of every block, for any reporters,
\* pools and expiries and any blocks, wherever the first reading was made, however the
\* block was cut and how often it was delivered.
THEOREM FeedFollows == FeedSpec => []FeedFollowsChain
  <1>1. FeedInv => FeedFollowsChain
    <2> SUFFICES ASSUME FeedInv, BlockRead PROVE FeedFollowsChain
        BY DEF FeedFollowsChain
    <2>1. Knows(rows, Len(logs)) /\ After[Len(logs)] = Closing
        BY BlockIsKnown DEF BlockRead
    <2>2. rows.expiry # NoRow =>
            rows.expiry.token = Closing.token /\ rows.expiry.global = Closing.global
        BY <2>1 DEF Knows, ExpiryKnown, Marked, ExpiryRow, FeedInv, BlockType
    <2>3. rows.feed # NoRow => /\ rows.feed.reports = Closing.reports
                               /\ rows.feed.expiry = EffectiveExpiry(Closing)
        BY <2>1, <2>2 DEF Knows, FeedKnown, Marked, FeedRow, FeedInv, BlockType, EffectiveExpiry
    <2> QED BY <2>2, <2>3 DEF FeedFollowsChain
  <1> QED BY <1>1, FeedKnows, PTL

\* A median of a feed with a pool is blended once, however often its block is read.
THEOREM MedianBlended == FeedSpec => []MedianBlendedOnce
  <1>1. FeedInv => MedianBlendedOnce
    <2> SUFFICES ASSUME FeedInv, BlockRead, NEW i \in DOMAIN logs, logs[i].event = "Median",
                        \E p \in PoolIds : \A j \in DOMAIN logs :
                          logs[j].event = "Joins" /\ logs[j].pool = p => j < i
                 PROVE  rows.blended[i] = 1
        BY DEF MedianBlendedOnce
    <2>1. BlendsKnown(rows, Len(logs))
        BY BlockIsKnown DEF BlockRead, Knows
    <2>2. i \in 1..Len(logs) /\ Awaited(rows, i)
        BY DEF Awaited, PoolIds, PoolsOf, FeedInv, BlockType
    <2> QED BY <2>1, <2>2 DEF BlendsKnown
  <1> QED BY <1>1, FeedKnows, PTL

\* No handler throws, whatever was applied before a restart: none finds its event before
\* the watermark's, another value at its own place, a reporter or a row missing.
THEOREM FeedNeverHalts == FeedSpec => []NeverHalts
  <1>1. FeedInv => NeverHalts
    <2> SUFFICES ASSUME FeedInv, ~BlockRead, Throws PROVE FALSE
        BY DEF NeverHalts
    <2>1. PICK a \in (place - 1)..Len(logs) : Knows(rows, a)
        BY DEF FeedInv
    <2>2. Handling(a)
        BY <2>1 DEF Handling, FeedInv, BlockRead, BlockType
    <2>3. CASE this.event = "Median" /\ PoolIds # {} /\ rows.feed = NoRow
      <3>1. place \in DOMAIN logs
          BY <2>2, ReadingNow DEF Handling, BlockType
      <3>2. place > 1 /\ logs[place - 1].event \in Changes
          BY <2>3, <3>1 DEF this, LogsInOrder, FeedInv
      <3> QED BY <2>3, <3>2 DEF ListHasRow, FeedInv
    <2>4. CASE this.event \in Changes /\ ReportThrows
      <3> DEFINE f == FeedBase
      <3>1. FeedKnown(f, a)
          BY <2>2, <2>4, FeedReads
      <3>2. ~Ignored(f) /\ f.through # number
          BY <2>4 DEF ReportThrows, Absorbed, f
      <3> HIDE DEF f
      <3>3. f \in FeedRow /\ Marked(f, a) /\ f.mark \in Nat \X Nat /\ f.through \in Nat
          BY <3>1 DEF FeedKnown, FeedRow
      <3>4. f.through < number /\ ~Behind(f)
          BY <2>2, <3>2, <3>3, Stands, ReadingNow DEF Marked
      <3>5. ~Refused(f)
          BY <3>2 DEF Refused, Ignored
      <3>6. CASE this.event = "Reported" /\ On(f)
        <4>1. f.mark = <<number, place>>
            BY <2>2, <3>6, HereIs DEF On
        <4>2. this.by \in DOMAIN f.reports /\ f.reports[this.by] = number
            BY <3>1, <3>4, <3>6, <4>1 DEF FeedKnown, ReportShown, this
        <4> QED BY <2>4, <3>2, <3>5, <3>6, <4>2 DEF ReportThrows, f
      <3>7. CASE this.event = "Removed" /\ ~On(f)
        <4>1. ~(f.mark[1] = number /\ place <= f.mark[2])
            BY <2>2, <3>3, <3>4, <3>7, Stands
        <4>2. Told(a) # a
            BY <2>2, <2>4, <3>1, <3>4, <4>1, MetIsMarked DEF FeedKnown
        <4>3. place - 1 = a /\ place \in DOMAIN logs
            BY <2>2, <4>2, ReadingNow DEF Handling, BlockType
        <4>4. this.by \in DOMAIN After[a].reports
            BY <3>7, <4>3 DEF this, LogsInOrder, FeedInv
        <4>5. f.reports = After[a].reports
            BY <3>1, <3>4 DEF FeedKnown
        <4> QED BY <2>4, <3>5, <3>7, <4>4, <4>5 DEF ReportThrows, f
      <3> QED BY <2>4, <3>5, <3>6, <3>7 DEF ReportThrows, f
    <2>5. ASSUME NEW field, ExpiryThrows(field),
                 \/ this.event = "TokenExpiry" /\ field = "token"
                 \/ this.event = "GlobalExpiry" /\ field = "global"
          PROVE  FALSE
      <3> DEFINE x == ExpiryBase
      <3>1. ExpiryKnown(x, a) /\ this.event \in Expiries
          BY <2>2, <2>5, ExpiryReads DEF Expiries
      <3>2. rows.expiry # NoRow => x = rows.expiry
          BY DEF ExpiryBase
      <3> HIDE DEF x
      <3>3. x \in ExpiryRow /\ Marked(x, a) /\ x.mark \in Nat \X Nat /\ x.through \in Nat
          BY <3>1 DEF ExpiryKnown, ExpiryRow
      <3>4. ASSUME number # x.through, ~Ignored(x), On(x) PROVE Expected(field) = x
        <4>1. x.mark = <<number, place>> /\ x.through < number
            BY <2>2, <3>3, <3>4, HereIs, ReadingNow DEF On, Marked
        <4>2. ExpiryShown(x)
            BY <3>1, <4>1 DEF ExpiryKnown
        <4>3. /\ field = "token" => x.token = this.is
              /\ field = "global" => x.global = this.is
            BY <2>5, <4>1, <4>2 DEF ExpiryShown, this
        <4>4. x = [through |-> x.through, mark |-> Here, token |-> x.token, global |-> x.global]
            BY <3>3, <3>4 DEF ExpiryRow, On
        <4>5. Expected(field) = [x EXCEPT ![field] = this.is, !.mark = Here]
            BY DEF Expected, x
        <4>6. CASE field = "token"
          <5>1. Expected(field) = [x EXCEPT !.token = x.token, !.mark = Here]
              BY <4>3, <4>5, <4>6, Zenon
          <5> QED BY <4>4, <5>1
        <4>7. CASE field = "global"
          <5>1. Expected(field) = [x EXCEPT !.global = x.global, !.mark = Here]
              BY <4>3, <4>5, <4>7, Zenon
          <5> QED BY <4>4, <5>1
        <4> QED BY <2>5, <4>6, <4>7
      <3>5. ASSUME rows.feed # NoRow, On(rows.feed)
            PROVE  rows.feed.expiry = EffectiveExpiry(ExpiryAfter(field))
        <4>1. rows.feed.mark = <<number, place>> /\ Marked(rows.feed, a)
              /\ rows.feed.expiry = EffectiveExpiry(rows.expiry) /\ rows.expiry # NoRow
            BY <2>1, <2>2, <3>5, HereIs DEF On, Knows, FeedKnown
        <4>2. Told(a) = a
            BY <2>2, <4>1, ReadingNow DEF Marked
        <4>3. number = x.through \/ Ignored(x) \/ On(x)
          <5>1. CASE x.through < number
            <6>1. Met(x, Expiries, a)
                BY <3>1, <5>1 DEF ExpiryKnown
            <6>2. x.mark[1] = number /\ place <= x.mark[2]
                BY <2>2, <3>1, <4>2, <6>1, MetIsMarked
            <6> QED BY <2>2, <3>3, <6>2, Stands
          <5> QED BY <2>2, <3>3, <5>1, ReadingNow DEF Marked
        <4> QED BY <3>2, <4>1, <4>3 DEF ExpiryAfter, x
      <3>6. ~Ignored(x) => ~Refused(x)
          BY DEF Refused, Ignored
      <3> QED BY <2>5, <3>4, <3>5, <3>6 DEF ExpiryThrows, x
    <2> QED BY <2>3, <2>4, <2>5 DEF Throws, Changes
  <1> QED BY <1>1, FeedKnows, PTL
=============================================================================
