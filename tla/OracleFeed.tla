----------------------------- MODULE OracleFeed -----------------------------
(***************************************************************************)
(* The indexer's copy of one rate feed in SortedOracles: who has reported  *)
(* when, after how long a report expires, and which medians are blended    *)
(* into the breaker's average (oracleFeedState.ts, oracleExpiryState.ts,   *)
(* their handlers, handlers/sortedOracles.ts, docs/adr/0105).  The rows    *)
(* come to exist in the middle of the feed's life, from an RPC reading,    *)
(* once a pool refers to the feed; from then on they follow the logs.      *)
(*                                                                         *)
(* A batch may be cut anywhere.  What the cut finds goes to disk while     *)
(* progress is counted in whole blocks, so after a restart the block is    *)
(* delivered again, over rows that know a part of it already.  A cut in an *)
(* earlier block leads back to that block's beginning, where a restart     *)
(* within that block leads as well.                                        *)
(***************************************************************************)
EXTENDS Naturals, SequencesExt

CONSTANTS
  Reporter, Pool, NoRow,
  Expiry,    \* the expiry times that are ever set
  Lengths    \* bounds: the most logs of each block

ASSUME FeedAssumption ==
  Expiry \subseteq Nat \ {0} /\ Lengths \in Seq(Nat) /\ Lengths # <<>>

VARIABLES
  number,    \* the block being read, which is also its timestamp
  opening,   \* what the contract held before it
  logs,      \* the logs in it that concern the feed, in order
  place,     \* the log that comes next
  rows,      \* the entities as the handlers find them
  disk       \* the entities of the last cut

feedVars == <<number, opening, logs, place, rows, disk>>

Before == 1     \* the time of what was reported earlier

\* The five events of SortedOracles; a handler that gives a pool this feed; one that
\* writes a pool of the feed for another reason.
Log ==
  [event : {"Reported", "Removed"}, by : Reporter]
    \cup [event : {"Median"}]
    \cup [event : {"TokenExpiry"}, is : Expiry \cup {0}]
    \cup [event : {"GlobalExpiry"}, is : Expiry]
    \cup [event : {"Joins", "Written"}, pool : Pool]

-----------------------------------------------------------------------------
(* The contract, and the blocks there can be.                                 *)

\* One report or removal, on the contract's list or on the row's.
Reports(list, e) ==
  [r \in IF e.event = "Removed" THEN DOMAIN list \ {e.by} ELSE DOMAIN list \cup {e.by} |->
     IF r = e.by THEN number ELSE list[r]]

Step(c, e) ==
  CASE e.event \in {"Reported", "Removed"} -> [c EXCEPT !.reports = Reports(@, e)]
    [] e.event = "TokenExpiry"  -> [c EXCEPT !.token = e.is]
    [] e.event = "GlobalExpiry" -> [c EXCEPT !.global = e.is]
    [] OTHER -> c

After[n \in 0..Len(logs)] == IF n = 0 THEN opening ELSE Step(After[n - 1], logs[n])
Closing == After[Len(logs)]

\* effectiveReportExpiry
EffectiveExpiry(c) == IF c.token > 0 THEN c.token ELSE c.global

\* A reading of the contract at the end of a block.
AtClose(block) == IF block = number THEN Closing ELSE opening

Reporting(b, i) == {j \in 1..(i - 1) : b[j].event \in {"Reported", "Removed"}}

\* Who is on the list before the i-th log.
Active(b, i, reporters) ==
  {r \in Reporter : LET own == {j \in Reporting(b, i) : b[j].by = r}
                    IN  IF own = {} THEN r \in reporters ELSE b[Max(own)].event = "Reported"}

\* A median follows the report or removal that moved it; who is removed was on the
\* list; a pool is given its feed once and written as one of the feed after that.
LegalBlocks(n, reporters, pools) ==
  {b \in SeqOf(Log, n) : \A i \in DOMAIN b :
     LET joined == {b[j].pool : j \in {k \in 1..(i - 1) : b[k].event = "Joins"}}
     IN  /\ b[i].event = "Median" => i - 1 \in Reporting(b, i)
         /\ b[i].event = "Removed" => b[i].by \in Active(b, i, reporters)
         /\ b[i].event = "Joins" => b[i].pool \notin pools \cup joined
         /\ b[i].event = "Written" => b[i].pool \in pools \cup joined}

Unread(n) == [k \in 1..n |-> 0]

FeedInit ==
  /\ number = Before + 1
  /\ \E S \in SUBSET Reporter, g \in Expiry, t \in Expiry \cup {0} :
       opening = [reports |-> [r \in S |-> Before], token |-> t, global |-> g]
  /\ logs \in LegalBlocks(Lengths[1], DOMAIN opening.reports, {})
  /\ place = 1
  /\ rows = [feed |-> NoRow, expiry |-> NoRow, pools |-> [p \in Pool |-> 0],
             blended |-> Unread(Len(logs))]
  /\ disk = rows

-----------------------------------------------------------------------------
(* Rows, and where an event stands to their watermark.                        *)

Lists     == UNION {[S -> Nat] : S \in SUBSET Reporter}
ExpiryRow == [through : Nat, mark : Nat \X Nat, token : Nat, global : Nat]
FeedRow   == [through : Nat, mark : Nat \X Nat, reports : Lists, expiry : Nat]

ASSUME RowAssumption == NoRow \notin ExpiryRow /\ NoRow \notin FeedRow

this  == logs[place]
Here == <<number, place>>

\* eventPosition is negative, or zero.
Behind(row) == number < row.mark[1] \/ (number = row.mark[1] /\ place < row.mark[2])
On(row)     == row.mark = Here

\* Variant: only what the first reading contains is known to have been applied.
Ignored_Bootstrap(row) == number <= row.through

\* isEventAlreadyApplied, asked by the handlers.
Ignored(row) == Behind(row) \/ number <= row.through

\* What the transitions refuse with an exception.
Refused(row) == Behind(row) \/ number <= row.through

\* getPoolsByFeed; rows.pools keeps the block of each pool's last change.
PoolIds == {p \in Pool : rows.pools[p] > 0}
Stamped(pools) == [p \in Pool |-> IF p \in pools THEN number ELSE rows.pools[p]]

\* oracleFeedBootstrapInputs
BootstrapThrough ==
  IF \E p \in PoolIds : rows.pools[p] < number THEN number - 1 ELSE number

ExpiryBase ==
  IF rows.expiry # NoRow THEN rows.expiry
  ELSE LET c == AtClose(BootstrapThrough)
       IN  [through |-> BootstrapThrough, mark |-> <<BootstrapThrough, 0>>,
            token |-> c.token, global |-> c.global]

\* bootstrapOracleFeedState
Bootstrap(list, expiry) ==
  [through |-> BootstrapThrough, mark |-> <<BootstrapThrough, 0>>,
   reports |-> list, expiry |-> expiry]

FeedBase ==
  IF rows.feed # NoRow THEN rows.feed
  ELSE Bootstrap(AtClose(BootstrapThrough).reports, EffectiveExpiry(ExpiryBase))

-----------------------------------------------------------------------------
(* The handlers, and where they throw.                                        *)

Expected(field) == [ExpiryBase EXCEPT ![field] = this.is, !.mark = Here]

\* resolveOracleExpiryState with the event's change.
ExpiryAfter(field) ==
  IF number = ExpiryBase.through \/ Ignored(ExpiryBase) \/ On(ExpiryBase) THEN ExpiryBase
  ELSE Expected(field)

\* Variant: what the first reading covers is not passed on either.
FeedExpiry_Wide(expiry) ==
  IF rows.feed = NoRow \/ Ignored(rows.feed) \/ On(rows.feed) THEN rows.feed
  ELSE [rows.feed EXCEPT !.expiry = EffectiveExpiry(expiry), !.mark = Here]

\* updateOracleFeedStateExpiryIfPresent
FeedExpiry(expiry) ==
  IF rows.feed = NoRow \/ Behind(rows.feed) \/ On(rows.feed) THEN rows.feed
  ELSE [rows.feed EXCEPT !.expiry = EffectiveExpiry(expiry), !.mark = Here]

ExpiryThrows(field) ==
  LET changes == number # ExpiryBase.through /\ ~Ignored(ExpiryBase)
  IN  \/ changes /\ Refused(ExpiryBase)
      \/ changes /\ On(ExpiryBase) /\ Expected(field) # ExpiryBase
      \/ /\ rows.feed # NoRow /\ On(rows.feed)
         /\ rows.feed.expiry # EffectiveExpiry(ExpiryAfter(field))

\* Pools whose expiry differs are written.
ExpirySet(field) ==
  \E written \in SUBSET PoolIds :
    rows' = [rows EXCEPT !.expiry = ExpiryAfter(field),
                         !.feed = FeedExpiry(ExpiryAfter(field)),
                         !.pools = Stamped(written)]

Relevant ==
  \/ PoolIds # {} \/ rows.expiry # NoRow
  \/ this.event = "TokenExpiry" /\ rows.feed # NoRow

TokenReportExpirySet ==
  /\ this.event = "TokenExpiry"
  /\ IF Relevant THEN ExpirySet("token") ELSE UNCHANGED rows

ReportExpirySet ==
  /\ this.event = "GlobalExpiry"
  /\ IF Relevant THEN ExpirySet("global") ELSE UNCHANGED rows

\* resolveOracleFeedState
Absorbed == number = FeedBase.through
Replayed == ~Absorbed /\ (Ignored(FeedBase) \/ On(FeedBase))
FeedAfter ==
  IF Absorbed \/ Replayed THEN FeedBase
  ELSE [FeedBase EXCEPT !.reports = Reports(@, this), !.mark = Here]

ReportThrows ==
  /\ ~Absorbed /\ ~Ignored(FeedBase)
  /\ \/ Refused(FeedBase)
     \/ /\ this.event = "Reported" /\ On(FeedBase)
        /\ ~(this.by \in DOMAIN FeedBase.reports /\ FeedBase.reports[this.by] = number)
     \/ this.event = "Removed" /\ ~On(FeedBase) /\ this.by \notin DOMAIN FeedBase.reports

ResolveFeed(writes) ==
  \E written \in IF Replayed THEN {{}} ELSE writes :
    rows' = [rows EXCEPT !.feed = FeedAfter, !.expiry = ExpiryBase,
                         !.pools = Stamped(written)]

\* A call that fails leaves its pool out of a report, and fails a removal.
FeedReported ==
  /\ this.event = "Reported"
  /\ IF PoolIds = {} THEN UNCHANGED rows ELSE ResolveFeed(SUBSET PoolIds)

FeedReportRemoved ==
  /\ this.event = "Removed"
  /\ IF PoolIds = {} THEN UNCHANGED rows ELSE ResolveFeed({PoolIds})

\* Two stand for more.
Blended == [rows.blended EXCEPT ![place] = IF @ = 2 THEN 2 ELSE @ + 1]

\* Variant: a median does not move the watermark.
Claim_Still(row) == row

\* claimMedianUpdate
Claim(row) == [row EXCEPT !.mark = Here]

\* With a breaker for the feed.  Without a pool there is no row to claim it in.
FeedMedianUpdated ==
  /\ this.event = "Median"
  /\ IF PoolIds = {} THEN rows' = [rows EXCEPT !.blended = Blended]
     ELSE IF Behind(rows.feed) \/ On(rows.feed) THEN UNCHANGED rows
     ELSE \E written \in SUBSET PoolIds :
            rows' = [rows EXCEPT !.feed = Claim(@), !.pools = Stamped(written),
                                 !.blended = Blended]

\* Any other handler that gives a pool its feed, or writes one.
PoolWritten ==
  /\ this.event \in {"Joins", "Written"}
  /\ rows' = [rows EXCEPT !.pools = Stamped({this.pool})]

\* The exceptions of the handlers; a median needs its feed's row.
Throws ==
  \/ this.event \in {"Reported", "Removed"} /\ PoolIds # {} /\ ReportThrows
  \/ this.event = "TokenExpiry" /\ Relevant /\ ExpiryThrows("token")
  \/ this.event = "GlobalExpiry" /\ Relevant /\ ExpiryThrows("global")
  \/ this.event = "Median" /\ PoolIds # {} /\ rows.feed = NoRow

\* A handler that throws never gets past its log.
Handle ==
  /\ place <= Len(logs) /\ ~Throws
  /\ \/ FeedReported \/ FeedReportRemoved \/ FeedMedianUpdated
     \/ TokenReportExpirySet \/ ReportExpirySet \/ PoolWritten
  /\ place' = place + 1
  /\ UNCHANGED <<number, opening, logs, disk>>

-----------------------------------------------------------------------------
(* Batches.                                                                   *)

Cut ==
  /\ disk' = rows
  /\ UNCHANGED <<number, opening, logs, place, rows>>

\* The process dies, or a handler or one of its readings fails the batch.
Restart ==
  /\ rows' = disk /\ place' = 1
  /\ UNCHANGED <<number, opening, logs, disk>>

FeedNextBlock ==
  /\ place > Len(logs) /\ number - Before < Len(Lengths)
  /\ number' = number + 1 /\ place' = 1
  /\ opening' = Closing
  /\ logs' \in LegalBlocks(Lengths[number - Before + 1], DOMAIN Closing.reports, PoolIds)
  /\ rows' = [rows EXCEPT !.blended = Unread(Len(logs'))]
  /\ disk' = rows'

FeedNext == Handle \/ Cut \/ Restart \/ FeedNextBlock

FeedSpec == FeedInit /\ [][FeedNext]_feedVars

-----------------------------------------------------------------------------
(* Properties.                                                                *)

BlockRead == place > Len(logs)

\* At the end of a block the rows hold what the contract holds: the same reporters with
\* the same times, and the same expiry in both rows, wherever the first reading was
\* made, however the block was cut and how often it was delivered (ADR 0046, 0105).
FeedFollowsChain ==
  BlockRead =>
    /\ rows.feed # NoRow =>
         rows.feed.reports = Closing.reports /\ rows.feed.expiry = EffectiveExpiry(Closing)
    /\ rows.expiry # NoRow =>
         rows.expiry.token = Closing.token /\ rows.expiry.global = Closing.global

\* No log stops the indexer: whatever was applied before a restart, no transition
\* refuses its event, none finds another value at its own place, no reporter is
\* missing, and a median finds its feed's row.
NeverHalts == ~BlockRead => ~Throws

\* A median that comes when a pool refers to the feed is blended into the average
\* exactly once, however often its block is delivered (claimMedianUpdate).
MedianBlendedOnce ==
  BlockRead => \A i \in DOMAIN logs :
    /\ logs[i].event = "Median"
    /\ \E p \in PoolIds : \A j \in DOMAIN logs :
         logs[j].event = "Joins" /\ logs[j].pool = p => j < i
    => rows.blended[i] = 1
=============================================================================
