---------------------------- MODULE PoolRetryScan ----------------------------
(***************************************************************************)
(* The scan of the watched-LP retry function                               *)
(* (alerts/infra/onchain-event-handler/src/pool-liquidity-scan.ts): every  *)
(* Scheduler run lists the candidate objects in name order from a saved    *)
(* cursor, hands each to onKey, saves the cursor after every page and      *)
(* wraps it at the end of the list.  Runs may overlap, fail at any call or *)
(* stop at their time or page budget; new candidates appear at any time    *)
(* and anywhere in the order.                                              *)
(*                                                                         *)
(* onKey is abstract here (PoolDelivery is its detail): a try settles the  *)
(* candidate (delivered or ignored) or leaves it for a later pass.         *)
(***************************************************************************)
EXTENDS Integers, FiniteSets

CONSTANTS
  Run,         \* concurrent runs of the retry function
  Keys,        \* number of candidate names, ordered 1..Keys
  Malformed,   \* names that do not match KEY_PATTERN
  PageSize,    \* maxResults (1000)
  PageLimit    \* PAGE_LIMIT

Start == 0                        \* the cursor null: list from the beginning
Name  == 1..Keys
None  == -1                       \* no page token

ASSUME ScanAssumption ==
  /\ Keys \in Nat /\ PageSize \in Nat \ {0, 1} /\ PageLimit \in Nat \ {0}
  /\ Malformed \subseteq Name

VARIABLES
  listed,    \* candidate objects that exist
  settled,   \* candidates whose record is delivered or ignored
  cursor,    \* the name the cursor object holds
  pc,        \* where each run stands
  after,     \* the run's copy of the cursor
  current,   \* whether the generation the run expects of the cursor object
             \* is still the current one
  token,     \* page token: the last name of the previous page, or None
  page,      \* names of the current page still to be handled
  more,      \* whether the page came with a nextPageToken
  last,      \* last name the run has handled
  pages,     \* pages the run has listed
  expired,   \* whether the run has passed its deadline
  opened,    \* names listed when the current pass over the list began
  tried      \* well-formed names handed to onKey since then

run   == <<pc, after, current, token, page, more, last, pages, expired>>
pass  == <<opened, tried>>
vars  == <<listed, settled, cursor, run, pass>>

Place == {"idle", "list", "keys", "save", "wrap"}

TypeOK ==
  /\ listed \subseteq Name /\ settled \subseteq listed
  /\ cursor \in Name \cup {Start}
  /\ pc \in [Run -> Place]
  /\ after \in [Run -> Name \cup {Start}]
  /\ current \in [Run -> BOOLEAN]
  /\ token \in [Run -> Name \cup {None}]
  /\ page \in [Run -> SUBSET Name]
  /\ more \in [Run -> BOOLEAN]
  /\ last \in [Run -> Name \cup {Start}]
  /\ pages \in [Run -> 0..PageLimit]
  /\ expired \in [Run -> BOOLEAN]
  /\ opened \subseteq Name /\ tried \subseteq Name

Init ==
  /\ listed = {} /\ settled = {}
  /\ cursor = Start
  /\ pc = [r \in Run |-> "idle"]
  /\ after = [r \in Run |-> Start]
  /\ current = [r \in Run |-> FALSE]
  /\ token = [r \in Run |-> None]
  /\ page = [r \in Run |-> {}]
  /\ more = [r \in Run |-> FALSE]
  /\ last = [r \in Run |-> Start]
  /\ pages = [r \in Run |-> 0]
  /\ expired = [r \in Run |-> FALSE]
  /\ opened = {} /\ tried = {}

Goto(r, place) == pc' = [pc EXCEPT ![r] = place]

\* A webhook creates a candidate object.
Stage(k) ==
  /\ k \notin listed
  /\ listed' = listed \cup {k}
  /\ UNCHANGED <<settled, cursor, run, pass>>

\* A run ends, its local state with it.
EndRun(r) ==
  /\ Goto(r, "idle")
  /\ after' = [after EXCEPT ![r] = Start]
  /\ token' = [token EXCEPT ![r] = None]
  /\ page' = [page EXCEPT ![r] = {}]
  /\ more' = [more EXCEPT ![r] = FALSE]
  /\ last' = [last EXCEPT ![r] = Start]
  /\ pages' = [pages EXCEPT ![r] = 0]
  /\ expired' = [expired EXCEPT ![r] = FALSE]
End(r) == EndRun(r) /\ current' = [current EXCEPT ![r] = FALSE]

\* readCursor, a consistent snapshot (ifGenerationMatch on the content read).
ReadCursor(r) ==
  /\ pc[r] = "idle"
  /\ after' = [after EXCEPT ![r] = cursor]
  /\ current' = [current EXCEPT ![r] = TRUE]
  /\ Goto(r, "list")
  /\ UNCHANGED <<listed, settled, cursor, token, page, more, last, pages, expired, pass>>

\* One page: the first PageSize names from the start offset (inclusive) or
\* after the page token (exclusive).
From(r)    == IF token[r] # None THEN {k \in listed : k > token[r]}
              ELSE {k \in listed : k >= after[r]}
FirstOf(S) == {k \in S : Cardinality({j \in S : j < k}) < PageSize}
IsFirst(k, S) == k \in S /\ \A j \in S : k <= j
IsLast(k, S)  == k \in S /\ \A j \in S : j <= k

\* Variant: the answer's nextPageToken is dropped.
List_DropsToken(r) ==
  /\ pc[r] = "list"
  /\ page' = [page EXCEPT ![r] = FirstOf(From(r)) \ {after[r]}]
  /\ more' = [more EXCEPT ![r] = FALSE]
  /\ token' = [token EXCEPT ![r] = None]
  /\ last' = [last EXCEPT ![r] = after[r]]
  /\ pages' = [pages EXCEPT ![r] = @ + 1]
  /\ Goto(r, "keys")
  /\ UNCHANGED <<listed, settled, cursor, after, current, expired, pass>>

List(r) ==
  /\ pc[r] = "list"
  /\ page' = [page EXCEPT ![r] = FirstOf(From(r)) \ {after[r]}]
  /\ more' = [more EXCEPT ![r] = FirstOf(From(r)) # From(r)]
  /\ \E t \in Name \cup {None} :
       /\ IF FirstOf(From(r)) # From(r) THEN IsLast(t, FirstOf(From(r))) ELSE t = None
       /\ token' = [token EXCEPT ![r] = t]
  /\ last' = [last EXCEPT ![r] = after[r]]
  /\ pages' = [pages EXCEPT ![r] = @ + 1]
  /\ Goto(r, "keys")
  /\ UNCHANGED <<listed, settled, cursor, after, current, expired, pass>>

\* onKey for the next name of the page; malformed names are passed over.
\* onKey reports no error to the scan, so a failed candidate does not stop it;
\* the deadline is looked at after each onKey.
Handle(r, k) ==
  /\ pc[r] = "keys" /\ ~expired[r]
  /\ IsFirst(k, page[r])
  /\ page' = [page EXCEPT ![r] = @ \ {k}]
  /\ last' = [last EXCEPT ![r] = k]
  /\ tried' = IF k \in Malformed THEN tried ELSE tried \cup {k}
  /\ \E late \in BOOLEAN :
       expired' = [expired EXCEPT ![r] = late /\ k \notin Malformed]
  /\ UNCHANGED <<listed, cursor, pc, after, current, token, more, pages, opened>>

Settle(r, k)       == Handle(r, k) /\ k \notin Malformed /\ settled' = settled \cup {k}
LeavePending(r, k) == Handle(r, k) /\ UNCHANGED settled

EndPage(r) ==
  /\ pc[r] = "keys" /\ (page[r] = {} \/ expired[r])
  /\ Goto(r, "save")
  /\ UNCHANGED <<listed, settled, cursor, after, current, token, page, more, last, pages, expired, pass>>

\* writeCursor is applied: every other run now expects an old generation.
\* A cursor back at the start opens a new pass over the list.
WriteCursor(r, next) ==
  /\ current[r]
  /\ cursor' = next
  /\ IF next = Start THEN opened' = listed /\ tried' = {} ELSE UNCHANGED pass
OnlyCurrent(S) == [q \in Run |-> q \in S]

\* A run that has only listed one page of nothing new is far from its deadline:
\* its few calls last at most 10 s each, the window is 145 s.
OnlyListed(r) == pages[r] = 1 /\ last[r] = after[r]

\* save(last): nothing is written when the cursor has not moved.
Save(r) ==
  /\ pc[r] = "save"
  /\ \/ /\ last[r] # after[r]
        /\ WriteCursor(r, last[r])
        /\ after' = [after EXCEPT ![r] = last[r]]
        /\ current' = OnlyCurrent({r})
     \/ /\ last[r] = after[r]
        /\ UNCHANGED <<cursor, after, current, pass>>
  /\ \E late \in BOOLEAN :
       expired' = [expired EXCEPT ![r] = @ \/ (late /\ ~OnlyListed(r))]
  /\ Goto(r, "wrap")
  /\ UNCHANGED <<listed, settled, token, page, more, last, pages>>

\* After the save: stop at the deadline or page limit, go on to the next page,
\* or wrap the cursor because the list is exhausted.
Stop(r) ==
  /\ pc[r] = "wrap"
  /\ expired[r] \/ (more[r] /\ pages[r] = PageLimit)
  /\ End(r)
  /\ UNCHANGED <<listed, settled, cursor, pass>>

NextPage(r) ==
  /\ pc[r] = "wrap" /\ ~expired[r] /\ more[r] /\ pages[r] < PageLimit
  /\ Goto(r, "list")
  /\ UNCHANGED <<listed, settled, cursor, after, current, token, page, more, last, pages, expired, pass>>

\* Variant: the scan stays at the end of the list.
Wrap_Stays(r) ==
  /\ pc[r] = "wrap" /\ ~expired[r] /\ ~more[r]
  /\ End(r)
  /\ UNCHANGED <<listed, settled, cursor, pass>>

Wrap(r) ==
  /\ pc[r] = "wrap" /\ ~expired[r] /\ ~more[r]
  /\ \/ after[r] # Start /\ WriteCursor(r, Start)
     \/ after[r] = Start /\ UNCHANGED <<cursor, pass>>
  /\ EndRun(r)
  /\ current' = IF after[r] # Start THEN OnlyCurrent({}) ELSE [current EXCEPT ![r] = FALSE]
  /\ UNCHANGED <<listed, settled>>

\* writeCursor answers 412: another run has moved the cursor, this run ends.
MustWrite(r, next) == next # after[r] /\ (pc[r] = "save" \/ (pc[r] = "wrap" /\ ~expired[r] /\ ~more[r]))
Refused(r) ==
  /\ ~current[r]
  /\ MustWrite(r, IF pc[r] = "save" THEN last[r] ELSE Start)
  /\ End(r)
  /\ UNCHANGED <<listed, settled, cursor, pass>>

\* Any call fails or the instance dies; its cursor write may have been applied.
Fail(r) ==
  /\ pc[r] # "idle"
  /\ EndRun(r)
  /\ \/ /\ current' = [current EXCEPT ![r] = FALSE]
        /\ UNCHANGED <<cursor, pass>>
     \/ \E next \in {last[r], Start} :
          /\ next = IF pc[r] = "save" THEN last[r] ELSE Start
          /\ MustWrite(r, next)
          /\ WriteCursor(r, next)
          /\ current' = OnlyCurrent({})
  /\ UNCHANGED <<listed, settled>>

\* The next step of a run whose calls succeed.
Proceed(r) ==
  \/ ReadCursor(r) \/ List(r) \/ EndPage(r) \/ Save(r)
  \/ Stop(r) \/ NextPage(r) \/ Wrap(r) \/ Refused(r)
  \/ \E k \in Name : Settle(r, k) \/ LeavePending(r, k)

Next ==
  \/ \E k \in Name : Stage(k)
  \/ \E r \in Run : Proceed(r) \/ Fail(r)

Spec == Init /\ [][Next]_vars

\* Scheduler keeps invoking the function and a run goes on while it lives.  GCS,
\* RPC and Slack recover: whatever failed and died before, at last the scan's own
\* calls succeed, and no candidate fails for ever.
Recovery ==
  /\ \A r \in Run : WF_vars(Proceed(r))
  /\ <>[][(\E r \in Run : Proceed(r)) \/ (\E k \in Name : Stage(k))]_vars
  /\ \A k \in Name \ Malformed : SF_vars(\E r \in Run : Settle(r, k))

FairSpec == Spec /\ Recovery

-----------------------------------------------------------------------------
(* Properties.                                                             *)

\* The cursor never passes a candidate unseen: every candidate that was listed
\* when the pass began and sorts before the cursor has been handed to onKey in
\* this pass, whichever runs overlapped, failed or stopped early.
CursorPassesOnlyTried ==
  \A k \in opened \ Malformed : k <= cursor => k \in tried

\* A pass ends only when it has covered every candidate it began with.
WholePass ==
  [][cursor # Start /\ cursor' = Start => opened \ Malformed \subseteq tried]_vars

\* A candidate is not starved by the length of the list, by failing earlier
\* candidates, by malformed names, or by being staged behind the cursor.
EveryCandidateSettles ==
  \A k \in Name \ Malformed : k \in listed ~> k \in settled
=============================================================================
