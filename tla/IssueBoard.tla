----------------------------- MODULE IssueBoard -----------------------------
(***************************************************************************)
(* Claim, release and review of one issue (issue-board-transactions.mjs,   *)
(* issue-board-release.mjs, issue-board-commands.mjs, with the ownership   *)
(* fields of issue-board-ownership.mjs) under the mutex of IssueMutex.     *)
(* Labels and fields are changed by separate calls of GitHub, any of which *)
(* may fail after it took effect; people move labels and pull requests at  *)
(* any time.  Each command reads, proves, writes, proves again, and on an  *)
(* error repairs what it can before it decides whether to unlock.          *)
(*                                                                         *)
(* A token stands for an agent's Claim ID together with its Branch and the *)
(* PR of that branch.  Agent goes with Branch, which is written beside it; *)
(* Claimed At likewise.                                                    *)
(***************************************************************************)
EXTENDS IssueMutex, FiniteSets, Naturals

CONSTANTS
  Token,
  Budget        \* bound on the commands begun and the troubles together: failing
                \* calls, lost answers, crashes, what people do to the issue and to
                \* pull requests

ASSUME BoardAssumption == None \notin Token /\ Budget \in Nat

VARIABLES
  issue,   \* open or closed, and its queue labels
  own,     \* the ownership fields: Claim ID, Branch, PR
  prs,     \* the pull request of each token's branch
  job,     \* what each command has in hand
  troubles,
  kept,    \* the board when the mutex was last free
  byHand   \* a person has moved the issue since the mutex was taken

boardVars == <<issue, own, prs, job, troubles>>
vars == <<mutexVars, boardVars, kept, byHand>>

State == {"ready", "active", "review", "grooming"}

ASSUME StateAssumption == None \notin State

Field == <<"branch", "pr", "id">>     \* OWNERSHIP_WRITE_ORDER
Empty == [id |-> None, branch |-> None, pr |-> None]
Full(t)     == [id |-> t, branch |-> t, pr |-> None]
InReview(t) == [id |-> t, branch |-> t, pr |-> t]

\* exactQueueState.
Exact(i) ==
  IF i.open /\ Cardinality(i.labels) = 1 THEN CHOOSE s \in State : s \in i.labels ELSE None

\* isClaimable, isReviewable, isReleasable and their like: open, with this queue
\* label and none of the others.
Is(i, s) == i.open /\ i.labels = {s}

\* editIssueLabels: what to add and to remove follows from the labels that were
\* read, whatever they are by now.  One command line, two requests.
Added(saw, s)   == {s} \ saw.labels
Dropped(saw, s) == saw.labels \ {s}
Relabel(add, drop) == [issue EXCEPT !.labels = (@ \ drop) \cup add]

\* planClaimOwnershipReservation does not throw.
Plannable(t) ==
  \/ own = Empty
  \/ own.id = t /\ own.branch \in {None, t} /\ own.pr = None

\* writeProjectOwnershipMetadata: one field at a time, in the fixed order.
Towards(goal) ==
  LET differ == {i \in DOMAIN Field : own[Field[i]] # goal[Field[i]]}
  IN  IF differ = {} THEN own
      ELSE LET f == Field[CHOOSE i \in differ : \A k \in differ : i <= k]
           IN  [own EXCEPT ![f] = goal[f]]

\* isOwnedReleasePartial: every field is that of the snapshot or cleared.
PartlyCleared(snap) == \A f \in DOMAIN own : own[f] \in {snap[f], None}

\* assertReleaseProof and assertReviewProof, of a snapshot.
Proof(j) ==
  CASE j.op = "review" -> prs[j.snap.branch] = "open"
    [] j.op = "claim"  -> TRUE
    [] j.op = "release" ->
         CASE j.mode = "plain"  -> prs[j.snap.branch] # "open"
           [] OTHER -> j.snap.pr # None /\ prs[j.snap.pr] = j.mode

\* assertReleaseState: the state the command may release from, if any.
ReleaseState(j) ==
  IF j.mode # "plain" THEN IF Is(issue, "review") THEN "review" ELSE None
  ELSE IF Is(issue, "active") THEN "active"
  ELSE IF Is(issue, "grooming") /\ j.to = "grooming" THEN "grooming" ELSE None

\* Variant: the snapshot is not compared again under the lock.
StillOwned_Assumed(j) == TRUE

\* sameOwnership with the snapshot taken before the lock.
StillOwned(j) == own = j.snap

NoJob == [op |-> "none", at |-> "none", token |-> None, to |-> "active",
          mode |-> "plain", saw |-> [open |-> TRUE, labels |-> {}], snap |-> Empty,
          want |-> Empty, prev |-> None, tried |-> FALSE, swallowed |-> FALSE,
          since |-> 0]

BoardInit ==
  /\ \E t \in Token :
       /\ \/ \E s \in {"ready", "grooming"} :
               issue = [open |-> TRUE, labels |-> {s}] /\ own = Empty
          \/ issue = [open |-> TRUE, labels |-> {"active"}] /\ own = Full(t)
          \/ issue = [open |-> TRUE, labels |-> {"review"}] /\ own = InReview(t)
       /\ prs \in [Token -> {"none", "open", "closed", "merged"}]
       /\ \A u \in Token : prs[u] # "none" => u = t /\ own.id = t
       /\ own.pr = t => prs[t] # "none"
  /\ job = [c \in Command |-> NoJob]
  /\ troubles = 0

Board == [issue |-> issue, own |-> own]

-----------------------------------------------------------------------------
(* Steps inside the mutex.  Each is one call of GitHub with the reads of      *)
(* ownership next to it, which can tell nothing new: people leave the fields  *)
(* alone and no other command writes them.                                    *)

Inside(c, place) == pc[c] = "inside" /\ job[c].at = place
Goto(c, place)   == job' = [job EXCEPT ![c].at = place]
Reread(c, place) == job' = [job EXCEPT ![c].at = place, ![c].saw = issue]

\* Variant: the command forgets that it is about to write.
Try_Forgotten(c, place) == Goto(c, place)

\* mutationAttempted = true.
Try(c, place) == job' = [job EXCEPT ![c].at = place, ![c].tried = TRUE]
Quiet            == UNCHANGED <<mutexVars, issue, own, prs, troubles>>

\* The callback ends: the mutex may be given back, or not.
Ends(c, safe) == Goto(c, IF safe THEN "out" ELSE "keep")

ClaimPlaces   == {"claim", "reserve", "claim id", "recheck", "claim label", "meta",
                  "claim branch", "verify", "comment"}
PartPlaces    == {"part own", "part issue", "part label", "part meta", "part branch",
                  "part verify"}
ParkPlaces    == {"part park", "part groom", "part groomed", "part unready",
                  "part unreadied"}
ReleasePlaces == {"rel read", "rel proof", "rel again", "rel proof 2", "rel label",
                  "rel proof 3", "rel field", "rel proof 4", "rel verify"}
UndoPlaces    == {"undo read", "undo confirm", "undo again", "undo label",
                  "undo field", "undo verify"}
ReviewPlaces  == {"rev read", "rev proof", "rev again", "rev proof 2", "rev label",
                  "rev proof 3", "rev pr", "rev proof 4", "rev verify"}
LookPlaces    == {"look read", "look confirm"}

\* Variant: an error before the first write does not give the lock back.
Throws_Unmarked(c) ==
  LET j == job[c]
  IN  \/ j.at \in ClaimPlaces /\ j.tried /\ Goto(c, "part own")
      \/ j.at \in ReleasePlaces /\ j.tried /\ Goto(c, "undo read")
      \/ j.at \in ReviewPlaces /\ j.tried /\ Goto(c, "look read")
      \/ j.at \in PartPlaces \ {"part branch"} /\ Goto(c, "part park")
      \/ /\ j.at = "part branch"
         /\ job' = [job EXCEPT ![c].at = "part park", ![c].swallowed = TRUE]
      \/ /\ j.at \in ParkPlaces \cup UndoPlaces \cup LookPlaces \/ ~j.tried
         /\ Ends(c, FALSE)

\* Where an error leads: the catch blocks of the three commands.
Throws(c) ==
  LET j == job[c]
  IN  \/ j.at \in ClaimPlaces /\ j.tried /\ Goto(c, "part own")
      \/ j.at \in ReleasePlaces /\ j.tried /\ Goto(c, "undo read")
      \/ j.at \in ReviewPlaces /\ j.tried /\ Goto(c, "look read")
      \/ j.at \in PartPlaces \ {"part branch"} /\ Goto(c, "part park")
      \/ /\ j.at = "part branch"
         /\ job' = [job EXCEPT ![c].at = "part park", ![c].swallowed = TRUE]
      \/ j.at \in ParkPlaces \cup UndoPlaces \cup LookPlaces /\ Ends(c, FALSE)
      \/ j.at \in ClaimPlaces \cup ReleasePlaces \cup ReviewPlaces /\ ~j.tried
         /\ Ends(c, TRUE)

\* A read and what is demanded of it.
Demand(c, place, demand, next) ==
  /\ Inside(c, place)
  /\ IF demand THEN next ELSE Throws(c)
  /\ Quiet

\* A read that decides.
Decide(c, place, next) == Inside(c, place) /\ next /\ Quiet

\* The writes: labels by two requests, a field by one.
LabelWrites == {"claim label", "part label", "part groom", "part unready", "rel label",
                "undo label", "rev label"}
FieldWrites == {"claim id", "claim branch", "part branch", "rel field", "undo field",
                "rev pr"}

Target(j) ==
  CASE j.at \in {"claim label", "part label"} -> "active"
    [] j.at = "part groom" -> "grooming"
    [] j.at = "rel label"  -> j.to
    [] j.at = "undo label" -> j.prev
    [] OTHER -> "review"

\* removeIssueLabels takes only ready away.
Adds(j)  == IF j.at = "part unready" THEN {} ELSE Added(j.saw, Target(j))
Drops(j) == IF j.at = "part unready" THEN {"ready"} ELSE Dropped(j.saw, Target(j))

NextOwn(j) ==
  CASE j.at = "claim id" -> [own EXCEPT !.id = j.token]
    [] j.at \in {"claim branch", "part branch"} -> [own EXCEPT !.branch = j.token]
    [] j.at = "rel field"  -> Towards(Empty)
    [] j.at = "undo field" -> Towards(j.snap)
    [] OTHER -> [own EXCEPT !.pr = j.want.pr]

\* Where a write leads; the fields are written one after another.
Onward(j, owned) ==
  CASE j.at = "claim id"     -> "recheck"
    [] j.at = "claim label"  -> "meta"
    [] j.at = "claim branch" -> "verify"
    [] j.at = "part label"   -> "part meta"
    [] j.at = "part branch"  -> "part verify"
    [] j.at = "part groom"   -> "part groomed"
    [] j.at = "part unready" -> "part unreadied"
    [] j.at = "rel label"    -> "rel proof 3"
    [] j.at = "rel field"    -> IF owned = Empty THEN "rel proof 4" ELSE "rel field"
    [] j.at \in {"undo label", "undo field"} ->
         IF owned = j.snap THEN "undo verify" ELSE "undo field"
    [] j.at = "rev label"    -> "rev proof 3"
    [] OTHER                 -> "rev proof 4"

Write(c) ==
  LET j == job[c]
  IN  /\ pc[c] = "inside" /\ j.at \in LabelWrites \cup FieldWrites
      /\ IF j.at \in LabelWrites
         THEN issue' = Relabel(Adds(j), Drops(j)) /\ UNCHANGED own
         ELSE own' = NextOwn(j) /\ UNCHANGED issue
      /\ Goto(c, Onward(j, own'))
      /\ UNCHANGED <<mutexVars, prs, troubles>>

-----------------------------------------------------------------------------
\* claimIssue, with recoverOwnedClaim where the token holds the issue already.
ClaimIssue(c) ==
  LET t == job[c].token
  IN  \/ Demand(c, "claim",
           Is(issue, "ready") \/ (Is(issue, "active") /\ own.id = t /\ Plannable(t)),
           IF Is(issue, "ready") THEN Try(c, "reserve") ELSE Try(c, "meta"))
      \/ Demand(c, "reserve", Plannable(t),
           Goto(c, IF own.id = None THEN "claim id" ELSE "recheck"))
      \/ Demand(c, "recheck", own.id = t /\ Plannable(t) /\ Is(issue, "ready"),
           Reread(c, "claim label"))
      \/ Demand(c, "meta", own.id = t /\ Plannable(t),
           Goto(c, IF own.branch = None THEN "claim branch" ELSE "verify"))
      \/ Demand(c, "verify", own = Full(t) /\ Is(issue, "active"), Goto(c, "comment"))
      \/ Demand(c, "comment", TRUE, Ends(c, TRUE))

\* ensurePartialClaimIsNotReady: complete the claim if it is this token's ...
CompletePartial(c) ==
  LET t == job[c].token
  IN  \/ Demand(c, "part own", own.id = t /\ Plannable(t), Goto(c, "part issue"))
      \/ Decide(c, "part issue", ~issue.open /\ Ends(c, TRUE))
      \/ Decide(c, "part issue", Exact(issue) = "ready" /\ Reread(c, "part label"))
      \/ Decide(c, "part issue", Exact(issue) = "active" /\ Goto(c, "part meta"))
      \/ Decide(c, "part issue",
           issue.open /\ Exact(issue) \notin {"ready", "active"} /\ Throws(c))
      \/ Demand(c, "part meta", own.id = t /\ Plannable(t),
           Goto(c, IF own.branch = None THEN "part branch" ELSE "part verify"))
      \/ Demand(c, "part verify", own = Full(t) /\ Is(issue, "active"), Ends(c, TRUE))

\* ... or see to it that nobody else picks the issue up.
ParkPartial(c) ==
  \/ Decide(c, "part park",
       /\ ~issue.open \/ "ready" \notin issue.labels
       /\ Ends(c, ~issue.open \/ Exact(issue) # None))
  \/ Decide(c, "part park", Exact(issue) = "ready" /\ Reread(c, "part groom"))
  \/ Decide(c, "part park",
       /\ issue.open /\ "ready" \in issue.labels /\ Exact(issue) = None
       /\ Reread(c, "part unready"))
  \/ Decide(c, "part groomed", Ends(c, Exact(issue) = "grooming"))
  \/ Decide(c, "part unreadied", Ends(c, Exact(issue) \notin {None, "ready"}))

\* releaseLocked.
Release(c) ==
  LET j == job[c]
      held == ReleaseState(j) # None /\ StillOwned(j)
  IN  \/ Demand(c, "rel read", held,
           job' = [job EXCEPT ![c].at = "rel proof", ![c].prev = ReleaseState(j)])
      \/ Demand(c, "rel proof", Proof(j), Goto(c, "rel again"))
      \/ Demand(c, "rel again", held, Reread(c, "rel proof 2"))
      \/ Demand(c, "rel proof 2", Proof(j), Try(c, "rel label"))
      \/ Demand(c, "rel proof 3", Proof(j) /\ StillOwned(j), Goto(c, "rel field"))
      \/ Demand(c, "rel proof 4", Proof(j), Goto(c, "rel verify"))
      \/ Demand(c, "rel verify", Is(issue, j.to) /\ own = Empty /\ Proof(j), Ends(c, TRUE))

\* restoreFailedRelease.  A state is settled when it is one the issue may be left
\* in; it is read twice.
RestoreRelease(c) ==
  LET j == job[c]
      e == Exact(issue)
      newer   == e \in {"active", "review", "grooming"} \ {j.prev, j.to} /\ StillOwned(j)
      done    == e = "grooming" /\ j.to = "grooming" /\ own = Empty
      settled == e # None /\ (newer \/ done \/ (e = j.prev /\ StillOwned(j)))
      back == e = "ready" /\ j.to = "ready" /\ PartlyCleared(j.snap)
  IN  \/ Decide(c, "undo read", settled /\ Reread(c, "undo confirm"))
      \/ Decide(c, "undo read", ~settled /\ back /\ Goto(c, "undo again"))
      \/ Decide(c, "undo read", ~settled /\ ~back /\ Ends(c, FALSE))
      \/ Decide(c, "undo confirm", Ends(c, e = Exact(j.saw)))
      \/ Demand(c, "undo again", e = "ready", Reread(c, "undo label"))
      \/ Decide(c, "undo verify", Ends(c, Is(issue, j.prev) /\ StillOwned(j)))

\* reviewLocked.
Review(c) ==
  LET j == job[c]
      held == Is(issue, "active") /\ StillOwned(j)
  IN  \/ Demand(c, "rev read", held, Goto(c, "rev proof"))
      \/ Demand(c, "rev proof", Proof(j), Goto(c, "rev again"))
      \/ Demand(c, "rev again", held, Reread(c, "rev proof 2"))
      \/ Demand(c, "rev proof 2", Proof(j), Try(c, "rev label"))
      \/ Demand(c, "rev proof 3", Proof(j) /\ StillOwned(j),
           Goto(c, IF own = j.want THEN "rev proof 4" ELSE "rev pr"))
      \/ Demand(c, "rev proof 4", Proof(j), Goto(c, "rev verify"))
      \/ Demand(c, "rev verify", own = j.want /\ Is(issue, "review") /\ Proof(j),
           Ends(c, TRUE))

\* restoreFailedReview writes nothing: it looks whether the issue stands at an
\* end of the move, or where a release leaves it.
LookReview(c) ==
  LET j == job[c]
      e == Exact(issue)
      settled == \/ e = "active" /\ StillOwned(j)
                 \/ e = "review" /\ own = j.want /\ Proof(j)
                 \/ e = "grooming" /\ own = Empty
  IN  \/ Demand(c, "look read", settled, Reread(c, "look confirm"))
      \/ Decide(c, "look confirm", Ends(c, e = Exact(j.saw) /\ settled))

-----------------------------------------------------------------------------
(* Calls that fail.                                                           *)

Spent   == troubles + Cardinality({c \in Command : pc[c] # "new"})
Trouble == Spent < Budget /\ troubles' = troubles + 1

\* The answer is an error; a write took effect, in part or not at all.
Fails(c) ==
  LET j == job[c]
  IN  /\ pc[c] = "inside" /\ j.at \notin {"out", "keep"} /\ Trouble
      /\ \/ UNCHANGED <<issue, own>>
         \/ /\ j.at \in LabelWrites /\ UNCHANGED own
            /\ \E a \in {Adds(j), {}}, d \in {Drops(j), {}} : issue' = Relabel(a, d)
         \/ j.at \in FieldWrites /\ own' = NextOwn(j) /\ UNCHANGED issue
      /\ Throws(c)
      /\ UNCHANGED <<mutexVars, prs>>

\* The mutation capability refuses an owner field: the error passes every catch.
Refused(c) ==
  /\ pc[c] = "inside" /\ job[c].at \in FieldWrites /\ Trouble
  /\ Ends(c, FALSE)
  /\ UNCHANGED <<mutexVars, issue, own, prs>>

-----------------------------------------------------------------------------
(* The commands around the mutex.                                             *)

\* What claim, release and review do before the lock: read the issue's ownership
\* and take it for the snapshot, or refuse.
Preview(c) == Spent < Budget /\
  \E t \in Token :
    \/ /\ Prepare(c, "begin")
       /\ job' = [job EXCEPT ![c] = [NoJob EXCEPT !.op = "claim", !.at = "claim",
                                                  !.token = t]]
    \/ /\ own.id = t /\ own.branch # None
       /\ Prepare(c, "begin")
       /\ \E mode \in {"plain", "closed", "merged"}, to \in {"ready", "grooming"} :
            /\ mode = "merged" => to = "grooming"
            /\ job' = [job EXCEPT ![c] = [NoJob EXCEPT !.op = "release",
                         !.at = "rel read", !.token = t, !.mode = mode, !.to = to,
                         !.snap = own]]
    \/ /\ own.id = t /\ own.branch # None /\ prs[own.branch] = "open"
       /\ Prepare(c, "begin")
       /\ job' = [job EXCEPT ![c] = [NoJob EXCEPT !.op = "review", !.at = "rev read",
                    !.token = t, !.snap = own, !.want = [own EXCEPT !.pr = own.branch]]]
    \/ own.id # t /\ Prepare(c, "end") /\ UNCHANGED job

Done(c)     == job' = [job EXCEPT ![c] = NoJob]
Stranded(c) == job' = [job EXCEPT ![c] = [NoJob EXCEPT !.since = job[c].since]]

\* Making the commit may fail too, which ends the command.
Acquire(c) ==
  \/ /\ ReadRef(c) /\ UNCHANGED troubles
     /\ pc'[c] = "end" => ref.state = "LOCK"
     /\ job' = [job EXCEPT ![c] = IF pc'[c] = "end" THEN NoJob
                                  ELSE [@ EXCEPT !.since = troubles]]
  \/ ReadRef(c) /\ ref.state = "UNLOCK" /\ pc'[c] = "end" /\ Trouble /\ Done(c)
  \/ Acquired(c) /\ pc'[c] = "inside" /\ UNCHANGED <<job, troubles>>
  \/ Acquired(c) /\ pc'[c] = "release" /\ Trouble /\ Done(c)
  \/ Lost(c) /\ Done(c) /\ UNCHANGED troubles

\* The end of withIssueMutationLock: the lock is given back only if the callback
\* said so and no owner write failed unseen.
GiveBack(c) ==
  LET j == job[c]
      safe == j.at = "out" /\ ~j.swallowed
  IN  /\ Inside(c, "out") \/ Inside(c, "keep")
      /\ \/ safe /\ Leave(c) /\ Done(c) /\ UNCHANGED troubles
         \/ safe /\ Retain(c) /\ Trouble /\ Stranded(c)
         \/ ~safe /\ Retain(c) /\ Stranded(c) /\ UNCHANGED troubles

Stops(c) == (Crash(c) \/ Unknown(c)) /\ Trouble /\ Stranded(c)

Around(c) ==
  /\ \/ Preview(c) /\ UNCHANGED troubles
     \/ Acquire(c) \/ GiveBack(c) \/ Stops(c)
     \/ (Serve(c) \/ Released(c)) /\ UNCHANGED <<job, troubles>>
  /\ UNCHANGED <<issue, own, prs>>

\* An operator leaves the board if nothing was written, or sorts it out.
Sorted(c) ==
  /\ Recover(c) /\ UNCHANGED <<job, prs, troubles>>
  /\ \/ own = kept.own /\ (byHand \/ issue = kept.issue) /\ UNCHANGED <<issue, own>>
     \/ own' = Empty /\ issue' = [issue EXCEPT !.labels = {"grooming"}]

-----------------------------------------------------------------------------
(* People: a label on or off, the issue moved to a state, closed or reopened; *)
(* a pull request opened, closed, merged, reopened.                           *)
HandMoves ==
  /\ Trouble
  /\ issue' \in     {[issue EXCEPT !.labels = @ \cup {s}] : s \in State}
               \cup {[issue EXCEPT !.labels = @ \ {s}] : s \in State}
               \cup {[issue EXCEPT !.labels = {s}] : s \in State}
               \cup {[issue EXCEPT !.open = ~issue.open]}
  /\ issue' # issue
  /\ UNCHANGED <<mutexVars, own, prs, job>>
  /\ byHand' = TRUE
  /\ kept' = IF ref.state = "UNLOCK" THEN Board' ELSE kept

PrMoves ==
  /\ Trouble
  /\ \E t \in Token, state \in {"open", "closed", "merged"} :
       /\ <<prs[t], state>> \in {<<"none", "open">>, <<"open", "closed">>,
                                 <<"open", "merged">>, <<"closed", "open">>}
       /\ prs' = [prs EXCEPT ![t] = state]
  /\ UNCHANGED <<mutexVars, issue, own, job>>

CommandStep(c) ==
  \/ ClaimIssue(c) \/ CompletePartial(c) \/ ParkPartial(c)
  \/ Release(c) \/ RestoreRelease(c) \/ Review(c) \/ LookReview(c)
  \/ Write(c) \/ Fails(c) \/ Refused(c)

\* What is remembered for the properties.
Watch ==
  /\ kept' = IF ref'.state = "UNLOCK" THEN Board' ELSE kept
  /\ byHand' = (byHand /\ ~(ref.state = "UNLOCK" /\ ref'.state = "LOCK"))

Next ==
  \/ \E c \in Command : (CommandStep(c) \/ Around(c) \/ Sorted(c)) /\ Watch
  \/ PrMoves /\ Watch
  \/ HandMoves

Init == MutexInit /\ BoardInit /\ kept = Board /\ byHand = FALSE

Spec == Init /\ [][Next]_vars

-----------------------------------------------------------------------------
Promise == INSTANCE IssuePromise
             WITH open <- kept.issue.open, labels <- kept.issue.labels, own <- kept.own

\* Seen whenever its mutex is free, the issue has moved as by single steps:
\* wherever a call failed, half of it took effect or a person interfered, a
\* command that unlocks has left the issue before or after its whole move, or a
\* failed claim out of the ready queue (ADR 0082: unlock only from a stable
\* exact state).
KeepsIssuePromise == Promise!Spec

\* An ownership field that names an agent is changed only under the mutex by a
\* command that has its token, or by an operator: no claim, release, review or
\* their repairs ever writes over another agent.
ByItsToken ==
  \A f \in DOMAIN own :
    own[f] # None /\ own'[f] # own[f] =>
      \/ \E c \in Command : pc[c] = "inside" /\ job[c].token = own[f]
      \/ \E c \in Command : pc[c] = "stopped" /\ ref = Lock(c) /\ ref' = Unlock(c)

OwnershipIsOwners == [][ByItsToken]_own

\* A lock that waits for an operator has a cause: since its command read the ref
\* a call failed, a person interfered or a pull request moved.  Every way through
\* the commands and their repairs unlocks by itself otherwise.
StaleHasCause ==
  \A c \in Command :
    pc[c] = "stopped" /\ ref = Lock(c) => troubles > job[c].since
=============================================================================
