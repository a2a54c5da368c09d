---------------------------- MODULE IssuePromise ----------------------------
(***************************************************************************)
(* What claim, release and review promise of an issue on the board, seen   *)
(* whenever its mutex is free: the issue moves from one whole state to     *)
(* another, as if each command were a single step; a claim that fails      *)
(* leaves it where no other agent picks it up.  People may move labels at  *)
(* any time, and do not touch the ownership fields.                        *)
(***************************************************************************)
CONSTANTS Token, None

VARIABLES
  open, labels,   \* the issue: open or closed, its queue labels
  own,            \* Claim ID, Branch and PR of its project item
  byHand          \* a person has moved the issue since the mutex was taken

State == {"ready", "active", "review", "grooming"}
Empty == [id |-> None, branch |-> None, pr |-> None]

Reserved(t) == [id |-> t, branch |-> None, pr |-> None]
Full(t)     == [id |-> t, branch |-> t, pr |-> None]
InReview(t) == [id |-> t, branch |-> t, pr |-> t]

\* What a claim of t starts from and may leave.
Claimed(t)  == {Empty, Reserved(t), Full(t)}

\* The labels are s and nobody moved them meanwhile, or somebody did.
From(s)    == byHand \/ (open /\ labels = {s})
Becomes(s) == byHand' = byHand /\ (byHand \/ (open' = open /\ labels' = {s}))

\* A claim, of a free issue or of what an earlier attempt left to the same token.
Take(t) ==
  /\ From("ready") \/ (From("active") /\ own # Empty)
  /\ own \in Claimed(t)
  /\ Becomes("active") /\ own' = Full(t)

\* A claim that failed on the way: out of ready, with the fields as they were or
\* as the claim had begun to set them.
Park(t) ==
  /\ \/ From("ready") /\ \E s \in {"active", "grooming"} : Becomes(s)
     \/ From("active") /\ Becomes("active")
  /\ own' = own \/ {own, own'} \subseteq Claimed(t)

Give(t, s) ==
  /\ s \in {"ready", "grooming"}
  /\ \E p \in State \ {"ready"} : From(p)
  /\ own.id = t /\ own.branch = t
  /\ Becomes(s) /\ own' = Empty

Show(t) ==
  /\ From("active") /\ own.id = t /\ own.branch = t
  /\ Becomes("review") /\ own' = InReview(t)

\* People: labels or the issue itself, never the fields.
Hand == byHand' /\ own' = own

\* The mutex is taken.
Begin == ~byHand' /\ UNCHANGED <<open, labels, own>>

\* An operator has looked at what a stopped command left.
Repair ==
  /\ own' = Empty /\ labels' = {"grooming"} /\ (byHand \/ open' = open)
  /\ byHand' = byHand

\* Free, taken by somebody, under review or parked: nothing in between.
Init ==
  /\ open = TRUE /\ byHand = FALSE
  /\ \/ labels \in {{"ready"}, {"grooming"}} /\ own = Empty
     \/ \E t \in Token : \/ labels = {"active"} /\ own = Full(t)
                         \/ labels = {"review"} /\ own = InReview(t)

Next ==
  \/ Hand \/ Begin \/ Repair
  \/ \E t \in Token :
       Take(t) \/ Park(t) \/ Show(t) \/ \E s \in State : Give(t, s)

Spec == Init /\ [][Next]_<<open, labels, own, byHand>>
=============================================================================
