-------------------------- MODULE DeadLetterRedrive --------------------------
(***************************************************************************)
(* The redrive of dead-lettered Safe alerts                                *)
(* (scripts/redrive-onchain-deadletter.mjs).  A run lists the dead         *)
(* letters, and for each one checks for its archived copy, posts it to     *)
(* Slack unless there is one, copies it to dead-letter/done/ and deletes   *)
(* it.  Any call may fail, before or after it took effect; a run may be    *)
(* killed; operators start runs at any time; the handler (SafeBatch) adds  *)
(* letters at any time.                                                    *)
(***************************************************************************)
EXTENDS Integers

CONSTANTS
  Run,       \* runs of the script, possibly at the same time
  Letter,    \* object names: the write's time is part of the name
  MaxPosts   \* bound on the posts of one letter that are counted

ASSUME RedriveAssumption == MaxPosts \in Nat \ {0}

VARIABLES
  letters,   \* objects under dead-letter/
  done,      \* objects under dead-letter/done/
  posted,    \* how often each letter reached Slack from a redrive
  written,   \* letters ever written
  pc,        \* where each run stands
  todo,      \* letters the run has still to handle
  at,        \* the letter at hand
  known      \* runs that took the letter at hand when it had its copy

vars == <<letters, done, posted, written, pc, todo, at, known>>

None  == "none"
Place == {"idle", "next", "check", "get", "post", "copy", "delete"}

TypeOK ==
  /\ letters \subseteq Letter /\ done \subseteq Letter /\ written \subseteq Letter
  /\ posted \in [Letter -> 0..MaxPosts]
  /\ pc \in [Run -> Place]
  /\ todo \in [Run -> SUBSET Letter]
  /\ at \in [Run -> Letter \cup {None}]
  /\ known \subseteq Run
  /\ \A r \in Run : pc[r] \notin {"idle", "next"} => at[r] \in Letter

Init ==
  /\ letters = {} /\ done = {} /\ written = {}
  /\ posted = [l \in Letter |-> 0]
  /\ pc = [r \in Run |-> "idle"]
  /\ todo = [r \in Run |-> {}]
  /\ at = [r \in Run |-> None] /\ known = {}

Goto(r, place) == pc' = [pc EXCEPT ![r] = place]

\* writeDeadLetter.
Write(l) ==
  /\ l \notin written
  /\ written' = written \cup {l} /\ letters' = letters \cup {l}
  /\ UNCHANGED <<done, posted, pc, todo, at, known>>

\* main: list the letters; a failed listing ends the run.
List(r) ==
  /\ pc[r] = "idle"
  /\ todo' = [todo EXCEPT ![r] = letters]
  /\ Goto(r, "next")
  /\ UNCHANGED <<letters, done, posted, written, at, known>>

Take(r) ==
  /\ pc[r] = "next"
  /\ \E l \in todo[r] :
       /\ at' = [at EXCEPT ![r] = l]
       /\ todo' = [todo EXCEPT ![r] = @ \ {l}]
       /\ known' = IF l \in done THEN known \cup {r} ELSE known \ {r}
  /\ Goto(r, "check")
  /\ UNCHANGED <<letters, done, posted, written>>

End(r) ==
  /\ pc[r] = "next" /\ todo[r] = {}
  /\ Goto(r, "idle")
  /\ at' = [at EXCEPT ![r] = None]
  /\ UNCHANGED <<letters, done, posted, written, todo, known>>

\* A letter that cannot be handled is left in place, the run goes on.
GiveUp(r) ==
  /\ pc[r] \notin {"idle", "next"}
  /\ Goto(r, "next")
  /\ UNCHANGED <<letters, done, posted, written, todo, at, known>>

\* Variant: a letter that has a copy is left alone.
Check_SkipsDone(r) ==
  /\ pc[r] = "check"
  /\ Goto(r, IF at[r] \in done THEN "next" ELSE "get")
  /\ UNCHANGED <<letters, done, posted, written, todo, at, known>>

\* doneObjectExists.
Check(r) ==
  /\ pc[r] = "check"
  /\ Goto(r, IF at[r] \in done THEN "copy" ELSE "get")
  /\ UNCHANGED <<letters, done, posted, written, todo, at, known>>

\* getObjectJson: the letter may be gone.
Get(r) ==
  /\ pc[r] = "get" /\ at[r] \in letters
  /\ Goto(r, "post")
  /\ UNCHANGED <<letters, done, posted, written, todo, at, known>>

Posted(l) == posted' = [posted EXCEPT ![l] = IF @ < MaxPosts THEN @ + 1 ELSE @]

\* Variant: an answer that is not ok is taken for a success.
Post_IgnoresAnswer(r) ==
  /\ pc[r] = "post"
  /\ Goto(r, "copy")
  /\ Posted(at[r]) \/ UNCHANGED posted
  /\ UNCHANGED <<letters, done, written, todo, at, known>>

\* postToSlack: posted, or posted and reported as an error.
Post(r) ==
  /\ pc[r] = "post"
  /\ Posted(at[r])
  /\ Goto(r, "copy") \/ Goto(r, "next")
  /\ UNCHANGED <<letters, done, written, todo, at, known>>

\* Variant: the answer to the copy is not looked at.
Copy_IgnoresAnswer(r) ==
  /\ pc[r] = "copy"
  /\ \/ at[r] \in letters /\ done' = done \cup {at[r]}
     \/ UNCHANGED done
  /\ Goto(r, "delete")
  /\ UNCHANGED <<letters, posted, written, todo, at, known>>

\* archiveDeadLetterObject: the copy, of a letter that is still there.
Copy(r) ==
  /\ pc[r] = "copy" /\ at[r] \in letters
  /\ done' = done \cup {at[r]}
  /\ Goto(r, "delete") \/ Goto(r, "next")
  /\ UNCHANGED <<letters, posted, written, todo, at, known>>

Delete(r) ==
  /\ pc[r] = "delete" /\ at[r] \in letters
  /\ letters' = letters \ {at[r]}
  /\ Goto(r, "next")
  /\ UNCHANGED <<done, posted, written, todo, at, known>>

Kill(r) ==
  /\ pc[r] # "idle"
  /\ Goto(r, "idle")
  /\ todo' = [todo EXCEPT ![r] = {}]
  /\ at' = [at EXCEPT ![r] = None]
  /\ UNCHANGED <<letters, done, posted, written, known>>

Next ==
  \/ \E l \in Letter : Write(l)
  \/ \E r \in Run :
       \/ List(r) \/ Take(r) \/ End(r) \/ GiveUp(r) \/ Check(r) \/ Get(r)
       \/ Post(r) \/ Copy(r) \/ Delete(r) \/ Kill(r)

Spec == Init /\ [][Next]_vars

\* Operators rerun the script, a run once started goes on, and at some time the
\* services have recovered: from then on no run is killed, and no call fails
\* but on a letter that another run has taken away.
Gone(r)     == pc[r] \in {"get", "copy", "delete"} /\ at[r] \notin letters
Advance(r)  ==
  \/ List(r) \/ Take(r) \/ End(r) \/ Check(r) \/ Get(r) \/ Post(r) \/ Copy(r) \/ Delete(r)
  \/ GiveUp(r) /\ Gone(r)
Failure(r)  ==
  \/ Kill(r) /\ ~End(r)
  \/ GiveUp(r) /\ ~Gone(r) /\ ~Check(r)
  \/ (Post(r) \/ Copy(r)) /\ pc'[r] = "next"
Recovery ==
  /\ \A r \in Run : WF_vars(Advance(r))
  /\ <>[][\A r \in Run : ~Failure(r)]_vars
FairSpec == Spec /\ Recovery

-----------------------------------------------------------------------------
(* Properties.                                                             *)

\* A letter is never lost: it is there to redrive or archived, whatever fails.
NothingLost == written \subseteq letters \cup done

\* An archived letter has reached Slack: a failed post leaves it in place.
DoneWasPosted == \A l \in done : posted[l] > 0

\* "if the done copy already exists, the source event was already reposted to
\* Slack, so a rerun must not post it again": no run posts a letter that was
\* archived when the run took it.
ArchivedNotReposted == \A r \in known : pc[r] # "post"

\* Reruns clear every letter, also one left behind by a failed delete.
EveryLetterCleared == \A l \in Letter : l \in letters ~> l \notin letters
=============================================================================
