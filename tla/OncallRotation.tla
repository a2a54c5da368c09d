---------------------------- MODULE OncallRotation ----------------------------
(* The on-call announcer: each invocation compares the engineer on duty with  *)
(* the recorded rotation, puts the engineer into the support usergroup, posts *)
(* the handover and records it.  One instance serves one request at a time;   *)
(* an invocation may fail or be killed at any call, and is then retried.      *)
EXTENDS Naturals
CONSTANTS User, Nobody, AnnounceOnFirstRun, MaxChanges

ASSUME RotationAssumption ==
  Nobody \notin User /\ AnnounceOnFirstRun \in BOOLEAN /\ MaxChanges \in Nat

\* The rotation an invocation records.  One without a usable Slack id was edited
\* or truncated; an object that is missing or no JSON reads as Undefined.
Recorded(user) == [user |-> user, slackId |-> TRUE]
Undefined == [user |-> Nobody, slackId |-> FALSE]
Handover == (User \cup {Nobody}) \X User

VARIABLES
  onCall,      \* whom Splunk On-Call names, Nobody when it names no one
  state,       \* the state object
  group,       \* the member of the usergroup
  call,        \* what the invocation waits for: "read", "group", "post",
               \* "write"; or "idle"
  current, previous,   \* whom it was told and what it read
  accepted,    \* the client_msg_ids Slack recognises
  told,        \* history: how often the channel got each handover, this morning
               \* and since the recorded engineer last changed
  earlier,     \* history: the handovers it had got this morning until then
  changes      \* how often an override changed the schedule this morning
rotationVars == <<onCall, state, group, call, current, previous, accepted, told, earlier, changes>>
run      == <<call, current, previous>>
outside  == <<state, group, accepted, told, earlier>>
calendar == <<onCall, changes>>

Silent == [h \in Handover |-> 0]

RotationInit ==
  /\ onCall \in User /\ state = Undefined /\ group = Nobody
  /\ call = "idle" /\ current = Nobody /\ previous = Undefined
  /\ accepted = {} /\ told = Silent /\ earlier = {} /\ changes = 0

Respond == call' = "idle" /\ current' = Nobody /\ previous' = Undefined
To(next) == call' = next /\ UNCHANGED <<current, previous>>

-----------------------------------------------------------------------------
(* handleRotation, one action per call it awaits.                            *)

FetchCurrent ==
  /\ call = "idle" /\ onCall # Nobody
  /\ current' = onCall /\ call' = "read"
  /\ UNCHANGED <<previous, outside, calendar>>

ReadState ==
  /\ call = "read"
  /\ previous' = state /\ call' = "group"
  /\ UNCHANGED <<current, outside, calendar>>

SameUser == previous.user = current
Unchanged == SameUser /\ previous.slackId
ShouldAnnounce == ~SameUser /\ (previous # Undefined \/ AnnounceOnFirstRun)

\* On the way here the engineer's email and Slack account are looked up unless
\* the rotation is unchanged; a failing look-up is Fail.
UpdateGroup ==
  /\ call = "group"
  /\ group' = current
  /\ IF Unchanged THEN Respond ELSE To(IF ShouldAnnounce THEN "post" ELSE "write")
  /\ UNCHANGED <<state, accepted, told, earlier, calendar>>

\* The id is a hash of the transition alone, so a retry posts the same one.
ClientMsgId == <<previous.user, current>>

\* Slack shows a message unless it recognises its id.
Posted ==
  /\ accepted' = accepted \cup {ClientMsgId}
  /\ told' = IF ClientMsgId \in accepted THEN told
              ELSE [told EXCEPT ![<<previous.user, current>>] = @ + 1]

\* Variant: a failing post is logged and the invocation goes on.
Post_Swallowed ==
  /\ call = "post" /\ To("write")
  /\ Posted \/ UNCHANGED <<accepted, told>>
  /\ UNCHANGED <<state, group, earlier, calendar>>

Post ==
  /\ call = "post" /\ Posted /\ To("write")
  /\ UNCHANGED <<state, group, earlier, calendar>>

Written ==
  /\ state' = Recorded(current)
  /\ IF state.user = current THEN UNCHANGED <<told, earlier>>
     ELSE told' = Silent /\ earlier' = accepted

WriteState ==
  /\ call = "write" /\ Written /\ Respond
  /\ UNCHANGED <<group, accepted, calendar>>

\* A call fails, or the instance dies, with the call it waits for done or not:
\* the invocation ends with a 500 or without an answer.
Fail ==
  /\ call # "idle" /\ Respond
  /\ \/ UNCHANGED outside
     \/ call = "group" /\ group' = current /\ UNCHANGED <<state, accepted, told, earlier>>
     \/ call = "post" /\ Posted /\ UNCHANGED <<state, group, earlier>>
     \/ call = "write" /\ Written /\ UNCHANGED <<group, accepted>>
  /\ UNCHANGED calendar

-----------------------------------------------------------------------------
(* What is outside the function.                                             *)

\* An override hands the duty to somebody else, or to no one.
Change ==
  /\ changes < MaxChanges
  /\ onCall' \in (User \cup {Nobody}) \ {onCall}
  /\ changes' = changes + 1
  /\ UNCHANGED <<run, outside>>

\* The object is deleted, or edited so that it is no JSON or has no Slack id.
Tamper ==
  /\ state' \in {Undefined, [state EXCEPT !.slackId = FALSE]} \ {state}
  /\ UNCHANGED <<group, accepted, told, earlier, run, calendar>>

\* The weekly handover.  The invocations of the Monday before, and their retries,
\* have ended, and Slack has forgotten their ids.
NextMonday ==
  /\ call = "idle" /\ onCall' \in User
  /\ accepted' = {} /\ told' = Silent /\ earlier' = {} /\ changes' = 0
  /\ UNCHANGED <<state, group, run>>

RotationNext ==
  \/ FetchCurrent \/ ReadState \/ UpdateGroup \/ Post \/ WriteState \/ Fail
  \/ Change \/ Tamper \/ NextMonday

RotationSpec == RotationInit /\ [][RotationNext]_rotationVars

-----------------------------------------------------------------------------
(* Properties.                                                               *)

\* When one engineer replaces another in the record, the channel has been told of
\* exactly this handover since the record last changed, and once, whichever calls
\* failed, took effect unanswered or were repeated on the way there: the message
\* precedes the record, and a retry cannot repeat it.  A handover that comes back on the
\* same morning Slack takes for a repetition of the earlier one, and shows no more.
HandoverShownOnce ==
  [][Undefined \notin {state, state'} /\ state'.user # state.user
       => LET handover == <<state.user, state'.user>>
          IN  told[handover] = IF handover \in earlier THEN 0 ELSE 1]_rotationVars
=============================================================================
