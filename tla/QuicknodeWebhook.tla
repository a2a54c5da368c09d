-------------------------- MODULE QuicknodeWebhook --------------------------
(***************************************************************************)
(* One signed QuickNode webhook and every attempt to deliver it            *)
(* (alerts/infra/onchain-event-handler/src/index.ts).  An attempt stages   *)
(* the watched-LP burns in the background, meanwhile reserves the nonce,   *)
(* processes the Safe events if it won it, then joins both and answers.    *)
(* QuickNode delivers again until it sees a 200 (attempts may overlap and  *)
(* an answer may be lost); any storage call may fail, before or after it   *)
(* took effect; the instance may die at any point.                         *)
(*                                                                         *)
(* What happens to a staged candidate is PoolRetryScan and PoolDelivery,   *)
(* what processing does is SafeBatch.                                      *)
(***************************************************************************)
EXTENDS Integers

CONSTANTS
  Attempt,   \* deliveries of this webhook
  Burns      \* number of well-formed watched burns in it, staged in order

Burn == 1..Burns

ASSUME WebhookAssumption == Burns \in Nat

VARIABLES
  nonce,     \* whether the nonce object exists
  staged,    \* burns whose candidate object exists
  malformed, \* whether the payload also has a burn without event key
  window,    \* whether the signature is still accepted
  pc,        \* where the handler of each attempt stands
  verdict,   \* what reserveQuickNodeNonce returned
  next,      \* the burn staged next, Burns + 1 at the end
  staging,   \* whether the staging promise is still pending
  failed,    \* whether it counts a failure
  began,     \* attempts that began to process the Safe events
  reply      \* the answer sent

vars == <<nonce, staged, malformed, window, pc, verdict, next, staging, failed, began, reply>>

Place   == {"idle", "reserve", "process", "processing", "join", "end", "dead"}
Verdict == {"none", "valid", "replayed", "error"}
Reply   == {"none", "ok", "duplicate", "retry", "error", "unauthorized"}

\* Answers that stop QuickNode: status 200.
Accepted == {"ok", "duplicate"}

TypeOK ==
  /\ nonce \in BOOLEAN /\ malformed \in BOOLEAN /\ window \in BOOLEAN
  /\ staged \subseteq Burn
  /\ pc \in [Attempt -> Place]
  /\ verdict \in [Attempt -> Verdict]
  /\ next \in [Attempt -> 1..(Burns + 1)]
  /\ staging \in [Attempt -> BOOLEAN]
  /\ failed \in [Attempt -> BOOLEAN]
  /\ began \subseteq Attempt
  /\ reply \in [Attempt -> Reply]

Init ==
  /\ nonce = FALSE /\ staged = {} /\ window = TRUE
  /\ malformed \in BOOLEAN
  /\ pc = [a \in Attempt |-> "idle"]
  /\ verdict = [a \in Attempt |-> "none"]
  /\ next = [a \in Attempt |-> 1]
  /\ staging = [a \in Attempt |-> FALSE]
  /\ failed = [a \in Attempt |-> FALSE]
  /\ began = {}
  /\ reply = [a \in Attempt |-> "none"]

Goto(a, place) == pc' = [pc EXCEPT ![a] = place]
Answer(a, r)   == reply' = [reply EXCEPT ![a] = r] /\ Goto(a, "end")

\* The signature check refuses an attempt outside its window.
Refuse(a) ==
  /\ pc[a] = "idle" /\ ~window
  /\ Answer(a, "unauthorized")
  /\ UNCHANGED <<nonce, staged, malformed, window, verdict, next, staging, failed, began>>

\* A valid attempt starts staging and goes on to the nonce without waiting.
\* A malformed burn counts as a failure; an invalid watch configuration fails
\* the staging before any burn.
Start(a) ==
  /\ pc[a] = "idle" /\ window
  /\ \E misconfigured \in BOOLEAN :
       /\ misconfigured => malformed \/ Burn # {}
       /\ staging' = [staging EXCEPT ![a] = ~misconfigured]
       /\ failed' = [failed EXCEPT ![a] = malformed \/ misconfigured]
  /\ Goto(a, "reserve")
  /\ UNCHANGED <<nonce, staged, malformed, window, verdict, next, began, reply>>

\* stagePoolCandidate creates the object or finds it there (412); on an error
\* the failure is counted, whether or not the object was created, and the loop
\* goes on.
StageBurn(a) ==
  /\ staging[a] /\ next[a] \in Burn
  /\ \/ /\ staged' = staged \cup {next[a]}
        /\ failed' \in {failed, [failed EXCEPT ![a] = TRUE]}
     \/ UNCHANGED staged /\ failed' = [failed EXCEPT ![a] = TRUE]
  /\ next' = [next EXCEPT ![a] = @ + 1]
  /\ UNCHANGED <<nonce, malformed, window, pc, verdict, staging, began, reply>>

StageEnd(a) ==
  /\ staging[a] /\ next[a] = Burns + 1
  /\ staging' = [staging EXCEPT ![a] = FALSE]
  /\ UNCHANGED <<nonce, staged, malformed, window, pc, verdict, next, failed, began, reply>>

\* Variant: the nonce object is written without ifGenerationMatch=0.
Reserve_Overwrites(a) ==
  /\ pc[a] = "reserve"
  /\ \/ nonce' = TRUE /\ verdict' = [verdict EXCEPT ![a] = "valid"] /\ Goto(a, "process")
     \/ /\ nonce' \in {nonce, TRUE}
        /\ verdict' = [verdict EXCEPT ![a] = "error"] /\ Goto(a, "join")
  /\ UNCHANGED <<staged, malformed, window, next, staging, failed, began, reply>>

\* reserveQuickNodeNonce: created, already there, or an error that may hide a
\* created object.
Reserve(a) ==
  /\ pc[a] = "reserve"
  /\ \/ /\ ~nonce /\ nonce' = TRUE
        /\ verdict' = [verdict EXCEPT ![a] = "valid"] /\ Goto(a, "process")
     \/ /\ nonce /\ UNCHANGED nonce
        /\ verdict' = [verdict EXCEPT ![a] = "replayed"] /\ Goto(a, "join")
     \/ /\ nonce' \in {nonce, TRUE}
        /\ verdict' = [verdict EXCEPT ![a] = "error"] /\ Goto(a, "join")
  /\ UNCHANGED <<staged, malformed, window, next, staging, failed, began, reply>>

\* Process the Safe events of the batch.
BeginProcess(a) ==
  /\ pc[a] = "process"
  /\ began' = began \cup {a}
  /\ Goto(a, "processing")
  /\ UNCHANGED <<nonce, staged, malformed, window, verdict, next, staging, failed, reply>>

\* processEvents returns, or throws into the outer catch: 500 at once.
EndProcess(a) ==
  /\ pc[a] = "processing"
  /\ Goto(a, "join")
  /\ UNCHANGED <<nonce, staged, malformed, window, verdict, next, staging, failed, began, reply>>

ProcessThrows(a) ==
  /\ pc[a] = "processing"
  /\ Answer(a, "error")
  /\ UNCHANGED <<nonce, staged, malformed, window, verdict, next, staging, failed, began>>

\* Variant: a replay is answered 200 whatever became of its staging.
Finish_ReplayIsOk(a) ==
  /\ pc[a] = "join" /\ ~staging[a]
  /\ Answer(a, IF verdict[a] = "error" THEN "error"
               ELSE IF verdict[a] = "replayed" THEN "duplicate"
               ELSE IF failed[a] THEN "retry" ELSE "ok")
  /\ UNCHANGED <<nonce, staged, malformed, window, verdict, next, staging, failed, began>>

\* await poolDelivery, then answer.
Finish(a) ==
  /\ pc[a] = "join" /\ ~staging[a]
  /\ Answer(a, IF verdict[a] = "error" THEN "error"
               ELSE IF failed[a] THEN "retry"
               ELSE IF verdict[a] = "replayed" THEN "duplicate" ELSE "ok")
  /\ UNCHANGED <<nonce, staged, malformed, window, verdict, next, staging, failed, began>>

\* The instance dies or is cut off at its timeout.
Crash(a) ==
  /\ pc[a] \notin {"idle", "dead"}
  /\ Goto(a, "dead")
  /\ staging' = [staging EXCEPT ![a] = FALSE]
  /\ UNCHANGED <<nonce, staged, malformed, window, verdict, next, failed, began, reply>>

CloseWindow ==
  /\ window /\ window' = FALSE
  /\ UNCHANGED <<nonce, staged, malformed, pc, verdict, next, staging, failed, began, reply>>

Next ==
  \/ CloseWindow
  \/ \E a \in Attempt :
       \/ Refuse(a) \/ Start(a) \/ StageBurn(a) \/ StageEnd(a)
       \/ Reserve(a) \/ BeginProcess(a) \/ EndProcess(a) \/ ProcessThrows(a)
       \/ Finish(a) \/ Crash(a)

Spec == Init /\ [][Next]_vars

-----------------------------------------------------------------------------
(* Properties.                                                             *)

\* A 200 stops QuickNode for good, so it is answered only when every
\* well-formed burn has its candidate object and no burn is malformed, also
\* when the Safe nonce was claimed by an earlier attempt.
AcceptedMeansStaged ==
  (\E a \in Attempt : reply[a] \in Accepted) => staged = Burn /\ ~malformed

\* However attempts overlap and retry, the Safe events are processed by at
\* most one of them: no alert is posted twice on account of a retry.
ProcessedAtMostOnce ==
  \A a, b \in began : a = b
=============================================================================
