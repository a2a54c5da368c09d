------------------------------ MODULE SafeBatch ------------------------------
(***************************************************************************)
(* processEvents: the Safe events of one webhook, handled one after the    *)
(* other under a time budget                                               *)
(* (alerts/infra/onchain-event-handler/src/process-events.ts).             *)
(*                                                                         *)
(* A log is a record of its event, its transaction (None when the hash is  *)
(* no string) and its address, which processEvent wants set and the        *)
(* context only wants to be a string.  The batch is any sequence of logs,   *)
(* sorted; entries that are no objects have been dropped from it.          *)
(* The budget runs out at any moment; the abort signal follows at a later  *)
(* turn of the event loop (never, when the budget was spent before the     *)
(* timer could be set).  Chain lookup, formatting, the Slack post and the  *)
(* dead-letter write may each fail.                                        *)
(***************************************************************************)
EXTENDS Integers, Sequences, FiniteSets

CONSTANTS
  Tx,        \* transaction hashes
  None,      \* no hash
  MaxLogs    \* bound on the length of a batch

ASSUME BatchAssumption == None \notin Tx /\ MaxLogs \in Nat

Safe  == "SafeMultiSigTransaction"
Exec  == "ExecutionSuccess"
Other == "Other"

Log ==
  [event : {Safe, Exec}, tx : Tx \cup {None}, address : {"set", "empty", "missing"}]
    \cup [event : {Other}, tx : Tx \cup {None}, address : {"set"}]

VARIABLES
  logs,      \* logsToProcess, in order
  at,        \* index of the log at hand
  loop,      \* "top" of the loop, "send" (in processEvent), "catch", "done"
  fallback,  \* whether the send at hand uses the headroom's own signal
  sent,      \* processedSafeMultiSigTxs
  skipped,   \* the count returned
  expired,   \* the budget is spent
  aborted,   \* the abort signal has fired
  timer,     \* an abort timer is set
  fate       \* what became of each log

batchVars == <<logs, at, loop, fallback, sent, skipped, expired, aborted, timer, fate>>

\* The fates.  "unseen": not reached; "cut": passed over by the budget; "null": processEvent
\* returned null; "failed": threw before a message was rendered; "posted";
\* "suppressed"; "rendered": Slack failed; "kept"/"lost": dead letter written or
\* not; "failing": threw, not yet handled.

Index == 1..Len(logs)

\* buildEventContext: the transactions with a Safe event.
SafeTxs(batch) ==
  {batch[i].tx : i \in {j \in DOMAIN batch : batch[j].event = Safe /\ batch[j].address # "missing"}}
    \ {None}
HasSafeTx == SafeTxs(logs)

\* What validateLog asks for: anything else is returned as null.
Valid(log) == log.address = "set" /\ log.tx # None

\* eventPriority
Priority(batch, log) ==
  IF log.event = Safe THEN 0
  ELSE IF log.event = Exec /\ log.tx \in SafeTxs(batch) THEN 1 ELSE 2

\* What a batch may look like once it is sorted.
Prioritised(batch) ==
  \A i, k \in DOMAIN batch : i < k => Priority(batch, batch[i]) <= Priority(batch, batch[k])

BatchInit ==
  /\ \E n \in 0..MaxLogs : logs \in [1..n -> Log]
  /\ Prioritised(logs)
  /\ at = 1 /\ loop = "top" /\ fallback = FALSE
  /\ sent = {} /\ skipped = 0
  /\ timer \in BOOLEAN /\ expired = ~timer /\ aborted = FALSE
  /\ fate = [i \in Index |-> "unseen"]

\* Time passes: the budget is spent, then the timer callback runs.  It runs
\* only while the loop awaits.
Expire ==
  /\ ~expired /\ loop # "done"
  /\ expired' = TRUE
  /\ UNCHANGED <<logs, at, loop, fallback, sent, skipped, aborted, timer, fate>>

Abort ==
  /\ expired /\ timer /\ ~aborted /\ loop \in {"send", "catch"}
  /\ aborted' = TRUE
  /\ UNCHANGED <<logs, at, loop, fallback, sent, skipped, expired, timer, fate>>

Fates(S, f) == [i \in Index |-> IF i \in S THEN f ELSE fate[i]]
Rest        == {i \in Index : i > at}

\* The loop ends, or goes on with the next log.
Advance ==
  /\ at' = at + 1
  /\ loop' = IF at + 1 > Len(logs) THEN "done" ELSE "top"

\* isPendingExecutionFallback: it needs a hash, not an address.
PendingFallback(log) == log.event = Exec /\ log.tx \in HasSafeTx /\ log.tx \notin sent

Empty ==
  /\ loop = "top" /\ logs = <<>>
  /\ loop' = "done"
  /\ UNCHANGED <<logs, at, fallback, sent, skipped, expired, aborted, timer, fate>>

Suppressed == logs[at].event = Exec /\ logs[at].tx \in sent

\* The Safe alert of this transaction was sent: no second notification.
Suppress ==
  /\ loop = "top" /\ at \in Index /\ Suppressed
  /\ fate' = Fates({at}, "suppressed")
  /\ Advance
  /\ UNCHANGED <<logs, fallback, sent, skipped, expired, aborted, timer>>

\* Variant: the log at hand is not counted.
CutOff_OffByOne ==
  /\ loop = "top" /\ at \in Index /\ ~Suppressed /\ expired /\ ~PendingFallback(logs[at])
  /\ skipped' = skipped + (Len(logs) - at)
  /\ fate' = Fates({at} \cup Rest, "cut")
  /\ loop' = "done"
  /\ UNCHANGED <<logs, at, fallback, sent, expired, aborted, timer>>

\* The budget is spent and the log at hand is no fallback: stop.
CutOff ==
  /\ loop = "top" /\ at \in Index /\ ~Suppressed /\ expired /\ ~PendingFallback(logs[at])
  /\ skipped' = skipped + (Len(logs) - (at - 1))
  /\ fate' = Fates({at} \cup Rest, "cut")
  /\ loop' = "done"
  /\ UNCHANGED <<logs, at, fallback, sent, expired, aborted, timer>>

\* processEvent is called, with the batch's signal or, for a fallback past the
\* budget, with one of its own (10 s of headroom).
Call ==
  /\ loop = "top" /\ at \in Index /\ ~Suppressed
  /\ expired => PendingFallback(logs[at])
  /\ fallback' = expired
  /\ loop' = "send"
  /\ UNCHANGED <<logs, at, sent, skipped, expired, aborted, timer, fate>>

\* After the headroom send the rest of the batch is cut off.
EndHeadroom(own) ==
  /\ skipped' = skipped + own + (Len(logs) - at)
  /\ loop' = "done"
  /\ UNCHANGED at

\* Variant: the Safe event counts as sent though processEvent gave up on it.
Return_CountsNull ==
  /\ loop = "send"
  /\ \E f \in {"posted", "null"} :
       /\ f = "posted" => Valid(logs[at])
       /\ fate' = IF fallback THEN [Fates(Rest, "cut") EXCEPT ![at] = f] ELSE Fates({at}, f)
       /\ sent' = IF logs[at].event = Safe /\ ~fallback
                  THEN sent \cup {logs[at].tx} ELSE sent
  /\ IF fallback THEN EndHeadroom(0) ELSE Advance /\ UNCHANGED skipped
  /\ UNCHANGED <<logs, fallback, expired, aborted, timer>>

\* processEvent returns: posted, or null for a log it cannot route.
Return ==
  /\ loop = "send"
  /\ \E f \in {"posted", "null"} :
       /\ f = "posted" => Valid(logs[at])
       /\ fate' = IF fallback THEN [Fates(Rest, "cut") EXCEPT ![at] = f] ELSE Fates({at}, f)
       /\ sent' = IF logs[at].event = Safe /\ ~fallback /\ f = "posted"
                  THEN sent \cup {logs[at].tx} ELSE sent
  /\ IF fallback THEN EndHeadroom(0) ELSE Advance /\ UNCHANGED skipped
  /\ UNCHANGED <<logs, fallback, expired, aborted, timer>>

\* processEvent throws: before the message is rendered, or when Slack fails or
\* the send is aborted.
Throw ==
  /\ loop = "send" /\ Valid(logs[at])
  /\ \E f \in {"failing", "rendered"} : fate' = Fates({at}, f)
  /\ loop' = "catch"
  /\ UNCHANGED <<logs, at, fallback, sent, skipped, expired, aborted, timer>>

\* deadLetterIfSlackDeliveryFailed: only a rendered message is kept.
DeadLetter_UnlessAborted ==
  IF fate[at] = "rendered" /\ ~aborted THEN {"kept", "lost"} ELSE {"failed"}
DeadLetter == IF fate[at] = "rendered" THEN {"kept", "lost"} ELSE {"failed"}

\* Variants: the fallback that comes next is not waited for; the rest of the
\* batch is counted with the log at hand, which is counted already.
CatchCutOff_NoFallback ==
  /\ loop = "catch" /\ ~fallback /\ aborted
  /\ \E f \in DeadLetter : fate' = [Fates(Rest, "cut") EXCEPT ![at] = f]
  /\ skipped' = skipped + 1 + (Len(logs) - at)
  /\ loop' = "done"
  /\ UNCHANGED <<logs, at, fallback, sent, expired, aborted, timer>>

\* The catch: keep the message, then stop if the batch's signal has fired,
\* except for a fallback that comes immediately next.
CatchCutOff ==
  /\ loop = "catch" /\ ~fallback /\ aborted
  /\ ~(at + 1 \in Index /\ PendingFallback(logs[at + 1]))
  /\ \E f \in DeadLetter : fate' = [Fates(Rest, "cut") EXCEPT ![at] = f]
  /\ skipped' = skipped + 1 + (Len(logs) - at)
  /\ loop' = "done"
  /\ UNCHANGED <<logs, at, fallback, sent, expired, aborted, timer>>

CatchGoOn ==
  /\ loop = "catch" /\ ~fallback
  /\ aborted => at + 1 \in Index /\ PendingFallback(logs[at + 1])
  /\ \E f \in DeadLetter : fate' = Fates({at}, f)
  /\ skipped' = skipped + (IF aborted THEN 1 ELSE 0)
  /\ Advance
  /\ UNCHANGED <<logs, fallback, sent, expired, aborted, timer>>

CatchHeadroom ==
  /\ loop = "catch" /\ fallback
  /\ \E f \in DeadLetter : fate' = [Fates(Rest, "cut") EXCEPT ![at] = f]
  /\ EndHeadroom(1)
  /\ UNCHANGED <<logs, fallback, sent, expired, aborted, timer>>

BatchNext ==
  \/ Expire \/ Abort
  \/ Empty \/ Suppress \/ CutOff \/ Call \/ Return \/ Throw
  \/ CatchCutOff \/ CatchGoOn \/ CatchHeadroom

BatchSpec == BatchInit /\ [][BatchNext]_batchVars

-----------------------------------------------------------------------------
(* Properties.                                                             *)

\* An ExecutionSuccess is kept quiet only when a Safe alert of the same
\* transaction reached Slack.
SuppressedWasAnnounced ==
  \A i \in Index : fate[i] = "suppressed" =>
    \E j \in Index : logs[j].event = Safe /\ logs[j].tx = logs[i].tx /\ fate[j] = "posted"

\* A message that was rendered and not posted is handed to the dead-letter
\* write, also when the budget's abort cut its send short.
RenderedIsKept ==
  [][\A i \in Index : fate[i] = "rendered" => fate'[i] \in {"rendered", "kept", "lost"}]_batchVars

\* The skipped count of the answer: every log the budget passed over, and of
\* the others only failures.
Fated(f) == {i \in Index : fate[i] \in f}
CountsAddUp ==
  loop = "done" =>
    /\ skipped >= Cardinality(Fated({"cut"}))
    /\ skipped <= Cardinality(Fated({"cut", "failed", "kept", "lost"}))

\* With one Safe event in the batch, the budget never passes over its
\* ExecutionSuccess once the Safe alert has failed: the headroom serves it.
Fallbacks(j) == {i \in Index : logs[i].event = Exec /\ logs[i].tx = logs[j].tx}
HeadroomServesFallback ==
  loop = "done" =>
    \A j \in Index :
      /\ {i \in Index : logs[i].event = Safe} = {j} /\ logs[j].tx \in HasSafeTx
      /\ fate[j] \in {"failed", "kept", "lost"} /\ Fallbacks(j) # {}
      => \E i \in Fallbacks(j) : fate[i] # "cut"

\* The same for every batch of valid logs whose Safe events are of different
\* transactions, as the comment on the order has it:
\* "only suppress it after the richer SafeMultiSigTransaction alert succeeds.
\* Otherwise a budget cutoff or per-event failure could leave no alert."
FailedSafeHasFallback ==
  /\ loop = "done" /\ \A i \in Index : Valid(logs[i])
  /\ \A i, j \in Index : logs[i].event = Safe /\ logs[i] = logs[j] => i = j
  => \A j \in Index :
       logs[j].event = Safe /\ fate[j] = "failed" /\ Fallbacks(j) # {}
       => \E i \in Fallbacks(j) : fate[i] # "cut"
=============================================================================
