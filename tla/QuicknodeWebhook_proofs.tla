----------------------- MODULE QuicknodeWebhook_proofs -----------------------
(***************************************************************************)
(* Machine-checked proofs about QuicknodeWebhook for any number of         *)
(* attempts and burns: a 200 means everything is staged, and the Safe      *)
(* events of the webhook are processed at most once.  Then about SafeBatch  *)
(* for batches of any length: what its budget, its failures and its order   *)
(* leave true of the alerts of one webhook.                                 *)
(***************************************************************************)
EXTENDS QuicknodeWebhook, SafeBatch, FiniteSetTheorems, TLAPS

\* What the staging of an attempt that may still answer has achieved.
StageOK(a) ==
  /\ pc[a] = "idle" => next[a] = 1 /\ ~staging[a]
  /\ pc[a] \in {"reserve", "process", "processing", "join"} /\ ~failed[a] =>
       /\ ~malformed
       /\ \A i \in Burn : i < next[a] => i \in staged
       /\ ~staging[a] => next[a] = Burns + 1
  /\ reply[a] \in Accepted => staged = Burn /\ ~malformed
StageInv == \A a \in Attempt : StageOK(a)

\* Who owns the nonce.
NonceInv ==
  /\ \A a \in Attempt : verdict[a] = "valid" => nonce /\ pc[a] \notin {"idle", "reserve"}
  /\ \A a, b \in Attempt : verdict[a] = "valid" /\ verdict[b] = "valid" => a = b
  /\ \A a \in Attempt : a \in began \/ pc[a] \in {"process", "processing"} => verdict[a] = "valid"

WebhookInv == TypeOK /\ StageInv /\ NonceInv

\* A step of one attempt that removes no candidate keeps what the others know.
LEMMA OthersStaged ==
  ASSUME WebhookInv, NEW b \in Attempt, staged \subseteq staged', staged' \subseteq Burn,
         malformed' = malformed, pc'[b] = pc[b], next'[b] = next[b],
         staging'[b] = staging[b], failed'[b] = failed[b], reply'[b] = reply[b]
  PROVE  StageOK(b)'
<1>1. StageOK(b)
  BY DEF WebhookInv, StageInv
<1> QED BY <1>1 DEF StageOK, Burn

\* The invariant is inductive: one step per action of an attempt.
LEMMA WebhookStep == WebhookInv /\ [Next]_vars => WebhookInv'
<1> SUFFICES ASSUME WebhookInv, [Next]_vars PROVE WebhookInv'
  OBVIOUS
<1> USE WebhookAssumption DEF WebhookInv
<1>1. ASSUME NEW a \in Attempt, Refuse(a) PROVE WebhookInv'
  <2>1. TypeOK'
    BY <1>1 DEF Refuse, Answer, Goto, TypeOK, Place, Verdict, Reply
  <2>2. StageOK(a)'
    BY <1>1 DEF Refuse, Answer, Goto, TypeOK, StageInv, StageOK, Accepted
  <2>3. \A b \in Attempt \ {a} : StageOK(b)'
    BY <1>1, <2>1, OthersStaged DEF Refuse, Answer, Goto, TypeOK
  <2>4. NonceInv'
    BY <1>1 DEF Refuse, Answer, Goto, TypeOK, NonceInv
  <2> QED BY <2>1, <2>2, <2>3, <2>4 DEF StageInv
<1>2. ASSUME NEW a \in Attempt, Start(a) PROVE WebhookInv'
  <2>1. TypeOK'
    BY <1>2 DEF Start, Goto, TypeOK, Place, Verdict, Reply
  <2>2. StageOK(a)'
    <3>1. PICK m \in BOOLEAN : /\ staging' = [staging EXCEPT ![a] = ~m]
                              /\ failed' = [failed EXCEPT ![a] = malformed \/ m]
      BY <1>2 DEF Start
    <3>2. /\ pc[a] = "idle" /\ pc'[a] = "reserve" /\ next'[a] = next[a] /\ next[a] = 1
          /\ staged' = staged /\ malformed' = malformed /\ reply'[a] = reply[a]
      BY <1>2 DEF Start, Goto, TypeOK, StageInv, StageOK
    <3>3. ~failed'[a] => ~malformed /\ staging'[a]
      BY <3>1 DEF TypeOK
    <3> QED BY <3>2, <3>3 DEF StageInv, StageOK, Burn
  <2>3. \A b \in Attempt \ {a} : StageOK(b)'
    BY <1>2, <2>1, OthersStaged DEF Start, Goto, TypeOK
  <2>4. NonceInv'
    BY <1>2 DEF Start, Goto, TypeOK, NonceInv
  <2> QED BY <2>1, <2>2, <2>3, <2>4 DEF StageInv
<1>3. ASSUME NEW a \in Attempt, StageBurn(a) PROVE WebhookInv'
  <2>0. /\ next[a] \in Burn /\ staging[a] /\ next' = [next EXCEPT ![a] = @ + 1]
        /\ failed' = failed \/ failed' = [failed EXCEPT ![a] = TRUE]
        /\ staged' = staged \/ staged' = staged \cup {next[a]}
        /\ UNCHANGED <<nonce, malformed, window, pc, verdict, staging, began, reply>>
    BY <1>3 DEF StageBurn
  <2>1. TypeOK'
    <3>1. next[a] + 1 \in 1..(Burns + 1)
      BY <2>0 DEF Burn
    <3>2. next' \in [Attempt -> 1..(Burns + 1)]
      BY <2>0, <3>1 DEF TypeOK
    <3>3. failed' \in [Attempt -> BOOLEAN]
      BY <2>0 DEF TypeOK
    <3>4. staged' \subseteq Burn
      BY <2>0 DEF TypeOK
    <3> QED BY <2>0, <3>2, <3>3, <3>4 DEF TypeOK
  <2>2. StageOK(a)'
    <3>1. next'[a] = next[a] + 1 /\ next[a] \in Int
      BY <2>0 DEF TypeOK, Burn
    <3>2. ~failed'[a] => ~failed[a] /\ staged' = staged \cup {next[a]}
      BY <1>3, <2>0 DEF StageBurn, TypeOK
    <3>3. \A i \in Burn : i < next'[a] => i < next[a] \/ i = next[a]
      BY <3>1 DEF Burn
    <3>4. StageOK(a)
      BY DEF StageInv
    <3>5. staged' \subseteq Burn
      BY <2>1 DEF TypeOK
    <3> QED BY <2>0, <3>1, <3>2, <3>3, <3>4, <3>5 DEF StageOK
  <2>3. \A b \in Attempt \ {a} : StageOK(b)'
    BY <1>3, <2>1, OthersStaged DEF StageBurn, TypeOK
  <2>4. NonceInv'
    BY <1>3 DEF StageBurn, TypeOK, NonceInv
  <2> QED BY <2>1, <2>2, <2>3, <2>4 DEF StageInv
<1>4. ASSUME NEW a \in Attempt, StageEnd(a) PROVE WebhookInv'
  <2>1. TypeOK'
    BY <1>4 DEF StageEnd, TypeOK, Place, Verdict, Reply, Burn
  <2>2. StageOK(a)'
    BY <1>4 DEF StageEnd, TypeOK, StageInv, StageOK, Accepted, Burn
  <2>3. \A b \in Attempt \ {a} : StageOK(b)'
    BY <1>4, <2>1, OthersStaged DEF StageEnd, TypeOK
  <2>4. NonceInv'
    BY <1>4 DEF StageEnd, TypeOK, NonceInv
  <2> QED BY <2>1, <2>2, <2>3, <2>4 DEF StageInv
<1>5. ASSUME NEW a \in Attempt, Reserve(a) PROVE WebhookInv'
  <2>1. TypeOK'
    BY <1>5 DEF Reserve, Goto, TypeOK, Place, Verdict, Reply
  <2>2. StageOK(a)'
    BY <1>5 DEF Reserve, Goto, TypeOK, StageInv, StageOK, Accepted
  <2>3. \A b \in Attempt \ {a} : StageOK(b)'
    BY <1>5, <2>1, OthersStaged DEF Reserve, Goto, TypeOK
  <2>4. NonceInv'
    <3>1. /\ pc[a] = "reserve" /\ began' = began
          /\ \A b \in Attempt \ {a} : verdict'[b] = verdict[b] /\ pc'[b] = pc[b]
      BY <1>5 DEF Reserve, Goto, TypeOK
    <3>2. verdict'[a] = "valid" => ~nonce /\ nonce' /\ pc'[a] = "process"
      BY <1>5 DEF Reserve, Goto, TypeOK
    <3>3. a \notin began /\ (nonce => nonce')
      <4>1. verdict[a] # "valid"
        BY <3>1 DEF NonceInv
      <4>2. a \notin began
        BY <4>1 DEF NonceInv
      <4>3. nonce => nonce'
        BY <1>5, Zenon DEF Reserve
      <4> QED BY <4>2, <4>3
    <3>4. pc'[a] \in {"process", "join"} /\ (pc'[a] = "process" => verdict'[a] = "valid")
      BY <1>5 DEF Reserve, Goto, TypeOK
    <3> QED BY <3>1, <3>2, <3>3, <3>4 DEF NonceInv
  <2> QED BY <2>1, <2>2, <2>3, <2>4 DEF StageInv
<1>6. ASSUME NEW a \in Attempt, BeginProcess(a) PROVE WebhookInv'
  <2>1. TypeOK'
    BY <1>6 DEF BeginProcess, Goto, TypeOK, Place, Verdict, Reply
  <2>2. StageOK(a)'
    BY <1>6 DEF BeginProcess, Goto, TypeOK, StageInv, StageOK, Accepted
  <2>3. \A b \in Attempt \ {a} : StageOK(b)'
    BY <1>6, <2>1, OthersStaged DEF BeginProcess, Goto, TypeOK
  <2>4. NonceInv'
    BY <1>6 DEF BeginProcess, Goto, TypeOK, NonceInv
  <2> QED BY <2>1, <2>2, <2>3, <2>4 DEF StageInv
<1>7. ASSUME NEW a \in Attempt, EndProcess(a) PROVE WebhookInv'
  <2>1. TypeOK'
    BY <1>7 DEF EndProcess, Goto, TypeOK, Place, Verdict, Reply
  <2>2. StageOK(a)'
    BY <1>7 DEF EndProcess, Goto, TypeOK, StageInv, StageOK, Accepted
  <2>3. \A b \in Attempt \ {a} : StageOK(b)'
    BY <1>7, <2>1, OthersStaged DEF EndProcess, Goto, TypeOK
  <2>4. NonceInv'
    BY <1>7 DEF EndProcess, Goto, TypeOK, NonceInv
  <2> QED BY <2>1, <2>2, <2>3, <2>4 DEF StageInv
<1>8. ASSUME NEW a \in Attempt, ProcessThrows(a) PROVE WebhookInv'
  <2>1. TypeOK'
    BY <1>8 DEF ProcessThrows, Answer, Goto, TypeOK, Place, Verdict, Reply
  <2>2. StageOK(a)'
    BY <1>8 DEF ProcessThrows, Answer, Goto, TypeOK, StageInv, StageOK, Accepted
  <2>3. \A b \in Attempt \ {a} : StageOK(b)'
    BY <1>8, <2>1, OthersStaged DEF ProcessThrows, Answer, Goto, TypeOK
  <2>4. NonceInv'
    BY <1>8 DEF ProcessThrows, Answer, Goto, TypeOK, NonceInv
  <2> QED BY <2>1, <2>2, <2>3, <2>4 DEF StageInv
<1>9. ASSUME NEW a \in Attempt, Finish(a) PROVE WebhookInv'
  <2>1. TypeOK'
    BY <1>9 DEF Finish, Answer, Goto, TypeOK, Place, Verdict, Reply
  <2>2. StageOK(a)'
    <3>1. /\ pc[a] = "join" /\ ~staging[a] /\ pc'[a] = "end"
          /\ staged' = staged /\ malformed' = malformed /\ next' = next /\ failed' = failed
      BY <1>9 DEF Finish, Answer, Goto, TypeOK
    <3>2. reply'[a] \in Accepted => ~failed[a]
      BY <1>9 DEF Finish, Answer, TypeOK, Accepted
    <3>3. ~failed[a] => ~malformed /\ Burn \subseteq staged
      BY <3>1 DEF StageInv, StageOK, Burn
    <3> QED BY <3>1, <3>2, <3>3 DEF StageOK, TypeOK
  <2>3. \A b \in Attempt \ {a} : StageOK(b)'
    BY <1>9, <2>1, OthersStaged DEF Finish, Answer, Goto, TypeOK
  <2>4. NonceInv'
    BY <1>9 DEF Finish, Answer, Goto, TypeOK, NonceInv
  <2> QED BY <2>1, <2>2, <2>3, <2>4 DEF StageInv
<1>10. ASSUME NEW a \in Attempt, Crash(a) PROVE WebhookInv'
  <2>1. TypeOK'
    BY <1>10 DEF Crash, Goto, TypeOK, Place, Verdict, Reply
  <2>2. StageOK(a)'
    BY <1>10 DEF Crash, Goto, TypeOK, StageInv, StageOK, Accepted
  <2>3. \A b \in Attempt \ {a} : StageOK(b)'
    BY <1>10, <2>1, OthersStaged DEF Crash, Goto, TypeOK
  <2>4. NonceInv'
    BY <1>10 DEF Crash, Goto, TypeOK, NonceInv
  <2> QED BY <2>1, <2>2, <2>3, <2>4 DEF StageInv
<1>11. CASE CloseWindow \/ UNCHANGED vars
  <2>1. TypeOK' /\ NonceInv'
    BY <1>11 DEF CloseWindow, vars, TypeOK, NonceInv
  <2>2. StageInv'
    BY <1>11 DEF CloseWindow, vars, StageInv, StageOK
  <2> QED BY <2>1, <2>2
<1> QED BY <1>1, <1>2, <1>3, <1>4, <1>5, <1>6, <1>7, <1>8, <1>9, <1>10, <1>11 DEF Next

\* The inductive invariant holds in every reachable state.
THEOREM WebhookInvariant == Spec => []WebhookInv
<1>1. ASSUME Init PROVE WebhookInv
  <2>1. TypeOK /\ NonceInv
    <3>1. next \in [Attempt -> 1..(Burns + 1)]
      BY <1>1, WebhookAssumption DEF Init
    <3>2. TypeOK
      BY <1>1, <3>1 DEF Init, TypeOK, Place, Verdict, Reply
    <3>3. NonceInv
      BY <1>1 DEF Init, NonceInv
    <3> QED BY <3>2, <3>3
  <2>2. StageInv
    BY <1>1 DEF Init, StageInv, StageOK, Accepted
  <2> QED BY <2>1, <2>2 DEF WebhookInv
<1> QED BY <1>1, WebhookStep, PTL DEF Spec

\* Every reachable state is well typed.
THEOREM WebhookTypes == Spec => []TypeOK
BY WebhookInvariant, PTL DEF WebhookInv

\* An attempt answers 200 only when every burn of the payload is staged.
THEOREM NoBurnLost == Spec => []AcceptedMeansStaged
<1>1. WebhookInv => AcceptedMeansStaged
  BY DEF WebhookInv, StageInv, StageOK, AcceptedMeansStaged
<1> QED BY <1>1, WebhookInvariant, PTL

\* However often the webhook is delivered, its Safe events are processed once
\* at most.
THEOREM SafeOnce == Spec => []ProcessedAtMostOnce
<1>1. WebhookInv => ProcessedAtMostOnce
  BY DEF WebhookInv, TypeOK, NonceInv, ProcessedAtMostOnce
<1> QED BY <1>1, WebhookInvariant, PTL

-----------------------------------------------------------------------------
(* The batch of Safe events.                                               *)

Failures == {"failed", "kept", "lost"}
Settled  == {"posted", "null", "suppressed"} \cup Failures
Fate     == Settled \cup {"unseen", "cut", "failing", "rendered"}

BatchTypeOK ==
  /\ logs \in Seq(Log) /\ at \in 1..(Len(logs) + 1)
  /\ loop \in {"top", "send", "catch", "done"}
  /\ {fallback, expired, aborted, timer} \subseteq BOOLEAN
  /\ sent \subseteq Tx /\ skipped \in Nat
  /\ fate \in [Index -> Fate]

\* What lies behind the log at hand is settled, what lies before it untouched.
FateInv ==
  /\ loop \in {"send", "catch"} => at \in Index
  /\ loop = "top" => at \in Index \/ logs = <<>>
  /\ loop # "done" => \A i \in Index :
       /\ i < at => fate[i] \in Settled
       /\ i > at => fate[i] = "unseen"
       /\ i = at => fate[i] \in IF loop = "catch" THEN {"failing", "rendered"} ELSE {"unseen"}
  /\ loop = "done" => \A i \in Index : fate[i] \in Settled \cup {"cut"}

\* A Safe alert of this transaction reached Slack.
Announced(t) == \E j \in Index : logs[j].event = Safe /\ logs[j].tx = t /\ fate[j] = "posted"

\* Who counts as sent was announced; the headroom serves fallbacks only.
SentInv ==
  /\ \A t \in sent : Announced(t)
  /\ SuppressedWasAnnounced
  /\ loop \in {"send", "catch"} /\ fallback => logs[at].event = Exec

\* As long as the loop goes on, only failures have been counted.
CountInv ==
  /\ loop # "done" => skipped <= Cardinality(Fated(Failures))
  /\ CountsAddUp

\* Log j is the only Safe event, and its transaction has an ExecutionSuccess.
SoleSafe(j) ==
  /\ {i \in Index : logs[i].event = Safe} = {j} /\ logs[j].tx \in HasSafeTx
  /\ Fallbacks(j) # {}

\* Its fallback comes second, and is never passed over.
HeadroomInv ==
  /\ Prioritised(logs)
  /\ \A j \in Index : SoleSafe(j) /\ fate[j] \in Failures =>
       2 \in Fallbacks(j) /\ fate[2] # "cut"

BatchInv == BatchTypeOK /\ FateInv /\ SentInv /\ CountInv /\ HeadroomInv

-----------------------------------------------------------------------------
\* Types, and the place of every fate.
LEMMA BatchFates ==
  ASSUME BatchTypeOK, FateInv, BatchNext
  PROVE  BatchTypeOK' /\ FateInv' /\ (logs' = logs)
<1> USE DEF Settled, Failures
<1>1. Len(logs) \in Nat /\ Index = 1..Len(logs) /\ at \in Nat /\ Cardinality(Index) \in Nat
  <2>1. Len(logs) \in Nat
    BY DEF BatchTypeOK
  <2> QED BY <2>1, FS_Interval, FS_CardinalityType DEF BatchTypeOK, Index
<1>2. CASE Expire \/ Abort
  BY <1>2 DEF Expire, Abort, BatchTypeOK, FateInv, Index
<1>3. CASE Empty
  BY <1>3 DEF Empty, BatchTypeOK, FateInv, Index
<1>4. CASE Suppress
  BY <1>1, <1>4 DEF Suppress, Advance, Fates, BatchTypeOK, FateInv, Index, Fate
<1>5. CASE CutOff
  BY <1>1, <1>5 DEF CutOff, Fates, Rest, BatchTypeOK, FateInv, Index, Fate
<1>6. CASE Call
  BY <1>1, <1>6 DEF Call, BatchTypeOK, FateInv, Index, Fate
<1>7. CASE Return
  BY <1>1, <1>7 DEF Return, EndHeadroom, Advance, Fates, Rest, BatchTypeOK, FateInv, Index, Fate, Valid, Log
<1>8. CASE Throw
  BY <1>1, <1>8 DEF Throw, Fates, BatchTypeOK, FateInv, Index, Fate
<1>9. CASE CatchCutOff
  BY <1>1, <1>9 DEF CatchCutOff, DeadLetter, Fates, Rest, BatchTypeOK, FateInv, Index, Fate
<1>10. CASE CatchGoOn
  BY <1>1, <1>10 DEF CatchGoOn, DeadLetter, Advance, Fates, BatchTypeOK, FateInv, Index, Fate
<1>11. CASE CatchHeadroom
  BY <1>1, <1>11 DEF CatchHeadroom, DeadLetter, EndHeadroom, Fates, Rest, BatchTypeOK, FateInv, Index, Fate
<1> QED BY <1>2, <1>3, <1>4, <1>5, <1>6, <1>7, <1>8, <1>9, <1>10, <1>11 DEF BatchNext

\* What was announced, settled or failed before the log at hand stays as it is.
LEMMA SettledStays ==
  ASSUME BatchTypeOK, FateInv, BatchNext
  PROVE  /\ \A i \in Index : fate[i] \in Settled => fate'[i] = fate[i]
         /\ \A i \in Index : fate[i] = "rendered" => fate'[i] \in {"rendered", "kept", "lost"}
<1> USE DEF Settled, Failures
<1>1. Len(logs) \in Nat /\ Index = 1..Len(logs) /\ at \in Nat
  BY DEF BatchTypeOK, Index
<1>2. CASE Expire \/ Abort \/ Empty \/ Call
  BY <1>2 DEF Expire, Abort, Empty, Call, BatchTypeOK, Fate
<1>3. CASE Suppress
  BY <1>1, <1>3 DEF Suppress, Fates, BatchTypeOK, FateInv, Fate
<1>4. CASE CutOff
  BY <1>1, <1>4 DEF CutOff, Fates, Rest, BatchTypeOK, FateInv, Fate
<1>5. CASE Return
  BY <1>1, <1>5 DEF Return, Fates, Rest, BatchTypeOK, FateInv, Fate
<1>6. CASE Throw
  BY <1>1, <1>6 DEF Throw, Fates, BatchTypeOK, FateInv, Fate
<1>7. CASE CatchCutOff \/ CatchGoOn \/ CatchHeadroom
  BY <1>1, <1>7 DEF CatchCutOff, CatchGoOn, CatchHeadroom, DeadLetter, Fates, Rest,
                    BatchTypeOK, FateInv, Fate
<1> QED BY <1>2, <1>3, <1>4, <1>5, <1>6, <1>7 DEF BatchNext

LEMMA SentKept ==
  ASSUME BatchTypeOK, FateInv, SentInv, BatchNext
  PROVE  SentInv'
<1>1. Len(logs) \in Nat /\ Index = 1..Len(logs) /\ at \in Nat /\ logs' = logs /\ Index' = Index
  BY BatchFates DEF BatchTypeOK, Index
<1>2. \A t : Announced(t) => Announced(t)'
  BY <1>1, SettledStays DEF Settled, Announced
<1>3. \A t \in sent : Announced(t)
  BY DEF SentInv
<1>4. \A t \in sent' : Announced(t)'
  <2>1. CASE Return
    <3>1. sent' = sent \/ (/\ sent' = sent \cup {logs[at].tx} /\ logs[at].event = Safe
                          /\ fate'[at] = "posted" /\ at \in Index)
      BY <1>1, <2>1 DEF Return, Fates, Rest, FateInv, BatchTypeOK
    <3> QED BY <1>1, <1>2, <1>3, <3>1 DEF Announced
  <2>2. CASE ~Return
    <3>1. sent' = sent
      BY <2>2 DEF BatchNext, Expire, Abort, Empty, Suppress, CutOff, Call, Throw, CatchCutOff,
                  CatchGoOn, CatchHeadroom
    <3> QED BY <1>2, <1>3, <3>1
  <2> QED BY <2>1, <2>2
<1>5. SuppressedWasAnnounced'
  <2>1. SUFFICES ASSUME NEW i \in Index, fate'[i] = "suppressed" PROVE Announced(logs[i].tx)'
    BY <1>1 DEF SuppressedWasAnnounced, Announced
  <2>2. CASE fate[i] = "suppressed"
    <3>1. Announced(logs[i].tx)
      BY <2>2 DEF SentInv, SuppressedWasAnnounced, Announced
    <3> QED BY <1>1, <1>2, <3>1 DEF Announced
  <2>3. CASE fate[i] # "suppressed"
    <3>1. i = at /\ Suppress
      BY <1>1, <2>1, <2>3 DEF BatchNext, Expire, Abort, Empty, Suppress, CutOff, Call, Return, Throw,
           CatchCutOff, CatchGoOn, CatchHeadroom, DeadLetter, Fates, Rest, BatchTypeOK, FateInv, Index
    <3> QED BY <1>2, <1>3, <3>1 DEF Suppress, Suppressed
  <2> QED BY <2>2, <2>3
<1>6. (loop \in {"send", "catch"} /\ fallback => logs[at].event = Exec)'
  BY <1>1 DEF SentInv, BatchNext, Expire, Abort, Empty, Suppress, CutOff, Call, PendingFallback, Return,
       Throw, CatchCutOff, CatchGoOn, CatchHeadroom, Advance, EndHeadroom, BatchTypeOK
<1> QED BY <1>4, <1>5, <1>6 DEF SentInv

-----------------------------------------------------------------------------
\* The tail of a batch, counted beside what failed before it.
LEMMA TailLength ==
  ASSUME NEW n \in Nat, NEW k \in 1..(n + 1)
  PROVE  IsFiniteSet(k..n) /\ Cardinality(k..n) = n + 1 - k
<1>1. k \in Int /\ n \in Int
  OBVIOUS
<1>2. IsFiniteSet(k..n) /\ Cardinality(k..n) = IF k > n THEN 0 ELSE n - k + 1
  BY <1>1, FS_Interval
<1> QED BY <1>2

LEMMA TailCounts ==
  ASSUME NEW n \in Nat, NEW k \in 1..(n + 1), NEW S \in SUBSET (1..(k - 1))
  PROVE  Cardinality(S \cup k..n) = Cardinality(S) + (n + 1 - k)
<1>1. IsFiniteSet(1..(k - 1))
  BY FS_Interval, k - 1 \in Int
<1>2. IsFiniteSet(S)
  BY <1>1, FS_Subset
<1>3. Cardinality(S) \in Nat
  BY <1>2, FS_CardinalityType
<1>4. Cardinality(S \cap k..n) = 0
  <2>1. S \cap k..n = {}
    OBVIOUS
  <2> QED BY <2>1, FS_EmptySet
<1>5. IsFiniteSet(k..n) /\ Cardinality(k..n) = n + 1 - k
  BY TailLength
<1>6. Cardinality(S \cup k..n) = Cardinality(S) + Cardinality(k..n) - Cardinality(S \cap k..n)
  BY <1>2, <1>5, FS_Union
<1> QED BY <1>3, <1>4, <1>5, <1>6

\* The skipped count, step by step.
LEMMA CountKept ==
  ASSUME BatchTypeOK, FateInv, CountInv, BatchNext
  PROVE  CountInv'
<1>1. /\ Len(logs) \in Nat /\ Index = 1..Len(logs) /\ at \in Nat /\ logs' = logs /\ Index' = Index
      /\ skipped \in Nat /\ BatchTypeOK' /\ FateInv'
  BY BatchFates DEF BatchTypeOK, Index
<1> DEFINE n       == Len(logs)
           Failed  == Fated(Failures)
           Failed1 == {i \in Index : fate'[i] \in Failures}
           Cut1    == {i \in Index : fate'[i] \in {"cut"}}
           Count1  == {i \in Index : fate'[i] \in {"cut", "failed", "kept", "lost"}}
<1>2. SUFFICES /\ loop' # "done" => skipped' <= Cardinality(Failed1)
               /\ loop' = "done" => skipped' >= Cardinality(Cut1) /\ skipped' <= Cardinality(Count1)
  BY <1>1 DEF CountInv, CountsAddUp, Fated
<1>3. /\ loop # "done" /\ skipped <= Cardinality(Failed)
      /\ Failed \in SUBSET (1..(at - 1))
  <2>1. loop # "done"
    BY DEF BatchNext, Expire, Abort, Empty, Suppress, CutOff, Call, Return, Throw, CatchCutOff,
           CatchGoOn, CatchHeadroom
  <2> QED BY <1>1, <2>1 DEF CountInv, FateInv, Fated, Failures, Settled
<1>4. IsFiniteSet(Failed) /\ Cardinality(Failed) \in Nat
  <2>1. IsFiniteSet(1..(at - 1))
    BY <1>1, at - 1 \in Int, FS_Interval
  <2>2. IsFiniteSet(Failed)
    BY <1>3, <2>1, FS_Subset
  <2> QED BY <2>2, FS_CardinalityType
<1> HIDE DEF Failed, Failed1, Cut1, Count1
<1>5. skipped' = skipped /\ Failed1 = Failed /\ Cut1 = {} =>
        /\ loop' # "done" => skipped' <= Cardinality(Failed1)
        /\ loop' = "done" => skipped' >= Cardinality(Cut1) /\ skipped' <= Cardinality(Count1)
  <2>1. Cut1 = {} => Count1 = Failed1
    BY DEF Count1, Failed1, Cut1, Failures
  <2>2. Cardinality({}) = 0
    BY FS_EmptySet
  <2> QED BY <1>1, <1>3, <1>4, <2>1, <2>2
<1>6. CASE Expire \/ Abort \/ Empty \/ Suppress \/ Call \/ Throw
  <2>1. skipped' = skipped /\ Failed1 = Failed /\ Cut1 = {}
    BY <1>1, <1>3, <1>6 DEF Expire, Abort, Empty, Suppress, Call, Throw, Fates, FateInv, Fated, Failures,
         Settled, BatchTypeOK, Failed, Failed1, Cut1
  <2> QED BY <1>5, <2>1
<1>7. CASE CutOff
  <2>0. at \in Index /\ \A i \in Index : fate'[i] = IF i >= at THEN "cut" ELSE fate[i]
    BY <1>1, <1>7 DEF CutOff, Fates, Rest
  <2>1. at \in 1..(n + 1) /\ Cut1 = at..n /\ Count1 = Failed \cup at..n
    <3>1. fate[at] = "unseen"
      BY <1>1, <1>7, <2>0 DEF CutOff, FateInv
    <3> QED BY <1>1, <1>3, <2>0, <3>1 DEF FateInv, Fated, Failures, Settled, Failed, Cut1, Count1
  <2>2. skipped' = skipped + (n + 1 - at) /\ loop' = "done"
    BY <1>1, <1>7 DEF CutOff
  <2>3. Cardinality(Cut1) = n + 1 - at /\ Cardinality(Count1) = Cardinality(Failed) + (n + 1 - at)
    BY <1>1, <1>3, <2>1, TailLength, TailCounts
  <2> QED BY <1>1, <1>3, <1>4, <2>1, <2>2, <2>3
<1>8. CASE Return /\ ~fallback
  <2>1. skipped' = skipped /\ Failed1 = Failed /\ Cut1 = {}
    BY <1>1, <1>3, <1>8, SMTT(30) DEF Return, Fates, FateInv, Fated, Failures, Settled, BatchTypeOK,
         Failed, Failed1, Cut1
  <2> QED BY <1>5, <2>1
<1>9. CASE Return /\ fallback
  <2>0. /\ at \in Index /\ fate'[at] \in {"posted", "null"}
        /\ \A i \in Index : fate'[i] = IF i = at THEN fate'[at] ELSE IF i > at THEN "cut" ELSE fate[i]
    BY <1>1, <1>9 DEF Return, Fates, Rest, FateInv, BatchTypeOK
  <2>1. Cut1 = (at + 1)..n /\ Count1 = Failed \cup (at + 1)..n
    <3>1. fate[at] = "unseen"
      BY <1>1, <1>9, <2>0 DEF Return, FateInv
    <3> QED BY <1>1, <1>3, <2>0, <3>1 DEF FateInv, Fated, Failures, Settled, Failed, Cut1, Count1
  <2>2. skipped' = skipped + (n - at) /\ loop' = "done"
    BY <1>1, <1>9 DEF Return, EndHeadroom
  <2>3. at + 1 \in 1..(n + 1) /\ Failed \in SUBSET (1..((at + 1) - 1)) /\ at + 1 \in Nat
    BY <1>1, <1>3, <1>9 DEF Return, FateInv
  <2>4. Cardinality(Cut1) = n + 1 - (at + 1) /\ Cardinality(Count1) = Cardinality(Failed) + (n + 1 - (at + 1))
    BY <1>1, <2>1, <2>3, TailLength, TailCounts
  <2> QED BY <1>1, <1>3, <1>4, <2>2, <2>4
<1>10. CASE CatchCutOff \/ CatchHeadroom
  <2>1. /\ at \in Index /\ loop' = "done" /\ fate'[at] \in Failures
        /\ \A i \in Index : fate'[i] = IF i = at THEN fate'[at] ELSE IF i > at THEN "cut" ELSE fate[i]
    BY <1>1, <1>10 DEF CatchCutOff, CatchHeadroom, DeadLetter, EndHeadroom, Fates, Rest, FateInv,
         BatchTypeOK, Failures
  <2>2. Cut1 = (at + 1)..n /\ Count1 = Failed \cup at..n
    BY <1>1, <1>3, <2>1 DEF FateInv, Fated, Failures, Settled, Failed, Cut1, Count1
  <2>3. skipped' = skipped + 1 + (n - at)
    BY <1>1, <1>10 DEF CatchCutOff, CatchHeadroom, EndHeadroom
  <2>4. Cardinality(Count1) = Cardinality(Failed) + (n + 1 - at)
    BY <1>1, <1>3, <2>1, <2>2, TailCounts
  <2>5. Cardinality(Cut1) = n - at
    <3>1. at + 1 \in 1..(n + 1)
      BY <1>1, <2>1
    <3>2. Cardinality((at + 1)..n) = n + 1 - (at + 1)
      BY <1>1, <3>1, TailLength
    <3> QED BY <1>1, <2>2, <3>2
  <2> QED BY <1>1, <1>3, <1>4, <2>1, <2>3, <2>4, <2>5
<1>11. CASE CatchGoOn
  <2>0. /\ at \in Index /\ fate'[at] \in Failures
        /\ \A i \in Index : fate'[i] = IF i = at THEN fate'[at] ELSE fate[i]
    BY <1>1, <1>11 DEF CatchGoOn, DeadLetter, Fates, FateInv, BatchTypeOK, Failures
  <2>1. Cut1 = {} /\ Failed1 = Failed \cup {at} /\ at \notin Failed
    BY <1>1, <1>3, <2>0 DEF FateInv, Fated, Failures, Settled, Failed, Failed1, Cut1
  <2>2. skipped' \in {skipped, skipped + 1}
    BY <1>1, <1>11 DEF CatchGoOn
  <2>3. Cardinality(Failed1) = Cardinality(Failed) + 1
    BY <1>4, <2>1, FS_AddElement
  <2>4. Count1 = Failed1
    BY <2>1 DEF Count1, Failed1, Cut1, Failures
  <2> QED BY <1>1, <1>3, <1>4, <2>1, <2>2, <2>3, <2>4, FS_EmptySet
<1> QED BY <1>6, <1>7, <1>8, <1>9, <1>10, <1>11 DEF BatchNext
-----------------------------------------------------------------------------
\* The order of the batch puts the only Safe event first and a fallback of it second.
LEMMA FallbackIsNext ==
  ASSUME BatchTypeOK, Prioritised(logs), NEW j \in Index, SoleSafe(j)
  PROVE  j = 1 /\ 2 \in Fallbacks(j)
<1>1. Len(logs) \in Nat /\ Index = 1..Len(logs) /\ DOMAIN logs = Index
  BY DEF BatchTypeOK, Index
<1>2. logs[j].event = Safe /\ \A i \in Index : logs[i].event = Safe => i = j
  BY DEF SoleSafe
<1>3. HasSafeTx \subseteq {logs[j].tx}
  BY <1>1, <1>2 DEF HasSafeTx, SafeTxs
<1>4. /\ Priority(logs, logs[j]) = 0
      /\ \A i \in Index : i # j => Priority(logs, logs[i]) \in {1, 2}
      /\ \A i \in Index : Priority(logs, logs[i]) = 1 <=> i \in Fallbacks(j)
  BY <1>2, <1>3 DEF Priority, Fallbacks, HasSafeTx, SoleSafe, Safe, Exec
<1>5. j = 1
  <2>1. j > 1 => Priority(logs, logs[1]) <= Priority(logs, logs[j])
    BY <1>1 DEF Prioritised
  <2> QED BY <1>1, <1>4, <2>1
<1>6. PICK k \in Index : k \in Fallbacks(j)
  BY DEF SoleSafe, Fallbacks
<1>7. k >= 2 /\ 2 \in Index
  BY <1>1, <1>2, <1>5, <1>6 DEF Fallbacks, Safe, Exec
<1>8. Priority(logs, logs[2]) <= Priority(logs, logs[k])
  <2>1. k > 2 => Priority(logs, logs[2]) <= Priority(logs, logs[k])
    BY <1>1, <1>7 DEF Prioritised
  <2> QED BY <1>1, <1>4, <1>6, <1>7, <2>1
<1> QED BY <1>4, <1>5, <1>6, <1>7, <1>8

LEMMA HeadroomKept ==
  ASSUME BatchTypeOK, FateInv, SentInv, HeadroomInv, BatchNext
  PROVE  HeadroomInv'
<1>1. Len(logs) \in Nat /\ Index = 1..Len(logs) /\ at \in Nat /\ logs' = logs /\ Index' = Index
  BY BatchFates DEF BatchTypeOK, Index
<1>2. Prioritised(logs)'
  BY <1>1 DEF HeadroomInv
<1>3. SUFFICES ASSUME NEW j \in Index, SoleSafe(j), fate'[j] \in Failures
               PROVE  2 \in Fallbacks(j) /\ fate'[2] # "cut"
  BY <1>1, <1>2 DEF HeadroomInv, SoleSafe, Fallbacks, HasSafeTx
<1>4. j = 1 /\ 2 \in Fallbacks(j) /\ 2 \in Index
  BY <1>3, FallbackIsNext DEF HeadroomInv, Fallbacks
<1>5. /\ logs[1].event = Safe /\ logs[2].event = Exec /\ logs[2].tx = logs[1].tx
      /\ \A i \in Index : logs[i].event = Safe => i = 1
  BY <1>3, <1>4 DEF SoleSafe, Fallbacks
<1>6. fate[1] # "posted"
  BY <1>1, <1>3, <1>4, SettledStays DEF Settled, Failures
<1>7. PendingFallback(logs[2]) /\ ~Suppressed
  <2>1. sent = {}
    BY <1>5, <1>6 DEF SentInv, Announced
  <2> QED BY <1>3, <1>4, <1>5, <2>1 DEF PendingFallback, SoleSafe, Suppressed
<1>8. fate[2] # "cut"
  <2>1. loop # "done"
    BY DEF BatchNext, Expire, Abort, Empty, Suppress, CutOff, Call, Return, Throw, CatchCutOff,
           CatchGoOn, CatchHeadroom
  <2> QED BY <1>1, <1>4, <2>1 DEF FateInv, Settled, Failures
<1>9. SUFFICES ASSUME fate'[2] = "cut" PROVE FALSE
  BY <1>4
<1>10. CASE Expire \/ Abort \/ Empty \/ Call \/ Suppress \/ Throw \/ CatchGoOn
  BY <1>1, <1>4, <1>8, <1>9, <1>10 DEF Expire, Abort, Empty, Call, Suppress, Throw, CatchGoOn,
     DeadLetter, Fates
<1>11. CASE CutOff
  <2>1. at \in {1, 2} /\ fate'[at] = "cut"
    BY <1>1, <1>4, <1>8, <1>9, <1>11 DEF CutOff, Fates, Rest
  <2>2. at = 2
    BY <1>3, <1>4, <2>1 DEF Failures
  <2> QED BY <1>7, <1>11, <2>2 DEF CutOff
<1>12. CASE Return \/ CatchCutOff \/ CatchHeadroom
  <2>1. at = 1
    <3>1. at \in Index
      BY <1>12 DEF Return, CatchCutOff, CatchHeadroom, FateInv
    <3>2. fate'[2] = "cut" => 2 = at \/ 2 \in Rest
      BY <1>1, <1>4, <1>8, <1>12, <3>1 DEF Return, CatchCutOff, CatchHeadroom, DeadLetter, Fates, BatchTypeOK
    <3>3. fate'[at] # "cut"
      BY <1>1, <1>12, <3>1 DEF Return, CatchCutOff, CatchHeadroom, DeadLetter, Fates, BatchTypeOK
    <3> QED BY <1>1, <1>9, <3>1, <3>2, <3>3 DEF Rest
  <2>2. ~Return
    BY <1>1, <1>3, <1>4, <2>1 DEF Return, Fates, BatchTypeOK, Failures
  <2>3. ~CatchHeadroom
    BY <1>5, <2>1 DEF CatchHeadroom, SentInv, Safe, Exec
  <2>4. ~CatchCutOff
    BY <1>4, <1>7, <2>1 DEF CatchCutOff
  <2> QED BY <1>12, <2>2, <2>3, <2>4
<1> QED BY <1>10, <1>11, <1>12 DEF BatchNext

-----------------------------------------------------------------------------
LEMMA BatchStarts == BatchInit => BatchInv
<1> SUFFICES ASSUME BatchInit PROVE BatchInv
  OBVIOUS
<1>1. PICK n \in 0..MaxLogs : logs \in [1..n -> Log]
  BY DEF BatchInit
<1>2. logs \in Seq(Log) /\ Len(logs) \in Nat /\ Index = 1..Len(logs)
  BY <1>1, BatchAssumption DEF Index
<1>3. BatchTypeOK
  <2>1. {fallback, expired, aborted, timer} \subseteq BOOLEAN
    BY DEF BatchInit
  <2>2. at \in 1..(Len(logs) + 1) /\ fate \in [Index -> Fate]
    BY <1>2 DEF BatchInit, Fate
  <2> QED BY <1>2, <2>1, <2>2 DEF BatchInit, BatchTypeOK
<1>4. FateInv
  BY <1>2 DEF BatchInit, FateInv
<1>5. SentInv
  BY <1>2 DEF BatchInit, SentInv, SuppressedWasAnnounced
<1>6. CountInv
  <2>1. Fated(Failures) = {}
    BY <1>2 DEF BatchInit, Fated, Failures
  <2> QED BY <2>1, FS_EmptySet DEF BatchInit, CountInv, CountsAddUp
<1>7. HeadroomInv
  BY DEF BatchInit, HeadroomInv, Failures
<1> QED BY <1>3, <1>4, <1>5, <1>6, <1>7 DEF BatchInv

LEMMA BatchStep == BatchInv /\ [BatchNext]_batchVars => BatchInv'
<1>1. BatchInv /\ BatchNext => BatchInv'
  BY BatchFates, SentKept, CountKept, HeadroomKept DEF BatchInv
<1>2. BatchInv /\ UNCHANGED batchVars => BatchInv'
  BY DEF batchVars, BatchInv, BatchTypeOK, FateInv, SentInv, SuppressedWasAnnounced, Announced, CountInv,
     CountsAddUp, Fated, HeadroomInv, SoleSafe, Fallbacks, HasSafeTx, Index
<1> QED BY <1>1, <1>2

\* Every reachable state of a batch satisfies the invariant.
THEOREM BatchInvariant == BatchSpec => []BatchInv
BY BatchStarts, BatchStep, PTL DEF BatchSpec

\* No ExecutionSuccess is kept quiet without a Safe alert in Slack, however the
\* budget and the failures fall (process-events.ts).
THEOREM SuppressedIsAnnounced == BatchSpec => []SuppressedWasAnnounced
<1>1. BatchInv => SuppressedWasAnnounced
  BY DEF BatchInv, SentInv
<1> QED BY BatchInvariant, <1>1, PTL

\* The skipped count of the answer covers what was cut and nothing but failures beside.
THEOREM CountsAre == BatchSpec => []CountsAddUp
<1>1. BatchInv => CountsAddUp
  BY DEF BatchInv, CountInv
<1> QED BY BatchInvariant, <1>1, PTL

\* The order of the batch and the two fallback rules together serve the
\* ExecutionSuccess of a failed Safe alert, for batches of any length.
THEOREM HeadroomServes == BatchSpec => []HeadroomServesFallback
<1>1. BatchInv => HeadroomServesFallback
  <2> SUFFICES ASSUME BatchInv, NEW j \in Index, SoleSafe(j), fate[j] \in Failures
               PROVE  \E i \in Fallbacks(j) : fate[i] # "cut"
    BY DEF HeadroomServesFallback, SoleSafe, Failures
  <2> QED BY DEF BatchInv, HeadroomInv
<1> QED BY BatchInvariant, <1>1, PTL

\* No step drops a rendered message before it was handed to the dead-letter write.
THEOREM RenderedKept == BatchSpec => RenderedIsKept
<1>1. BatchInv /\ [BatchNext]_batchVars =>
        [\A i \in Index : fate[i] = "rendered" => fate'[i] \in {"rendered", "kept", "lost"}]_batchVars
  BY SettledStays DEF BatchInv
<1> QED BY BatchInvariant, <1>1, PTL DEF BatchSpec, RenderedIsKept
=============================================================================
