------------------------ MODULE PoolDelivery_proofs -------------------------
(***************************************************************************)
(* Machine-checked proofs about PoolDelivery, for any number of workers    *)
(* and any times that satisfy the margin assumption.  The inductive        *)
(* invariant adds to the checked properties what each place of a worker    *)
(* knows about the record, and who may still write over it.                *)
(***************************************************************************)
EXTENDS PoolDelivery, TLAPS

\* A worker owns a claim from the moment the store grants it until its job
\* ends; its generation is the one the commit will expect.
Claimant(w) ==
  \/ pc[w] \in {"send", "commit"}
  \/ pc[w] \in {"put", "retake"} /\ job[w] = "deliver" /\ reply[w] > 0
Claim(w) == IF pc[w] \in {"send", "commit"} THEN held[w] ELSE reply[w]

\* The record exists from generation 1 on, and posts belong to past claims.
ObjInv ==
  /\ obj.gen = 0 <=> obj.state = "absent"
  /\ obj.gen = 0 => obj.lease = 0
  /\ obj.state = "ignored" => obj.gen = 1
  /\ \A g \in posts \cup late : g \in Nat /\ 1 <= g /\ g <= obj.gen

\* Which job and reply a place goes with.
PlaceInv ==
  \A w \in Worker :
    /\ pc[w] \in {"retake", "send", "commit"} => job[w] = "deliver"
    /\ pc[w] \in {"token", "put"} => job[w] \in {"deliver", "ignore"}
    /\ pc[w] = "prove" => job[w] = "check"
    /\ pc[w] \notin Writing => reply[w] = NoReply
    /\ pc[w] = "put" /\ job[w] = "ignore" => until[w] = 0

\* What a worker has read is current as long as the generation is.
ReadInv ==
  \A w \in Worker :
    /\ pc[w] \in {"content", "seen", "retake"} =>
         1 <= held[w] /\ held[w] <= obj.gen
    /\ pc[w] = "seen" =>
         /\ seen[w].state # "absent"
         /\ held[w] = obj.gen => obj = seen[w]
    /\ pc[w] = "retake" /\ held[w] = obj.gen =>
         obj.state = "pending" /\ obj.lease <= now

\* A claim is the current record or has been replaced after its lease.
ClaimInv ==
  \A w \in Worker : Claimant(w) =>
    /\ 1 <= Claim(w) /\ Claim(w) <= obj.gen
    /\ Claim(w) = obj.gen => obj.state = "pending" /\ obj.lease = until[w]
    /\ Claim(w) # obj.gen /\ pc[w] # "commit" => until[w] <= now

UniqueInv ==
  \A v, w \in Worker :
    v # w /\ Claimant(v) /\ Claimant(w) => Claim(v) # Claim(w)

\* A commit is sent only for an acknowledged post.
CommitInv ==
  \A w \in Worker : pc[w] = "commit" => held[w] \in posts

\* What an abandoned write can still do.
OrphanInv ==
  \A o \in orphans :
    /\ o.expect <= obj.gen
    /\ o.expect = 0 => o.state \in {"pending", "ignored"}
    /\ o.expect # 0 => o.state \in {"pending", "delivered"}
    /\ o.expect # 0 /\ o.expect = obj.gen => obj.state = "pending"
    /\ o.state = "pending" /\ o.expect # 0 /\ o.expect = obj.gen => obj.lease <= now
    /\ o.state = "delivered" =>
         /\ o.expect \in posts
         /\ \A w \in Worker : Claimant(w) => Claim(w) # o.expect

\* How much of the lease the calls after BuildRecord can have used.
LeaseInv ==
  \A w \in Worker :
    /\ pc[w] \notin {"idle", "prove"} => now <= due[w]
    /\ job[w] = "deliver" =>
         /\ pc[w] = "put" => due[w] + Lease <= until[w] + CallTimeout
         /\ pc[w] = "meta" => due[w] + Lease <= until[w] + 2 * CallTimeout
         /\ pc[w] \in {"content", "seen"} => due[w] + Lease <= until[w] + 3 * CallTimeout
         /\ pc[w] = "retake" => due[w] + Lease <= until[w] + 4 * CallTimeout

RecordInv ==
  /\ ObjInv /\ PlaceInv /\ ReadInv /\ ClaimInv /\ UniqueInv /\ CommitInv
  /\ OrphanInv /\ DeliveredWasPosted /\ IgnoredNeverPosted

IInv == TypeOK /\ RecordInv /\ LeaseInv

-----------------------------------------------------------------------------
(* Type correctness.                                                       *)

\* The write a worker has under way is a well-formed write.
LEMMA WriteOfType ==
  ASSUME TypeOK, NEW w \in Worker
  PROVE  WriteOf(w) \in Write
<1>1. held[w] \in Nat /\ until[w] \in Nat BY DEF TypeOK
<1> QED BY <1>1 DEF WriteOf, Write, RecordState

\* Every variable keeps its type: generations and times stay natural and the
\* record has one of its four states.
THEOREM TypeCorrect == Spec => []TypeOK
<1>1. Init => TypeOK
  BY DEF Init, TypeOK, Absent, Record, RecordState, Write, Place, Job
<1>2. TypeOK /\ [Next]_vars => TypeOK'
  <2> SUFFICES ASSUME TypeOK, [Next]_vars PROVE TypeOK'
    OBVIOUS
  <2> USE ConstantsAssumption DEF TypeOK
  <2>0. obj.gen \in Nat /\ obj \in [gen : Nat, state : RecordState, lease : Nat]
    BY DEF Record
  <2>a. Absent \in Record
    BY DEF Absent, Record, RecordState
  <2>1. ASSUME NEW w \in Worker, Begin(w) PROVE TypeOK'
    BY <2>1 DEF Begin, Goto, Await, Place, Job, store, slack
  <2>2. ASSUME NEW w \in Worker, ReadMeta(w) PROVE TypeOK'
    BY <2>0, <2>2 DEF ReadMeta, Goto, Await, Place, store, slack
  <2>3. ASSUME NEW w \in Worker, ReadContent(w) PROVE TypeOK'
    <3>1. CASE obj.gen = held[w]
      BY <3>1, <2>3 DEF ReadContent, Goto, Place, store, slack, Finish, Forget
    <3>2. CASE obj.gen # held[w]
      BY <2>a, <3>2, <2>3 DEF ReadContent, Finish, Forget, Goto, Place, Job, store, slack
    <3> QED BY <3>1, <3>2
  <2>4. ASSUME NEW w \in Worker, DecideCheck(w) PROVE TypeOK'
    BY <2>a, <2>4 DEF DecideCheck, Finish, Forget, Goto, Await, Place, Job, store, slack
  <2>5. ASSUME NEW w \in Worker, DecideDeliver(w) PROVE TypeOK'
    BY <2>a, <2>5 DEF DecideDeliver, Finish, Forget, Goto, Await, Place, Job, store, slack
  <2>6. ASSUME NEW w \in Worker, DecideIgnore(w) PROVE TypeOK'
    BY <2>a, <2>6 DEF DecideIgnore, Finish, Forget, Goto, Place, Job, store, slack
  <2>7. ASSUME NEW w \in Worker, Prove(w) PROVE TypeOK'
    BY <2>a, <2>7 DEF Prove, Finish, Forget, Goto, Await, Place, Job, store, slack
  <2>8. ASSUME NEW w \in Worker, BuildRecord(w) PROVE TypeOK'
    BY <2>8 DEF BuildRecord, Goto, Await, Place, Job, store, slack
  <2>9. ASSUME NEW w \in Worker, ServePut(w) PROVE TypeOK'
    <3>1. obj' \in Record
      BY <2>9, WriteOfType, <2>0 DEF ServePut, Stored, Write, Record
    <3>2. reply' \in [Worker -> Nat \cup {NoReply}]
      BY <2>9, <2>0 DEF ServePut, Refused
    <3> QED BY <3>1, <3>2, <2>9 DEF ServePut, slack
  <2>10. ASSUME NEW w \in Worker, StartSend(w) PROVE TypeOK'
    BY <2>0, <2>10 DEF StartSend, Goto, Await, Place, store, slack, NoReply
  <2>11. ASSUME NEW w \in Worker, LostFirstPut(w) PROVE TypeOK'
    BY <2>11 DEF LostFirstPut, Goto, Await, Place, store, slack
  <2>12. ASSUME NEW w \in Worker, EndPut(w) PROVE TypeOK'
    BY <2>a, <2>12 DEF EndPut, Finish, Forget, Goto, Place, Job, store, slack
  <2>13. ASSUME NEW w \in Worker, SlackAccept(w) PROVE TypeOK'
    BY <2>13 DEF SlackAccept, store, worker
  <2>14. ASSUME NEW w \in Worker, StartCommit(w) PROVE TypeOK'
    BY <2>14 DEF StartCommit, Goto, Await, Place, store, slack
  <2>15. ASSUME NEW w \in Worker, Abandon(w) PROVE TypeOK'
    BY <2>a, <2>15, WriteOfType DEF Abandon, Finish, Forget, Goto, Place, Job
  <2>16. ASSUME NEW o \in orphans, ServeOrphan(o) PROVE TypeOK'
    BY <2>16 DEF ServeOrphan, Stored, Write, Record, slack, worker
  <2>17. ASSUME NEW g \in late, SlackAcceptLate(g) PROVE TypeOK'
    BY <2>17 DEF SlackAcceptLate, store, worker
  <2>18. CASE Tick
    BY <2>18 DEF Tick, store, slack, worker
  <2>19. CASE UNCHANGED vars
    BY <2>19 DEF vars, store, slack, worker
  <2> QED
    BY <2>1, <2>2, <2>3, <2>4, <2>5, <2>6, <2>7, <2>8, <2>9, <2>10, <2>11,
       <2>12, <2>13, <2>14, <2>15, <2>16, <2>17, <2>18, <2>19 DEF Next, WorkerStep
<1> QED BY <1>1, <1>2, PTL DEF Spec

-----------------------------------------------------------------------------
(* The record invariant.                                                   *)

\* Every step of a worker, of the store and of Slack preserves the invariant.
LEMMA RecordStep == TypeOK /\ RecordInv /\ [Next]_vars => RecordInv'
<1> SUFFICES ASSUME TypeOK, RecordInv, [Next]_vars PROVE RecordInv'
  OBVIOUS
<1>0. obj.gen \in Nat /\ obj.lease \in Nat /\ obj.state \in RecordState
  BY DEF TypeOK, Record
<1>a. \A o \in orphans : o.expect \in Nat /\ o.lease \in Nat
  BY DEF TypeOK, Write
<1>b. \A w \in Worker : seen[w].lease \in Nat /\ seen[w].state \in RecordState
  BY DEF TypeOK, Record
<1> USE <1>0 DEF RecordInv, ObjInv, PlaceInv, ReadInv, ClaimInv, UniqueInv, CommitInv, OrphanInv, DeliveredWasPosted, IgnoredNeverPosted, Claimant, Claim, TypeOK, Writing, NoReply, store, slack, worker
<1>1. ASSUME NEW w \in Worker, Begin(w) PROVE RecordInv'
  BY <1>1 DEF Begin, Goto, Await
<1>2. ASSUME NEW w \in Worker, ReadMeta(w) PROVE RecordInv'
  BY <1>2 DEF ReadMeta, Goto, Await
<1>3. ASSUME NEW w \in Worker, ReadContent(w) PROVE RecordInv'
  BY <1>3 DEF ReadContent, Goto, Finish, Forget
<1>4. ASSUME NEW w \in Worker, DecideCheck(w) PROVE RecordInv'
  BY <1>4, SMTT(30) DEF DecideCheck, Goto, Await, Finish, Forget, LeaseRunning, Terminal
<1>5. ASSUME NEW w \in Worker, DecideDeliver(w) PROVE RecordInv'
  <2>1. ObjInv'
    BY <1>5 DEF DecideDeliver, Goto, Await, Finish, Forget, LeaseRunning, Terminal, RecordState
  <2>2. PlaceInv'
    BY <1>5 DEF DecideDeliver, Goto, Await, Finish, Forget, LeaseRunning, Terminal, RecordState
  <2>3. ReadInv'
    BY <1>5, <1>b DEF DecideDeliver, Goto, Await, Finish, Forget, LeaseRunning, Terminal, RecordState
  <2>4. ClaimInv'
    BY <1>5 DEF DecideDeliver, Goto, Await, Finish, Forget, LeaseRunning, Terminal, RecordState
  <2>5. UniqueInv'
    BY <1>5 DEF DecideDeliver, Goto, Await, Finish, Forget, LeaseRunning, Terminal, RecordState
  <2>6. CommitInv'
    BY <1>5 DEF DecideDeliver, Goto, Await, Finish, Forget, LeaseRunning, Terminal, RecordState
  <2>7. OrphanInv'
    BY <1>5 DEF DecideDeliver, Goto, Await, Finish, Forget, LeaseRunning, Terminal, RecordState
  <2>8. DeliveredWasPosted'
    BY <1>5 DEF DecideDeliver, Goto, Await, Finish, Forget, LeaseRunning, Terminal, RecordState
  <2>9. IgnoredNeverPosted'
    BY <1>5 DEF DecideDeliver, Goto, Await, Finish, Forget, LeaseRunning, Terminal, RecordState
  <2> QED BY <2>1, <2>2, <2>3, <2>4, <2>5, <2>6, <2>7, <2>8, <2>9
<1>6. ASSUME NEW w \in Worker, DecideIgnore(w) PROVE RecordInv'
  BY <1>6 DEF DecideIgnore, Goto, Finish, Forget
<1>7. ASSUME NEW w \in Worker, Prove(w) PROVE RecordInv'
  BY <1>7 DEF Prove, Goto, Await, Finish, Forget
<1>8. ASSUME NEW w \in Worker, BuildRecord(w) PROVE RecordInv'
  BY <1>8 DEF BuildRecord, Goto, Await
<1>9. ASSUME NEW w \in Worker, ServePut(w) PROVE RecordInv'
  <2>1. ObjInv'
    BY <1>9 DEF ServePut, Accepts, Stored, WriteOf, Refused
  <2>2. PlaceInv'
    BY <1>9 DEF ServePut, Accepts, Stored, WriteOf, Refused
  <2>3. ReadInv'
    BY <1>9 DEF ServePut, Accepts, Stored, WriteOf, Refused
  <2>4. ClaimInv'
    BY <1>9 DEF ServePut, Accepts, Stored, WriteOf, Refused
  <2>5. UniqueInv'
    BY <1>9 DEF ServePut, Accepts, Stored, WriteOf, Refused
  <2>6. CommitInv'
    BY <1>9 DEF ServePut, Accepts, Stored, WriteOf, Refused
  <2>7. OrphanInv'
    BY <1>9, <1>a DEF ServePut, Accepts, Stored, WriteOf, Refused
  <2>8. DeliveredWasPosted'
    BY <1>9 DEF ServePut, Accepts, Stored, WriteOf, Refused
  <2>9. IgnoredNeverPosted'
    BY <1>9 DEF ServePut, Accepts, Stored, WriteOf, Refused
  <2> QED BY <2>1, <2>2, <2>3, <2>4, <2>5, <2>6, <2>7, <2>8, <2>9
<1>10. ASSUME NEW w \in Worker, StartSend(w) PROVE RecordInv'
  <2>1. ObjInv'
    BY <1>10 DEF StartSend, Goto, Await, Refused
  <2>2. PlaceInv'
    BY <1>10 DEF StartSend, Goto, Await, Refused
  <2>3. ReadInv'
    BY <1>10 DEF StartSend, Goto, Await, Refused
  <2>4. ClaimInv'
    BY <1>10 DEF StartSend, Goto, Await, Refused
  <2>5. UniqueInv'
    BY <1>10 DEF StartSend, Goto, Await, Refused
  <2>6. CommitInv'
    BY <1>10 DEF StartSend, Goto, Await, Refused
  <2>7. OrphanInv'
    BY <1>10 DEF StartSend, Goto, Await, Refused
  <2>8. DeliveredWasPosted'
    BY <1>10 DEF StartSend, Goto, Await, Refused
  <2>9. IgnoredNeverPosted'
    BY <1>10 DEF StartSend, Goto, Await, Refused
  <2> QED BY <2>1, <2>2, <2>3, <2>4, <2>5, <2>6, <2>7, <2>8, <2>9
<1>11. ASSUME NEW w \in Worker, LostFirstPut(w) PROVE RecordInv'
  BY <1>11 DEF LostFirstPut, Goto, Await
<1>12. ASSUME NEW w \in Worker, EndPut(w) PROVE RecordInv'
  BY <1>12 DEF EndPut, Goto, Finish, Forget
<1>13. ASSUME NEW w \in Worker, SlackAccept(w) PROVE RecordInv'
  BY <1>13 DEF SlackAccept
<1>14. ASSUME NEW w \in Worker, StartCommit(w) PROVE RecordInv'
  BY <1>14 DEF StartCommit, Goto, Await
<1>15. ASSUME NEW w \in Worker, Abandon(w) PROVE RecordInv'
  <2>1. ObjInv'
    BY <1>15 DEF Abandon, Goto, Finish, Forget, WriteOf
  <2>2. PlaceInv'
    BY <1>15 DEF Abandon, Goto, Finish, Forget, WriteOf
  <2>3. ReadInv'
    BY <1>15 DEF Abandon, Goto, Finish, Forget, WriteOf
  <2>4. ClaimInv'
    BY <1>15 DEF Abandon, Goto, Finish, Forget, WriteOf
  <2>5. UniqueInv'
    BY <1>15 DEF Abandon, Goto, Finish, Forget, WriteOf
  <2>6. CommitInv'
    BY <1>15 DEF Abandon, Goto, Finish, Forget, WriteOf
  <2>7. OrphanInv'
    BY <1>15 DEF Abandon, Goto, Finish, Forget, WriteOf
  <2>8. DeliveredWasPosted'
    BY <1>15 DEF Abandon, Goto, Finish, Forget, WriteOf
  <2>9. IgnoredNeverPosted'
    BY <1>15 DEF Abandon, Goto, Finish, Forget, WriteOf
  <2> QED BY <2>1, <2>2, <2>3, <2>4, <2>5, <2>6, <2>7, <2>8, <2>9
<1>16. ASSUME NEW o \in orphans, ServeOrphan(o) PROVE RecordInv'
  <2>1. ObjInv'
    BY <1>16 DEF ServeOrphan, Accepts, Stored
  <2>2. PlaceInv'
    BY <1>16 DEF ServeOrphan, Accepts, Stored
  <2>3. ReadInv'
    BY <1>16 DEF ServeOrphan, Accepts, Stored
  <2>4. ClaimInv'
    BY <1>16 DEF ServeOrphan, Accepts, Stored
  <2>5. UniqueInv'
    BY <1>16 DEF ServeOrphan, Accepts, Stored
  <2>6. CommitInv'
    BY <1>16 DEF ServeOrphan, Accepts, Stored
  <2>7. OrphanInv'
    BY <1>16, <1>a DEF ServeOrphan, Accepts, Stored
  <2>8. DeliveredWasPosted'
    BY <1>16 DEF ServeOrphan, Accepts, Stored
  <2>9. IgnoredNeverPosted'
    BY <1>16 DEF ServeOrphan, Accepts, Stored
  <2> QED BY <2>1, <2>2, <2>3, <2>4, <2>5, <2>6, <2>7, <2>8, <2>9
<1>17. ASSUME NEW g \in late, SlackAcceptLate(g) PROVE RecordInv'
  BY <1>17 DEF SlackAcceptLate
<1>18. CASE Tick
  BY <1>18 DEF Tick
<1>19. CASE UNCHANGED vars
  BY <1>19 DEF vars
<1> QED
  BY <1>1, <1>2, <1>3, <1>4, <1>5, <1>6, <1>7, <1>8, <1>9, <1>10, <1>11, <1>12, <1>13, <1>14, <1>15, <1>16, <1>17, <1>18, <1>19 DEF Next, WorkerStep

\* Every step preserves how much of the lease is left.
LEMMA LeaseStep == TypeOK /\ PlaceInv /\ LeaseInv /\ [Next]_vars => LeaseInv'
<1> SUFFICES ASSUME TypeOK, PlaceInv, LeaseInv, [Next]_vars PROVE LeaseInv'
  OBVIOUS
<1> USE ConstantsAssumption DEF TypeOK, PlaceInv, LeaseInv, Writing, store, slack, worker
<1>1. ASSUME NEW w \in Worker, Begin(w) PROVE LeaseInv'
  BY <1>1 DEF Begin, Goto, Await
<1>2. ASSUME NEW w \in Worker, ReadMeta(w) PROVE LeaseInv'
  BY <1>2 DEF ReadMeta, Goto, Await
<1>3. ASSUME NEW w \in Worker, ReadContent(w) PROVE LeaseInv'
  BY <1>3 DEF ReadContent, Goto, Finish, Forget
<1>4. ASSUME NEW w \in Worker, DecideCheck(w) PROVE LeaseInv'
  BY <1>4 DEF DecideCheck, Goto, Await, Finish, Forget
<1>5. ASSUME NEW w \in Worker, DecideDeliver(w) PROVE LeaseInv'
  BY <1>5 DEF DecideDeliver, Goto, Await, Finish, Forget
<1>6. ASSUME NEW w \in Worker, DecideIgnore(w) PROVE LeaseInv'
  BY <1>6 DEF DecideIgnore, Goto, Finish, Forget
<1>7. ASSUME NEW w \in Worker, Prove(w) PROVE LeaseInv'
  BY <1>7 DEF Prove, Goto, Await, Finish, Forget
<1>8. ASSUME NEW w \in Worker, BuildRecord(w) PROVE LeaseInv'
  BY <1>8 DEF BuildRecord, Goto, Await
<1>9. ASSUME NEW w \in Worker, ServePut(w) PROVE LeaseInv'
  BY <1>9 DEF ServePut
<1>10. ASSUME NEW w \in Worker, StartSend(w) PROVE LeaseInv'
  BY <1>10 DEF StartSend, Goto, Await
<1>11. ASSUME NEW w \in Worker, LostFirstPut(w) PROVE LeaseInv'
  BY <1>11 DEF LostFirstPut, Goto, Await
<1>12. ASSUME NEW w \in Worker, EndPut(w) PROVE LeaseInv'
  BY <1>12 DEF EndPut, Goto, Finish, Forget
<1>13. ASSUME NEW w \in Worker, SlackAccept(w) PROVE LeaseInv'
  BY <1>13 DEF SlackAccept
<1>14. ASSUME NEW w \in Worker, StartCommit(w) PROVE LeaseInv'
  BY <1>14 DEF StartCommit, Goto, Await
<1>15. ASSUME NEW w \in Worker, Abandon(w) PROVE LeaseInv'
  BY <1>15 DEF Abandon, Goto, Finish, Forget
<1>16. ASSUME NEW o \in orphans, ServeOrphan(o) PROVE LeaseInv'
  BY <1>16 DEF ServeOrphan
<1>17. ASSUME NEW g \in late, SlackAcceptLate(g) PROVE LeaseInv'
  BY <1>17 DEF SlackAcceptLate
<1>18. CASE Tick
  BY <1>18 DEF Tick
<1>19. CASE UNCHANGED vars
  BY <1>19 DEF vars
<1> QED
  BY <1>1, <1>2, <1>3, <1>4, <1>5, <1>6, <1>7, <1>8, <1>9, <1>10, <1>11, <1>12, <1>13, <1>14, <1>15, <1>16, <1>17, <1>18, <1>19 DEF Next, WorkerStep

\* The inductive invariant holds in every reachable state.
THEOREM InvariantHolds == Spec => []IInv
<1>1. Init => RecordInv /\ LeaseInv
  BY ConstantsAssumption DEF Init, RecordInv, ObjInv, PlaceInv, ReadInv, ClaimInv, UniqueInv,
     CommitInv, OrphanInv, DeliveredWasPosted, IgnoredNeverPosted, LeaseInv,
     Claimant, Claim, Absent, Writing, NoReply
<1>2. TypeOK /\ RecordInv /\ LeaseInv /\ [Next]_vars => RecordInv' /\ LeaseInv'
  BY RecordStep, LeaseStep DEF RecordInv
<1> QED BY <1>1, <1>2, TypeCorrect, PTL DEF Spec, IInv

-----------------------------------------------------------------------------
(* The properties that the runs check on small instances.                  *)

\* An audit record says delivered only after Slack accepted the post of the
\* claim it completes.
THEOREM Posted == Spec => []DeliveredWasPosted
BY InvariantHolds, PTL DEF IInv, RecordInv

\* Ignoring and announcing a candidate exclude each other for good.
THEOREM IgnoredSilent == Spec => []IgnoredNeverPosted
BY InvariantHolds, PTL DEF IInv, RecordInv

\* A worker posts for a claim it has lost only after its lease has run out.
THEOREM LostLease == Spec => []LostClaimHadExpired
<1>1. IInv => LostClaimHadExpired
  BY DEF IInv, RecordInv, ClaimInv, Claimant, Claim, LostClaimHadExpired
<1> QED BY <1>1, InvariantHolds, PTL

\* No write the store still accepts changes a final record.
LEMMA FinalStep ==
  ASSUME IInv, [Next]_vars, obj.state \in Terminal
  PROVE  obj' = obj
<1> SUFFICES ASSUME obj' # obj PROVE FALSE
  OBVIOUS
<1> USE DEF IInv, RecordInv, ObjInv, Terminal
<1>1. ASSUME NEW w \in Worker, ServePut(w) PROVE FALSE
  BY <1>1 DEF ServePut, Accepts, WriteOf, ReadInv, ClaimInv, Claimant, Claim, Writing, TypeOK
<1>2. ASSUME NEW o \in orphans, ServeOrphan(o) PROVE FALSE
  BY <1>2 DEF ServeOrphan, Accepts, OrphanInv
<1> QED
  BY <1>1, <1>2 DEF Next, WorkerStep, vars, store, slack, worker, Begin, ReadMeta,
     ReadContent, DecideCheck, DecideDeliver, DecideIgnore, Prove, BuildRecord,
     StartSend, LostFirstPut, EndPut, SlackAccept, StartCommit, Abandon,
     SlackAcceptLate, Tick

\* A delivered or ignored record is never written again.
THEOREM Final == Spec => TerminalIsFinal
<1>1. IInv /\ [Next]_vars => (obj.state \in Terminal => obj' = obj)
  BY FinalStep
<1> QED BY <1>1, InvariantHolds, PTL DEF Spec, TerminalIsFinal

\* Four storage calls never use up the lease before the post starts.
THEOREM SendInTime == Spec => SendStartsUnderLease
<1>1. IInv /\ [Next]_vars =>
        \A w \in Worker : pc[w] # "send" /\ pc'[w] = "send" => now < until[w]
  <2> SUFFICES ASSUME IInv, [Next]_vars, NEW w \in Worker, pc[w] # "send", pc'[w] = "send"
               PROVE now < until[w]
    OBVIOUS
  <2>1. StartSend(w)
    BY DEF IInv, TypeOK, Next, WorkerStep, vars, store, slack, worker, Begin, ReadMeta,
       ReadContent, DecideCheck, DecideDeliver, DecideIgnore, Prove, BuildRecord, ServePut,
       StartSend, LostFirstPut, EndPut, SlackAccept, StartCommit, Abandon, Finish, Goto,
       SlackAcceptLate, ServeOrphan, Tick
  <2> QED
    BY <2>1, ConstantsAssumption, MarginAssumption DEF StartSend, IInv, LeaseInv, TypeOK
<1> QED BY <1>1, InvariantHolds, PTL DEF Spec, SendStartsUnderLease

\* A step writes the record or adds a post, not both.
LEMMA RecordOrPost ==
  ASSUME [Next]_vars
  PROVE  posts \subseteq posts' /\ (posts' = posts \/ obj' = obj)
BY DEF Next, WorkerStep, vars, store, slack, worker, Begin, ReadMeta,
     ReadContent, DecideCheck, DecideDeliver, DecideIgnore, Prove, BuildRecord,
     ServePut, ServeOrphan, StartSend, LostFirstPut, EndPut, SlackAccept, StartCommit,
     Abandon, SlackAcceptLate, Tick

\* The record protocol implements the promise of the alert: every step maps to
\* a step of it or to a stutter.
THEOREM Refines == Spec => KeepsPromise
<1>1. Init => Promise!Init
  BY DEF Init, Promise!Init, Absent, Terminal
<1>2. IInv /\ IInv' /\ [Next]_vars => [Promise!Next]_(Promise!vars)
  <2> SUFFICES ASSUME IInv, IInv', [Next]_vars PROVE [Promise!Next]_(Promise!vars)
    OBVIOUS
  <2>1. posts \subseteq posts' /\ (posts' = posts \/ obj' = obj)
    BY RecordOrPost
  <2>2. /\ obj.state \in RecordState /\ obj'.state \in RecordState
        /\ obj.state = "delivered" => posts # {}
        /\ obj'.state = "delivered" => posts' # {}
        /\ obj.state = "ignored" => posts = {}
        /\ obj'.state = "ignored" => posts' = {}
    BY DEF IInv, TypeOK, Record, RecordInv, DeliveredWasPosted, IgnoredNeverPosted
  <2>3. CASE obj.state \in Terminal
    <3>1. obj' = obj /\ ((posts' # {}) <=> (posts # {}))
      BY <2>1, <2>2, <2>3, FinalStep DEF Terminal
    <3> QED BY <3>1 DEF Promise!vars
  <2>4. CASE obj.state \notin Terminal /\ obj'.state \in Terminal
    <3>1. posts' = posts
      BY <2>1, <2>4
    <3>2. CASE obj'.state = "delivered"
      BY <2>2, <2>4, <3>1, <3>2 DEF Promise!Next, Promise!RecordDelivery, Terminal
    <3>3. CASE obj'.state = "ignored"
      BY <2>2, <2>4, <3>1, <3>3 DEF Promise!Next, Promise!Ignore, Terminal
    <3> QED BY <2>4, <3>2, <3>3 DEF Terminal
  <2>5. CASE obj.state \notin Terminal /\ obj'.state \notin Terminal
    BY <2>1, <2>5 DEF Promise!Next, Promise!Announce, Promise!vars
  <2> QED BY <2>3, <2>4, <2>5
<1> QED BY <1>1, <1>2, InvariantHolds, PTL DEF Spec, Promise!Spec, KeepsPromise
=============================================================================
