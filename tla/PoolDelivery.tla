---------------------------- MODULE PoolDelivery ----------------------------
(***************************************************************************)
(* The life of the delivery record of ONE watched-LP withdrawal candidate, *)
(* as alerts/infra/onchain-event-handler/src/pool-liquidity-withdrawal.ts  *)
(* runs it: every retry worker that meets the candidate reads the record,  *)
(* proves the burn from the receipt, and either ignores the candidate or   *)
(* claims it under a lease, posts to Slack and commits the record.         *)
(*                                                                         *)
(* The record is a Cloud Storage object.  A write carries the generation   *)
(* it expects and the store refuses it (412) on any other.  A client call  *)
(* has a timeout; when it fires, or the instance dies, the request may     *)
(* have been applied, may be lost, or may still be applied later.  Time is *)
(* an integer clock; a worker computes in zero time between its awaits.    *)
(***************************************************************************)
EXTENDS Integers, FiniteSets

CONSTANTS
  Worker,        \* concurrent runs of the retry function
  Lease,         \* LEASE_MS
  CallTimeout,   \* GCS_REQUEST_TIMEOUT_MS
  SendTimeout,   \* the AbortSignal.timeout given to sendToSlack
  MaxTime,       \* bound of the clock
  MaxOrphans     \* bound of the abandoned writes still under way

ASSUME ConstantsAssumption ==
  /\ Lease \in Nat /\ CallTimeout \in Nat /\ SendTimeout \in Nat
  /\ MaxTime \in Nat /\ MaxOrphans \in Nat

\* Two calls after the lease is computed and before the first attempt is sent,
\* four on the path that takes an expired lease over: the numbers the code
\* relies on when it bounds GCS calls by 10 s under a lease of 60 s.
ASSUME MarginAssumption == 4 * CallTimeout < Lease

VARIABLES
  now,       \* the clock that Date.now reads
  obj,       \* the delivery-state object: [gen, state, lease]
  orphans,   \* abandoned writes the store may still apply
  posts,     \* generations of the claims whose post Slack has accepted
  late,      \* generations of abandoned posts Slack may still accept
  pc,        \* the await each worker stands at
  job,       \* the function that await belongs to: check, deliver or ignore
  due,       \* when the pending call of the worker times out
  held,      \* generation the worker holds: of the record it read or claimed
  until,     \* leaseUntil of the record the worker built
  seen,      \* the record the worker has read
  reply      \* the store's answer to the worker's write

store   == <<obj, orphans>>
slack   == <<posts, late>>
worker  == <<pc, job, due, held, until, seen, reply>>
vars    == <<now, store, slack, worker>>

NoReply == -1
Refused == 0                      \* HTTP 412; live generations start at 1
Absent  == [gen |-> 0, state |-> "absent", lease |-> 0]

RecordState == {"absent", "pending", "delivered", "ignored"}
Record      == [gen : Nat, state : RecordState, lease : Nat]
Write       == [expect : Nat, state : RecordState, lease : Nat]
Terminal    == {"delivered", "ignored"}
Place       == {"idle", "meta", "content", "seen", "prove", "token", "put",
                "retake", "send", "commit"}
Writing     == {"put", "retake", "commit"}
Job         == {"check", "deliver", "ignore"}

TypeOK ==
  /\ now \in Nat
  /\ obj \in Record
  /\ orphans \subseteq Write
  /\ posts \subseteq Nat /\ late \subseteq Nat
  /\ pc \in [Worker -> Place]
  /\ job \in [Worker -> Job]
  /\ due \in [Worker -> Nat]
  /\ held \in [Worker -> Nat]
  /\ until \in [Worker -> Nat]
  /\ seen \in [Worker -> Record]
  /\ reply \in [Worker -> Nat \cup {NoReply}]

Init ==
  /\ now = 0
  /\ obj = Absent
  /\ orphans = {} /\ posts = {} /\ late = {}
  /\ pc = [w \in Worker |-> "idle"]
  /\ job = [w \in Worker |-> "check"]
  /\ due = [w \in Worker |-> 0]
  /\ held = [w \in Worker |-> 0]
  /\ until = [w \in Worker |-> 0]
  /\ seen = [w \in Worker |-> Absent]
  /\ reply = [w \in Worker |-> NoReply]

Goto(w, place)     == pc' = [pc EXCEPT ![w] = place]
Await(w, timeout)  == due' = [due EXCEPT ![w] = now + timeout]
Forget(w)          == /\ held' = [held EXCEPT ![w] = 0]
                      /\ seen' = [seen EXCEPT ![w] = Absent]
Finish(w)          == /\ Goto(w, "idle") /\ Forget(w)
                      /\ job' = [job EXCEPT ![w] = "check"]
                      /\ due' = [due EXCEPT ![w] = 0]
                      /\ until' = [until EXCEPT ![w] = 0]
LeaseRunning(rec)  == rec.lease > now

-----------------------------------------------------------------------------
(* readRecord: metadata, then content of exactly that generation.          *)

\* onKey starts by reading the record of the key.
Begin(w) ==
  /\ pc[w] = "idle"
  /\ Goto(w, "meta") /\ Await(w, CallTimeout)
  /\ job' = [job EXCEPT ![w] = "check"]
  /\ UNCHANGED <<now, store, slack, held, until, seen, reply>>

\* A missing record sends onKey to the proof.  Elsewhere it would be an error
\* (Abandon), and records are never deleted.
ReadMeta(w) ==
  /\ pc[w] = "meta"
  /\ \/ /\ obj.gen = 0 /\ job[w] = "check"
        /\ Goto(w, "prove")
        /\ due' = [due EXCEPT ![w] = 0]
        /\ UNCHANGED <<job, held, until, seen>>
     \/ /\ obj.gen > 0
        /\ held' = [held EXCEPT ![w] = obj.gen]
        /\ Goto(w, "content") /\ Await(w, CallTimeout)
        /\ UNCHANGED <<job, until, seen>>
  /\ UNCHANGED <<now, store, slack, reply>>

ReadContent(w) ==
  /\ pc[w] = "content"
  /\ \/ /\ obj.gen = held[w]
        /\ seen' = [seen EXCEPT ![w] = obj]
        /\ Goto(w, "seen")
        /\ UNCHANGED <<job, due, held, until>>
     \/ /\ obj.gen # held[w]
        /\ Finish(w)
  /\ UNCHANGED <<now, store, slack, reply>>

-----------------------------------------------------------------------------
(* What a worker does with the record it has read.                         *)

\* onKey: a finished or leased record is skipped, any other is delivered.
DecideCheck(w) ==
  /\ pc[w] = "seen" /\ job[w] = "check"
  /\ \/ /\ seen[w].state \in Terminal \/ LeaseRunning(seen[w])
        /\ Finish(w)
     \/ /\ seen[w].state \notin Terminal /\ ~LeaseRunning(seen[w])
        /\ Goto(w, "token") /\ Await(w, CallTimeout) /\ Forget(w)
        /\ job' = [job EXCEPT ![w] = "deliver"]
        /\ UNCHANGED until
  /\ UNCHANGED <<now, store, slack, reply>>

\* Variants of deliver that forget the ignored state or the lease.
DecideDeliver_TakesIgnored(w) ==
  /\ pc[w] = "seen" /\ job[w] = "deliver"
  /\ \/ /\ seen[w].state = "delivered" \/ LeaseRunning(seen[w])
        /\ Finish(w)
     \/ /\ seen[w].state # "delivered" /\ ~LeaseRunning(seen[w])
        /\ Goto(w, "retake") /\ Await(w, CallTimeout)
        /\ UNCHANGED <<job, held, until, seen>>
  /\ UNCHANGED <<now, store, slack, reply>>

DecideDeliver_IgnoresLease(w) ==
  /\ pc[w] = "seen" /\ job[w] = "deliver"
  /\ \/ /\ seen[w].state \in Terminal
        /\ Finish(w)
     \/ /\ seen[w].state \notin Terminal
        /\ Goto(w, "retake") /\ Await(w, CallTimeout)
        /\ UNCHANGED <<job, held, until, seen>>
  /\ UNCHANGED <<now, store, slack, reply>>

\* deliverPoolLiquidityWithdrawal: only an expired pending record is claimed
\* again, with the generation that was read.
DecideDeliver(w) ==
  /\ pc[w] = "seen" /\ job[w] = "deliver"
  /\ \/ /\ seen[w].state \in Terminal \/ LeaseRunning(seen[w])
        /\ Finish(w)
     \/ /\ seen[w].state \notin Terminal /\ ~LeaseRunning(seen[w])
        /\ Goto(w, "retake") /\ Await(w, CallTimeout)
        /\ seen' = [seen EXCEPT ![w] = Absent]
        /\ UNCHANGED <<job, held, until>>
  /\ UNCHANGED <<now, store, slack, reply>>

\* ignorePoolCandidate: done, or an error the next pass repeats.
DecideIgnore(w) ==
  /\ pc[w] = "seen" /\ job[w] = "ignore"
  /\ Finish(w)
  /\ UNCHANGED <<now, store, slack, reply>>

-----------------------------------------------------------------------------
(* Receipt proof, claim, send and commit.                                  *)

\* The receipt proves a withdrawal, proves there is none, or is ambiguous and
\* leaves the candidate pending.  The RPC node is not assumed consistent.
Prove(w) ==
  /\ pc[w] = "prove"
  /\ \/ \E next \in {"deliver", "ignore"} :
          /\ Goto(w, "token") /\ Await(w, CallTimeout)
          /\ job' = [job EXCEPT ![w] = next]
          /\ UNCHANGED <<held, until, seen>>
     \/ Finish(w)
  /\ UNCHANGED <<now, store, slack, reply>>

\* The access token arrives; the record is built and its lease computed.
BuildRecord(w) ==
  /\ pc[w] = "token"
  /\ until' = [until EXCEPT ![w] = IF job[w] = "deliver" THEN now + Lease ELSE 0]
  /\ Goto(w, "put") /\ Await(w, CallTimeout)
  /\ UNCHANGED <<now, store, slack, job, held, seen, reply>>

\* The write worker w has under way: generation expected, state, lease.
WriteOf(w) ==
  [expect |-> IF pc[w] = "put" THEN 0 ELSE held[w],
   state  |-> IF pc[w] = "commit" THEN "delivered"
              ELSE IF job[w] = "ignore" THEN "ignored" ELSE "pending",
   lease  |-> IF pc[w] = "commit" THEN 0 ELSE until[w]]

\* The store applies a write whose expected generation is the current one.
Accepts(write) == obj.gen = write.expect
Stored(write)  == [gen |-> obj.gen + 1, state |-> write.state, lease |-> write.lease]

ServePut(w) ==
  /\ pc[w] \in Writing /\ reply[w] = NoReply
  /\ \/ /\ Accepts(WriteOf(w))
        /\ obj' = Stored(WriteOf(w))
        /\ reply' = [reply EXCEPT ![w] = obj.gen + 1]
     \/ /\ ~Accepts(WriteOf(w))
        /\ reply' = [reply EXCEPT ![w] = Refused]
        /\ UNCHANGED obj
  /\ UNCHANGED <<now, orphans, slack, pc, job, due, held, until, seen>>

ServeOrphan(o) ==
  /\ orphans' = orphans \ {o}
  /\ obj' = IF Accepts(o) THEN Stored(o) ELSE obj
  /\ UNCHANGED <<now, slack, worker>>

\* A won claim goes to Slack; a lost first claim reads who holds the record.
StartSend(w) ==
  /\ pc[w] \in {"put", "retake"} /\ job[w] = "deliver" /\ reply[w] > 0
  /\ held' = [held EXCEPT ![w] = reply[w]]
  /\ Goto(w, "send") /\ Await(w, SendTimeout)
  /\ reply' = [reply EXCEPT ![w] = NoReply]
  /\ UNCHANGED <<now, store, slack, job, until, seen>>

LostFirstPut(w) ==
  /\ pc[w] = "put" /\ reply[w] = Refused
  /\ Goto(w, "meta") /\ Await(w, CallTimeout)
  /\ reply' = [reply EXCEPT ![w] = NoReply]
  /\ UNCHANGED <<now, store, slack, job, held, until, seen>>

\* The last answer of a job: ignored, delivered, or lost to another worker.
EndPut(w) ==
  /\ \/ pc[w] = "put" /\ job[w] = "ignore" /\ reply[w] > 0
     \/ pc[w] = "retake" /\ reply[w] = Refused
     \/ pc[w] = "commit" /\ reply[w] # NoReply
  /\ Finish(w)
  /\ reply' = [reply EXCEPT ![w] = NoReply]
  /\ UNCHANGED <<now, store, slack>>

\* Slack accepts the post of the claim; sendToSlack may post it again.
SlackAccept(w) ==
  /\ pc[w] = "send"
  /\ posts' = posts \cup {held[w]}
  /\ UNCHANGED <<now, store, late, worker>>

SlackAcceptLate(g) ==
  /\ late' = late \ {g}
  /\ posts' = posts \cup {g}
  /\ UNCHANGED <<now, store, worker>>

\* sendToSlack returns once Slack has acknowledged a post of this claim.
StartCommit(w) ==
  /\ pc[w] = "send" /\ held[w] \in posts
  /\ Goto(w, "commit") /\ Await(w, CallTimeout)
  /\ UNCHANGED <<now, store, slack, job, held, until, seen, reply>>

-----------------------------------------------------------------------------
(* A call fails or times out, or the instance dies, at any await.          *)

Abandon(w) ==
  /\ pc[w] # "idle"
  /\ Finish(w)
  /\ reply' = [reply EXCEPT ![w] = NoReply]
  /\ \/ UNCHANGED <<orphans, late>>
     \/ /\ pc[w] \in Writing /\ reply[w] = NoReply
        /\ Cardinality(orphans) < MaxOrphans
        /\ orphans' = orphans \cup {WriteOf(w)}
        /\ UNCHANGED late
     \/ /\ pc[w] = "send"
        /\ late' = late \cup {held[w]}
        /\ UNCHANGED orphans
  /\ UNCHANGED <<now, obj, posts>>

\* No call outlives its timeout; only the RPC proof has none of its own.
Tick ==
  /\ now < MaxTime
  /\ \A w \in Worker : pc[w] \in {"idle", "prove"} \/ now < due[w]
  /\ now' = now + 1
  /\ UNCHANGED <<store, slack, worker>>

WorkerStep(w) ==
  \/ Begin(w) \/ ReadMeta(w) \/ ReadContent(w)
  \/ DecideCheck(w) \/ DecideDeliver(w) \/ DecideIgnore(w)
  \/ Prove(w) \/ BuildRecord(w) \/ ServePut(w)
  \/ StartSend(w) \/ LostFirstPut(w) \/ EndPut(w)
  \/ SlackAccept(w) \/ StartCommit(w) \/ Abandon(w)

Next ==
  \/ \E w \in Worker : WorkerStep(w)
  \/ \E o \in orphans : ServeOrphan(o)
  \/ \E g \in late : SlackAcceptLate(g)
  \/ Tick

Spec == Init /\ [][Next]_vars

-----------------------------------------------------------------------------
(* Properties.                                                             *)

\* A record says delivered only if Slack accepted the post of the very claim
\* the commit replaced: no other worker's claim, and no claim that was lost,
\* can complete it (the generation precondition of the commit write).
DeliveredWasPosted ==
  obj.state = "delivered" => obj.gen - 1 \in posts

\* An ignored candidate was never posted and never will be, although workers
\* may get different proofs for it: ignoring and claiming both create the
\* record with expected generation 0, and neither survives the other.
IgnoredNeverPosted ==
  obj.state = "ignored" =>
    /\ posts = {} /\ late = {}
    /\ \A w \in Worker : pc[w] # "send"

\* A worker still posting to Slack after another one replaced its claim has
\* outlived its own lease, so no two workers post under leases that both run.
LostClaimHadExpired ==
  \A w \in Worker :
    pc[w] = "send" /\ obj.gen # held[w] => until[w] <= now

\* Delivered and ignored are final: no late write, stale claim or second
\* verdict rewrites the audit record.
TerminalIsFinal ==
  [][obj.state \in Terminal => obj' = obj]_vars

\* Whatever the first four storage calls take, the lease still runs when the
\* post to Slack starts.
SendStartsUnderLease ==
  [][\A w \in Worker :
       pc[w] # "send" /\ pc'[w] = "send" => now < until[w]]_vars

Promise == INSTANCE WithdrawalPromise
  WITH outcome   <- IF obj.state \in Terminal THEN obj.state ELSE "open",
       announced <- posts # {}

\* The record protocol keeps the promise of the alert: announced or ignored,
\* never both, and recorded as delivered only once announced.
KeepsPromise == Promise!Spec

\* What the comment on the abort signal promises: the sleeps and retries of a
\* post stay below the lease, so nobody is still posting once it has run out.
SendEndsUnderLease ==
  \A w \in Worker : pc[w] = "send" => now <= until[w]
=============================================================================
