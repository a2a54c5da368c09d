------------------------------ MODULE PegPoller ------------------------------
(***************************************************************************)
(* The metrics bridge's peg monitor: one asset and its deep venue source,  *)
(* polled under the active policy and, during a rollover, under the        *)
(* retained previous one (src/metrics-bridge/src/peg).  A cycle builds the *)
(* snapshots of each policy on a copy of the source's state; the copies    *)
(* become the state only when the snapshots are published.                 *)
(*                                                                         *)
(* Nothing else touches the state while a cycle runs and nothing of it is  *)
(* persisted: a restart is an initial state.  Time is the clock read at    *)
(* the start of a cycle; cycles are a unit apart.  The price of a book is  *)
(* left out but for whether it has one; so are the causes of a failure.    *)
(***************************************************************************)
EXTENDS Integers, Sequences, FiniteSets

CONSTANTS
  None,
  Version,      \* policy versions
  Supported,    \* sets of versions a replica's baked registry may serve
  RefSize,      \* reference sizes the structural context may give
  Sequence,     \* publication identities of the venue
  Lag,          \* how far behind the cycle's clock a book may be published
  Validity,     \* for how long after a cycle a conversion leg may be valid
  Converts,     \* the source has a convertVia
  Interval,     \* pollIntervalSeconds
  Stale,        \* staleAfterSeconds
  Skew,         \* MAX_PROVIDER_CLOCK_SKEW_MS
  MaxIdentities,\* MAX_IDENTITIES_PER_OBSERVATION_TIMESTAMP
  BlindLimit,   \* blindConsecutivePolls
  AbsentLimit,  \* listingAbsentConsecutiveChecks
  MaxCycles     \* bound of the model

ASSUME PegAssumption ==
  /\ None \notin Version \cup RefSize \cup Sequence \cup Int
  /\ RefSize \subseteq Nat /\ Lag \subseteq Int /\ Validity \subseteq Nat
  /\ Converts \in BOOLEAN
  /\ {Interval, MaxIdentities, BlindLimit, AbsentLimit} \subseteq Nat \ {0}
  /\ {Stale, Skew, MaxCycles} \subseteq Nat

VARIABLES
  registry,   \* the versions this replica's registry serves
  bundle,     \* the policy store: active first, then the retained previous
  cycle,      \* nowSeconds of the cycle
  todo,       \* policies of the cycle still to build; None between cycles
  sources,    \* sourceStates, by policy version
  staged,     \* the completed policies' copies
  shots,      \* and their snapshots
  shown,      \* what was last published for a version
  successes,  \* mento_peg_poll_success_total, by version
  counted,    \* the identities behind it
  waiting     \* counted cadence slots since a usable decision was published

pegVars == <<registry, bundle, cycle, todo, sources, staged, shots, shown,
             successes, counted, waiting>>

-----------------------------------------------------------------------------
(* The source's state.                                                     *)

Some(S) == S \cup {None}

\* A halt has no publication identity; "thin" is a book that is capped or has no
\* price.  The raw book is kept exactly while a converted one is retained.
Halted == [venue |-> "halted", at |-> None, seq |-> None]
Book(at, seq, venue) == [venue |-> venue, at |-> at, seq |-> seq]
Identity(obs) == <<obs.at, obs.seq>>
Executable(obs) == obs # None /\ obs.venue # "halted"
Priced(obs) == obs # None /\ obs.venue = "priced"

Observation == {Halted} \cup [venue : {"priced", "thin"}, at : Nat, seq : Sequence]

ASSUME ObservationAssumption == None \notin Observation

MarketState == {"listed", "halted", "absent"}

SourceState ==
  [attempt : Some(Nat), listingAttempt : Some(Nat),
   last : Some(Nat), identities : SUBSET Sequence,
   obs : Some(Observation), ref : Some(RefSize), validUntil : Some(Nat),
   listing : Some(MarketState), absent : Nat, blind : Nat, failed : BOOLEAN]

DefaultState ==
  [attempt |-> None, listingAttempt |-> None, last |-> None, identities |-> {},
   obs |-> None, ref |-> None, validUntil |-> None,
   listing |-> None, absent |-> 0, blind |-> 0, failed |-> FALSE]

StateOf(p) == IF p \in DOMAIN sources THEN sources[p] ELSE DefaultState

CadenceDue(t) == t = None \/ cycle - t >= Interval
Fresh(at)     == cycle - at >= -Skew /\ cycle - at <= Stale
Closed(s)     == s.listing \in {"halted", "absent"}
Expired(s)    == Converts /\ (s.validUntil = None \/ cycle > s.validUntil)
Least(a, b)   == IF a <= b THEN a ELSE b

\* Variant: a failure starts the source afresh.
Clear_Resets(s, ref) == [DefaultState EXCEPT !.attempt = s.attempt, !.ref = ref]

Clear(s, ref) == [s EXCEPT !.obs = None, !.ref = ref, !.validUntil = None]

\* acceptListingCheck: an absence counts once for each slot of the listing cadence.
Listed(s, state, due) ==
  [s EXCEPT !.listing = state,
            !.absent = IF state # "absent" THEN 0
                       ELSE IF s.listing # "absent" THEN 1
                       ELSE IF due THEN Least(@ + 1, AbsentLimit) ELSE @]

\* updateBlindConsecutivePolls.
Blinded(s, usable) ==
  [s EXCEPT !.blind = IF usable THEN 0 ELSE Least(@ + 1, BlindLimit)]

-----------------------------------------------------------------------------
(* A poll of the source, as the pairs of state and snapshot it may end in. *)

Snapshot ==
  [at : Nat, obs : Some(Observation), validUntil : Some(Nat),
   listing : Some(MarketState), failed : BOOLEAN,
   success : BOOLEAN, usable : BOOLEAN, slot : BOOLEAN]

ASSUME SnapshotAssumption == None \notin Snapshot

\* createPegSourceMetricSnapshot: the state supplies a cause of failure where the
\* poll recorded none.
Poll(s, obs, new) ==
  LET failed == s.failed \/ Closed(s) \/ (obs # None /\ ~Priced(obs))
  IN [state |-> [s EXCEPT !.failed = failed],
      shot  |-> [at |-> cycle, obs |-> obs, validUntil |-> s.validUntil,
                 listing |-> s.listing, failed |-> failed,
                 success |-> new, usable |-> new /\ Priced(obs), slot |-> FALSE]]

Failed(s, ref) == Poll([Clear(s, ref) EXCEPT !.failed = TRUE], None, FALSE)

\* cachedObservation.
Retained(s) ==
  IF s.listing = "absent" THEN Clear(s, s.ref)
  ELSE IF s.obs = Halted THEN s
  ELSE IF s.obs = None \/ Closed(s) \/ Expired(s) \/ ~Fresh(s.obs.at)
  THEN [Clear(s, s.ref) EXCEPT !.failed = TRUE]
  ELSE s

Cached(s) == Poll(Retained(s), Retained(s).obs, FALSE)

ConversionExpired(s) ==
  Executable(s.obs) /\ ~Closed(s) /\ s.validUntil # None /\ Expired(s)

\* Variant: the retained book is not asked for its age again.
Refreshed_Old(s, ref) ==
  {Failed(s, ref)} \cup
  {Poll([s EXCEPT !.validUntil = cycle + v, !.failed = ~Priced(s.obs)], s.obs, FALSE) :
     v \in Validity}

\* refreshExpiredConversion: it fails, or finds a leg valid until then.
Refreshed(s, ref) ==
  {Failed(s, ref)} \cup
  {Poll([s EXCEPT !.validUntil = cycle + v, !.failed = ~Priced(s.obs)], s.obs, FALSE) :
     v \in IF Fresh(s.obs.at) THEN Validity ELSE {}}

\* Variant: any identity seen at the last timestamp is a harmless repetition.
Repeats_Seen(s, obs) == s.last # None /\ obs.at = s.last /\ obs.seq \in s.identities

\* isCurrentRetainedExecutableObservation.
Repeats(s, obs) ==
  /\ s.last # None /\ obs.at = s.last
  /\ Executable(s.obs) /\ ~Closed(s) /\ Identity(s.obs) = Identity(obs)

\* recordProviderAdvancement.
Advances(s, obs) ==
  \/ s.last = None \/ obs.at > s.last
  \/ /\ obs.at = s.last /\ ~Repeats(s, obs)
     /\ obs.seq \notin s.identities /\ Cardinality(s.identities) < MaxIdentities

Advanced(s, obs) ==
  [s EXCEPT !.last = obs.at,
            !.identities = IF s.last = obs.at THEN @ \cup {obs.seq} ELSE {obs.seq}]

Taken(s, ref, obs, until) ==
  [s EXCEPT !.obs = obs, !.ref = ref, !.validUntil = until, !.failed = ~Priced(obs)]

\* acceptDueObservation of a book, with a leg valid until then.
Accepted(s, ref, obs, until) ==
  IF Fresh(obs.at) /\ Advances(s, obs)
  THEN Poll(Taken(Advanced(s, obs), ref, obs, until), obs, TRUE)
  ELSE IF Fresh(obs.at) /\ Repeats(s, obs)
  THEN Poll(Taken(s, ref, obs, until), obs, FALSE)
  ELSE Failed(s, ref)

Halt(s, ref) ==
  Poll([Clear(s, ref) EXCEPT !.obs = Halted, !.failed = TRUE], Halted, FALSE)

Books == {Book(cycle - l, q, v) :
            l \in {n \in Lag : n <= cycle}, q \in Sequence, v \in {"priced", "thin"}}
Until == IF Converts THEN {cycle + v : v \in Validity} ELSE {None}

\* pollDueSource: the listing is looked up first, and its answer is kept whatever
\* becomes of the rest.
Fetched(s, ref, due) ==
  {Failed(s, ref), Failed(Listed(s, "absent", due), ref),
   Failed(Listed(s, "listed", due), ref), Halt(Listed(s, "halted", due), ref)}
  \cup {Accepted(Listed(s, "listed", due), ref, b, u) : b \in Books, u \in Until}

\* pollProviderDue: a due poll of the deep source fills a slot of the blind count.
Slot(r) == [state |-> Blinded(r.state, r.shot.usable),
            shot  |-> [r.shot EXCEPT !.slot = TRUE]]

DuePoll(s, ref) ==
  LET due == CadenceDue(s.listingAttempt)
      t   == [s EXCEPT !.attempt = cycle,
                       !.listingAttempt = IF due THEN cycle ELSE @]
  IN {Slot(r) : r \in Fetched(t, ref, due)}

\* pollListingOnly: the states it may leave.
ListingOnly(s) ==
  IF ~CadenceDue(s.listingAttempt) THEN {s}
  ELSE LET t == [s EXCEPT !.listingAttempt = cycle]
       IN {t} \cup {Listed(t, l, TRUE) : l \in MarketState}

Kept(s, ref) == IF ConversionExpired(s) THEN Refreshed(s, ref) ELSE {Cached(s)}

\* snapshotWithoutReferenceSize: an observation slot that passes is counted blind.
KeptUnsized(s) ==
  IF s.ref # None THEN Kept(s, s.ref)
  ELSE {Poll([Clear(s, None) EXCEPT !.failed = @ \/ ~Closed(s)], None, FALSE)}

Unsized(s) ==
  IF CadenceDue(s.attempt)
  THEN {[r EXCEPT !.shot.slot = TRUE] :
          r \in UNION {KeptUnsized(t) :
                  t \in ListingOnly(Blinded([s EXCEPT !.attempt = cycle], FALSE))}}
  ELSE UNION {KeptUnsized(t) : t \in ListingOnly(s)}

\* pollSource.
PollSource(s, ref) ==
  IF ref = None THEN Unsized(s)
  ELSE IF CadenceDue(s.attempt) \/ s.ref # ref THEN DuePoll(s, ref)
  ELSE UNION {Kept(t, ref) : t \in ListingOnly(s)}

-----------------------------------------------------------------------------
(* The policies of a cycle.                                                *)

Bundle == {<<a>> : a \in Version}
          \cup {b \in Version \X Version : b[1] # b[2]}

\* selectCompatiblePolicies; <<>> is a refusal.
Selected(b) ==
  IF \A i \in DOMAIN b : b[i] \in registry THEN b
  ELSE IF Len(b) = 2 /\ b[1] \notin registry /\ b[2] \in registry THEN <<b[2]>>
  ELSE <<>>

\* validatePolicyTransition.
MayFollow(b) ==
  bundle # None =>
    IF b[1] = bundle[1] THEN Len(b) = 1 \/ b = bundle
    ELSE Len(bundle) = 1 /\ Len(b) = 2 /\ b[2] = bundle[1]

\* refreshPolicy, then the start of pollCycle.
RunCycle ==
  /\ todo = None /\ cycle < MaxCycles
  /\ \/ \E b \in Bundle : MayFollow(b) /\ Selected(b) # <<>> /\ bundle' = b
     \/ bundle # None /\ UNCHANGED bundle
  /\ cycle' = cycle + 1
  /\ todo' = Selected(bundle')
  /\ staged' = <<>> /\ shots' = <<>>
  /\ UNCHANGED <<registry, sources, shown, successes, counted, waiting>>

With(f, p, v) == [q \in DOMAIN f \cup {p} |-> IF q = p THEN v ELSE f[q]]

Building == todo # None /\ todo # <<>>

\* buildSnapshots for the next policy, on a copy of the state.
Build ==
  /\ Building
  /\ \E ref \in Some(RefSize) : \E r \in PollSource(StateOf(Head(todo)), ref) :
       /\ staged' = With(staged, Head(todo), r.state)
       /\ shots' = With(shots, Head(todo), r.shot)
  /\ todo' = Tail(todo)
  /\ UNCHANGED <<registry, bundle, cycle, sources, shown, successes, counted, waiting>>

\* It throws: the policy is not among the completed ones.
BuildFails ==
  /\ Building
  /\ todo' = Tail(todo)
  /\ UNCHANGED <<registry, bundle, cycle, sources, staged, shots, shown, successes,
                 counted, waiting>>

-----------------------------------------------------------------------------
(* Publication and commit.                                                 *)

Policies == Selected(bundle)
Complete == \A i \in DOMAIN Policies : Policies[i] \in DOMAIN staged

\* Counters and state go together: all of a complete cycle, else the one policy
\* that completed, which is what the decision package is made from.
Published == DOMAIN staged

Commit ==
  IF Complete THEN staged
  ELSE [p \in DOMAIN sources \cup Published |->
          IF p \in Published THEN staged[p] ELSE sources[p]]

\* A complete cycle retires the versions that are no longer selected.
Retires(p) == Complete /\ p \notin DOMAIN staged

Publish ==
  /\ todo = <<>>
  /\ sources' = Commit
  /\ shown' = [p \in Version |-> IF p \in Published THEN shots[p]
                                 ELSE IF Retires(p) THEN None ELSE shown[p]]
  /\ successes' = [p \in Version |->
       IF Retires(p) THEN 0
       ELSE IF p \in Published /\ shots[p].success THEN successes[p] + 1 ELSE successes[p]]
  /\ counted' = [p \in Version |->
       IF Retires(p) THEN {}
       ELSE IF p \in Published /\ shots[p].success
            THEN counted[p] \cup {Identity(shots[p].obs)} ELSE counted[p]]
  /\ waiting' = [p \in Version |->
       IF Retires(p) THEN 0
       ELSE IF p \in Published
            THEN IF shots[p].usable THEN 0
                 ELSE IF shots[p].slot THEN waiting[p] + 1 ELSE waiting[p]
            ELSE waiting[p]]
  /\ todo' = None /\ staged' = <<>> /\ shots' = <<>>
  /\ UNCHANGED <<registry, bundle, cycle>>

\* Variant: the state is committed before the publication is known to succeed.
PublishFails_Commits ==
  /\ todo = <<>>
  /\ sources' = Commit
  /\ todo' = None /\ staged' = <<>> /\ shots' = <<>>
  /\ UNCHANGED <<registry, bundle, cycle, shown, successes, counted, waiting>>

\* Nothing is committed.
PublishFails ==
  /\ todo = <<>>
  /\ todo' = None /\ staged' = <<>> /\ shots' = <<>>
  /\ UNCHANGED <<registry, bundle, cycle, sources, shown, successes, counted, waiting>>

PegInit ==
  /\ registry \in Supported
  /\ bundle = None /\ cycle = 0 /\ todo = None
  /\ sources = <<>> /\ staged = <<>> /\ shots = <<>>
  /\ shown = [p \in Version |-> None]
  /\ successes = [p \in Version |-> 0]
  /\ counted = [p \in Version |-> {}]
  /\ waiting = [p \in Version |-> 0]

PegNext == RunCycle \/ Build \/ BuildFails \/ Publish \/ PublishFails

PegSpec == PegInit /\ [][PegNext]_pegVars

-----------------------------------------------------------------------------
(* Properties.                                                             *)

\* mento_peg_poll_success_total counts publications of the venue, not polls: a book
\* is counted under a version once, although the venue repeats and reorders books,
\* cycles fail before and after the poll, and failures and halts clear the state.
OneSuccessPerIdentity == \A p \in Version : successes[p] = Cardinality(counted[p])

\* What is shown as executable is no older and no further ahead than the policy
\* allows, is converted by a leg that is valid, and is of a market that was listed
\* when last asked; and a source shows a cause of failure exactly when it shows no
\* price, whichever of the paths of a poll the snapshot comes from.
ShownIsHonest ==
  \A p \in Version : shown[p] # None =>
    /\ Executable(shown[p].obs) =>
         /\ shown[p].at - shown[p].obs.at \in -Skew..Stale
         /\ Converts => shown[p].validUntil # None /\ shown[p].at <= shown[p].validUntil
         /\ shown[p].listing = "listed"
    /\ shown[p].failed <=> ~Priced(shown[p].obs)

\* A book that was shown and then no longer shown stays away: after a failure or a
\* halt only a book the venue has published since is executable again ("reopening
\* with the same frozen book fails shut", poller.ts).
GoneStaysGone ==
  [][\A p \in Version :
       shown'[p] # None /\ Executable(shown'[p].obs)
         /\ Identity(shown'[p].obs) \in counted[p]
       => /\ shown[p] # None /\ Executable(shown[p].obs)
          /\ Identity(shown[p].obs) = Identity(shown'[p].obs)]_pegVars

\* The blind count that pages is the number of slots published in a row without a
\* usable decision: neither a cycle that fails nor the sibling policy moves it.
BlindCountsSlots ==
  \A p \in DOMAIN sources : sources[p].blind = Least(waiting[p], BlindLimit)
=============================================================================
