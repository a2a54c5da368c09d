--------------------------- MODULE PegPoller_proofs ---------------------------
(* The metrics bridge.                                                         *)
(*                                                                             *)
(* Its peg monitor: the counters and what it shows, for any venue, any         *)
(* policies and any way a cycle fails.  The counter is right because the state *)
(* remembers what was counted: every counted identity is older than the        *)
(* source's last timestamp or among the identities seen at it, and a poll that *)
(* counts finds its book in neither.  That alone is not inductive, for what a  *)
(* cycle counts is decided on copies and published later: StageSound says that *)
(* each copy is one sound poll away from the state as it still is, and every   *)
(* path of a poll is proved sound.                                             *)
(*                                                                             *)
(* Its deviation alert: a bridge that starts again against one that never      *)
(* stopped.  They agree on the row, so the proof is about time: what the late  *)
(* one dates is never dated later than what the other one knows (Recalls), and *)
(* a breach that has once escalated is old enough to be critical at the first  *)
(* row of any process of the same trading week (EpisodeOK).                    *)
EXTENDS PegPoller, DeviationAlert, FiniteSetTheorems, TLAPS

-----------------------------------------------------------------------------
(* What a poll of the source does to its state and says in its snapshot.       *)

\* The state's retained book is of a market whose listing is known, and a price is
\* retained without a cause of failure.
Retainable(s) ==
  /\ s \in SourceState
  /\ Executable(s.obs) => s.listing \in MarketState
  /\ Priced(s.obs) => ~s.failed

\* What a snapshot made from the state now may show of its observation.
Showable(s) ==
  /\ s \in SourceState
  /\ Executable(s.obs) => /\ Fresh(s.obs.at)
                          /\ Converts => s.validUntil # None /\ cycle <= s.validUntil
                          /\ s.listing = "listed"
  /\ Priced(s.obs) => ~s.failed
  /\ s.obs = None => s.failed \/ Closed(s)

\* ShownIsHonest, of one snapshot.
Honest(n) ==
  /\ Executable(n.obs) =>
       /\ n.at - n.obs.at \in -Skew..Stale
       /\ Converts => n.validUntil # None /\ n.at <= n.validUntil
       /\ n.listing = "listed"
  /\ n.failed <=> ~Priced(n.obs)

\* The book is newer than the last timestamp, or new at it.
Newer(s, obs) ==
  s.last = None \/ obs.at > s.last \/ (obs.at = s.last /\ obs.seq \notin s.identities)

Same(s, t) == t.last = s.last /\ t.identities = s.identities

\* An executable book of the state after was the book of the state before.
Stays(s, t) ==
  Executable(t.obs) => Executable(s.obs) /\ Identity(t.obs) = Identity(s.obs)

\* Exactly a poll that counts moves the last timestamp or the identities at it, or
\* brings another book.
Advancement(s, r) ==
  IF r.shot.success
  THEN /\ r.shot.obs \in Observation /\ r.shot.obs.at \in Nat
       /\ Newer(s, r.shot.obs) /\ Same(Advanced(s, r.shot.obs), r.state)
  ELSE Same(s, r.state) /\ Stays(s, r.state)

Result(r) ==
  /\ r = [state |-> r.state, shot |-> r.shot]
  /\ r.state.obs = r.shot.obs
  /\ r.shot \in Snapshot /\ Retainable(r.state) /\ Honest(r.shot)
  /\ r.shot.usable => r.shot.success

\* A poll before its slot of the blind count is filled.
Unslotted(s, r) ==
  Result(r) /\ Advancement(s, r) /\ r.state.blind = s.blind /\ ~r.shot.slot

\* Of a poll that counts nothing.
Quiet(s, r) == Unslotted(s, r) /\ ~r.shot.success

Blindness(s, r) ==
  r.state.blind = IF r.shot.usable THEN 0
                  ELSE IF r.shot.slot THEN Least(s.blind + 1, BlindLimit) ELSE s.blind

Sound(s, r) == Result(r) /\ Advancement(s, r) /\ Blindness(s, r)

-----------------------------------------------------------------------------
(* Every path of a poll is sound.                                              *)

Kin(s, t) == t \in SourceState /\ Same(s, t) /\ Stays(s, t) /\ t.blind = s.blind

\* What is not the acceptance of a book leaves the identities and the blind count.
LEMMA ClearKin ==
  ASSUME NEW s \in SourceState, NEW ref \in Some(RefSize)
  PROVE  /\ Kin(s, Clear(s, ref)) /\ Clear(s, ref).obs = None
         /\ Clear(s, ref).listing = s.listing /\ Clear(s, ref).failed = s.failed
  <1> DEFINE t == Clear(s, ref)
  <1>1. /\ t \in SourceState /\ Same(s, t) /\ t.blind = s.blind /\ t.obs = None
        /\ t.listing = s.listing /\ t.failed = s.failed
        BY DEF SourceState, Clear, Some, Same
  <1> HIDE DEF t
  <1>2. Stays(s, t)
        BY <1>1 DEF Stays, Executable
  <1> QED BY <1>1, <1>2 DEF Kin, t

LEMMA FailKin ==
  ASSUME NEW s \in SourceState, NEW ref \in Some(RefSize), NEW f \in BOOLEAN
  PROVE  /\ Kin(s, [Clear(s, ref) EXCEPT !.failed = f])
         /\ [Clear(s, ref) EXCEPT !.failed = f].obs = None
         /\ [Clear(s, ref) EXCEPT !.failed = f].failed = f
         /\ [Clear(s, ref) EXCEPT !.failed = f].listing = s.listing
  <1> DEFINE t == [Clear(s, ref) EXCEPT !.failed = f]
  <1>1. /\ t \in SourceState /\ Same(s, t) /\ t.blind = s.blind /\ t.obs = None
        /\ t.listing = s.listing /\ t.failed = f
        BY DEF SourceState, Clear, Some, Same
  <1> HIDE DEF t
  <1>2. Stays(s, t)
        BY <1>1 DEF Stays, Executable
  <1> QED BY <1>1, <1>2 DEF Kin, t

LEMMA ListedKin ==
  ASSUME PegAssumption, NEW s \in SourceState, NEW l \in MarketState, NEW due \in BOOLEAN
  PROVE  /\ Kin(s, Listed(s, l, due)) /\ Listed(s, l, due).obs = s.obs
         /\ Listed(s, l, due).listing = l /\ Listed(s, l, due).failed = s.failed
         /\ Listed(s, l, due).validUntil = s.validUntil
  <1> DEFINE n == IF l # "absent" THEN 0 ELSE IF s.listing # "absent" THEN 1
                  ELSE IF due THEN Least(s.absent + 1, AbsentLimit) ELSE s.absent
  <1>1. s.absent \in Nat
        BY DEF SourceState
  <1>2. n \in Nat
        BY <1>1 DEF Least, PegAssumption
  <1>3. Listed(s, l, due) = [s EXCEPT !.listing = l, !.absent = n]
        BY DEF Listed
  <1> HIDE DEF n
  <1> QED BY <1>2, <1>3 DEF SourceState, Some, Kin, Same, Stays

\* A snapshot made from a showable state tells the truth about it.
LEMMA PollIsUnslotted ==
  ASSUME PegAssumption, cycle \in Nat, NEW t, Showable(t), NEW new \in BOOLEAN,
         NEW r, r = Poll(t, t.obs, new)
  PROVE  /\ Result(r) /\ Same(t, r.state) /\ r.state.blind = t.blind /\ ~r.shot.slot
         /\ r.shot.success = new /\ r.shot.obs = t.obs /\ r.state.obs = t.obs
  <1> DEFINE failed == t.failed \/ Closed(t) \/ (t.obs # None /\ ~Priced(t.obs))
  <1>1. t \in SourceState /\ failed \in BOOLEAN
        BY DEF Showable, SourceState
  <1>2. r.state = [t EXCEPT !.failed = failed]
        BY DEF Poll
  <1>3. r.shot = [at |-> cycle, obs |-> t.obs, validUntil |-> t.validUntil,
                  listing |-> t.listing, failed |-> failed, success |-> new,
                  usable |-> new /\ Priced(t.obs), slot |-> FALSE]
        BY DEF Poll
  <1>4. r.shot \in Snapshot
        BY <1>1, <1>3 DEF Snapshot, SourceState, Priced
  <1>5. failed <=> ~Priced(t.obs)
        BY DEF Showable, Priced, Executable, Closed
  <1>6. Executable(t.obs) => t.obs.at \in Nat
        BY <1>1 DEF Executable, SourceState, Some, Observation, Halted
  <1>7. Executable(t.obs) => cycle - t.obs.at \in -Skew..Stale
        BY <1>6 DEF Showable, Fresh, PegAssumption
  <1> HIDE DEF failed
  <1>8. Honest(r.shot)
    <2>1. /\ r.shot.obs = t.obs /\ r.shot.at = cycle /\ r.shot.listing = t.listing
          /\ r.shot.validUntil = t.validUntil /\ r.shot.failed = failed
          BY <1>3
    <2> QED BY <2>1, <1>5, <1>7 DEF Honest, Showable
  <1>9. r.state \in SourceState /\ r.state.obs = t.obs /\ r.state.listing = t.listing
          /\ r.state.failed = failed /\ Same(t, r.state) /\ r.state.blind = t.blind
        BY <1>1, <1>2 DEF SourceState, Same
  <1>10. Retainable(r.state)
        BY <1>5, <1>9 DEF Retainable, Showable, MarketState
  <1> QED BY <1>3, <1>4, <1>8, <1>9, <1>10 DEF Result, Poll

\* The same, of a poll that counts nothing.
LEMMA QuietPoll ==
  ASSUME PegAssumption, cycle \in Nat, NEW s \in SourceState, NEW t, Kin(s, t), Showable(t)
  PROVE  Quiet(s, Poll(t, t.obs, FALSE))
  <1> DEFINE r == Poll(t, t.obs, FALSE)
  <1>1. /\ Result(r) /\ Same(t, r.state) /\ r.state.blind = t.blind /\ ~r.shot.slot
        /\ r.shot.success = FALSE /\ r.state.obs = t.obs
        BY PollIsUnslotted, ZenonT(40)
  <1>2. Advancement(s, r)
        BY <1>1 DEF Advancement, Same, Stays, Kin
  <1> QED BY <1>1, <1>2 DEF Quiet, Unslotted, Kin

LEMMA FailedIsQuiet ==
  ASSUME PegAssumption, cycle \in Nat, NEW s \in SourceState, NEW t, Kin(s, t),
         NEW ref \in Some(RefSize)
  PROVE  Quiet(s, Failed(t, ref))
  <1> DEFINE u == [Clear(t, ref) EXCEPT !.failed = TRUE]
  <1>0. t \in SourceState
        BY DEF Kin
  <1>1. Kin(t, u) /\ u.obs = None /\ u.failed
        BY <1>0, FailKin
  <1>2. Kin(s, u)
        BY <1>1 DEF Kin, Same, Stays
  <1>3. Showable(u)
        BY <1>1 DEF Showable, Kin, Executable, Priced
  <1>4. Failed(t, ref) = Poll(u, u.obs, FALSE)
        BY <1>1 DEF Failed
  <1> HIDE DEF u
  <1> QED BY <1>2, <1>3, <1>4, QuietPoll

LEMMA HaltIsQuiet ==
  ASSUME PegAssumption, cycle \in Nat, NEW s \in SourceState, NEW t, Kin(s, t),
         NEW ref \in Some(RefSize)
  PROVE  Quiet(s, Halt(t, ref))
  <1> DEFINE u == [Clear(t, ref) EXCEPT !.obs = Halted, !.failed = TRUE]
  <1>0. t \in SourceState
        BY DEF Kin
  <1>1. Clear(t, ref) \in SourceState /\ Same(t, Clear(t, ref)) /\ Clear(t, ref).blind = t.blind
        BY <1>0, ClearKin DEF Kin
  <1>2. Halted \in Some(Observation) /\ Halted.venue = "halted"
        BY DEF Some, Observation, Halted
  <1>3. u \in SourceState /\ Same(t, u) /\ u.blind = t.blind /\ u.obs = Halted /\ u.failed
        BY <1>1, <1>2 DEF SourceState, Same
  <1>4. Kin(s, u)
        BY <1>2, <1>3 DEF Kin, Same, Stays, Executable
  <1>5. Showable(u)
        BY <1>2, <1>3 DEF Showable, Executable, Priced
  <1>6. Halt(t, ref) = Poll(u, u.obs, FALSE)
        BY <1>3 DEF Halt
  <1> HIDE DEF u
  <1> QED BY <1>4, <1>5, <1>6, QuietPoll

\* A retained book is shown only after its age, its leg and its market were asked for
\* again.
LEMMA CachedIsQuiet ==
  ASSUME PegAssumption, cycle \in Nat, NEW s \in SourceState, NEW t, Kin(s, t), Retainable(t)
  PROVE  Quiet(s, Cached(t))
  <1> DEFINE u == Retained(t)
  <1>1. t \in SourceState /\ t.ref \in Some(RefSize)
        BY DEF Retainable, SourceState
  <1>2. Kin(t, u) /\ Showable(u)
    <2>1. CASE t.listing = "absent"
      <3>1. u = Clear(t, t.ref)
            BY <2>1 DEF Retained
      <3>2. Kin(t, u) /\ u.obs = None /\ u.listing = "absent"
            BY <1>1, <2>1, <3>1, ClearKin
      <3> QED BY <3>2 DEF Showable, Kin, Executable, Priced, Closed
    <2>2. CASE t.listing # "absent" /\ t.obs = Halted
      <3>1. u = t
            BY <2>2 DEF Retained
      <3>2. ~Executable(t.obs) /\ ~Priced(t.obs)
            BY <2>2 DEF Executable, Priced, Halted
      <3>3. t.obs # None
            BY <2>2, ObservationAssumption DEF Observation
      <3> QED BY <1>1, <3>1, <3>2, <3>3 DEF Showable, Kin, Same, Stays
    <2>3. CASE /\ t.listing # "absent" /\ t.obs # Halted
               /\ t.obs = None \/ Closed(t) \/ Expired(t) \/ ~Fresh(t.obs.at)
      <3> DEFINE w == [Clear(t, t.ref) EXCEPT !.failed = TRUE]
      <3>1. u = w
            BY <2>3 DEF Retained
      <3>2. Kin(t, w) /\ w.obs = None /\ w.failed
            BY <1>1, FailKin, ZenonT(40)
      <3> HIDE DEF u, w
      <3> QED BY <3>1, <3>2 DEF Showable, Kin, Executable, Priced
    <2>4. CASE /\ t.listing # "absent" /\ t.obs # Halted
               /\ ~(t.obs = None \/ Closed(t) \/ Expired(t) \/ ~Fresh(t.obs.at))
      <3>1. u = t
            BY <2>4 DEF Retained
      <3>2. Executable(t.obs) => t.listing = "listed"
            BY <2>4 DEF Retainable, MarketState, Closed
      <3>3. Converts => t.validUntil # None /\ cycle <= t.validUntil
            BY <2>4, <1>1 DEF Expired, SourceState, Some, PegAssumption
      <3> QED BY <1>1, <2>4, <3>1, <3>2, <3>3 DEF Showable, Kin, Same, Stays, Retainable
    <2> QED BY <2>1, <2>2, <2>3, <2>4
  <1>3. Kin(s, u)
        BY <1>2 DEF Kin, Same, Stays
  <1>4. Cached(t) = Poll(u, u.obs, FALSE)
        BY DEF Cached
  <1> HIDE DEF u
  <1> QED BY <1>2, <1>3, <1>4, QuietPoll

LEMMA RefreshedIsQuiet ==
  ASSUME PegAssumption, cycle \in Nat, NEW s \in SourceState, NEW t, Kin(s, t), Retainable(t),
         ConversionExpired(t), NEW ref \in Some(RefSize), NEW r \in Refreshed(t, ref)
  PROVE  Quiet(s, r)
  <1>1. CASE r = Failed(t, ref)
        BY <1>1, FailedIsQuiet
  <1>2. ASSUME NEW v \in Validity, Fresh(t.obs.at),
               r = Poll([t EXCEPT !.validUntil = cycle + v, !.failed = ~Priced(t.obs)],
                        t.obs, FALSE)
        PROVE  Quiet(s, r)
    <2> DEFINE f == ~Priced(t.obs)
               n == cycle + v
               u == [t EXCEPT !.validUntil = n, !.failed = f]
    <2>0. t \in SourceState /\ f \in BOOLEAN
          BY Zenon DEF Kin, Priced
    <2>1. n \in Nat /\ n >= cycle /\ n # None
          BY DEF PegAssumption
    <2>2. Executable(t.obs) /\ t.listing = "listed"
          BY DEF ConversionExpired, Retainable, MarketState, Closed
    <2> HIDE DEF f, n
    <2>3. /\ u \in SourceState /\ Same(t, u) /\ u.blind = t.blind /\ u.obs = t.obs
          /\ u.listing = t.listing /\ u.validUntil = n /\ u.failed = f
      <3>1. u \in SourceState
            BY <2>0, <2>1 DEF SourceState, Some
      <3>2. Same(t, u) /\ u.blind = t.blind /\ u.obs = t.obs /\ u.listing = t.listing
            BY <2>0 DEF SourceState, Same
      <3>3. u.validUntil = n
            BY <2>0 DEF SourceState
      <3>4. u.failed = f
            BY <2>0 DEF SourceState
      <3> QED BY <3>1, <3>2, <3>3, <3>4
    <2>4. Kin(s, u)
          BY <2>3 DEF Kin, Same, Stays
    <2>5. u.obs # None
          BY <2>2, <2>3 DEF Executable
    <2>6. Priced(u.obs) => ~u.failed
          BY <2>3 DEF f
    <2>7. Showable(u)
          BY <2>1, <2>2, <2>3, <2>5, <2>6, <1>2 DEF Showable
    <2>8. r = Poll(u, u.obs, FALSE)
          BY <1>2, <2>3 DEF f, n
    <2> HIDE DEF u
    <2> QED BY <2>4, <2>7, <2>8, QuietPoll
  <1> QED BY <1>1, <1>2 DEF Refreshed

LEMMA KeptIsQuiet ==
  ASSUME PegAssumption, cycle \in Nat, NEW s \in SourceState, NEW t, Kin(s, t), Retainable(t),
         NEW ref \in Some(RefSize), NEW r \in Kept(t, ref)
  PROVE  Quiet(s, r)
  <1>1. CASE ConversionExpired(t)
        BY <1>1, RefreshedIsQuiet DEF Kept
  <1>2. CASE ~ConversionExpired(t)
        BY <1>2, CachedIsQuiet DEF Kept
  <1> QED BY <1>1, <1>2

\* Asking for the listing alone leaves the rest of the state.
LEMMA ListingOnlyKin ==
  ASSUME PegAssumption, cycle \in Nat, NEW s, Retainable(s), NEW t \in ListingOnly(s)
  PROVE  Kin(s, t) /\ Retainable(t) /\ t.ref = s.ref
  <1> DEFINE a == [s EXCEPT !.listingAttempt = cycle]
  <1>1. s \in SourceState
        BY DEF Retainable
  <1>2. /\ Kin(s, a) /\ a.obs = s.obs /\ a.listing = s.listing /\ a.failed = s.failed
        /\ a.ref = s.ref
        BY <1>1 DEF SourceState, Some, Kin, Same, Stays
  <1>3. CASE t = s
        BY <1>1, <1>3 DEF Kin, Same, Stays
  <1>4. CASE t = a
        BY <1>2, <1>4 DEF Kin, Retainable
  <1>5. ASSUME NEW l \in MarketState, t = Listed(a, l, TRUE)
        PROVE  Kin(s, t) /\ Retainable(t) /\ t.ref = s.ref
    <2> HIDE DEF a
    <2>1. a \in SourceState
          BY <1>2 DEF Kin
    <2>2. /\ Kin(a, t) /\ t.obs = a.obs /\ t.listing = l /\ t.failed = a.failed
          BY <1>5, <2>1, ListedKin
    <2>3. t.ref = a.ref
          BY <1>5, <2>1 DEF Listed, SourceState
    <2>4. Kin(s, t)
          BY <1>2, <2>2 DEF Kin, Same, Stays
    <2>5. Retainable(t)
          BY <1>2, <2>2, <2>4 DEF Retainable, Kin
    <2> QED BY <1>2, <2>3, <2>4, <2>5
  <1> QED BY <1>3, <1>4, <1>5 DEF ListingOnly

LEMMA KeptUnsizedIsQuiet ==
  ASSUME PegAssumption, cycle \in Nat, NEW s \in SourceState, NEW t, Kin(s, t), Retainable(t),
         NEW r \in KeptUnsized(t)
  PROVE  Quiet(s, r)
  <1>1. t \in SourceState /\ t.ref \in Some(RefSize) /\ None \in Some(RefSize)
        BY DEF Retainable, SourceState, Some
  <1>2. CASE t.ref # None
        BY <1>1, <1>2, KeptIsQuiet DEF KeptUnsized
  <1>3. CASE t.ref = None
    <2> DEFINE c == Clear(t, None)
               f == c.failed \/ ~Closed(t)
               u == [c EXCEPT !.failed = f]
    <2>1. c.failed = t.failed /\ t.failed \in BOOLEAN
          BY <1>1, ClearKin DEF SourceState
    <2>2. f \in BOOLEAN
          BY <2>1
    <2>3. f => c.failed \/ ~Closed(t)
          OBVIOUS
    <2>4. ~f => Closed(t)
          OBVIOUS
    <2> HIDE DEF f
    <2>5. Kin(t, u) /\ u.obs = None /\ u.failed = f /\ u.listing = t.listing
          BY <1>1, <2>2, FailKin
    <2>6. r = Poll(u, None, FALSE)
          BY <1>3 DEF KeptUnsized, f
    <2> HIDE DEF u
    <2>7. Kin(s, u)
          BY <2>5 DEF Kin, Same, Stays
    <2>8. Showable(u)
          BY <2>4, <2>5 DEF Showable, Kin, Executable, Priced, Closed
    <2>9. r = Poll(u, u.obs, FALSE)
          BY <2>5, <2>6
    <2> QED BY <2>7, <2>8, <2>9, QuietPoll
  <1> QED BY <1>2, <1>3


\* Filling the slot changes nothing else that a snapshot says.
LEMMA SlotIsSound ==
  ASSUME NEW r, Result(r), NEW n, n = [r.shot EXCEPT !.slot = TRUE]
  PROVE  /\ n \in Snapshot /\ Honest(n) /\ n.slot /\ n.success = r.shot.success
         /\ n.usable = r.shot.usable /\ n.obs = r.shot.obs
  <1>1. r.shot \in Snapshot /\ Honest(r.shot)
        BY DEF Result
  <1>2. /\ n \in Snapshot /\ n.slot /\ n.success = r.shot.success
        /\ n.usable = r.shot.usable /\ n.obs = r.shot.obs
        /\ n.at = r.shot.at /\ n.validUntil = r.shot.validUntil
        /\ n.listing = r.shot.listing /\ n.failed = r.shot.failed
        BY <1>1 DEF Snapshot
  <1>3. Honest(n)
        BY <1>1, <1>2 DEF Honest
  <1> QED BY <1>2, <1>3

LEMMA BlindedKeeps ==
  ASSUME PegAssumption, NEW s, Retainable(s), NEW usable \in BOOLEAN
  PROVE  /\ Retainable(Blinded(s, usable)) /\ Same(s, Blinded(s, usable))
         /\ Blinded(s, usable).obs = s.obs
         /\ Blinded(s, usable).blind = IF usable THEN 0 ELSE Least(s.blind + 1, BlindLimit)
  <1> DEFINE n == IF usable THEN 0 ELSE Least(s.blind + 1, BlindLimit)
             b == [s EXCEPT !.blind = n]
  <1>1. s \in SourceState /\ s.blind \in Nat
        BY DEF Retainable, SourceState
  <1>2. n \in Nat
        BY <1>1 DEF Least, PegAssumption
  <1>3. Blinded(s, usable) = b
        BY DEF Blinded
  <1> HIDE DEF n
  <1>4. /\ b \in SourceState /\ b.obs = s.obs /\ b.listing = s.listing /\ b.failed = s.failed
        /\ Same(s, b) /\ b.blind = n
        BY <1>1, <1>2 DEF SourceState, Same
  <1>5. Retainable(b)
        BY <1>4 DEF Retainable
  <1> QED BY <1>3, <1>4, <1>5 DEF n

\* Without a reference size a slot that passes is blind, and nothing is counted.
LEMMA UnsizedIsSound ==
  ASSUME PegAssumption, cycle \in Nat, NEW s, Retainable(s), NEW r \in Unsized(s)
  PROVE  Sound(s, r)
  <1>1. s \in SourceState
        BY DEF Retainable
  <1>2. ASSUME NEW b, Retainable(b), Same(s, b), b.obs = s.obs,
               NEW t \in ListingOnly(b), NEW q \in KeptUnsized(t)
        PROVE  /\ Result(q) /\ Same(s, q.state) /\ Stays(s, q.state) /\ ~q.shot.usable /\ ~q.shot.slot
               /\ q.state.blind = b.blind /\ ~q.shot.success
    <2>1. b \in SourceState
          BY <1>2 DEF Retainable
    <2>2. Kin(b, t) /\ Retainable(t)
          BY <1>2, ListingOnlyKin
    <2>3. Unslotted(b, q) /\ ~q.shot.success
          BY <2>1, <2>2, KeptUnsizedIsQuiet DEF Quiet
    <2>4. Same(b, q.state) /\ Stays(b, q.state)
          BY <2>3 DEF Unslotted, Advancement
    <2> QED BY <1>2, <2>3, <2>4 DEF Unslotted, Result, Same, Stays
  <1>3. CASE CadenceDue(s.attempt)
    <2> DEFINE a == [s EXCEPT !.attempt = cycle]
               b == Blinded(a, FALSE)
    <2>1. /\ a \in SourceState /\ a.obs = s.obs /\ a.listing = s.listing /\ a.failed = s.failed
          /\ Same(s, a) /\ a.blind = s.blind
          BY <1>1 DEF SourceState, Some, Same
    <2>2. Retainable(a)
          BY <2>1 DEF Retainable
    <2>3. Retainable(b) /\ Same(a, b) /\ b.obs = s.obs /\ b.blind = Least(s.blind + 1, BlindLimit)
          BY <2>1, <2>2, BlindedKeeps
    <2>4. Same(s, b)
          BY <2>1, <2>3 DEF Same
    <2>5. PICK q \in UNION {KeptUnsized(t) : t \in ListingOnly(b)} :
            r = [q EXCEPT !.shot.slot = TRUE]
          BY <1>3, Zenon DEF Unsized
    <2>   PICK t \in ListingOnly(b) : q \in KeptUnsized(t)
          BY <2>5
    <2> HIDE DEF a, b
    <2>6. /\ Result(q) /\ Same(s, q.state) /\ Stays(s, q.state) /\ ~q.shot.usable /\ ~q.shot.success
          /\ q.state.blind = b.blind
          BY <1>2, <2>3, <2>4
    <2>7. r.state = q.state /\ r.shot = [q.shot EXCEPT !.slot = TRUE]
          BY <2>5, <2>6 DEF Result
    <2>8. /\ r.shot \in Snapshot /\ Honest(r.shot) /\ r.shot.slot
          /\ r.shot.success = q.shot.success /\ r.shot.usable = q.shot.usable
          /\ r.shot.obs = q.shot.obs
          BY <2>6, <2>7, SlotIsSound
    <2>9. Result(r) /\ Advancement(s, r)
      <3>1. r = [state |-> r.state, shot |-> r.shot]
            BY <2>5, <2>6 DEF Result
      <3>2. Same(s, r.state) /\ Stays(s, r.state)
            BY <2>6, <2>7
      <3> QED BY <2>6, <2>7, <2>8, <3>1, <3>2 DEF Result, Advancement
    <2> QED BY <2>3, <2>6, <2>7, <2>8, <2>9 DEF Sound, Blindness
  <1>4. CASE ~CadenceDue(s.attempt)
    <2>1. PICK t \in ListingOnly(s) : r \in KeptUnsized(t)
          BY <1>4 DEF Unsized
    <2>2. /\ Result(r) /\ Same(s, r.state) /\ Stays(s, r.state) /\ ~r.shot.usable /\ ~r.shot.slot
          /\ r.state.blind = s.blind /\ ~r.shot.success
          BY <1>2, <2>1 DEF Same
    <2> QED BY <2>2 DEF Sound, Advancement, Blindness
  <1> QED BY <1>3, <1>4

\* What is true of a poll from a state is true of it from a kin of that state.
LEMMA KinUnslotted ==
  ASSUME NEW s, NEW t, Kin(s, t), NEW r, Unslotted(t, r)
  PROVE  Unslotted(s, r)
  <1>1. Newer(t, r.shot.obs) => Newer(s, r.shot.obs)
        BY DEF Kin, Same, Newer
  <1> QED BY <1>1 DEF Unslotted, Advancement, Advanced, Kin, Same, Stays, Stays

\* A book taken in a listed market can be shown.
LEMMA TakenShowable ==
  ASSUME PegAssumption, cycle \in Nat, NEW s \in SourceState, s.listing = "listed",
         NEW ref \in Some(RefSize), NEW obs \in Observation, obs.at \in Nat,
         obs # Halted, Fresh(obs.at), NEW until \in Until
  PROVE  LET u == Taken(s, ref, obs, until)
         IN /\ Showable(u) /\ Same(s, u) /\ u.blind = s.blind /\ u.obs = obs
  <1> DEFINE f == ~Priced(obs)
             u == [s EXCEPT !.obs = obs, !.ref = ref, !.validUntil = until, !.failed = f]
  <1>1. f \in BOOLEAN
        BY Zenon DEF Priced
  <1>2. until \in Some(Nat) /\ (Converts => until # None /\ cycle <= until)
        BY DEF Until, Some, PegAssumption
  <1>3. Taken(s, ref, obs, until) = u
        BY DEF Taken
  <1>4. Priced(obs) => ~f
        OBVIOUS
  <1> HIDE DEF f
  <1>5. u \in SourceState
        BY <1>1, <1>2 DEF SourceState, Some
  <1>6. Same(s, u) /\ u.blind = s.blind /\ u.listing = s.listing
        BY DEF SourceState, Same
  <1>7. u.obs = obs /\ u.validUntil = until /\ u.failed = f
        BY DEF SourceState
  <1>8. obs = None => f
        BY DEF f, Priced
  <1> HIDE DEF u
  <1>9. Showable(u)
        BY <1>2, <1>4, <1>5, <1>6, <1>7, <1>8 DEF Showable
  <1> QED BY <1>3, <1>6, <1>7, <1>9

\* A book is counted only if it is new, and then it becomes the last one.
LEMMA AcceptedIsUnslotted ==
  ASSUME PegAssumption, cycle \in Nat, NEW s \in SourceState, s.listing = "listed",
         NEW ref \in Some(RefSize), NEW obs \in Books, NEW until \in Until
  PROVE  Unslotted(s, Accepted(s, ref, obs, until))
  <1>1. obs \in Observation /\ obs.at \in Nat /\ obs.seq \in Sequence /\ obs # Halted
        BY DEF Books, Book, Observation, Halted, PegAssumption
  <1>2. CASE Fresh(obs.at) /\ Advances(s, obs)
    <2> DEFINE a == Advanced(s, obs)
               u == Taken(a, ref, obs, until)
               r == Poll(u, u.obs, TRUE)
    <2>1. /\ a \in SourceState /\ a.listing = s.listing /\ a.blind = s.blind
          BY <1>1, ZenonT(40) DEF Advanced, SourceState, Some
    <2>2. Showable(u) /\ Same(a, u) /\ u.blind = s.blind /\ u.obs = obs
          BY <1>1, <1>2, <2>1, TakenShowable
    <2>3. Accepted(s, ref, obs, until) = r
          BY <1>2, <2>2 DEF Accepted
    <2> HIDE DEF a, u
    <2>4. /\ Result(r) /\ Same(u, r.state) /\ r.state.blind = u.blind /\ ~r.shot.slot
          /\ r.shot.success = TRUE /\ r.shot.obs = u.obs /\ r.state.obs = u.obs
          BY <2>2, PollIsUnslotted, ZenonT(40)
    <2>5. Newer(s, obs)
          BY <1>2 DEF Advances, Newer
    <2>6. Same(Advanced(s, obs), r.state)
          BY <2>2, <2>4 DEF a, Same
    <2>7. Advancement(s, r)
          BY <1>1, <2>2, <2>4, <2>5, <2>6 DEF Advancement
    <2> QED BY <2>2, <2>3, <2>4, <2>7 DEF Unslotted
  <1>3. CASE Fresh(obs.at) /\ ~Advances(s, obs) /\ Repeats(s, obs)
    <2> DEFINE u == Taken(s, ref, obs, until)
    <2>1. Showable(u) /\ Same(s, u) /\ u.blind = s.blind /\ u.obs = obs
          BY <1>1, <1>3, TakenShowable
    <2>2. Accepted(s, ref, obs, until) = Poll(u, u.obs, FALSE)
          BY <1>3, <2>1 DEF Accepted
    <2> HIDE DEF u
    <2>3. Kin(s, u)
          BY <1>3, <2>1 DEF Kin, Showable, Stays, Repeats
    <2> QED BY <2>1, <2>2, <2>3, QuietPoll DEF Quiet
  <1>4. CASE ~(Fresh(obs.at) /\ Advances(s, obs)) /\ ~(Fresh(obs.at) /\ Repeats(s, obs))
    <2>1. Kin(s, s)
          BY DEF Kin, Same, Stays
    <2>2. Accepted(s, ref, obs, until) = Failed(s, ref)
          BY <1>4 DEF Accepted
    <2> QED BY <2>1, <2>2, FailedIsQuiet DEF Quiet
  <1> QED BY <1>2, <1>3, <1>4

LEMMA FetchedIsUnslotted ==
  ASSUME PegAssumption, cycle \in Nat, NEW s \in SourceState, NEW ref \in Some(RefSize),
         NEW due \in BOOLEAN, NEW r \in Fetched(s, ref, due)
  PROVE  Unslotted(s, r)
  <1>1. /\ "absent" \in MarketState /\ "listed" \in MarketState /\ "halted" \in MarketState
        /\ Kin(s, s)
        BY DEF MarketState, Kin, Same, Stays
  <1>2. CASE \/ r = Failed(s, ref)
             \/ \E l \in MarketState : r = Failed(Listed(s, l, due), ref)
             \/ r = Halt(Listed(s, "halted", due), ref)
        BY <1>1, <1>2, ListedKin, FailedIsQuiet, HaltIsQuiet DEF Quiet
  <1>3. ASSUME NEW b \in Books, NEW u \in Until,
               r = Accepted(Listed(s, "listed", due), ref, b, u)
        PROVE  Unslotted(s, r)
    <2> DEFINE t == Listed(s, "listed", due)
    <2>1. Kin(s, t) /\ t.listing = "listed"
          BY <1>1, ListedKin
    <2> HIDE DEF t
    <2>2. Unslotted(t, r)
          BY <1>3, <2>1, AcceptedIsUnslotted DEF Kin, t
    <2> QED BY <2>1, <2>2, KinUnslotted
  <1> QED BY <1>1, <1>2, <1>3 DEF Fetched

\* A due poll fills a slot of the blind count, which only a usable decision ends.
LEMMA DuePollIsSound ==
  ASSUME PegAssumption, cycle \in Nat, NEW s, Retainable(s), NEW ref \in Some(RefSize),
         NEW r \in DuePoll(s, ref)
  PROVE  Sound(s, r)
  <1> DEFINE due == CadenceDue(s.listingAttempt)
             n == IF due THEN cycle ELSE s.listingAttempt
             t == [s EXCEPT !.attempt = cycle, !.listingAttempt = n]
  <1>1. s \in SourceState /\ due \in BOOLEAN
        BY DEF Retainable, CadenceDue
  <1>2. n \in Some(Nat)
        BY <1>1 DEF SourceState, Some
  <1>3. PICK q \in Fetched(t, ref, due) : r = Slot(q)
        BY <1>1 DEF DuePoll, SourceState
  <1> HIDE DEF due, n
  <1>4. t \in SourceState /\ Kin(s, t)
        BY <1>1, <1>2 DEF SourceState, Some, Kin, Same, Stays
  <1> HIDE DEF t
  <1>5. Unslotted(s, q)
        BY <1>1, <1>3, <1>4, FetchedIsUnslotted, KinUnslotted
  <1>6. /\ Retainable(q.state) /\ q.shot.usable \in BOOLEAN /\ q.state.blind = s.blind
        BY <1>5 DEF Unslotted, Result, Snapshot
  <1>7. /\ r.state = Blinded(q.state, q.shot.usable) /\ r.shot = [q.shot EXCEPT !.slot = TRUE]
        /\ r = [state |-> r.state, shot |-> r.shot]
        BY <1>3 DEF Slot
  <1>8. /\ Retainable(r.state) /\ Same(q.state, r.state) /\ r.state.obs = q.state.obs
        /\ r.state.blind = IF q.shot.usable THEN 0 ELSE Least(s.blind + 1, BlindLimit)
        BY <1>6, <1>7, BlindedKeeps
  <1>9. /\ r.shot \in Snapshot /\ Honest(r.shot) /\ r.shot.slot
        /\ r.shot.success = q.shot.success /\ r.shot.usable = q.shot.usable
        /\ r.shot.obs = q.shot.obs
        BY <1>5, <1>7, SlotIsSound DEF Unslotted
  <1>10. Result(r)
        BY <1>5, <1>7, <1>8, <1>9 DEF Result, Unslotted
  <1>11. Advancement(s, r)
        BY <1>5, <1>8, <1>9 DEF Unslotted, Advancement, Same, Stays
  <1> QED BY <1>8, <1>9, <1>10, <1>11 DEF Sound, Blindness

LEMMA PollSourceIsSound ==
  ASSUME PegAssumption, cycle \in Nat, NEW s, Retainable(s), NEW ref \in Some(RefSize),
         NEW r \in PollSource(s, ref)
  PROVE  Sound(s, r)
  <1>1. CASE ref = None
        BY <1>1, UnsizedIsSound DEF PollSource
  <1>2. CASE ref # None /\ (CadenceDue(s.attempt) \/ s.ref # ref)
        BY <1>2, DuePollIsSound DEF PollSource
  <1>3. CASE ref # None /\ ~(CadenceDue(s.attempt) \/ s.ref # ref)
    <2>1. PICK t \in ListingOnly(s) : r \in Kept(t, ref)
          BY <1>3 DEF PollSource
    <2>2. s \in SourceState /\ Kin(s, t) /\ Retainable(t)
          BY <2>1, ListingOnlyKin DEF Retainable
    <2>3. Quiet(s, r)
          BY <2>1, <2>2, KeptIsQuiet
    <2>4. ~r.shot.usable
          BY <2>3 DEF Quiet, Unslotted, Result
    <2> QED BY <2>3, <2>4 DEF Quiet, Unslotted, Sound, Blindness
  <1> QED BY <1>1, <1>2, <1>3

-----------------------------------------------------------------------------
(* The cycles.                                                                 *)

Counters ==
  /\ cycle \in Nat
  /\ \A p \in Version : /\ successes[p] \in Nat /\ waiting[p] \in Nat
                        /\ IsFiniteSet(counted[p])
  /\ DOMAIN successes = Version /\ DOMAIN counted = Version /\ DOMAIN waiting = Version
  /\ DOMAIN shown = Version

\* The policies on offer and those a cycle still has to build are versions.
TodoVersions ==
  /\ bundle # None => bundle \in Bundle
  /\ todo # None => todo \in Seq(Version)

SourcesRetainable ==
  DOMAIN sources \subseteq Version /\ \A p \in DOMAIN sources : Retainable(sources[p])

\* A copy that waits for its publication is one sound poll away from the state.
StageSound ==
  /\ DOMAIN staged \subseteq Version /\ DOMAIN shots = DOMAIN staged
  /\ \A p \in DOMAIN staged : Sound(StateOf(p), [state |-> staged[p], shot |-> shots[p]])

\* What was counted is before the last timestamp, or among the identities at it.
Remembered(s, i) ==
  /\ s.last # None
  /\ i[1] \in Nat
  /\ i[1] < s.last \/ (i[1] = s.last /\ i[2] \in s.identities)

CountedRemembered ==
  \A p \in Version : \A i \in counted[p] : p \in DOMAIN sources /\ Remembered(sources[p], i)

\* The executable book a source retains is the one last shown.
RetainedShown ==
  \A p \in DOMAIN sources :
    Executable(sources[p].obs) => shown[p] # None /\ shown[p].obs = sources[p].obs

NoneWaits == \A p \in Version \ DOMAIN sources : waiting[p] = 0

PegInv ==
  /\ Counters /\ TodoVersions /\ SourcesRetainable /\ StageSound /\ CountedRemembered
  /\ RetainedShown /\ NoneWaits /\ OneSuccessPerIdentity /\ ShownIsHonest /\ BlindCountsSlots

LEMMA StateOfRetainable ==
  ASSUME PegAssumption, SourcesRetainable, NEW p
  PROVE  Retainable(StateOf(p))
  <1>1. CASE p \in DOMAIN sources
        BY <1>1 DEF StateOf, SourcesRetainable
  <1>2. DefaultState \in SourceState
        BY DEF DefaultState, SourceState, Some
  <1>3. Retainable(DefaultState)
    <2>1. DefaultState.obs = None /\ DefaultState.listing = None
          BY DEF DefaultState
    <2>2. ~Executable(None) /\ ~Priced(None)
          BY DEF Executable, Priced
    <2> QED BY <1>2, <2>1, <2>2 DEF Retainable
  <1> QED BY <1>1, <1>3 DEF StateOf

LEMMA PegStarts == PegInit => PegInv
  <1> SUFFICES ASSUME PegInit PROVE PegInv
      OBVIOUS
  <1> USE DEF PegInit
  <1>1. DOMAIN sources = {} /\ DOMAIN staged = {} /\ DOMAIN shots = {}
        OBVIOUS
  <1>2. Counters
        BY FS_EmptySet DEF Counters
  <1>3. TodoVersions /\ SourcesRetainable /\ StageSound
        BY <1>1 DEF TodoVersions, SourcesRetainable, StageSound
  <1>4. CountedRemembered /\ RetainedShown /\ NoneWaits /\ ShownIsHonest /\ BlindCountsSlots
        BY <1>1 DEF CountedRemembered, RetainedShown, NoneWaits, ShownIsHonest, BlindCountsSlots
  <1>5. OneSuccessPerIdentity
        BY FS_EmptySet DEF OneSuccessPerIdentity
  <1> QED BY <1>2, <1>3, <1>4, <1>5 DEF PegInv

\* Nothing that was published or committed moves while a cycle is being built.
LEMMA NothingPublished ==
  ASSUME PegInv, UNCHANGED <<sources, shown, successes, counted, waiting>>, cycle' \in Nat
  PROVE  /\ Counters' /\ SourcesRetainable' /\ CountedRemembered' /\ RetainedShown' /\ NoneWaits'
         /\ OneSuccessPerIdentity' /\ ShownIsHonest' /\ BlindCountsSlots'
  <1>1. Counters'
        BY DEF PegInv, Counters
  <1>2. SourcesRetainable' /\ CountedRemembered' /\ RetainedShown' /\ NoneWaits'
        BY DEF PegInv, SourcesRetainable, CountedRemembered, RetainedShown, NoneWaits
  <1>3. OneSuccessPerIdentity' /\ ShownIsHonest' /\ BlindCountsSlots'
        BY DEF PegInv, OneSuccessPerIdentity, ShownIsHonest, BlindCountsSlots
  <1> QED BY <1>1, <1>2, <1>3

LEMMA RunCycleKeeps == ASSUME PegAssumption, PegInv, RunCycle PROVE PegInv'
  <1>1. cycle' \in Nat
        BY DEF PegInv, Counters, RunCycle
  <1>3. bundle' \in Bundle
        BY DEF RunCycle, PegInv, TodoVersions
  <1>4. todo' \in Seq(Version)
    <2>1. CASE \E v \in Version : bundle' = <<v>>
          BY <2>1 DEF RunCycle, Selected
    <2>2. CASE \E v, w \in Version : bundle' = <<v, w>>
          BY <2>2 DEF RunCycle, Selected
    <2> QED BY <1>3, <2>1, <2>2 DEF Bundle
  <1>5. TodoVersions'
        BY <1>3, <1>4 DEF TodoVersions
  <1>6. StageSound'
    <2>1. staged' = <<>> /\ shots' = <<>>
          BY DEF RunCycle
    <2>2. DOMAIN staged' = {} /\ DOMAIN shots' = {}
          BY <2>1
    <2> QED BY <2>2 DEF StageSound
  <1>7. UNCHANGED <<sources, shown, successes, counted, waiting>>
        BY DEF RunCycle
  <1> QED BY <1>1, <1>5, <1>6, <1>7, NothingPublished DEF PegInv

LEMMA BuildKeeps == ASSUME PegAssumption, PegInv, Build PROVE PegInv'
  <1>1. UNCHANGED <<sources, shown, successes, counted, waiting, cycle, bundle>>
        BY DEF Build
  <1>2. cycle \in Nat /\ todo \in Seq(Version) /\ todo # <<>>
        BY DEF PegInv, Counters, TodoVersions, Build, Building
  <1>3. Head(todo) \in Version /\ todo' \in Seq(Version)
        BY <1>2 DEF Build
  <1>4. TodoVersions'
        BY <1>1, <1>3 DEF PegInv, TodoVersions, Bundle
  <1>5. StageSound'
    <2> DEFINE p == Head(todo)
    <2>1. PICK ref \in Some(RefSize) : \E r \in PollSource(StateOf(p), ref) :
            staged' = With(staged, p, r.state) /\ shots' = With(shots, p, r.shot)
          BY DEF Build
    <2>2. PICK r \in PollSource(StateOf(p), ref) :
            staged' = With(staged, p, r.state) /\ shots' = With(shots, p, r.shot)
          BY <2>1
    <2> HIDE DEF p
    <2>3. Sound(StateOf(p), r)
          BY <1>2, <2>2, StateOfRetainable, PollSourceIsSound DEF PegInv
    <2>4. r = [state |-> r.state, shot |-> r.shot]
          BY <2>3 DEF Sound, Result
    <2>5. /\ DOMAIN staged' = DOMAIN staged \cup {p} /\ DOMAIN shots' = DOMAIN shots \cup {p}
          /\ staged'[p] = r.state /\ shots'[p] = r.shot
          /\ \A q \in DOMAIN staged \ {p} : staged'[q] = staged[q]
          /\ \A q \in DOMAIN shots \ {p} : shots'[q] = shots[q]
          BY <2>2 DEF With
    <2>6. /\ DOMAIN staged \subseteq Version /\ DOMAIN shots = DOMAIN staged
          /\ \A q \in DOMAIN staged : Sound(StateOf(q), [state |-> staged[q], shot |-> shots[q]])
          BY DEF PegInv, StageSound
    <2>7. \A q : StateOf(q)' = StateOf(q)
          BY <1>1 DEF StateOf
    <2>8. p \in Version
          BY <1>3 DEF p
    <2>9. ASSUME NEW q \in DOMAIN staged'
          PROVE  Sound(StateOf(q), [state |-> staged'[q], shot |-> shots'[q]])
      <3>1. CASE q = p
            BY <2>3, <2>4, <2>5, <3>1
      <3>2. CASE q # p
            BY <2>5, <2>6, <2>9, <3>2
      <3> QED BY <3>1, <3>2
    <2> QED BY <2>5, <2>6, <2>7, <2>8, <2>9 DEF StageSound
  <1> QED BY <1>1, <1>2, <1>4, <1>5, NothingPublished DEF PegInv

LEMMA StageUnchanged ==
  ASSUME PegInv, UNCHANGED <<sources, staged, shots>>
  PROVE  StageSound'
  BY DEF PegInv, StageSound, StateOf

LEMMA StageEmptied == ASSUME staged' = <<>>, shots' = <<>> PROVE StageSound'
  <1>1. DOMAIN staged' = {} /\ DOMAIN shots' = {}
        OBVIOUS
  <1> QED BY <1>1 DEF StageSound

LEMMA BuildFailsKeeps == ASSUME PegInv, BuildFails PROVE PegInv'
  <1>1. UNCHANGED <<sources, shown, successes, counted, waiting, cycle, bundle, staged, shots>>
        BY DEF BuildFails
  <1>2. cycle \in Nat /\ todo \in Seq(Version) /\ todo # <<>>
        BY DEF PegInv, Counters, TodoVersions, BuildFails, Building
  <1>3. todo' \in Seq(Version)
        BY <1>2 DEF BuildFails
  <1>4. TodoVersions'
        BY <1>1, <1>3 DEF PegInv, TodoVersions, Bundle
  <1> QED BY <1>1, <1>2, <1>4, StageUnchanged, NothingPublished DEF PegInv

LEMMA PublishFailsKeeps == ASSUME PegInv, PublishFails PROVE PegInv'
  <1>1. UNCHANGED <<sources, shown, successes, counted, waiting, cycle, bundle>>
        BY DEF PublishFails
  <1>2. cycle \in Nat
        BY DEF PegInv, Counters
  <1>3. TodoVersions'
        BY <1>1 DEF PublishFails, PegInv, TodoVersions, Bundle
  <1>4. StageSound'
        BY StageEmptied DEF PublishFails
  <1> QED BY <1>1, <1>2, <1>3, <1>4, NothingPublished DEF PegInv

\* What a publication does to a version: it is published, retired or left alone, in
\* the state and in the counters alike.
LEMMA PublishOf ==
  ASSUME PegInv, Publish, NEW p \in Version
  PROVE  /\ p \in DOMAIN staged =>
              /\ p \in DOMAIN sources' /\ sources'[p] = staged[p] /\ shown'[p] = shots[p]
              /\ IF shots[p].success
                 THEN /\ successes'[p] = successes[p] + 1
                      /\ counted'[p] = counted[p] \cup {Identity(shots[p].obs)}
                 ELSE successes'[p] = successes[p] /\ counted'[p] = counted[p]
              /\ waiting'[p] = IF shots[p].usable THEN 0
                               ELSE IF shots[p].slot THEN waiting[p] + 1 ELSE waiting[p]
         /\ p \notin DOMAIN staged /\ Complete =>
              /\ p \notin DOMAIN sources' /\ shown'[p] = None
              /\ successes'[p] = 0 /\ counted'[p] = {} /\ waiting'[p] = 0
         /\ p \notin DOMAIN staged /\ ~Complete =>
              /\ p \in DOMAIN sources' <=> p \in DOMAIN sources
              /\ p \in DOMAIN sources => sources'[p] = sources[p]
              /\ shown'[p] = shown[p] /\ successes'[p] = successes[p]
              /\ counted'[p] = counted[p] /\ waiting'[p] = waiting[p]
  <1>1. sources' = IF Complete THEN staged
                   ELSE [q \in DOMAIN sources \cup DOMAIN staged |->
                           IF q \in DOMAIN staged THEN staged[q] ELSE sources[q]]
        BY DEF Publish, Commit, Published
  <1>2. /\ p \in DOMAIN staged => p \in DOMAIN sources' /\ sources'[p] = staged[p]
        /\ p \notin DOMAIN staged /\ Complete => p \notin DOMAIN sources'
        /\ p \notin DOMAIN staged /\ ~Complete =>
             /\ p \in DOMAIN sources' <=> p \in DOMAIN sources
             /\ p \in DOMAIN sources => sources'[p] = sources[p]
    <2>1. CASE Complete
          BY <1>1, <2>1
    <2>2. CASE ~Complete
          BY <1>1, <2>2
    <2> QED BY <2>1, <2>2
  <1>3. /\ shown'[p] = IF p \in DOMAIN staged THEN shots[p]
                       ELSE IF Complete THEN None ELSE shown[p]
        BY DEF Publish, Published, Retires
  <1>4. /\ successes'[p] = IF p \in DOMAIN staged
                           THEN IF shots[p].success THEN successes[p] + 1 ELSE successes[p]
                           ELSE IF Complete THEN 0 ELSE successes[p]
        BY DEF Publish, Published, Retires
  <1>5. /\ counted'[p] = IF p \in DOMAIN staged
                         THEN IF shots[p].success
                              THEN counted[p] \cup {Identity(shots[p].obs)} ELSE counted[p]
                         ELSE IF Complete THEN {} ELSE counted[p]
        BY DEF Publish, Published, Retires
  <1>6. /\ waiting'[p] = IF p \in DOMAIN staged
                         THEN IF shots[p].usable THEN 0
                              ELSE IF shots[p].slot THEN waiting[p] + 1 ELSE waiting[p]
                         ELSE IF Complete THEN 0 ELSE waiting[p]
        BY DEF Publish, Published, Retires
  <1> QED BY <1>2, <1>3, <1>4, <1>5, <1>6

\* A counted book was not counted before, and what was counted stays remembered.
LEMMA CountOnce ==
  ASSUME PegAssumption, NEW s \in SourceState, NEW r, Sound(s, r), r.shot.success
  PROVE  /\ Remembered(r.state, Identity(r.shot.obs))
         /\ ~Remembered(s, Identity(r.shot.obs))
         /\ \A i : Remembered(s, i) => Remembered(r.state, i)
  <1> DEFINE obs == r.shot.obs
  <1>1. /\ obs.at \in Nat /\ Newer(s, obs)
        /\ r.state.last = Advanced(s, obs).last
        /\ r.state.identities = Advanced(s, obs).identities
        BY DEF Sound, Advancement, Same
  <1>2. s.last \in Nat \/ s.last = None
        BY DEF SourceState, Some
  <1>3. /\ Advanced(s, obs).last = obs.at
        /\ Advanced(s, obs).identities =
             IF s.last = obs.at THEN s.identities \cup {obs.seq} ELSE {obs.seq}
        BY DEF Advanced, SourceState
  <1>4. Identity(obs)[1] = obs.at /\ Identity(obs)[2] = obs.seq
        BY DEF Identity
  <1> HIDE DEF obs
  <1>5. obs.at # None
        BY <1>1 DEF PegAssumption
  <1>6. Remembered(r.state, Identity(obs))
        BY <1>1, <1>3, <1>4, <1>5 DEF Remembered
  <1>7. ~Remembered(s, Identity(obs))
        BY <1>1, <1>2, <1>4 DEF Remembered, Newer
  <1>8. ASSUME NEW i, Remembered(s, i)
        PROVE  Remembered(r.state, i)
        BY <1>1, <1>2, <1>3, <1>5, <1>8 DEF Remembered, Newer
  <1> QED BY <1>6, <1>7, <1>8 DEF obs

LEMMA PublishKeeps == ASSUME PegAssumption, PegInv, Publish PROVE PegInv'
  <1> USE PublishOf
  <1>1. UNCHANGED <<cycle, bundle>> /\ todo' = None /\ staged' = <<>> /\ shots' = <<>>
        BY DEF Publish
  <1>2. TodoVersions' /\ StageSound'
        BY <1>1, StageEmptied DEF PegInv, TodoVersions, Bundle
  <1>3. ASSUME NEW p \in DOMAIN staged
        PROVE  /\ p \in Version /\ Sound(StateOf(p), [state |-> staged[p], shot |-> shots[p]])
               /\ StateOf(p) \in SourceState /\ StateOf(p).blind \in Nat
    <2>1. p \in Version /\ Sound(StateOf(p), [state |-> staged[p], shot |-> shots[p]])
          BY DEF PegInv, StageSound
    <2>2. StateOf(p) \in SourceState
          BY StateOfRetainable DEF PegInv, Retainable
    <2> QED BY <2>1, <2>2 DEF SourceState
  <1>4. DOMAIN sources' \subseteq Version
        BY <1>3 DEF Publish, Commit, Published, PegInv, SourcesRetainable
  <1>5. SourcesRetainable'
    <2>1. ASSUME NEW p \in DOMAIN sources'
          PROVE  Retainable(sources'[p])
      <3>1. CASE p \in DOMAIN staged
            BY <1>3, <1>4, <3>1 DEF Sound, Result
      <3>2. CASE p \notin DOMAIN staged
            BY <1>4, <3>2 DEF PegInv, SourcesRetainable
      <3> QED BY <3>1, <3>2
    <2> QED BY <1>4, <2>1 DEF SourcesRetainable
  <1>6. ASSUME NEW p \in Version
        PROVE  /\ successes'[p] \in Nat /\ IsFiniteSet(counted'[p])
               /\ successes'[p] = Cardinality(counted'[p])
               /\ \A i \in counted'[p] : p \in DOMAIN sources' /\ Remembered(sources'[p], i)
    <2>1. /\ successes[p] \in Nat /\ IsFiniteSet(counted[p])
          /\ successes[p] = Cardinality(counted[p])
          /\ \A i \in counted[p] : p \in DOMAIN sources /\ Remembered(sources[p], i)
          BY DEF PegInv, Counters, OneSuccessPerIdentity, CountedRemembered
    <2>2. CASE p \in DOMAIN staged /\ shots[p].success
      <3> DEFINE r == [state |-> staged[p], shot |-> shots[p]]
                 i == Identity(shots[p].obs)
      <3>1. /\ Remembered(staged[p], i) /\ ~Remembered(StateOf(p), i)
            /\ \A j : Remembered(StateOf(p), j) => Remembered(staged[p], j)
        <4>1. Sound(StateOf(p), r) /\ StateOf(p) \in SourceState
              BY <1>3, <2>2
        <4>2. r.state = staged[p] /\ r.shot = shots[p]
              OBVIOUS
        <4> HIDE DEF r
        <4> QED BY <2>2, <4>1, <4>2, CountOnce
      <3>2. \A j \in counted[p] : Remembered(StateOf(p), j)
            BY <2>1 DEF StateOf
      <3>3. i \notin counted[p]
            BY <3>1, <3>2
      <3>4. /\ IsFiniteSet(counted[p] \cup {i})
            /\ Cardinality(counted[p] \cup {i}) = Cardinality(counted[p]) + 1
            BY <2>1, <3>3, FS_AddElement
      <3>5. /\ successes'[p] = successes[p] + 1 /\ counted'[p] = counted[p] \cup {i}
            /\ p \in DOMAIN sources' /\ sources'[p] = staged[p]
            BY <2>2
      <3> HIDE DEF i
      <3> QED BY <2>1, <3>1, <3>2, <3>4, <3>5
    <2>3. CASE p \in DOMAIN staged /\ ~shots[p].success
      <3>1. Same(StateOf(p), staged[p])
            BY <1>3, <2>3 DEF Sound, Advancement
      <3>2. \A j \in counted[p] : Remembered(staged[p], j)
            BY <2>1, <3>1 DEF StateOf, Same, Remembered
      <3> QED BY <2>1, <2>3, <3>2
    <2>4. CASE p \notin DOMAIN staged /\ Complete
      <3>1. successes'[p] = 0 /\ counted'[p] = {}
            BY <2>4
      <3> QED BY <3>1, FS_EmptySet
    <2>5. CASE p \notin DOMAIN staged /\ ~Complete
          BY <2>1, <2>5
    <2> QED BY <2>2, <2>3, <2>4, <2>5
  <1>7. ASSUME NEW p \in Version
        PROVE  /\ waiting'[p] \in Nat
               /\ p \notin DOMAIN sources' => waiting'[p] = 0
               /\ p \in DOMAIN sources' => sources'[p].blind = Least(waiting'[p], BlindLimit)
    <2>1. /\ waiting[p] \in Nat
          /\ StateOf(p).blind = Least(waiting[p], BlindLimit)
          /\ p \in DOMAIN sources => sources[p].blind = Least(waiting[p], BlindLimit)
          /\ p \notin DOMAIN sources => waiting[p] = 0
          BY DEF PegInv, Counters, NoneWaits, BlindCountsSlots, StateOf, DefaultState, Least,
                 PegAssumption
    <2>2. CASE p \in DOMAIN staged
      <3>1. staged[p].blind = IF shots[p].usable THEN 0
                              ELSE IF shots[p].slot THEN Least(StateOf(p).blind + 1, BlindLimit)
                              ELSE StateOf(p).blind
            BY <1>3, <2>2 DEF Sound, Blindness
      <3>2. Least(Least(waiting[p], BlindLimit) + 1, BlindLimit) = Least(waiting[p] + 1, BlindLimit)
            BY <2>1 DEF Least, PegAssumption
      <3>3. Least(0, BlindLimit) = 0
            BY DEF Least, PegAssumption
      <3> QED BY <2>1, <2>2, <3>1, <3>2, <3>3
    <2>3. CASE p \notin DOMAIN staged /\ Complete
          BY <2>3
    <2>4. CASE p \notin DOMAIN staged /\ ~Complete
          BY <2>1, <2>4
    <2> QED BY <2>2, <2>3, <2>4
  <1>8. ASSUME NEW p \in Version, shown'[p] # None
        PROVE  Honest(shown'[p])
    <2>1. CASE p \in DOMAIN staged
          BY <1>3, <2>1 DEF Sound, Result
    <2>2. CASE p \notin DOMAIN staged
          BY <1>8, <2>2 DEF PegInv, ShownIsHonest, Honest
    <2> QED BY <2>1, <2>2
  <1>9. Counters'
    <2>1. /\ DOMAIN successes' = Version /\ DOMAIN counted' = Version
          /\ DOMAIN waiting' = Version /\ DOMAIN shown' = Version
          BY DEF Publish
    <2> QED BY <1>1, <1>6, <1>7, <2>1 DEF PegInv, Counters
  <1>10. CountedRemembered' /\ OneSuccessPerIdentity'
         BY <1>6 DEF CountedRemembered, OneSuccessPerIdentity
  <1>11. NoneWaits' /\ BlindCountsSlots'
         BY <1>4, <1>7 DEF NoneWaits, BlindCountsSlots
  <1>12. ShownIsHonest'
         BY <1>8 DEF ShownIsHonest, Honest
  <1>13. RetainedShown'
    <2>1. ASSUME NEW p \in DOMAIN sources', Executable(sources'[p].obs)
          PROVE  shown'[p] # None /\ shown'[p].obs = sources'[p].obs
      <3>1. p \in Version
            BY <1>4
      <3>2. CASE p \in DOMAIN staged
        <4>1. shots[p] \in Snapshot /\ staged[p].obs = shots[p].obs
              BY <1>3, <3>2 DEF Sound, Result
        <4>2. shots[p] # None
              BY <4>1, SnapshotAssumption
        <4> QED BY <3>1, <3>2, <4>1, <4>2
      <3>3. CASE p \notin DOMAIN staged
            BY <2>1, <3>1, <3>3 DEF PegInv, RetainedShown
      <3> QED BY <3>2, <3>3
    <2> QED BY <2>1 DEF RetainedShown
  <1> QED BY <1>2, <1>5, <1>9, <1>10, <1>11, <1>12, <1>13 DEF PegInv

LEMMA PegStutters == ASSUME PegInv, UNCHANGED pegVars PROVE PegInv'
  <1>1. UNCHANGED <<sources, shown, successes, counted, waiting, cycle, bundle, staged, shots, todo>>
        BY DEF pegVars
  <1>2. cycle' \in Nat /\ TodoVersions'
        BY <1>1 DEF PegInv, Counters, TodoVersions, Bundle
  <1> QED BY <1>1, <1>2, StageUnchanged, NothingPublished DEF PegInv

-----------------------------------------------------------------------------
(* The theorems.                                                               *)

LEMMA PegInvariant == PegSpec => []PegInv
  <1>1. PegInv /\ [PegNext]_pegVars => PegInv'
        BY PegAssumption, RunCycleKeeps, BuildKeeps, BuildFailsKeeps, PublishKeeps,
           PublishFailsKeeps, PegStutters DEF PegNext
  <1> QED BY <1>1, PegStarts, PTL DEF PegSpec

\* The success counter of a policy version is the number of publications of the venue
\* that were accepted under it, for any number of identities and versions and however
\* cycles and publications fail (recordProviderAdvancement, commitCompletedSourceStates).
THEOREM PegCountsOnce == PegSpec => []OneSuccessPerIdentity
  <1>1. PegInv => OneSuccessPerIdentity
        BY DEF PegInv
  <1> QED BY <1>1, PegInvariant, PTL

\* Whatever path of the poll a snapshot comes from, what it shows as executable is
\* within the policy's age, converted by a valid leg and of a listed market, and it has
\* a cause of failure exactly when it has no price (cachedObservation,
\* refreshExpiredConversion, acceptDueObservation).
THEOREM PegShowsHonestly == PegSpec => []ShownIsHonest
  <1>1. PegInv => ShownIsHonest
        BY DEF PegInv
  <1> QED BY <1>1, PegInvariant, PTL

\* The blind count is the number of slots published since the last usable decision, up
\* to its limit, for any cadence and limit (updateBlindConsecutivePolls).
THEOREM PegCountsBlindSlots == PegSpec => []BlindCountsSlots
  <1>1. PegInv => BlindCountsSlots
        BY DEF PegInv
  <1> QED BY <1>1, PegInvariant, PTL

\* What an executable book in a snapshot is, if it is not new to the state: the book
\* that was shown before.
LEMMA ShownAgain ==
  ASSUME PegAssumption, PegInv, Publish, NEW p \in Version, shown'[p] # None,
         Executable(shown'[p].obs), Identity(shown'[p].obs) \in counted[p]
  PROVE  /\ shown[p] # None /\ Executable(shown[p].obs)
         /\ Identity(shown[p].obs) = Identity(shown'[p].obs)
  <1>1. CASE p \in DOMAIN staged
    <2> DEFINE s == StateOf(p)
               r == [state |-> staged[p], shot |-> shots[p]]
    <2>1. shown'[p] = shots[p] /\ r.shot = shots[p] /\ r.state = staged[p]
          BY <1>1, PublishOf
    <2>2. s \in SourceState /\ Sound(s, r)
          BY <1>1, StateOfRetainable DEF PegInv, StageSound, Retainable
    <2>3. p \in DOMAIN sources /\ Remembered(s, Identity(shots[p].obs))
          BY <2>1 DEF PegInv, CountedRemembered, StateOf
    <2> HIDE DEF r, s
    <2>4. ~shots[p].success
          BY <2>1, <2>2, <2>3, CountOnce
    <2>5. Stays(s, r.state) /\ r.state.obs = shots[p].obs
          BY <2>1, <2>2, <2>4 DEF Sound, Advancement, Result
    <2>6. Executable(s.obs) /\ Identity(s.obs) = Identity(shots[p].obs)
          BY <2>1, <2>5 DEF Stays
    <2>7. shown[p] # None /\ shown[p].obs = s.obs
          BY <2>3, <2>6 DEF PegInv, RetainedShown, StateOf, s
    <2> QED BY <2>1, <2>6, <2>7
  <1>2. CASE p \notin DOMAIN staged
        BY <1>2, PublishOf
  <1> QED BY <1>1, <1>2

\* A book that went away does not come back: the identities are remembered across
\* failures and halts that clear the observation (clearSource, acceptDueObservation).
THEOREM PegGoneStaysGone == PegSpec => GoneStaysGone
  <1>1. ASSUME PegInv, [PegNext]_pegVars, NEW p \in Version, shown'[p] # None,
               Executable(shown'[p].obs), Identity(shown'[p].obs) \in counted[p]
        PROVE  /\ shown[p] # None /\ Executable(shown[p].obs)
               /\ Identity(shown[p].obs) = Identity(shown'[p].obs)
    <2>1. CASE Publish
          BY <1>1, <2>1, PegAssumption, ShownAgain
    <2>2. CASE ~Publish
      <3>1. UNCHANGED shown
            BY <1>1, <2>2 DEF PegNext, pegVars, RunCycle, Build, BuildFails, PublishFails
      <3> QED BY <1>1, <3>1
    <2> QED BY <2>1, <2>2
  <1>2. PegInv /\ [PegNext]_pegVars =>
          [\A p \in Version :
             shown'[p] # None /\ Executable(shown'[p].obs)
               /\ Identity(shown'[p].obs) \in counted[p]
             => /\ shown[p] # None /\ Executable(shown[p].obs)
                /\ Identity(shown[p].obs) = Identity(shown'[p].obs)]_pegVars
        BY <1>1
  <1> QED BY <1>2, PegInvariant, PTL DEF PegSpec, GoneStaysGone

-----------------------------------------------------------------------------
(* The alert of one pool (DeviationAlert): the clock and the trading week.      *)

Resting == {"ok", "fx_paused"}

Reopens == {m \in 1..minute : m - 1 \in Weekend /\ m \notin Weekend}

\* The clock, and that the last reopening is one.
ClockOK ==
  /\ minute \in Nat /\ minute >= 1 /\ fx \in BOOLEAN
  /\ LastReopen \in {0} \cup Reopens /\ \A m \in Reopens : m <= LastReopen

\* The maximum, for a set whose greatest element is in hand.
LEMMA MaxIs ==
  ASSUME NEW S, NEW x \in S, S \subseteq Nat, \A y \in S : y <= x
  PROVE  Max(S) = x
<1>1. \E z \in S : \A y \in S : z >= y
  OBVIOUS
<1>2. Max(S) \in S /\ \A y \in S : Max(S) >= y
  BY <1>1, Zenon DEF Max
<1>3. Max(S) \in Nat /\ x \in Nat /\ Max(S) >= x /\ Max(S) <= x
  BY <1>2
<1> HIDE DEF Max
<1> QED BY <1>3

LEMMA MaxOfTwo ==
  ASSUME NEW a \in Nat, NEW b \in Nat
  PROVE  Max({a, b}) = IF a >= b THEN a ELSE b
<1>1. CASE a >= b
  BY <1>1, MaxIs
<1>2. CASE ~(a >= b)
  BY <1>2, MaxIs
<1> QED BY <1>1, <1>2

LEMMA ClockTypes ==
  ASSUME ClockOK PROVE LastReopen \in Nat /\ Week \in Nat /\ LastReopen <= minute /\ Week <= minute
BY DEF ClockOK, Reopens, Week

\* The week changes only where the market reopens.
LEMMA WeekTurns ==
  ASSUME ClockOK, minute' = minute + 1, fx' = fx
  PROVE  /\ ClockOK'
         /\ Week' = IF fx /\ minute \in Weekend /\ minute + 1 \notin Weekend THEN minute + 1 ELSE Week
<1>1. minute \in Nat /\ minute >= 1 /\ LastReopen \in {0} \cup Reopens /\ LastReopen \in Nat
      /\ LastReopen <= minute /\ \A m \in Reopens : m <= LastReopen
  BY ClockTypes DEF ClockOK
<1>2. LastReopen' = Max({0} \cup Reopens')
  BY DEF LastReopen, Reopens
<1>3. {0} \cup Reopens' \subseteq Nat
  BY <1>1 DEF Reopens
<1>4. CASE minute \in Weekend /\ minute + 1 \notin Weekend
  <2>1. minute + 1 \in {0} \cup Reopens' /\ \A y \in {0} \cup Reopens' : y <= minute + 1
    BY <1>1, <1>4 DEF Reopens
  <2>2. LastReopen' = minute + 1
    <3> DEFINE R == {0} \cup Reopens'
    <3>1. minute + 1 \in R /\ R \subseteq Nat /\ \A y \in R : y <= minute + 1
      BY <1>3, <2>1
    <3> HIDE DEF R
    <3>2. Max(R) = minute + 1
      BY <3>1, MaxIs
    <3> QED BY <1>2, <3>2, Zenon DEF R
  <2>3. LastReopen' \in {0} \cup Reopens' /\ \A m \in Reopens' : m <= LastReopen'
    BY <2>1, <2>2
  <2>4. minute' \in Nat /\ minute' >= 1 /\ fx' \in BOOLEAN
    BY <1>1 DEF ClockOK
  <2>5. ClockOK'
    BY <2>3, <2>4, Zenon DEF ClockOK
  <2>6. Week' = IF fx THEN minute + 1 ELSE 0
    BY <2>2, Zenon DEF Week
  <2>7. ~fx => Week = 0
    BY Zenon DEF Week
  <2> QED BY <1>4, <2>5, <2>6, <2>7, Zenon
<1>5. CASE ~(minute \in Weekend /\ minute + 1 \notin Weekend)
  <2>1. Reopens' = Reopens
    <3>1. \A m \in Nat : m \in Reopens' <=> m \in Reopens
      BY <1>1, <1>5 DEF Reopens
    <3>2. Reopens \subseteq Nat /\ Reopens' \subseteq Nat
      BY DEF Reopens
    <3> QED BY <3>1, <3>2
  <2>2. LastReopen' = LastReopen
    BY <1>2, <2>1 DEF LastReopen, Reopens
  <2> QED BY <1>1, <1>5, <2>1, <2>2 DEF ClockOK, Week
<1> QED BY <1>4, <1>5

-----------------------------------------------------------------------------
(* What a poll makes of a row.                                                *)

\* A classification, or a snapshot without its escalation.
Ground(state) ==
  IF state = "critical" THEN "warning" ELSE IF state = "gap_critical" THEN "gap_warning" ELSE state

Shaped(ground, start, signal) ==
  \/ ground \in Resting /\ signal = "none"
  \/ ground = "warning" /\ signal = "none"
  \/ ground = "warning" /\ signal = "critical" /\ start > 0
  \/ ground = "gap_warning" /\ signal = "gap_critical" /\ start > 0

\* criticalStateCanFire, without its maximum.
Fires(signaled, start) ==
  minute > CriticalPending + signaled /\ minute > CriticalPending + start + CriticalThreshold

\* A snapshot some bridge may have.
Held(s) ==
  /\ s \in StateSnapshot /\ s.entered <= minute /\ s.signaled <= minute /\ s.start <= latest
  /\ Shaped(Ground(s.state), s.start, s.signal)
  /\ s.state \in Critical => s.state = s.signal /\ Fires(s.signaled, s.start)
  /\ s.state \notin Resting => s.entered >= Week
  /\ s.signal # "none" => s.signaled >= Week

\* The breach is the last one there was.
BreachOK == breach \in {0, latest} /\ latest \in Nat /\ latest <= minute

\* A row's breach is the last one or a later one.
LEMMA RowsAre ==
  ASSUME ClockOK, BreachOK, NEW row \in Rows
  PROVE  /\ row.start \in Nat /\ row.start <= minute /\ (row.start = 0 \/ row.start >= latest)
         /\ row.ratio \in {"low", "high", "absent"} /\ row.critical \in BOOLEAN
         /\ Max({latest, row.start}) = IF row.start > 0 THEN row.start ELSE latest
<1> DEFINE Starts == {0, breach} \cup {m \in (latest + 1)..minute : m + IndexLag >= minute}
<1>1. \A m \in Starts : m \in Nat /\ m <= minute /\ (m = 0 \/ m >= latest)
  BY DEF ClockOK, BreachOK
<1>2. /\ row.start \in Starts
      /\ row.ratio \in {"low", "high", "absent"} /\ row.critical \in BOOLEAN
  <2> HIDE DEF Starts
  <2>1. Rows = [start : Starts, ratio : {"low", "high", "absent"}, critical : {FALSE}]
                 \cup [start : Starts \ {0}, ratio : {"high"}, critical : {TRUE}]
    BY Zenon DEF Rows, Starts
  <2> QED BY <2>1
<1>3. row.start \in Nat /\ row.start <= minute /\ (row.start = 0 \/ row.start >= latest)
  BY <1>1, <1>2
<1>4. latest \in Nat
  BY DEF BreachOK
<1> QED BY <1>2, <1>3, <1>4, MaxOfTwo

\* classifyDeviationAlertState: what goes with what.
LEMMA ClassifiedIs ==
  ASSUME ClockOK, BreachOK, NEW row \in Rows, NEW c, c = Classified(row)
  PROVE  /\ c = [state |-> c.state, start |-> c.start, signal |-> c.signal]
         /\ c.state \in AlertState /\ c.signal \in AlertSignal /\ c.start \in {0, row.start} /\ c.start \in Nat
         /\ Shaped(c.state, c.start, c.signal)
         /\ c.state \in Resting \cup {"warning", "gap_warning"}
         /\ c.signal # "none" => c.start = row.start /\ c.start > 0
         /\ fx /\ minute \in Weekend => c.state \in Resting
<1>1. row.start \in Nat /\ row.ratio \in {"low", "high", "absent"} /\ row.critical \in BOOLEAN
  BY RowsAre
<1>2. \/ ~(fx /\ minute \in Weekend) /\ row.ratio = "high"
         /\ c = As("warning", row.start, IF row.critical /\ row.start > 0 THEN "critical" ELSE "none")
      \/ ~(fx /\ minute \in Weekend) /\ row.start > 0 /\ c = As("gap_warning", row.start, "gap_critical")
      \/ c = As("fx_paused", row.start, "none")
      \/ c = As("ok", 0, "none") /\ ~(~(fx /\ minute \in Weekend) /\ row.ratio = "high")
  BY Zenon DEF Classified
<1>3. \/ ~(fx /\ minute \in Weekend) /\ row.start > 0 /\ c = As("warning", row.start, "critical")
      \/ ~(fx /\ minute \in Weekend) /\ c = As("warning", row.start, "none")
      \/ ~(fx /\ minute \in Weekend) /\ row.start > 0 /\ c = As("gap_warning", row.start, "gap_critical")
      \/ c = As("fx_paused", row.start, "none")
      \/ c = As("ok", 0, "none")
  BY <1>2, Zenon
<1>4. CASE ~(fx /\ minute \in Weekend) /\ row.start > 0 /\ c = As("warning", row.start, "critical")
  <2>1. c = [state |-> "warning", start |-> row.start, signal |-> "critical"]
    BY <1>4, Zenon DEF As
  <2>2. c.state = "warning" /\ c.start = row.start /\ c.signal = "critical"
    BY <2>1
  <2>3. c = [state |-> c.state, start |-> c.start, signal |-> c.signal]
    BY <2>1, <2>2, Zenon
  <2> QED BY <1>1, <1>4, <2>2, <2>3 DEF Shaped, Resting, AlertState, AlertSignal, Warning, Critical
<1>5. CASE ~(fx /\ minute \in Weekend) /\ c = As("warning", row.start, "none")
  <2>1. c = [state |-> "warning", start |-> row.start, signal |-> "none"]
    BY <1>5, Zenon DEF As
  <2>2. c.state = "warning" /\ c.start = row.start /\ c.signal = "none"
    BY <2>1
  <2>3. c = [state |-> c.state, start |-> c.start, signal |-> c.signal]
    BY <2>1, <2>2, Zenon
  <2> QED BY <1>1, <1>5, <2>2, <2>3 DEF Shaped, Resting, AlertState, AlertSignal, Warning, Critical
<1>6. CASE ~(fx /\ minute \in Weekend) /\ row.start > 0 /\ c = As("gap_warning", row.start, "gap_critical")
  <2>1. c = [state |-> "gap_warning", start |-> row.start, signal |-> "gap_critical"]
    BY <1>6, Zenon DEF As
  <2>2. c.state = "gap_warning" /\ c.start = row.start /\ c.signal = "gap_critical"
    BY <2>1
  <2>3. c = [state |-> c.state, start |-> c.start, signal |-> c.signal]
    BY <2>1, <2>2, Zenon
  <2> QED BY <1>1, <1>6, <2>2, <2>3 DEF Shaped, Resting, AlertState, AlertSignal, Warning, Critical
<1>7. CASE c = As("fx_paused", row.start, "none")
  <2>1. c = [state |-> "fx_paused", start |-> row.start, signal |-> "none"]
    BY <1>7, Zenon DEF As
  <2>2. c.state = "fx_paused" /\ c.start = row.start /\ c.signal = "none"
    BY <2>1
  <2>3. c = [state |-> c.state, start |-> c.start, signal |-> c.signal]
    BY <2>1, <2>2, Zenon
  <2> QED BY <1>1, <2>2, <2>3 DEF Shaped, Resting, AlertState, AlertSignal, Warning, Critical
<1>8. CASE c = As("ok", 0, "none")
  <2>1. c = [state |-> "ok", start |-> 0, signal |-> "none"]
    BY <1>8, Zenon DEF As
  <2>2. c.state = "ok" /\ c.start = 0 /\ c.signal = "none"
    BY <2>1
  <2>3. c = [state |-> c.state, start |-> c.start, signal |-> c.signal]
    BY <2>1, <2>2, Zenon
  <2> QED BY <1>1, <2>2, <2>3 DEF Shaped, Resting, AlertState, AlertSignal, Warning, Critical
<1> QED BY <1>3, <1>4, <1>5, <1>6, <1>7, <1>8, Zenon

\* buildCurrentSnapshot, taken apart.
LEMMA SnapshotIs ==
  ASSUME AlertAssumption, NothingAssumption, ClockOK, BreachOK, NEW row \in Rows, NEW was,
         was = Unseen \/ Held(was), NEW c, c = Classified(row),
         NEW is, is = AlertSnapshot(was, row)
  PROVE  /\ is \in StateSnapshot /\ is # Unseen
         /\ is.start = c.start /\ is.signal = c.signal
         /\ is.entered = EnteredAt(was, c) /\ is.signaled = SignalEnteredAt(was, c, is.entered)
         /\ is.state = IF c.signal # "none" /\ Fires(is.signaled, is.start) THEN c.signal ELSE c.state
         /\ Ground(is.state) = c.state
         /\ is.entered <= minute /\ is.signaled <= minute
<1>1. /\ c = [state |-> c.state, start |-> c.start, signal |-> c.signal]
      /\ c.state \in AlertState /\ c.signal \in AlertSignal /\ c.start \in {0, row.start} /\ c.start \in Nat
      /\ Shaped(c.state, c.start, c.signal)
      /\ c.state \in Resting \cup {"warning", "gap_warning"}
      /\ c.signal # "none" => c.start = row.start /\ c.start > 0
  BY ClassifiedIs
<1>2. minute \in Nat /\ LastReopen \in Nat /\ LastReopen <= minute /\ row.start <= minute /\ minute >= 1
      /\ row.start \in Nat
  BY ClockTypes, RowsAre DEF ClockOK
<1>3. was # Unseen => was \in StateSnapshot /\ was.entered \in Nat /\ was.entered <= minute
                      /\ was.signaled \in Nat /\ was.signaled <= minute
  BY DEF Held, StateSnapshot
<1>4. EnteredAt(was, c) \in Nat /\ EnteredAt(was, c) <= minute
  <2>1. c.start \in Nat /\ c.start <= minute
    BY <1>1, <1>2
  <2>2. Max({c.start, LastReopen}) \in Nat /\ Max({c.start, LastReopen}) <= minute
    BY <1>2, <2>1, MaxOfTwo
  <2>3. InitialEnteredAt(c) \in {minute, c.start, Max({c.start, LastReopen})}
    BY Zenon DEF InitialEnteredAt
  <2>4. InitialEnteredAt(c) \in Nat /\ InitialEnteredAt(c) <= minute
    BY <1>2, <2>1, <2>2, <2>3
  <2> QED BY <1>2, <1>3, <2>4 DEF EnteredAt
<1> DEFINE e == EnteredAt(was, c)
           g == SignalEnteredAt(was, c, e)
<1>5. g \in Nat /\ g <= minute
  BY <1>2, <1>3, <1>4 DEF SignalEnteredAt
<1>6. is = [state |-> IF CriticalCanFire(c, g) THEN c.signal ELSE c.state,
            start |-> c.start, signal |-> c.signal, entered |-> e, signaled |-> g]
  BY Zenon DEF AlertSnapshot
<1> HIDE DEF e, g
<1>7. CriticalCanFire(c, g) <=> c.signal # "none" /\ Fires(g, c.start)
  <2>1. c.start + CriticalThreshold \in Nat
    BY <1>1 DEF AlertAssumption
  <2>2. Max({g, c.start + CriticalThreshold}) = IF g >= c.start + CriticalThreshold THEN g ELSE c.start + CriticalThreshold
    BY <1>5, <2>1, MaxOfTwo
  <2> QED BY <1>1, <1>2, <1>5, <2>1, <2>2 DEF CriticalCanFire, Fires, AlertAssumption
<1>8. is.state \in {c.state, c.signal} /\ (is.state = c.state \/ c.signal # "none")
  BY <1>6, <1>7
<1>9. Ground(is.state) = c.state
  BY <1>1, <1>8 DEF Ground, Shaped, Resting
<1>10. is \in StateSnapshot
  BY <1>1, <1>4, <1>5, <1>6, <1>8 DEF StateSnapshot, e, AlertState, AlertSignal, Critical
<1>11. is # Unseen
  BY <1>10 DEF NothingAssumption
<1> QED BY <1>4, <1>5, <1>6, <1>7, <1>9, <1>10, <1>11 DEF e, g
LEMMA Bridges ==
  "steady" \in Bridge /\ "forgetful" \in Bridge /\ \A b \in Bridge : b \in {"steady", "forgetful"}
BY DEF Bridge

\* What a snapshot's state says of its signal.
LEMMA GroundIs ==
  ASSUME NEW s, Held(s)
  PROVE  /\ s.state \in Resting \cup {"warning", "gap_warning", "critical", "gap_critical"}
         /\ s.state \in Resting => s.signal = "none" /\ Ground(s.state) = s.state
         /\ s.state = "critical" => s.signal = "critical"
         /\ s.state = "gap_critical" => s.signal = "gap_critical"
         /\ s.state \in Critical => s.signal # "none"
         /\ s.signal # "none" => s.state \notin Resting
         /\ Ground(s.state) \in Resting \cup {"warning", "gap_warning"}
         /\ Ground(s.state) \in Resting => s.state = Ground(s.state)
         /\ s.signal \in {"none", "critical", "gap_critical"}
<1>1. Shaped(Ground(s.state), s.start, s.signal) /\ (s.state \in Critical => s.state = s.signal)
  BY DEF Held
<1>2. Ground(s.state) = IF s.state = "critical" THEN "warning" ELSE IF s.state = "gap_critical" THEN "gap_warning" ELSE s.state
  BY Zenon DEF Ground
<1>3. Ground(s.state) \in Resting \cup {"warning", "gap_warning"}
  BY <1>1 DEF Shaped
<1>4. s.signal \in {"none", "critical", "gap_critical"}
  BY <1>1 DEF Shaped
<1> QED BY <1>1, <1>2, <1>3, <1>4 DEF Shaped, Resting, Critical

\* A snapshot stays one while time passes, unless a week begins.
LEMMA Ages ==
  ASSUME AlertAssumption, NothingAssumption, ClockOK, BreachOK, NEW s, Held(s),
         minute' = minute + 1, latest' = latest,
         Week' = Week \/ s.state \in Resting
  PROVE  Held(s)'
<1>1. /\ s \in StateSnapshot /\ s.entered \in Nat /\ s.signaled \in Nat /\ s.start \in Nat
      /\ s.entered <= minute /\ s.signaled <= minute /\ s.start <= latest /\ minute \in Nat
      /\ Shaped(Ground(s.state), s.start, s.signal)
      /\ s.state \in Critical => s.state = s.signal /\ Fires(s.signaled, s.start)
      /\ s.state \notin Resting => s.entered >= Week
      /\ s.signal # "none" => s.signaled >= Week
  BY DEF Held, StateSnapshot, ClockOK
<1>2. Fires(s.signaled, s.start) => Fires(s.signaled, s.start)'
  BY <1>1 DEF Fires, AlertAssumption
<1>3. s.signal # "none" => s.state \notin Resting
  BY GroundIs
<1>4. s.entered <= minute' /\ s.signaled <= minute' /\ s.start <= latest'
  BY <1>1
<1>5. (s.state \notin Resting => s.entered >= Week') /\ (s.signal # "none" => s.signaled >= Week')
  BY <1>1, <1>3, Zenon
<1>6. s.state \in Critical => s.state = s.signal /\ Fires(s.signaled, s.start)'
  BY <1>1, <1>2, Zenon
<1> QED BY <1>1, <1>4, <1>5, <1>6, Zenon DEF Held

\* ... and while the breach is replaced.
LEMMA Lasts ==
  ASSUME BreachOK, NEW s, Held(s), minute' = minute, Week' = Week, latest' \in Nat, latest' >= latest
  PROVE  Held(s)'
<1>1. s.start \in Nat /\ s.start <= latest /\ latest \in Nat
  BY DEF Held, StateSnapshot, BreachOK
<1>2. s.start <= latest'
  BY <1>1
<1>3. Fires(s.signaled, s.start) => Fires(s.signaled, s.start)'
  BY Zenon DEF Fires
<1>4. s.entered <= minute' /\ s.signaled <= minute' /\ (s.state \notin Resting => s.entered >= Week')
      /\ (s.signal # "none" => s.signaled >= Week')
  BY Zenon DEF Held
<1> QED BY <1>2, <1>3, <1>4, Zenon DEF Held

\* A poll's snapshot is one.
LEMMA Polled ==
  ASSUME AlertAssumption, NothingAssumption, ClockOK, BreachOK, NEW row \in Rows, NEW was,
         was = Unseen \/ Held(was), NEW is, is = AlertSnapshot(was, row),
         minute' = minute, Week' = Week, latest' = Max({latest, row.start})
  PROVE  Held(is)'
<1>0. PICK c : c = Classified(row)
  OBVIOUS
<1>1. /\ c.start \in {0, row.start} /\ c.start \in Nat /\ Shaped(c.state, c.start, c.signal)
      /\ c.state \in Resting \cup {"warning", "gap_warning"}
      /\ c.signal # "none" => c.start = row.start /\ c.start > 0
      /\ fx /\ minute \in Weekend => c.state \in Resting
  BY <1>0, ClassifiedIs
<1>2. /\ is \in StateSnapshot /\ is # Unseen
      /\ is.start = c.start /\ is.signal = c.signal
      /\ is.entered = EnteredAt(was, c) /\ is.signaled = SignalEnteredAt(was, c, is.entered)
      /\ is.state = IF c.signal # "none" /\ Fires(is.signaled, is.start) THEN c.signal ELSE c.state
      /\ Ground(is.state) = c.state
      /\ is.entered <= minute /\ is.signaled <= minute
  BY <1>0, SnapshotIs
<1>3. /\ row.start \in Nat /\ row.start <= minute /\ (row.start = 0 \/ row.start >= latest)
      /\ latest' = IF row.start > 0 THEN row.start ELSE latest
  BY RowsAre
<1>4. is.start <= latest'
  BY <1>1, <1>2, <1>3 DEF BreachOK
<1>5. c.state \in Resting <=> is.state \in Resting
  BY <1>1, <1>2 DEF Shaped, Resting
<1>6. is.state \in Critical => is.state = is.signal /\ Fires(is.signaled, is.start)
  BY <1>1, <1>2 DEF Resting, Critical
<1>7. Week \in Nat /\ Week <= minute /\ LastReopen \in Nat /\ minute \in Nat /\ LastReopen <= minute
  BY ClockTypes DEF ClockOK
<1>8. c.state \notin Resting => is.entered >= Week
  <2> SUFFICES ASSUME c.state \notin Resting PROVE is.entered >= Week
    OBVIOUS
  <2>1. CASE was = Unseen
    <3>1. is.entered = InitialEnteredAt(c)
      BY <1>2, <2>1, Zenon DEF EnteredAt
    <3>2. Max({c.start, LastReopen}) >= LastReopen
      BY <1>1, <1>7, MaxOfTwo
    <3>3. ~fx => Week = 0
      BY Zenon DEF Week
    <3>4. fx => Week = LastReopen
      BY Zenon DEF Week
    <3> QED BY <1>1, <1>7, <3>1, <3>2, <3>3, <3>4 DEF InitialEnteredAt
  <2>2. CASE was # Unseen
    <3>1. (is.entered = was.entered /\ (was.state = c.state \/ was.state = c.signal)) \/ is.entered = minute
      BY <1>2, <2>2, Zenon DEF EnteredAt
    <3>2. was.state = c.state \/ was.state = c.signal => was.state \notin Resting
      BY <1>1 DEF Shaped, Resting
    <3>3. was.state \notin Resting => was.entered >= Week
      BY <2>2 DEF Held
    <3> QED BY <1>7, <3>1, <3>2, <3>3
  <2> QED BY <2>1, <2>2
<1>9. c.signal # "none" => is.signaled >= Week
  <2> SUFFICES ASSUME c.signal # "none" PROVE is.signaled >= Week
    OBVIOUS
  <2>1. CASE was = Unseen
    <3>1. is.signaled \in {is.entered, minute}
      BY <1>2, <2>1 DEF SignalEnteredAt
    <3>2. c.state \notin Resting
      BY <1>1 DEF Shaped, Resting
    <3> QED BY <1>7, <1>8, <3>1, <3>2
  <2>2. CASE was # Unseen
    <3>1. (is.signaled = was.signaled /\ (was.signal = c.signal \/ was.state \in Critical)) \/ is.signaled = minute
      BY <1>2, <2>2, Zenon DEF SignalEnteredAt
    <3>2. was.signal = c.signal \/ was.state \in Critical => was.signal # "none"
      BY <2>2, GroundIs, Zenon
    <3>3. was.signal # "none" => was.signaled >= Week
      BY <2>2 DEF Held
    <3> QED BY <1>7, <3>1, <3>2, <3>3
  <2> QED BY <2>1, <2>2
<1>10. Fires(is.signaled, is.start) => Fires(is.signaled, is.start)'
  BY Zenon DEF Fires
<1>11. Shaped(Ground(is.state), is.start, is.signal)
  BY <1>1, <1>2, Zenon
<1>12. /\ is \in StateSnapshot /\ is.entered <= minute' /\ is.signaled <= minute'
       /\ is.state \notin Resting => is.entered >= Week'
       /\ is.signal # "none" => is.signaled >= Week'
       /\ is.state \in Critical => is.state = is.signal /\ Fires(is.signaled, is.start)'
  BY <1>2, <1>5, <1>6, <1>8, <1>9, <1>10, Zenon
<1> QED BY <1>4, <1>11, <1>12, Zenon DEF Held

-----------------------------------------------------------------------------
(* The two bridges.                                                           *)

BridgesOK ==
  /\ memory \in [Bridge -> {Unseen} \cup StateSnapshot] /\ excused \in BOOLEAN
  /\ \A b \in Bridge : memory[b] # Unseen => Held(memory[b])

\* The forgetful bridge knows nothing, or the row that the other one knows.
Together(s, f) ==
  f # Unseen => s # Unseen /\ Ground(f.state) = Ground(s.state) /\ f.signal = s.signal /\ f.start = s.start

\* Nothing that the steady bridge would report has escaped the other one.
Recalls(s, f) ==
  f # Unseen /\ ~excused /\ s.state \notin Resting =>
    /\ f.entered <= s.entered
    /\ s.signal # "none" => f.signaled <= s.signaled \/ f.signaled <= f.start
    /\ s.state \in Critical => f.state \in Critical

\* What the episode says of the forgetful bridge, and what one escalation leaves behind.
EpisodeOK(f) ==
  /\ episode \in [start : Nat, signal : AlertSignal, week : Nat, told : Nat] /\ episode.week <= minute
  /\ f # Unseen => /\ episode.start = f.start /\ episode.signal = f.signal
                   /\ f.signal # "none" => episode.week = Week
  /\ EscalatedOnce
  /\ episode.signal = "critical" /\ episode.told = 1 /\ episode.week = Week =>
       Fires(Week, episode.start) /\ (f # Unseen => f.state = "critical")

AlertInv ==
  /\ ClockOK /\ BreachOK /\ BridgesOK
  /\ Together(memory["steady"], memory["forgetful"])
  /\ Recalls(memory["steady"], memory["forgetful"])
  /\ EpisodeOK(memory["forgetful"])

\* Of one row two bridges think the same, but for what only time can tell.
LEMMA Agree ==
  ASSUME AlertAssumption, NothingAssumption, ClockOK, BreachOK, NEW row \in Rows, NEW s, NEW f,
         s = Unseen \/ Held(s), f = Unseen \/ Held(f),
         NEW sNow, sNow = AlertSnapshot(s, row), NEW fNow, fNow = AlertSnapshot(f, row)
  PROVE  Together(sNow, fNow)
<1>0. PICK c : c = Classified(row)
  OBVIOUS
<1>1. sNow # Unseen /\ sNow.start = c.start /\ sNow.signal = c.signal /\ Ground(sNow.state) = c.state
  BY <1>0, SnapshotIs
<1>2. fNow.start = c.start /\ fNow.signal = c.signal /\ Ground(fNow.state) = c.state
  BY <1>0, SnapshotIs
<1> QED BY <1>1, <1>2, Zenon DEF Together

\* A bridge that has started again dates what it finds no later than one that went on.
LEMMA RecallsStep ==
  ASSUME AlertAssumption, NothingAssumption, ClockOK, BreachOK, NEW row \in Rows, NEW s, NEW f,
         s = Unseen \/ Held(s), f = Unseen \/ Held(f), Together(s, f), Recalls(s, f),
         NEW sNow, sNow = AlertSnapshot(s, row), NEW fNow, fNow = AlertSnapshot(f, row),
         minute' = minute, Week' = Week, latest' = Max({latest, row.start}), excused \in BOOLEAN,
         excused' = (fNow.state \notin Resting /\ (excused \/ Excuse(f, fNow, sNow)))
  PROVE  Recalls(sNow, fNow)'
<1>0. PICK c : c = Classified(row)
  OBVIOUS
<1> SUFFICES ASSUME fNow # Unseen, ~excused', sNow.state \notin Resting
             PROVE  /\ fNow.entered <= sNow.entered
                    /\ sNow.signal # "none" => fNow.signaled <= sNow.signaled \/ fNow.signaled <= fNow.start
                    /\ sNow.state \in Critical => fNow.state \in Critical
  BY Zenon DEF Recalls
<1>1. /\ c.start \in {0, row.start} /\ c.start \in Nat /\ Shaped(c.state, c.start, c.signal)
      /\ c.state \in Resting \cup {"warning", "gap_warning"}
      /\ c.signal # "none" => c.start = row.start /\ c.start > 0
  BY <1>0, ClassifiedIs
<1>2. /\ sNow \in StateSnapshot /\ sNow.start = c.start /\ sNow.signal = c.signal
      /\ sNow.entered = EnteredAt(s, c) /\ sNow.signaled = SignalEnteredAt(s, c, sNow.entered)
      /\ sNow.state = IF c.signal # "none" /\ Fires(sNow.signaled, sNow.start) THEN c.signal ELSE c.state
      /\ Ground(sNow.state) = c.state
      /\ sNow.entered <= minute /\ sNow.signaled <= minute
  BY <1>0, SnapshotIs
<1>3. /\ fNow \in StateSnapshot /\ fNow.start = c.start /\ fNow.signal = c.signal
      /\ fNow.entered = EnteredAt(f, c) /\ fNow.signaled = SignalEnteredAt(f, c, fNow.entered)
      /\ fNow.state = IF c.signal # "none" /\ Fires(fNow.signaled, fNow.start) THEN c.signal ELSE c.state
      /\ Ground(fNow.state) = c.state
      /\ fNow.entered <= minute /\ fNow.signaled <= minute
  BY <1>0, SnapshotIs
<1>4. /\ row.start \in Nat /\ row.start <= minute /\ (row.start = 0 \/ row.start >= latest)
  BY RowsAre
<1>5. Held(sNow)' /\ Held(fNow)'
  <2>1. Held(sNow)'
    BY Polled
  <2>2. Held(fNow)'
    BY Polled
  <2> QED BY <2>1, <2>2
<1>6. c.state \in {"warning", "gap_warning"}
  BY <1>1, <1>2 DEF Shaped, Resting, Ground
<1>7. fNow.state \notin Resting
  BY <1>1, <1>3, <1>6 DEF Shaped, Resting
<1>8. ~excused /\ ~Excuse(f, fNow, sNow)
  BY <1>7, Zenon
<1>9. minute \in Nat /\ Week \in Nat /\ LastReopen \in Nat
  BY ClockTypes DEF ClockOK
<1>10. /\ sNow.entered \in Nat /\ sNow.signaled \in Nat /\ fNow.entered \in Nat /\ fNow.signaled \in Nat
  BY <1>2, <1>3 DEF StateSnapshot
<1>11. sNow.entered >= Week /\ (c.signal # "none" => sNow.signaled >= Week)
  BY <1>2, <1>5, Zenon DEF Held
<1>12. CASE f = Unseen
  <2>1. fNow.state \notin Gap /\ c.start # 0 /\ ~(sNow.entered < c.start)
    BY <1>3, <1>8, <1>12, Zenon DEF Excuse
  <2>2. c.state = "warning"
    BY <1>1, <1>3, <1>6, <2>1 DEF Shaped, Resting, Gap
  <2>3. fNow.entered = IF fx THEN Max({c.start, LastReopen}) ELSE c.start
    BY <1>1, <1>3, <1>12, <2>1, <2>2 DEF EnteredAt, InitialEnteredAt
  <2>4. Max({c.start, LastReopen}) = IF c.start >= LastReopen THEN c.start ELSE LastReopen
    BY <1>1, <1>9, MaxOfTwo
  <2>5. fx => Week = LastReopen
    BY Zenon DEF Week
  <2>6. fNow.entered = c.start \/ fNow.entered = Week
    BY <2>3, <2>4, <2>5
  <2>7. c.signal # "none" => fNow.signaled = fNow.entered
    BY <1>3, <1>12, <2>2, Zenon DEF SignalEnteredAt
  <2> QED BY <1>1, <1>2, <1>3, <1>9, <1>10, <1>11, <2>1, <2>6, <2>7
             DEF Fires, AlertAssumption, Shaped, Resting, Critical
<1>13. CASE f # Unseen
  <2>1. /\ s # Unseen /\ Ground(f.state) = Ground(s.state) /\ f.signal = s.signal /\ f.start = s.start
        /\ Held(f) /\ Held(s)
    BY <1>13, Zenon DEF Together
  <2>2. s.state \notin Resting =>
          /\ f.entered <= s.entered
          /\ s.signal # "none" => f.signaled <= s.signaled \/ f.signaled <= f.start
          /\ s.state \in Critical => f.state \in Critical
    BY <1>8, <1>13, Zenon DEF Recalls
  <2>3. ~(f.state \in Critical /\ fNow.state \in Warning)
    BY <1>8, <1>13, Zenon DEF Excuse
  <2>4. /\ s.entered \in Nat /\ s.signaled \in Nat /\ f.entered \in Nat /\ f.signaled \in Nat
        /\ f.start \in Nat /\ f.start <= latest /\ latest \in Nat
    BY <2>1 DEF Held, StateSnapshot, BreachOK
  <2>5. f.state \in Critical => f.state = f.signal
    BY <2>1, Zenon DEF Held
  <2>6. s.state \in Critical => s.state = s.signal
    BY <2>1, Zenon DEF Held
  <2>7. fNow.entered <= sNow.entered
    <3>1. (sNow.entered = s.entered /\ (s.state = c.state \/ s.state = c.signal)) \/ sNow.entered = minute
      BY <1>2, <2>1, Zenon DEF EnteredAt
    <3>2. f.state = c.state \/ f.state = c.signal => fNow.entered = f.entered
      BY <1>3, <1>13, Zenon DEF EnteredAt
    <3>3. ASSUME s.state = c.state \/ s.state = c.signal
          PROVE  s.state \notin Resting /\ (f.state = c.state \/ f.state = c.signal)
      <4>1. s.state \notin Resting
        BY <1>1, <1>6, <3>3 DEF Shaped, Resting
      <4>2. CASE s.state = c.signal
        <5>1. s.state # "none"
          BY <2>1, GroundIs DEF Resting
        <5>2. c.signal \in Critical
          BY <1>1, <1>6, <4>2, <5>1 DEF Shaped, Resting, Critical
        <5> QED BY <2>1, <2>2, <2>5, <2>6, <4>1, <4>2, <5>2, Zenon
      <4>3. CASE s.state = c.state
        <5>1. Ground(f.state) = c.state
          BY <1>6, <2>1, <4>3 DEF Ground
        <5>2. f.state = c.state \/ f.state \in Critical
          BY <5>1 DEF Ground, Critical
        <5>3. ASSUME f.state \in Critical, f.state # c.signal PROVE FALSE
          <6>1. (f.state = "critical" /\ c.state = "warning") \/ (f.state = "gap_critical" /\ c.state = "gap_warning")
            <7>1. f.state = "critical" \/ f.state = "gap_critical"
              BY <5>3 DEF Critical
            <7>2. Ground("critical") = "warning" /\ Ground("gap_critical") = "gap_warning"
              BY DEF Ground
            <7>3. f.state = "critical" => c.state = "warning"
              BY <5>1, <7>2
            <7>4. f.state = "gap_critical" => c.state = "gap_warning"
              BY <5>1, <7>2
            <7> QED BY <7>1, <7>3, <7>4, Zenon
          <6>2. c.signal = "none"
            BY <1>1, <5>3, <6>1 DEF Shaped, Resting
          <6>3. fNow.state \in Warning
            <7>1. fNow.state = c.state
              BY <1>3, <6>2, Zenon
            <7> QED BY <1>6, <7>1 DEF Warning
          <6> QED BY <2>3, <5>3, <6>3
        <5> QED BY <4>1, <5>2, <5>3
      <4> QED BY <3>3, <4>1, <4>2, <4>3
    <3> QED BY <1>3, <1>10, <2>2, <2>4, <3>1, <3>2, <3>3
  <2>8. c.signal # "none" => fNow.signaled <= sNow.signaled \/ fNow.signaled <= fNow.start
    <3> SUFFICES ASSUME c.signal # "none" PROVE fNow.signaled <= sNow.signaled \/ fNow.signaled <= fNow.start
      OBVIOUS
    <3>1. s.signal = c.signal \/ s.state \in Critical \/ sNow.signaled = minute
      BY <1>2, <2>1, Zenon DEF SignalEnteredAt
    <3>2. s.signal = c.signal \/ s.state \in Critical => sNow.signaled = s.signaled
      BY <1>2, <2>1, Zenon DEF SignalEnteredAt
    <3>3. f.signal = c.signal \/ f.state \in Critical => fNow.signaled = f.signaled
      BY <1>3, <1>13, Zenon DEF SignalEnteredAt
    <3>4. s.signal = c.signal \/ s.state \in Critical => s.signal # "none" /\ s.state \notin Resting
      BY <2>1, GroundIs, Zenon
    <3>5. c.start >= f.start
      BY <1>1, <1>4, <2>4
    <3>6. s.signal = c.signal \/ s.state \in Critical => f.signal = c.signal \/ f.state \in Critical
      BY <2>1, <2>2, <3>4, Zenon
    <3>7. s.signal = c.signal \/ s.state \in Critical => f.signaled <= s.signaled \/ f.signaled <= f.start
      BY <2>2, <3>4, Zenon
    <3> QED BY <1>1, <1>3, <1>9, <1>10, <2>4, <3>1, <3>2, <3>3, <3>5, <3>6, <3>7
  <2>9. sNow.state \in Critical => fNow.state \in Critical
    <3>1. sNow.state \in Critical => c.signal # "none" /\ Fires(sNow.signaled, c.start) /\ c.signal \in Critical
      BY <1>1, <1>2, <1>6 DEF Shaped, Resting, Critical
    <3>2. c.signal # "none" /\ Fires(sNow.signaled, c.start) => Fires(fNow.signaled, c.start)
      BY <1>1, <1>3, <1>9, <1>10, <2>8 DEF Fires, AlertAssumption
    <3> QED BY <1>3, <3>1, <3>2, Zenon
  <2> QED BY <1>2, <2>7, <2>8, <2>9, Zenon
<1> QED BY <1>12, <1>13

\* A signal that is no younger than the breach does not delay its escalation.
LEMMA FiresTwice ==
  ASSUME AlertAssumption, NEW a \in Nat, NEW b \in Nat, NEW start \in Nat, minute \in Nat,
         Fires(a, start), b <= a \/ b <= start
  PROVE  Fires(b, start)
BY DEF Fires, AlertAssumption

\* A second escalation would have to leave a warning that no longer is one.
LEMMA EpisodeStep ==
  ASSUME AlertAssumption, NothingAssumption, ClockOK, BreachOK, NEW row \in Rows, NEW f,
         f = Unseen \/ Held(f), EpisodeOK(f),
         NEW is, is = AlertSnapshot(f, row),
         minute' = minute, Week' = Week, latest' = Max({latest, row.start}),
         NEW same, same = [start |-> is.start, signal |-> is.signal, week |-> Week, told |-> episode.told],
         NEW before, before = (IF episode = same THEN episode.told ELSE 0),
         episode' = [same EXCEPT !.told = IF is.signal = "none" THEN 0
                                          ELSE IF Tells(f, is, "escalated") THEN before + 1 ELSE before]
  PROVE  EpisodeOK(is)'
<1>0. PICK c : c = Classified(row)
  OBVIOUS
<1>1. /\ c.start \in Nat /\ Shaped(c.state, c.start, c.signal)
      /\ c.state \in Resting \cup {"warning", "gap_warning"}
      /\ c.signal # "none" => c.start > 0
  BY <1>0, ClassifiedIs
<1>2. /\ is \in StateSnapshot /\ is.start = c.start /\ is.signal = c.signal
      /\ is.entered = EnteredAt(f, c) /\ is.signaled = SignalEnteredAt(f, c, is.entered)
      /\ is.state = IF c.signal # "none" /\ Fires(is.signaled, is.start) THEN c.signal ELSE c.state
  BY <1>0, SnapshotIs
<1>3. minute \in Nat /\ Week \in Nat /\ LastReopen \in Nat /\ Week <= minute
  BY ClockTypes DEF ClockOK
<1>4. /\ episode \in [start : Nat, signal : AlertSignal, week : Nat, told : Nat]
      /\ f # Unseen => episode.start = f.start /\ episode.signal = f.signal
      /\ episode.signal = "critical" => episode.told <= 1
      /\ episode.signal = "critical" /\ episode.told = 1 /\ episode.week = Week =>
           Fires(Week, episode.start) /\ (f # Unseen => f.state = "critical")
  BY Zenon DEF EpisodeOK, EscalatedOnce
<1>5. is.start \in Nat /\ is.signal \in AlertSignal /\ is.state \in AlertState /\ is.signaled \in Nat
  BY <1>2 DEF StateSnapshot
<1>6. episode.told \in Nat /\ before \in Nat
  BY <1>4
<1> DEFINE told == IF is.signal = "none" THEN 0 ELSE IF Tells(f, is, "escalated") THEN before + 1 ELSE before
<1>7. told \in Nat
  BY <1>6
<1>8. episode' = [start |-> is.start, signal |-> is.signal, week |-> Week, told |-> told]
  <2> HIDE DEF told
  <2>1. episode' = [same EXCEPT !.told = told]
    BY Zenon DEF told
  <2> QED BY <2>1
<1>9. /\ episode' \in [start : Nat, signal : AlertSignal, week : Nat, told : Nat]
      /\ episode'.start = is.start /\ episode'.signal = is.signal /\ episode'.week = Week' /\ episode'.told = told
  <2> HIDE DEF told
  <2> QED BY <1>3, <1>5, <1>7, <1>8
<1>10. Fires(Week, is.start)' <=> Fires(Week, is.start)
  BY Zenon DEF Fires
<1>11. ASSUME is.signal = "critical"
       PROVE  /\ told <= 1
              /\ told = 1 => Fires(Week, is.start) /\ is.state = "critical"
  <2>1. CASE episode = same /\ episode.told = 1
    <3>1. /\ episode.start = is.start /\ episode.signal = "critical" /\ episode.week = Week /\ before = 1
      BY <1>11, <2>1
    <3>2. Fires(Week, is.start) /\ (f # Unseen => f.state = "critical")
      BY <1>4, <2>1, <3>1
    <3>3. ~Tells(f, is, "escalated")
      <4>1. f = Unseen => Transition(f, is) = Untold
        BY Zenon DEF Transition
      <4>2. f.state = "critical" => f.state \notin Warning
        BY DEF Warning
      <4>3. ASSUME f # Unseen, Transition(f, is) # Untold PROVE Transition(f, is).reason # "escalated"
        <5>1. Transition(f, is) = [reason |-> Reason(f.state, is.state), ended |-> minute]
          BY <4>3, Zenon DEF Transition
        <5>2. Reason(f.state, is.state) # "escalated"
          BY <3>2, <4>2, <4>3 DEF Reason
        <5> QED BY <5>1, <5>2
      <4> QED BY <4>1, <4>3, Zenon DEF Tells
    <3>4. told = 1
      BY <1>11, <3>1, <3>3
    <3>5. is.signaled = Week \/ is.signaled = is.start \/ (f # Unseen /\ is.signaled = f.signaled)
      <4>1. c.state = "warning"
        BY <1>1, <1>2, <1>11 DEF Shaped, Resting
      <4>2. CASE f = Unseen
        <5>1. is.signaled = InitialEnteredAt(c)
          BY <1>2, <1>11, <4>1, <4>2, Zenon DEF SignalEnteredAt, EnteredAt
        <5>2. InitialEnteredAt(c) = IF fx THEN Max({c.start, LastReopen}) ELSE c.start
          BY <1>1, <1>2, <1>11, <4>1 DEF InitialEnteredAt
        <5>3. Max({c.start, LastReopen}) = c.start \/ Max({c.start, LastReopen}) = LastReopen
          BY <1>1, <1>3, MaxOfTwo
        <5> QED BY <1>2, <5>1, <5>2, <5>3, Zenon DEF Week
      <4>3. CASE f # Unseen
        <5>1. f.signal = is.signal
          BY <1>4, <1>11, <3>1, <4>3
        <5> QED BY <1>2, <1>11, <4>3, <5>1, Zenon DEF SignalEnteredAt
      <4> QED BY <4>2, <4>3
    <3>6. Fires(is.signaled, is.start)
      <4>1. CASE is.signaled = Week \/ is.signaled = is.start
        BY <1>3, <1>5, <3>2, <4>1, FiresTwice
      <4>2. CASE f # Unseen /\ is.signaled = f.signaled
        <5>1. f.state = "critical" /\ f.start = is.start
          BY <1>4, <3>1, <3>2, <4>2
        <5>2. Fires(f.signaled, f.start)
          BY <4>2, <5>1 DEF Held, Critical
        <5> QED BY <4>2, <5>1, <5>2
      <4> QED BY <3>5, <4>1, <4>2
    <3>7. is.state = "critical"
      BY <1>2, <1>11, <3>6
    <3> QED BY <3>2, <3>4, <3>7
  <2>2. CASE ~(episode = same /\ episode.told = 1)
    <3>1. before = 0
      <4>1. CASE episode = same
        <5>1. episode.signal = "critical" /\ before = episode.told
          BY <1>11, <4>1
        <5> QED BY <1>4, <1>6, <2>2, <4>1, <5>1
      <4>2. CASE episode # same
        BY <4>2
      <4> QED BY <4>1, <4>2
    <3>2. told = IF Tells(f, is, "escalated") THEN 1 ELSE 0
      BY <1>11, <3>1
    <3>3. ASSUME Tells(f, is, "escalated") PROVE Fires(Week, is.start) /\ is.state = "critical"
      <4>1. Transition(f, is) = [reason |-> Reason(f.state, is.state), ended |-> minute]
        BY <3>3, Zenon DEF Tells, Transition
      <4>2. Reason(f.state, is.state) = "escalated"
        BY <3>3, <4>1 DEF Tells
      <4>3. is.state \in Critical
        BY <4>2 DEF Reason
      <4>4. Held(is)'
        BY Polled
      <4>5. is.state = is.signal /\ Fires(is.signaled, is.start)' /\ is.signaled >= Week
        BY <1>11, <4>3, <4>4 DEF Held
      <4>6. Fires(is.signaled, is.start)
        BY <4>5, Zenon DEF Fires
      <4> QED BY <1>3, <1>5, <1>11, <4>5, <4>6, FiresTwice
    <3> QED BY <3>2, <3>3
  <2> QED BY <2>1, <2>2
<1> HIDE DEF told
<1>12. episode'.week <= minute' /\ EscalatedOnce'
  BY <1>3, <1>9, <1>11 DEF EscalatedOnce
<1>13. episode'.signal = "critical" /\ episode'.told = 1 /\ episode'.week = Week' =>
         Fires(Week, episode.start)' /\ is.state = "critical"
  <2>1. Fires(Week, episode.start)' <=> Fires(Week, is.start)
    BY <1>9, Zenon DEF Fires
  <2> QED BY <1>9, <1>11, <2>1, Zenon
<1> QED BY <1>9, <1>12, <1>13, Zenon DEF EpisodeOK

-----------------------------------------------------------------------------
(* Every step.                                                                *)

\* What a poll of the steady bridge, and perhaps of the other one, does.
LEMMA ObserveIs ==
  ASSUME ClockOK, BreachOK, NEW polling, Observe(polling), memory \in [Bridge -> {Unseen} \cup StateSnapshot]
  PROVE  \E row \in Rows :
           /\ latest' = Max({latest, row.start}) /\ breach' = row.start
           /\ memory' = [b \in Bridge |-> IF b \in polling THEN AlertSnapshot(memory[b], row) ELSE memory[b]]
           /\ minute' = minute /\ fx' = fx /\ Week' = Week /\ ClockOK' /\ BreachOK'
           /\ latest' \in Nat /\ latest' >= latest
<1>1. minute' = minute /\ fx' = fx
  BY Zenon DEF Observe
<1>2. PICK row \in Rows :
        /\ breach' = row.start /\ latest' = Max({latest, row.start})
        /\ memory' = [b \in Bridge |-> IF b \in polling THEN AlertSnapshot(memory[b], row) ELSE memory[b]]
  BY Zenon DEF Observe
<1>3. LastReopen' = LastReopen /\ Reopens' = Reopens
  BY <1>1 DEF LastReopen, Reopens
<1>4. Week' = Week /\ ClockOK'
  BY <1>1, <1>3 DEF Week, ClockOK
<1>5. /\ row.start \in Nat /\ row.start <= minute /\ (row.start = 0 \/ row.start >= latest)
      /\ Max({latest, row.start}) = IF row.start > 0 THEN row.start ELSE latest
  BY RowsAre
<1>6. BreachOK' /\ latest' \in Nat /\ latest' >= latest
  BY <1>1, <1>2, <1>5 DEF BreachOK
<1> QED BY <1>1, <1>2, <1>4, <1>6, Zenon

\* What one snapshot is and what two bridges know of the same pool, in every reachable
\* state, for any times, any weekend and any lag of the indexer
\* (observeDeviationAlertState, :399-444).
THEOREM AlertKnows == AlertSpec => []AlertInv
<1>1. AlertInit => AlertInv
  <2> SUFFICES ASSUME AlertInit PROVE AlertInv
    OBVIOUS
  <2>1. Reopens \subseteq {1} /\ minute = 1
    BY DEF AlertInit, Reopens
  <2>2. LastReopen = Max({0} \cup Reopens)
    BY DEF LastReopen, Reopens
  <2>3. LastReopen \in {0} \cup Reopens /\ \A m \in Reopens : m <= LastReopen
    <3>1. CASE Reopens = {}
      <4>1. Max({0} \cup Reopens) = 0
        BY <3>1, MaxIs
      <4> QED BY <2>2, <3>1, <4>1
    <3>2. CASE Reopens = {1}
      <4>1. Max({0, 1}) = 1
        BY MaxOfTwo
      <4>2. {0} \cup Reopens = {0, 1}
        BY <3>2
      <4> QED BY <2>2, <3>2, <4>1, <4>2
    <3> QED BY <2>1, <3>1, <3>2
  <2>4. ClockOK
    BY <2>1, <2>3 DEF AlertInit, ClockOK
  <2>5. BreachOK
    BY <2>1 DEF AlertInit, BreachOK
  <2>6. /\ memory = [b \in Bridge |-> Unseen] /\ excused = FALSE
        /\ episode = [start |-> 0, signal |-> "none", week |-> 0, told |-> 0]
    BY DEF AlertInit
  <2>7. memory["steady"] = Unseen /\ memory["forgetful"] = Unseen
    BY <2>6, Bridges
  <2>8. BridgesOK
    BY <2>6 DEF BridgesOK
  <2>9. EpisodeOK(memory["forgetful"])
    BY <2>1, <2>6, <2>7 DEF EpisodeOK, EscalatedOnce, AlertSignal
  <2> QED BY <2>4, <2>5, <2>7, <2>8, <2>9, Zenon DEF AlertInv, Together, Recalls
<1>2. AlertAssumption /\ NothingAssumption /\ AlertInv /\ [AlertNext]_alertVars => AlertInv'
  <2> SUFFICES ASSUME AlertAssumption, NothingAssumption, AlertInv, [AlertNext]_alertVars PROVE AlertInv'
    OBVIOUS
  <2> DEFINE s == memory["steady"]
             f == memory["forgetful"]
  <2>1. /\ ClockOK /\ BreachOK /\ BridgesOK /\ Together(s, f) /\ Recalls(s, f) /\ EpisodeOK(f)
        /\ memory \in [Bridge -> {Unseen} \cup StateSnapshot] /\ excused \in BOOLEAN
        /\ (s = Unseen \/ Held(s)) /\ (f = Unseen \/ Held(f))
    BY Bridges, Zenon DEF AlertInv, BridgesOK
  <2>2. CASE Advance
    <3>1. /\ minute' = minute + 1 /\ fx' = fx /\ breach' = breach /\ latest' = latest
          /\ memory' = memory /\ excused' = excused /\ episode' = episode /\ ~Slept
      BY <2>2, Zenon DEF Advance
    <3>2. /\ ClockOK'
          /\ Week' = IF fx /\ minute \in Weekend /\ minute + 1 \notin Weekend THEN minute + 1 ELSE Week
      BY <2>1, <3>1, WeekTurns
    <3>3. minute \in Nat /\ Week \in Nat /\ Week <= minute
      BY <2>1, ClockTypes DEF ClockOK
    <3>4. BreachOK'
      BY <2>1, <3>1, <3>3 DEF BreachOK
    <3>5. \/ Week' = Week
          \/ /\ Week' = minute + 1
             /\ s # Unseen => s.state \in Resting
             /\ f # Unseen => f.state \in Resting
      <4>1. fx /\ minute \in Weekend /\ minute + 1 \notin Weekend => (s # Unseen => s.state \in Resting)
        BY <3>1, Zenon DEF Slept, Resting
      <4>2. f # Unseen /\ (s # Unseen => s.state \in Resting) => f.state \in Resting
        <5> SUFFICES ASSUME f # Unseen, s # Unseen => s.state \in Resting PROVE f.state \in Resting
          OBVIOUS
        <5>1. s # Unseen /\ s.state \in Resting /\ Ground(f.state) = Ground(s.state) /\ Held(s) /\ Held(f)
          BY <2>1, Zenon DEF Together
        <5>2. Ground(s.state) = s.state
          BY <5>1, GroundIs
        <5> QED BY <5>1, <5>2, GroundIs
      <4> QED BY <3>2, <4>1, <4>2
    <3>6. \A b \in Bridge : memory[b] # Unseen => Held(memory[b])'
      <4> SUFFICES ASSUME NEW b \in Bridge, memory[b] # Unseen PROVE Held(memory[b])'
        OBVIOUS
      <4>1. PICK m : m = memory[b]
        OBVIOUS
      <4>2. Held(m)
        BY <2>1, <4>1, Zenon DEF BridgesOK
      <4>3. Week' = Week \/ m.state \in Resting
        <5>1. b = "steady" \/ b = "forgetful"
          BY Bridges
        <5> QED BY <3>5, <4>1, <5>1, Zenon
      <4>4. Held(m)'
        BY <2>1, <3>1, <4>2, <4>3, Ages, AlertAssumption, NothingAssumption
      <4> QED BY <3>1, <4>1, <4>4, Zenon DEF Held
    <3>7. BridgesOK'
      BY <2>1, <3>1, <3>6, Zenon DEF BridgesOK
    <3>8. Together(s, f)' /\ Recalls(s, f)'
      BY <2>1, <3>1, Zenon DEF Together, Recalls
    <3>9. EpisodeOK(f)'
      <4>1. /\ episode \in [start : Nat, signal : AlertSignal, week : Nat, told : Nat] /\ episode.week <= minute
            /\ f # Unseen => /\ episode.start = f.start /\ episode.signal = f.signal
                             /\ f.signal # "none" => episode.week = Week
            /\ EscalatedOnce
            /\ episode.signal = "critical" /\ episode.told = 1 /\ episode.week = Week =>
                 Fires(Week, episode.start) /\ (f # Unseen => f.state = "critical")
        BY <2>1, Zenon DEF EpisodeOK
      <4>2. f # Unseen /\ f.signal # "none" => Week' = Week
        <5>1. f # Unseen /\ f.signal # "none" => f.state \notin Resting
          BY <2>1, GroundIs
        <5> QED BY <3>5, <5>1, Zenon
      <4>3. episode.week = Week' => Week' = Week
        <5>1. episode.week \in Nat /\ episode.week <= minute
          BY <4>1
        <5>2. Week' = Week \/ Week' = minute + 1
          BY <3>5, Zenon
        <5> HIDE DEF s, f
        <5> QED BY <3>3, <5>1, <5>2
      <4>4. Fires(Week, episode.start) /\ Week' = Week => Fires(Week, episode.start)'
        BY <3>1, <3>3, <4>1 DEF Fires, AlertAssumption
      <4>5. episode'.week <= minute' /\ EscalatedOnce'
        BY <3>1, <3>3, <4>1 DEF EscalatedOnce
      <4>6. f' # Unseen => /\ episode'.start = f'.start /\ episode'.signal = f'.signal
                           /\ f'.signal # "none" => episode'.week = Week'
        BY <3>1, <4>1, <4>2, Zenon
      <4>7. episode'.signal = "critical" /\ episode'.told = 1 /\ episode'.week = Week' =>
              Fires(Week, episode.start)' /\ (f' # Unseen => f'.state = "critical")
        BY <3>1, <4>1, <4>3, <4>4, Zenon
      <4> QED BY <3>1, <4>1, <4>5, <4>6, <4>7, Zenon DEF EpisodeOK
    <3> QED BY <3>2, <3>4, <3>7, <3>8, <3>9, Zenon DEF AlertInv
  <2>3. CASE Both
    <3>1. Observe(Bridge)
      BY <2>3, Zenon DEF Both
    <3>2. PICK row \in Rows :
            /\ latest' = Max({latest, row.start})
            /\ memory' = [b \in Bridge |-> IF b \in Bridge THEN AlertSnapshot(memory[b], row) ELSE memory[b]]
            /\ minute' = minute /\ Week' = Week /\ ClockOK' /\ BreachOK'
      BY <2>1, <3>1, ObserveIs, ZenonT(40)
    <3>3. PICK sNow : sNow = AlertSnapshot(s, row)
      OBVIOUS
    <3>4. PICK fNow : fNow = AlertSnapshot(f, row)
      OBVIOUS
    <3>5. memory'["steady"] = sNow /\ memory'["forgetful"] = fNow /\ \A b \in Bridge : memory'[b] \in {sNow, fNow}
      BY <3>2, <3>3, <3>4, Bridges
    <3>6. Held(sNow)' /\ sNow \in StateSnapshot
      BY <2>1, <3>2, <3>3, Polled, AlertAssumption, NothingAssumption, Zenon DEF Held
    <3>7. Held(fNow)' /\ fNow \in StateSnapshot
      BY <2>1, <3>2, <3>4, Polled, AlertAssumption, NothingAssumption, Zenon DEF Held
    <3>8. excused' = (fNow.state \notin Resting /\ (excused \/ Excuse(f, fNow, sNow)))
      BY <2>3, <3>5, Zenon DEF Both, Resting
    <3>9. memory' \in [Bridge -> {Unseen} \cup StateSnapshot]
      <4>1. memory' = [b \in Bridge |-> memory'[b]]
        BY <3>2
      <4> QED BY <3>5, <3>6, <3>7, <4>1
    <3>10. \A b \in Bridge : Held(memory[b])'
      <4> SUFFICES ASSUME NEW b \in Bridge PROVE Held(memory[b])'
        OBVIOUS
      <4>1. memory'[b] = sNow \/ memory'[b] = fNow
        BY <3>5
      <4> QED BY <3>6, <3>7, <4>1, Zenon DEF Held
    <3>11. BridgesOK'
      BY <3>8, <3>9, <3>10, Zenon DEF BridgesOK
    <3>12. Together(s, f)'
      <4>1. Together(sNow, fNow)
        BY <2>1, <3>3, <3>4, Agree, AlertAssumption, NothingAssumption, Zenon
      <4> QED BY <3>5, <4>1, Zenon DEF Together
    <3>13. Recalls(s, f)'
      <4>1. Recalls(sNow, fNow)'
        BY <2>1, <3>2, <3>3, <3>4, <3>8, RecallsStep, AlertAssumption, NothingAssumption, Zenon
      <4> QED BY <3>5, <4>1, Zenon DEF Recalls
    <3>14. EpisodeOK(f)'
      <4> DEFINE same == [start |-> fNow.start, signal |-> fNow.signal, week |-> Week, told |-> episode.told]
                 before == IF episode = same THEN episode.told ELSE 0
      <4>1. episode' = [same EXCEPT !.told = IF fNow.signal = "none" THEN 0
                                             ELSE IF Tells(f, fNow, "escalated") THEN before + 1 ELSE before]
        BY <2>3, <3>5, Zenon DEF Both
      <4>2. EpisodeOK(fNow)'
        BY <2>1, <3>2, <3>4, <4>1, EpisodeStep, AlertAssumption, NothingAssumption, Zenon
      <4> QED BY <3>5, <4>2, Zenon DEF EpisodeOK
    <3> QED BY <3>2, <3>11, <3>12, <3>13, <3>14, Zenon DEF AlertInv
  <2>4. CASE Alone
    <3>1. Observe({"steady"}) /\ f = Unseen /\ excused' = excused /\ episode' = episode
      BY <2>4, Zenon DEF Alone
    <3>2. PICK row \in Rows :
            /\ latest' = Max({latest, row.start})
            /\ memory' = [b \in Bridge |-> IF b \in {"steady"} THEN AlertSnapshot(memory[b], row) ELSE memory[b]]
            /\ minute' = minute /\ Week' = Week /\ ClockOK' /\ BreachOK'
      BY <2>1, <3>1, ObserveIs
    <3>3. PICK sNow : sNow = AlertSnapshot(s, row)
      OBVIOUS
    <3>4. f' = Unseen /\ \A b \in Bridge : memory'[b] \in {sNow, Unseen}
      BY <3>1, <3>2, <3>3, Bridges
    <3>5. Held(sNow)' /\ sNow \in StateSnapshot
      BY <2>1, <3>2, <3>3, Polled, AlertAssumption, NothingAssumption, Zenon DEF Held
    <3>6. memory' \in [Bridge -> {Unseen} \cup StateSnapshot]
      <4>1. memory' = [b \in Bridge |-> memory'[b]]
        BY <3>2
      <4> QED BY <3>4, <3>5, <4>1
    <3>7. \A b \in Bridge : memory'[b] # Unseen => Held(memory[b])'
      <4> SUFFICES ASSUME NEW b \in Bridge, memory'[b] # Unseen PROVE Held(memory[b])'
        OBVIOUS
      <4>1. memory'[b] = sNow
        BY <3>4
      <4> QED BY <3>5, <4>1, Zenon DEF Held
    <3>8. BridgesOK'
      BY <2>1, <3>1, <3>6, <3>7, Zenon DEF BridgesOK
    <3>9. Together(s, f)' /\ Recalls(s, f)'
      BY <3>4, Zenon DEF Together, Recalls
    <3>10. EpisodeOK(f)'
      BY <2>1, <3>1, <3>2, <3>4, Zenon DEF EpisodeOK, Fires, EscalatedOnce
    <3> QED BY <3>2, <3>8, <3>9, <3>10, Zenon DEF AlertInv
  <2>5. CASE Forget
    <3>1. /\ memory' = [memory EXCEPT !["forgetful"] = Unseen] /\ excused' = FALSE
          /\ minute' = minute /\ fx' = fx /\ breach' = breach /\ latest' = latest /\ episode' = episode
      BY <2>5, Zenon DEF Forget
    <3>2. /\ f' = Unseen /\ \A b \in Bridge : memory'[b] \in {memory[b], Unseen}
          /\ memory' \in [Bridge -> {Unseen} \cup StateSnapshot]
      BY <2>1, <3>1, Bridges
    <3>3. LastReopen' = LastReopen /\ Reopens' = Reopens
      BY <3>1, Zenon DEF LastReopen, Reopens
    <3>4. ClockOK' /\ BreachOK' /\ Week' = Week
      BY <2>1, <3>1, <3>3, Zenon DEF ClockOK, BreachOK, Week
    <3>5. BridgesOK'
      <4>1. \A b \in Bridge : memory'[b] # Unseen => Held(memory[b])'
        <5> SUFFICES ASSUME NEW b \in Bridge, memory'[b] # Unseen PROVE Held(memory[b])'
          OBVIOUS
        <5>1. memory'[b] = memory[b] /\ Held(memory[b])
          BY <2>1, <3>2, Zenon DEF BridgesOK
        <5> QED BY <3>1, <3>4, <5>1, Zenon DEF Held, Fires
      <4> QED BY <3>1, <3>2, <4>1, Zenon DEF BridgesOK
    <3>6. Together(s, f)' /\ Recalls(s, f)'
      BY <3>2, Zenon DEF Together, Recalls
    <3>7. EpisodeOK(f)'
      BY <2>1, <3>1, <3>2, <3>4, Zenon DEF EpisodeOK, Fires, EscalatedOnce
    <3> QED BY <3>4, <3>5, <3>6, <3>7, Zenon DEF AlertInv
  <2>6. CASE UNCHANGED alertVars
    <3>1. /\ memory' = memory /\ excused' = excused /\ minute' = minute /\ fx' = fx /\ breach' = breach
          /\ latest' = latest /\ episode' = episode
      BY <2>6, Zenon DEF alertVars
    <3>2. LastReopen' = LastReopen /\ Reopens' = Reopens
      BY <3>1, Zenon DEF LastReopen, Reopens
    <3>3. ClockOK' /\ BreachOK' /\ Week' = Week
      BY <2>1, <3>1, <3>2, Zenon DEF ClockOK, BreachOK, Week
    <3>4. BridgesOK'
      BY <2>1, <3>1, <3>3, Zenon DEF BridgesOK, Held, Fires
    <3>5. Together(s, f)' /\ Recalls(s, f)'
      BY <2>1, <3>1, Zenon DEF Together, Recalls
    <3>6. EpisodeOK(f)'
      BY <2>1, <3>1, <3>3, Zenon DEF EpisodeOK, Fires, EscalatedOnce
    <3> QED BY <3>3, <3>4, <3>5, <3>6, Zenon DEF AlertInv
  <2> QED BY <2>2, <2>3, <2>4, <2>5, <2>6 DEF AlertNext
<1> QED BY <1>1, <1>2, AlertAssumption, NothingAssumption, PTL DEF AlertSpec

\* A breach's escalation is told once in a week of trading, through any number of
\* restarts: the bridge that starts again finds the breach old enough to be critical at
\* once, and a first snapshot is no transition (shouldRecordTransition, :337-368).
THEOREM EscalatesOnce == AlertSpec => []EscalatedOnce
<1>1. AlertInv => EscalatedOnce
  BY Zenon DEF AlertInv, EpisodeOK
<1> QED BY <1>1, AlertKnows, PTL

\* A bridge that has started again reports every end of an alert that one which never
\* stopped reports, except of what it could not learn from its first row
\* (initialEnteredAt and buildCurrentSnapshot, :281-335).
THEOREM RecoveryKept == AlertSpec => RecoveryKeepsContext
<1> DEFINE Reported ==
      memory["forgetful"] # Unseen /\ memory'["forgetful"] # Unseen /\ ~excused =>
        \A reason \in {"recovered", "suppressed"} :
          Tells(memory["steady"], memory'["steady"], reason) =>
            Tells(memory["forgetful"], memory'["forgetful"], reason)
<1>1. AlertAssumption /\ NothingAssumption /\ AlertInv /\ AlertInv' /\ [AlertNext]_alertVars => [Reported]_alertVars
  <2> SUFFICES ASSUME AlertAssumption, NothingAssumption, AlertInv, AlertInv', [AlertNext]_alertVars,
                      memory["forgetful"] # Unseen, memory'["forgetful"] # Unseen, ~excused,
                      NEW reason \in {"recovered", "suppressed"},
                      Tells(memory["steady"], memory'["steady"], reason)
               PROVE  Tells(memory["forgetful"], memory'["forgetful"], reason)
    BY Zenon
  <2> DEFINE s == memory["steady"]
             f == memory["forgetful"]
             sNow == memory'["steady"]
             fNow == memory'["forgetful"]
  <2>1. /\ Together(s, f) /\ Recalls(s, f) /\ Held(s) /\ Held(f) /\ s # Unseen
        /\ Together(sNow, fNow) /\ minute \in Nat
        /\ (sNow # Unseen => Held(s)') /\ Held(f)'
    <3>1. /\ Together(s, f) /\ Recalls(s, f) /\ Held(s) /\ Held(f) /\ s # Unseen /\ minute \in Nat
      BY Bridges, Zenon DEF AlertInv, BridgesOK, Together, ClockOK
    <3>2. Together(s, f)' /\ BridgesOK'
      BY Zenon DEF AlertInv
    <3>3. Together(sNow, fNow)
      BY <3>2, Zenon DEF Together
    <3>4. \A b \in Bridge : memory'[b] # Unseen => Held(memory[b])'
      BY <3>2, Zenon DEF BridgesOK
    <3>5. (sNow # Unseen => Held(s)') /\ (fNow # Unseen => Held(f)')
      BY <3>4, Bridges, Zenon
    <3> QED BY <3>1, <3>3, <3>5, Zenon
  <2>2. Transition(s, sNow) # Untold /\ Transition(s, sNow).reason = reason
    BY Zenon DEF Tells
  <2>3. /\ Transition(s, sNow) = [reason |-> Reason(s.state, sNow.state), ended |-> minute]
        /\ s.state # sNow.state /\ CouldHaveFired(s)
    BY <2>2, Zenon DEF Transition, ShouldRecord
  <2>4. Reason(s.state, sNow.state) = reason
    BY <2>2, <2>3
  <2>5. sNow.state \in Resting /\ reason = IF sNow.state = "ok" THEN "recovered" ELSE "suppressed"
    BY <2>4 DEF Reason, Resting
  <2>6. sNow # Unseen /\ Ground(fNow.state) = Ground(sNow.state)
    BY <2>1, Zenon DEF Together
  <2>7. fNow.state = sNow.state
    BY <2>1, <2>5, <2>6 DEF Held, Ground, Shaped, Resting, Critical
  <2>8. s.state \notin Resting
    BY <2>3 DEF CouldHaveFired, Resting, Warning, Critical
  <2>9. f.entered <= s.entered /\ (s.state \in Critical => f.state \in Critical)
    BY <2>1, <2>8, Zenon DEF Recalls
  <2>10. f.state \in Warning \cup Critical /\ f.entered \in Nat /\ s.entered \in Nat
    <3>1. Ground(f.state) = Ground(s.state)
      BY <2>1, Zenon DEF Together
    <3>2. f.state \notin Resting
      <4>1. f.state \in Resting => Ground(f.state) \in Resting
        BY DEF Ground, Resting
      <4>2. Ground(s.state) \notin Resting
        BY <2>1, <2>8, GroundIs
      <4> QED BY <3>1, <4>1, <4>2
    <3> QED BY <2>1, <3>2, GroundIs DEF Held, StateSnapshot, Resting, Warning, Critical
  <2>11. CouldHaveFired(f)
    <3>1. CASE s.state \in Critical
      BY <2>9, <3>1 DEF CouldHaveFired
    <3>2. CASE s.state \notin Critical
      <4>1. minute >= s.entered + WarningPending
        BY <2>3, <3>2 DEF CouldHaveFired
      <4> QED BY <2>1, <2>9, <2>10, <4>1 DEF CouldHaveFired, AlertAssumption
    <3> QED BY <3>1, <3>2
  <2>12. f.state # fNow.state
    BY <2>5, <2>7, <2>10 DEF Resting, Warning, Critical
  <2>13. Reason(f.state, fNow.state) = reason
    BY <2>5, <2>7 DEF Reason, Resting
  <2>14. ShouldRecord(f, fNow)
    BY <2>11, <2>12, <2>13 DEF ShouldRecord
  <2>15. Transition(f, fNow) = [reason |-> reason, ended |-> minute]
    BY <2>13, <2>14, Zenon DEF Transition
  <2>16. Transition(f, fNow) \in Told
    BY <2>1, <2>15 DEF Told, AlertReason
  <2> QED BY <2>15, <2>16 DEF Tells, NothingAssumption
<1>2. AlertSpec => [][Reported]_alertVars
  BY <1>1, AlertKnows, AlertAssumption, NothingAssumption, PTL DEF AlertSpec
<1> QED BY <1>2 DEF RecoveryKeepsContext
=============================================================================
