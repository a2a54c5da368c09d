------------------------ MODULE PoolRetryScan_proofs ------------------------
(***************************************************************************)
(* Machine-checked proofs about PoolRetryScan for any number of runs and   *)
(* names and any page size: the cursor never passes a candidate unseen.    *)
(* The inductive invariant says what a run that may still write the cursor *)
(* knows about the names behind and ahead of it.                           *)
(***************************************************************************)
EXTENDS PoolRetryScan, FiniteSetTheorems, TLAPS

Candidates == opened \ Malformed

\* Everything the pass began with is tried, on the page, or behind the token.
Accounted(r, k) ==
  \/ k \in tried
  \/ k \in page[r]
  \/ (more[r] /\ k > token[r])

\* How the local state of a run hangs together at each place.
RunOK(r) ==
  /\ pc[r] = "idle" => /\ last[r] = Start /\ pages[r] = 0 /\ page[r] = {}
                       /\ token[r] = None /\ ~more[r] /\ ~expired[r]
  /\ page[r] \subseteq listed
  /\ pc[r] = "list" => pages[r] < PageLimit
  /\ pc[r] \in {"keys", "save", "wrap"} /\ last[r] = Start => after[r] = Start
  /\ more[r] => token[r] \in Name
  /\ current[r] => pc[r] # "idle" /\ after[r] = cursor
  /\ pc[r] = "wrap" => last[r] = after[r]
  /\ pc[r] \in {"save", "wrap", "list"} /\ ~expired[r] => page[r] = {}
  /\ pc[r] = "list" => ~expired[r] /\ last[r] \in {Start, after[r]}
  /\ pc[r] = "list" /\ ~more[r] => token[r] = None
  /\ pc[r] = "list" /\ more[r] => last[r] = after[r]
RunInv == \A r \in Run : RunOK(r)

\* What a run with the current generation knows.
PassOK(r) ==
  current[r] =>
    /\ pc[r] \in {"keys", "save", "wrap"} =>
         \A k \in Candidates : Accounted(r, k)
    /\ pc[r] = "list" =>
         \A k \in Candidates :
           k \in tried \/ (token[r] # None => k > token[r])
    /\ pc[r] \in {"keys", "save", "wrap"} =>
         \A k \in Candidates : k <= last[r] => k \in tried
    /\ pc[r] = "keys" => \A k \in page[r] : more[r] => k <= token[r]
PassInv == \A r \in Run : PassOK(r)

ScanInv ==
  /\ TypeOK /\ opened \subseteq listed
  /\ RunInv /\ PassInv /\ CursorPassesOnlyTried

-----------------------------------------------------------------------------
(* A page is an initial segment of what is listed.                         *)

\* No name of the list is skipped by a page.
LEMMA FirstOfClosed ==
  ASSUME NEW S \in SUBSET Name, NEW k \in FirstOf(S), NEW j \in S, j < k
  PROVE  j \in FirstOf(S)
<1>1. k \in S /\ S \subseteq Int /\ Cardinality({i \in S : i < k}) < PageSize
  BY ScanAssumption DEF FirstOf, Name
<1>2. {i \in S : i < j} \subseteq {i \in S : i < k}
  <2> SUFFICES ASSUME NEW i \in S, i < j PROVE i < k
    OBVIOUS
  <2>1. i \in Int /\ j \in Int /\ k \in Int
    BY <1>1
  <2> QED BY <2>1
<1>3. IsFiniteSet({i \in S : i < k})
  <2>1. IsFiniteSet(Name)
    BY FS_Interval, ScanAssumption DEF Name
  <2>2. {i \in S : i < k} \subseteq Name
    OBVIOUS
  <2> QED BY <2>1, <2>2, FS_Subset
<1>4. /\ Cardinality({i \in S : i < j}) <= Cardinality({i \in S : i < k})
      /\ IsFiniteSet({i \in S : i < j})
  BY <1>2, <1>3, FS_Subset
<1>5. /\ Cardinality({i \in S : i < j}) \in Nat
      /\ Cardinality({i \in S : i < k}) \in Nat
  BY <1>3, <1>4, FS_CardinalityType
<1>6. Cardinality({i \in S : i < j}) < PageSize
  BY <1>1, <1>4, <1>5, ScanAssumption
<1> QED BY <1>6 DEF FirstOf

\* A page holds listed names only.
LEMMA FirstOfNames ==
  ASSUME TypeOK, NEW r \in Run
  PROVE  From(r) \subseteq listed /\ FirstOf(From(r)) \subseteq From(r) /\ From(r) \subseteq Name
BY DEF From, FirstOf, TypeOK

\* A name of the list is on the page or behind the page's last name.
LEMMA Ahead ==
  ASSUME TypeOK, NEW r \in Run, NEW t, IsLast(t, FirstOf(From(r))), NEW k \in From(r)
  PROVE  k \in FirstOf(From(r)) \/ k > t
<1> SUFFICES ASSUME k \notin FirstOf(From(r)), ~(k > t) PROVE FALSE
  OBVIOUS
<1>1. t \in FirstOf(From(r)) /\ t \in Name /\ k \in Name
  BY FirstOfNames DEF IsLast
<1>2. k < t
  BY <1>1, ScanAssumption DEF Name
<1> QED BY <1>1, <1>2, FirstOfNames, FirstOfClosed

-----------------------------------------------------------------------------
(* The scan invariant.                                                     *)

\* Nothing about a run changes.
Same(q) ==
  /\ pc'[q] = pc[q] /\ after'[q] = after[q] /\ token'[q] = token[q]
  /\ page'[q] = page[q] /\ more'[q] = more[q] /\ last'[q] = last[q]
  /\ pages'[q] = pages[q] /\ expired'[q] = expired[q]

\* Names are positive numbers.
LEMMA Names == \A k \in Name : k \in Int /\ k > 0 /\ k # Start
BY ScanAssumption DEF Name, Start

\* Who holds the current generation after a write of the cursor.
LEMMA CurrentAfterWrite ==
  ASSUME NEW S
  PROVE  /\ OnlyCurrent(S) \in [Run -> BOOLEAN]
         /\ \A q \in Run : OnlyCurrent(S)[q] <=> q \in S
<1>1. OnlyCurrent(S) \in [Run -> BOOLEAN]
  BY SMT DEF OnlyCurrent
<1>2. ASSUME NEW q \in Run PROVE OnlyCurrent(S)[q] <=> q \in S
  BY Zenon DEF OnlyCurrent
<1> QED BY <1>1, <1>2

\* A step of r that writes no cursor leaves every other run's knowledge alone.
LEMMA OthersKept ==
  ASSUME ScanInv, NEW q \in Run, Same(q), current'[q] = current[q],
         cursor' = cursor, opened' = opened,
         tried \subseteq tried', listed \subseteq listed'
  PROVE  RunOK(q)' /\ PassOK(q)'
<1> USE DEF ScanInv, RunInv, PassInv, Same
<1>1. RunOK(q)'
  BY DEF RunOK
<1>2. PassOK(q)'
  BY DEF PassOK, Accounted, Candidates, TypeOK
<1> QED BY <1>1, <1>2

\* A step that leaves a run without the current generation.
LEMMA OthersRefused ==
  ASSUME ScanInv, NEW q \in Run, Same(q), ~current'[q],
         listed \subseteq listed'
  PROVE  RunOK(q)' /\ PassOK(q)'
BY DEF ScanInv, RunInv, RunOK, PassOK, Same

\* A run that has ended.
LEMMA EndedOK ==
  ASSUME ScanInv, NEW r \in Run, EndRun(r), ~current'[r]
  PROVE  RunOK(r)' /\ PassOK(r)' /\ \A q \in Run \ {r} : Same(q)
BY DEF EndRun, Goto, RunOK, PassOK, Same, ScanInv, TypeOK, Place, Start, None

\* Of EndRun, the types.
LEMMA EndedTypes ==
  ASSUME TypeOK, NEW r \in Run, EndRun(r)
  PROVE  /\ pc' \in [Run -> Place]
         /\ after' \in [Run -> Name \cup {Start}]
         /\ token' \in [Run -> Name \cup {None}]
         /\ page' \in [Run -> SUBSET Name]
         /\ more' \in [Run -> BOOLEAN]
         /\ last' \in [Run -> Name \cup {Start}]
         /\ pages' \in [Run -> 0..PageLimit]
         /\ expired' \in [Run -> BOOLEAN]
BY ScanAssumption DEF EndRun, Goto, TypeOK, Place, Start, None

\* What an applied cursor write does to the types.
LEMMA WriteTypes ==
  ASSUME TypeOK, opened \subseteq listed, UNCHANGED listed, NEW r \in Run,
         NEW next \in Name \cup {Start}, WriteCursor(r, next)
  PROVE  /\ cursor' \in Name \cup {Start}
         /\ opened' \subseteq Name /\ tried' \subseteq Name
         /\ opened' \subseteq listed'
BY DEF WriteCursor, TypeOK, pass

\* The invariant is inductive: one step per action of the scan.
LEMMA ScanStep == ScanInv /\ [Next]_vars => ScanInv'
<1> SUFFICES ASSUME ScanInv, [Next]_vars PROVE ScanInv'
  OBVIOUS
<1> USE ScanAssumption DEF ScanInv
<1>1. ASSUME NEW k \in Name, Stage(k) PROVE ScanInv'
  <2>1. TypeOK' /\ (opened \subseteq listed)' /\ CursorPassesOnlyTried'
    BY <1>1 DEF Stage, run, pass, TypeOK, CursorPassesOnlyTried
  <2>2. \A q \in Run : RunOK(q)' /\ PassOK(q)'
    BY <1>1, OthersKept DEF Stage, run, pass, Same
  <2> QED BY <2>1, <2>2 DEF RunInv, PassInv
<1>2. ASSUME NEW r \in Run, ReadCursor(r) PROVE ScanInv'
  <2>1. TypeOK' /\ (opened \subseteq listed)' /\ CursorPassesOnlyTried'
    BY <1>2 DEF ReadCursor, Goto, pass, TypeOK, CursorPassesOnlyTried, Place
  <2>2. RunOK(r)' /\ PassOK(r)'
    BY <1>2 DEF ReadCursor, Goto, pass, TypeOK, RunInv, RunOK, PassOK, Candidates, Start, None
  <2>3. \A q \in Run \ {r} : Same(q) /\ current'[q] = current[q]
    BY <1>2 DEF ReadCursor, Goto, pass, TypeOK, Same
  <2>4. \A q \in Run \ {r} : RunOK(q)' /\ PassOK(q)'
    BY <1>2, <2>3, OthersKept DEF ReadCursor, pass
  <2> QED BY <2>1, <2>2, <2>4 DEF RunInv, PassInv
<1>3. ASSUME NEW r \in Run, List(r) PROVE ScanInv'
  <2>1. TypeOK' /\ (opened \subseteq listed)' /\ CursorPassesOnlyTried'
    <3>1. page' \in [Run -> SUBSET Name] /\ pages' \in [Run -> 0..PageLimit]
      BY <1>3, FirstOfNames DEF List, TypeOK, RunInv, RunOK
    <3> QED BY <1>3, <3>1 DEF List, Goto, pass, TypeOK, CursorPassesOnlyTried, Place
  <2>2. /\ pc[r] = "list" /\ pc'[r] = "keys" /\ last'[r] = after[r] /\ after'[r] = after[r]
        /\ page'[r] = FirstOf(From(r)) \ {after[r]}
        /\ more'[r] = (FirstOf(From(r)) # From(r))
        /\ IF FirstOf(From(r)) # From(r) THEN IsLast(token'[r], FirstOf(From(r)))
           ELSE token'[r] = None
        /\ cursor' = cursor /\ opened' = opened /\ tried' = tried /\ current' = current
    BY <1>3 DEF List, Goto, pass, TypeOK
  <2>3. more'[r] => token'[r] \in Name
    BY <2>2, FirstOfNames DEF IsLast
  <2>4. RunOK(r)'
    <3>1. page'[r] \subseteq listed /\ listed' = listed
      BY <1>3, <2>2, FirstOfNames DEF List
    <3> QED BY <2>2, <2>3, <3>1 DEF RunInv, RunOK
  <2>5. ASSUME current[r], NEW k \in Candidates
        PROVE  Accounted(r, k)' /\ (k <= last'[r] => k \in tried')
    <3>1. k \in Name /\ k \in listed /\ k \in opened \ Malformed /\ k \in Int
      BY Names DEF Candidates, TypeOK
    <3>2. after[r] = cursor /\ (k <= cursor => k \in tried)
      BY <2>2, <2>5, <3>1 DEF RunInv, RunOK, CursorPassesOnlyTried
    <3>3. CASE k \in tried
      BY <2>2, <3>3 DEF Accounted
    <3>4. CASE k \notin tried
      <4>1. after[r] \in Int /\ k > after[r] /\ k # after[r]
        <5>1. after[r] \in Name \cup {Start}
          BY DEF TypeOK
        <5>2. after[r] \in Int /\ k > after[r]
          <6>1. Start \in Int
            BY DEF Start
          <6>2. after[r] \in Int
            BY <5>1, <6>1, Names
          <6> QED BY <3>1, <3>2, <3>4, <6>2
        <5> QED BY <3>1, <5>2
      <4>2. token[r] # None => k > token[r]
        BY <2>2, <2>5, <3>4 DEF PassInv, PassOK
      <4>3. k \in From(r)
        BY <3>1, <4>1, <4>2 DEF From
      <4>4. k \in page'[r] \/ (more'[r] /\ k > token'[r])
        BY <2>2, <4>1, <4>3, Ahead
      <4> QED BY <2>2, <3>2, <3>4, <4>4 DEF Accounted
    <3> QED BY <3>3, <3>4
  <2>6. ASSUME NEW k \in page'[r], more'[r] PROVE k <= token'[r]
    BY <2>2, <2>6 DEF IsLast
  <2>7. PassOK(r)'
    BY <2>2, <2>5, <2>6 DEF PassOK, Candidates
  <2>8. \A q \in Run \ {r} : Same(q) /\ current'[q] = current[q]
    BY <1>3 DEF List, Goto, pass, TypeOK, Same
  <2>9. \A q \in Run \ {r} : RunOK(q)' /\ PassOK(q)'
    BY <1>3, <2>2, <2>8, OthersKept DEF List
  <2> QED BY <2>1, <2>4, <2>7, <2>9 DEF RunInv, PassInv
<1>4. ASSUME NEW r \in Run, EndPage(r) PROVE ScanInv'
  <2>1. TypeOK' /\ (opened \subseteq listed)' /\ CursorPassesOnlyTried'
    BY <1>4 DEF EndPage, Goto, pass, TypeOK, CursorPassesOnlyTried, Place
  <2>2. RunOK(r)'
    BY <1>4 DEF EndPage, Goto, pass, TypeOK, RunInv, RunOK
  <2>3. PassOK(r)'
    BY <1>4 DEF EndPage, Goto, pass, TypeOK, PassInv, PassOK, Candidates, Accounted
  <2>4. \A q \in Run \ {r} : Same(q) /\ current'[q] = current[q]
    BY <1>4 DEF EndPage, Goto, pass, TypeOK, Same
  <2>5. \A q \in Run \ {r} : RunOK(q)' /\ PassOK(q)'
    BY <1>4, <2>4, OthersKept DEF EndPage, pass
  <2> QED BY <2>1, <2>2, <2>3, <2>5 DEF RunInv, PassInv
<1>5. ASSUME NEW r \in Run, Save(r) PROVE ScanInv'
  <2>1. /\ pc[r] = "save" /\ pc'[r] = "wrap" /\ last' = last /\ page' = page /\ more' = more
        /\ token' = token /\ pages' = pages /\ listed' = listed /\ settled' = settled
        /\ (~expired'[r] => ~expired[r])
        /\ expired' \in [Run -> BOOLEAN] /\ pc' \in [Run -> Place]
        /\ \A q \in Run \ {r} : pc'[q] = pc[q] /\ expired'[q] = expired[q]
    BY <1>5 DEF Save, Goto, TypeOK, Place
  <2>2. CASE last[r] = after[r] /\ UNCHANGED <<cursor, after, current, pass>>
    <3>1. TypeOK' /\ (opened \subseteq listed)' /\ CursorPassesOnlyTried'
      BY <2>1, <2>2 DEF pass, TypeOK, CursorPassesOnlyTried
    <3>2. RunOK(r)'
      BY <2>1, <2>2 DEF pass, RunInv, RunOK
    <3>3. PassOK(r)'
      BY <2>1, <2>2 DEF pass, PassInv, PassOK, Candidates, Accounted
    <3>4. \A q \in Run \ {r} : RunOK(q)' /\ PassOK(q)'
      BY <2>1, <2>2, OthersKept DEF pass, Same
    <3> QED BY <3>1, <3>2, <3>3, <3>4 DEF RunInv, PassInv
  <2>3. CASE /\ last[r] # after[r] /\ WriteCursor(r, last[r])
             /\ after' = [after EXCEPT ![r] = last[r]] /\ current' = OnlyCurrent({r})
    <3>1. last[r] # Start /\ last[r] \in Name \cup {Start}
      BY <2>1, <2>3 DEF RunInv, RunOK, TypeOK
    <3>2. /\ cursor' = last[r] /\ opened' = opened /\ tried' = tried /\ current[r]
          /\ after'[r] = last[r] /\ current'[r]
      BY <2>3, <3>1 DEF WriteCursor, pass, OnlyCurrent, TypeOK
    <3>3. current' \in [Run -> BOOLEAN] /\ after' \in [Run -> Name \cup {Start}]
      BY <2>3, <3>1 DEF OnlyCurrent, TypeOK
    <3>4. TypeOK' /\ (opened \subseteq listed)'
      BY <2>1, <3>1, <3>2, <3>3 DEF TypeOK
    <3>5. CursorPassesOnlyTried'
      BY <2>1, <3>2 DEF CursorPassesOnlyTried, PassInv, PassOK, Candidates
    <3>6. RunOK(r)'
      BY <2>1, <3>1, <3>2 DEF RunInv, RunOK
    <3>7. PassOK(r)'
      BY <2>1, <3>2 DEF PassInv, PassOK, Candidates, Accounted
    <3>8. \A q \in Run \ {r} : Same(q) /\ ~current'[q]
      BY <2>1, <2>3, CurrentAfterWrite DEF Same, TypeOK
    <3>9. \A q \in Run \ {r} : RunOK(q)' /\ PassOK(q)'
      BY <2>1, <3>8, OthersRefused
    <3> QED BY <3>4, <3>5, <3>6, <3>7, <3>9 DEF RunInv, PassInv
  <2> QED BY <1>5, <2>2, <2>3 DEF Save
<1>6. ASSUME NEW r \in Run, EndRun(r), current' = [current EXCEPT ![r] = FALSE],
             UNCHANGED <<listed, settled, cursor, pass>>
      PROVE  ScanInv'
  <2>1. TypeOK' /\ (opened \subseteq listed)' /\ CursorPassesOnlyTried'
    <3>1. current' \in [Run -> BOOLEAN]
      BY <1>6 DEF TypeOK
    <3> QED BY <1>6, <3>1, EndedTypes DEF pass, TypeOK, CursorPassesOnlyTried
  <2>2. ~current'[r] /\ \A q \in Run \ {r} : current'[q] = current[q]
    BY <1>6 DEF TypeOK
  <2>3. RunOK(r)' /\ PassOK(r)' /\ \A q \in Run \ {r} : Same(q)
    BY <1>6, <2>2, EndedOK
  <2>4. \A q \in Run \ {r} : RunOK(q)' /\ PassOK(q)'
    BY <1>6, <2>2, <2>3, OthersKept DEF pass
  <2> QED BY <2>1, <2>3, <2>4 DEF RunInv, PassInv
<1>7. ASSUME NEW r \in Run, EndRun(r), current' = OnlyCurrent({}),
             UNCHANGED <<listed, settled>>,
             NEW next, WriteCursor(r, next),
             \/ pc[r] = "save" /\ next = last[r] /\ next # after[r]
             \/ pc[r] = "wrap" /\ next = Start
      PROVE  ScanInv'
  <2>1. next \in Name \cup {Start}
    BY <1>7 DEF TypeOK
  <2>2. current' \in [Run -> BOOLEAN] /\ \A q \in Run : ~current'[q]
    BY <1>7, CurrentAfterWrite
  <2>3. TypeOK' /\ (opened \subseteq listed)'
    BY <1>7, <2>1, <2>2, EndedTypes, WriteTypes DEF TypeOK
  <2>4. CursorPassesOnlyTried'
    <3>1. CASE next = Start
      BY <1>7, <2>3, <3>1, Names DEF WriteCursor, CursorPassesOnlyTried, TypeOK, Start
    <3>2. CASE next # Start
      BY <1>7, <3>2 DEF WriteCursor, pass, CursorPassesOnlyTried, PassInv, PassOK, Candidates
    <3> QED BY <3>1, <3>2
  <2>5. RunOK(r)' /\ PassOK(r)' /\ \A q \in Run \ {r} : Same(q)
    BY <1>7, <2>2, EndedOK
  <2>6. \A q \in Run \ {r} : RunOK(q)' /\ PassOK(q)'
    BY <1>7, <2>2, <2>5, OthersRefused
  <2> QED BY <2>3, <2>4, <2>5, <2>6 DEF RunInv, PassInv
<1>8. ASSUME NEW r \in Run, NextPage(r) PROVE ScanInv'
  <2>1. TypeOK' /\ (opened \subseteq listed)' /\ CursorPassesOnlyTried'
    BY <1>8 DEF NextPage, Goto, pass, TypeOK, CursorPassesOnlyTried, Place
  <2>2. RunOK(r)'
    BY <1>8 DEF NextPage, Goto, pass, TypeOK, RunInv, RunOK
  <2>3. PassOK(r)'
    BY <1>8 DEF NextPage, Goto, pass, TypeOK, RunInv, RunOK, PassInv, PassOK, Candidates, Accounted
  <2>4. \A q \in Run \ {r} : Same(q) /\ current'[q] = current[q]
    BY <1>8 DEF NextPage, Goto, pass, TypeOK, Same
  <2>5. \A q \in Run \ {r} : RunOK(q)' /\ PassOK(q)'
    BY <1>8, <2>4, OthersKept DEF NextPage, pass
  <2> QED BY <2>1, <2>2, <2>3, <2>5 DEF RunInv, PassInv
<1>9. ASSUME NEW r \in Run, Wrap(r) PROVE ScanInv'
  <2>1. CASE after[r] = Start
    <3>1. EndRun(r) /\ current' = [current EXCEPT ![r] = FALSE]
          /\ UNCHANGED <<listed, settled, cursor, pass>>
      BY <1>9, <2>1 DEF Wrap
    <3> QED BY <3>1, <1>6
  <2>2. CASE after[r] # Start
    <3>1. EndRun(r) /\ current' = OnlyCurrent({}) /\ UNCHANGED <<listed, settled>>
          /\ WriteCursor(r, Start) /\ pc[r] = "wrap"
      BY <1>9, <2>2 DEF Wrap
    <3> QED BY <3>1, <1>7
  <2> QED BY <2>1, <2>2
<1>10. ASSUME NEW r \in Run, Fail(r) PROVE ScanInv'
  <2>1. CASE current' = [current EXCEPT ![r] = FALSE] /\ UNCHANGED <<cursor, pass>>
    BY <1>10, <2>1, <1>6 DEF Fail
  <2>2. ASSUME NEW next, next = IF pc[r] = "save" THEN last[r] ELSE Start,
               MustWrite(r, next), WriteCursor(r, next), current' = OnlyCurrent({})
        PROVE  ScanInv'
    BY <1>10, <2>2, <1>7 DEF Fail, MustWrite
  <2> QED BY <1>10, <2>1, <2>2 DEF Fail
<1>11. ASSUME NEW r \in Run, NEW k \in Name, Handle(r, k),
              settled' \subseteq settled \cup {k}
       PROVE  ScanInv'
  <2>1. /\ pc[r] = "keys" /\ ~expired[r] /\ k \in page[r] /\ \A j \in page[r] : k <= j
        /\ page'[r] = page[r] \ {k} /\ last'[r] = k
        /\ tried' = IF k \in Malformed THEN tried ELSE tried \cup {k}
        /\ listed' = listed /\ cursor' = cursor /\ pc' = pc /\ after' = after
        /\ current' = current /\ token' = token /\ more' = more /\ pages' = pages
        /\ opened' = opened
    BY <1>11 DEF Handle, IsFirst, TypeOK
  <2>2. k \in listed /\ k \in Int /\ k # Start /\ after[r] \in Int
    <3>1. k \in listed
      BY <2>1 DEF RunInv, RunOK
    <3>2. after[r] \in Name \cup {Start} /\ Start \in Int
      BY DEF TypeOK, Start
    <3> QED BY <3>1, <3>2, Names
  <2>3. TypeOK' /\ (opened \subseteq listed)' /\ CursorPassesOnlyTried'
    <3>1. /\ page' \in [Run -> SUBSET Name] /\ last' \in [Run -> Name \cup {Start}]
          /\ expired' \in [Run -> BOOLEAN]
      BY <1>11 DEF Handle, TypeOK
    <3> QED BY <1>11, <2>1, <2>2, <3>1 DEF TypeOK, CursorPassesOnlyTried
  <2>4. RunOK(r)'
    BY <2>1, <2>2 DEF RunInv, RunOK
  <2>5. ASSUME current[r], NEW j \in Candidates
        PROVE  Accounted(r, j)' /\ (j <= last'[r] => j \in tried')
    <3>1. j \in Int /\ j \notin Malformed
      BY Names DEF Candidates, TypeOK
    <3>2. Accounted(r, j) /\ (j <= last[r] => j \in tried)
      BY <2>1, <2>5 DEF PassInv, PassOK
    <3>3. CASE j \in page[r]
      BY <2>1, <2>2, <3>1, <3>3 DEF Accounted
    <3>4. CASE more[r] /\ j > token[r]
      <4>1. token[r] \in Int /\ k <= token[r]
        BY <2>1, <2>5, <3>4, Names DEF PassInv, PassOK, RunInv, RunOK
      <4>2. ~(j <= k)
        BY <2>2, <3>1, <3>4, <4>1
      <4> QED BY <2>1, <3>4, <4>2 DEF Accounted
    <3>5. CASE j \in tried
      BY <2>1, <3>5 DEF Accounted
    <3> QED BY <3>2, <3>3, <3>4, <3>5 DEF Accounted
  <2>6. PassOK(r)'
    BY <2>1, <2>5 DEF PassInv, PassOK, Candidates
  <2>7. \A q \in Run \ {r} : Same(q)
    BY <1>11, <2>1 DEF Handle, TypeOK, Same
  <2>8. \A q \in Run \ {r} : RunOK(q)' /\ PassOK(q)'
    BY <2>1, <2>7, OthersKept
  <2> QED BY <2>3, <2>4, <2>6, <2>8 DEF RunInv, PassInv
<1>12. CASE UNCHANGED vars
  <2>1. \A q \in Run : RunOK(q)' /\ PassOK(q)'
    BY <1>12, OthersKept DEF vars, run, pass, Same
  <2> QED BY <1>12, <2>1 DEF vars, run, pass, TypeOK, CursorPassesOnlyTried, RunInv, PassInv
<1>13. ASSUME NEW r \in Run, Stop(r) \/ Refused(r) PROVE ScanInv'
  BY <1>13, <1>6 DEF Stop, Refused, End
<1> QED
  BY <1>1, <1>2, <1>3, <1>4, <1>5, <1>8, <1>9, <1>10, <1>11, <1>12, <1>13
     DEF Next, Proceed, Settle, LeavePending

\* The inductive invariant of the scan holds in every reachable state.
THEOREM ScanInvariant == Spec => []ScanInv
<1>1. Init => ScanInv
  BY ScanAssumption DEF Init, ScanInv, TypeOK, RunInv, RunOK, PassInv, PassOK,
     CursorPassesOnlyTried, Candidates, Place, Start, None
<1> QED BY <1>1, ScanStep, PTL DEF Spec

\* The cursor never passes a candidate that nobody tried in the current pass.
THEOREM NothingPassedUnseen == Spec => []CursorPassesOnlyTried
BY ScanInvariant, PTL DEF ScanInv

-----------------------------------------------------------------------------
(* A pass ends only when it is whole.                                      *)

\* A run that may wrap the cursor has accounted for the whole pass.
LEMMA WrapKnowsAll ==
  ASSUME ScanInv, NEW r \in Run, pc[r] = "wrap", current[r], ~expired[r], ~more[r]
  PROVE  opened \ Malformed \subseteq tried
BY DEF ScanInv, RunInv, RunOK, PassInv, PassOK, Candidates, Accounted

\* Only the end of the list takes the cursor back to the start.
LEMMA WholePassStep ==
  ASSUME ScanInv, [Next]_vars, cursor # Start, cursor' = Start
  PROVE  opened \ Malformed \subseteq tried
<1>1. ASSUME NEW k \in Name, Stage(k) PROVE FALSE
  BY <1>1 DEF Stage
<1>2. ASSUME NEW r \in Run,
             ReadCursor(r) \/ List(r) \/ EndPage(r) \/ Stop(r) \/ NextPage(r) \/ Refused(r)
      PROVE  FALSE
  BY <1>2 DEF ReadCursor, List, EndPage, Stop, NextPage, Refused
<1>3. ASSUME NEW r \in Run, NEW k \in Name, Settle(r, k) \/ LeavePending(r, k) PROVE FALSE
  BY <1>3 DEF Settle, LeavePending, Handle
<1>4. ASSUME NEW r \in Run, Save(r) PROVE FALSE
  BY <1>4 DEF Save, WriteCursor, ScanInv, RunInv, RunOK
<1>5. ASSUME NEW r \in Run, Wrap(r) PROVE opened \ Malformed \subseteq tried
  BY <1>5, WrapKnowsAll DEF Wrap, WriteCursor
<1>6. ASSUME NEW r \in Run, Fail(r) PROVE opened \ Malformed \subseteq tried
  <2>1. PICK next : /\ next = IF pc[r] = "save" THEN last[r] ELSE Start
                    /\ MustWrite(r, next) /\ WriteCursor(r, next)
    BY <1>6 DEF Fail
  <2>2. next = Start /\ current[r]
    BY <2>1 DEF WriteCursor
  <2>3. pc[r] # "save"
    BY <2>1, <2>2 DEF MustWrite, ScanInv, RunInv, RunOK
  <2> QED BY <2>1, <2>2, <2>3, WrapKnowsAll DEF MustWrite
<1>7. ~(UNCHANGED vars)
  BY DEF vars
<1> QED BY <1>1, <1>2, <1>3, <1>4, <1>5, <1>6, <1>7 DEF Next, Proceed

\* The cursor returns to the start of the list only when every candidate the
\* pass began with has been tried.
THEOREM PassesAreWhole == Spec => WholePass
<1>1. ScanInv /\ [Next]_vars =>
        [cursor # Start /\ cursor' = Start => opened \ Malformed \subseteq tried]_vars
  BY WholePassStep
<1> QED BY <1>1, ScanInvariant, PTL DEF Spec, WholePass

\* Every reachable state is well typed.
THEOREM ScanTypes == Spec => []TypeOK
BY ScanInvariant, PTL DEF ScanInv
=============================================================================
