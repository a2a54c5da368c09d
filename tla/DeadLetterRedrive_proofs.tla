---------------------- MODULE DeadLetterRedrive_proofs ----------------------
(***************************************************************************)
(* Machine-checked proofs about DeadLetterRedrive for any number of runs   *)
(* and letters: no letter is lost, and an archived letter was posted.      *)
(***************************************************************************)
EXTENDS DeadLetterRedrive, TLAPS

\* What a run knows of the letter at hand when it is about to archive it.
RunKnows ==
  \A r \in Run :
    /\ pc[r] = "copy" => posted[at[r]] > 0
    /\ pc[r] = "delete" => at[r] \in done

\* A run that took an archived letter still finds its copy.
NoSecondPost ==
  \A r \in known :
    pc[r] \in {"idle", "next"} \/ (pc[r] \in {"check", "copy", "delete"} /\ at[r] \in done)

RedriveInv == TypeOK /\ RunKnows /\ NothingLost /\ DoneWasPosted /\ NoSecondPost

\* The invariant is inductive: one step per call of a run.
LEMMA RedriveStep == RedriveInv /\ [Next]_vars => RedriveInv'
<1> SUFFICES ASSUME RedriveInv, [Next]_vars PROVE RedriveInv'
  OBVIOUS
<1> USE RedriveAssumption DEF RedriveInv, TypeOK, RunKnows, NothingLost, DoneWasPosted, NoSecondPost
<1>1. ASSUME NEW l \in Letter, Write(l) PROVE RedriveInv'
  BY <1>1 DEF Write
<1>2. ASSUME NEW r \in Run, List(r) PROVE RedriveInv'
  <2>1. TypeOK'
    BY <1>2 DEF List, Goto, Place
  <2>2. RunKnows'
    BY <1>2 DEF List, Goto
  <2>3. NothingLost' /\ DoneWasPosted' /\ NoSecondPost'
    BY <1>2 DEF List, Goto
  <2> QED BY <2>1, <2>2, <2>3
<1>3. ASSUME NEW r \in Run, Take(r) PROVE RedriveInv'
  <2>1. TypeOK'
    BY <1>3 DEF Take, Goto, Place
  <2>2. RunKnows'
    BY <1>3 DEF Take, Goto
  <2>3. NothingLost' /\ DoneWasPosted' /\ NoSecondPost'
    BY <1>3 DEF Take, Goto
  <2> QED BY <2>1, <2>2, <2>3
<1>4. ASSUME NEW r \in Run, End(r) PROVE RedriveInv'
  <2>1. TypeOK'
    BY <1>4 DEF End, Goto, Place
  <2>2. RunKnows'
    BY <1>4 DEF End, Goto
  <2>3. NothingLost' /\ DoneWasPosted'
    BY <1>4 DEF End, Goto
  <2>4. /\ known' = known /\ done' = done /\ pc'[r] = "idle"
        /\ \A q \in Run \ {r} : pc'[q] = pc[q] /\ at'[q] = at[q]
    BY <1>4 DEF End, Goto
  <2>5. NoSecondPost'
    <3>1. SUFFICES ASSUME NEW q \in known'
                   PROVE  pc'[q] \in {"idle", "next"} \/ (pc'[q] \in {"check", "copy", "delete"} /\ at'[q] \in done')
      OBVIOUS
    <3>2. q \in known /\ q \in Run
      BY <2>4, <3>1
    <3>3. CASE q = r
      BY <2>4, <3>3
    <3>4. CASE q # r
      <4>1. pc'[q] = pc[q] /\ at'[q] = at[q]
        BY <2>4, <3>2, <3>4
      <4>2. pc[q] \in {"idle", "next"} \/ (pc[q] \in {"check", "copy", "delete"} /\ at[q] \in done)
        BY <3>2
      <4> QED BY <2>4, <4>1, <4>2
    <3> QED BY <3>3, <3>4
  <2> QED BY <2>1, <2>2, <2>3, <2>5
<1>5. ASSUME NEW r \in Run, GiveUp(r) PROVE RedriveInv'
  <2>1. TypeOK'
    BY <1>5 DEF GiveUp, Goto, Place
  <2>2. RunKnows'
    BY <1>5 DEF GiveUp, Goto
  <2>3. NothingLost' /\ DoneWasPosted' /\ NoSecondPost'
    BY <1>5 DEF GiveUp, Goto
  <2> QED BY <2>1, <2>2, <2>3
<1>6. ASSUME NEW r \in Run, Check(r) PROVE RedriveInv'
  <2>1. TypeOK'
    BY <1>6 DEF Check, Goto, Place
  <2>2. RunKnows'
    BY <1>6 DEF Check, Goto
  <2>3. NothingLost' /\ DoneWasPosted' /\ NoSecondPost'
    BY <1>6 DEF Check, Goto
  <2> QED BY <2>1, <2>2, <2>3
<1>7. ASSUME NEW r \in Run, Get(r) PROVE RedriveInv'
  <2>1. TypeOK'
    BY <1>7 DEF Get, Goto, Place
  <2>2. RunKnows'
    BY <1>7 DEF Get, Goto
  <2>3. NothingLost' /\ DoneWasPosted' /\ NoSecondPost'
    BY <1>7 DEF Get, Goto
  <2> QED BY <2>1, <2>2, <2>3
<1>8. ASSUME NEW r \in Run, Post(r) PROVE RedriveInv'
  <2>1. TypeOK'
    BY <1>8 DEF Post, Goto, Posted, Place
  <2>2. RunKnows'
    BY <1>8 DEF Post, Goto, Posted
  <2>3. NothingLost' /\ DoneWasPosted' /\ NoSecondPost'
    BY <1>8 DEF Post, Goto, Posted
  <2> QED BY <2>1, <2>2, <2>3
<1>9. ASSUME NEW r \in Run, Copy(r) PROVE RedriveInv'
  <2>1. TypeOK'
    BY <1>9 DEF Copy, Goto, Place
  <2>2. RunKnows'
    BY <1>9 DEF Copy, Goto
  <2>3. NothingLost' /\ DoneWasPosted' /\ NoSecondPost'
    BY <1>9 DEF Copy, Goto
  <2> QED BY <2>1, <2>2, <2>3
<1>10. ASSUME NEW r \in Run, Delete(r) PROVE RedriveInv'
  <2>1. TypeOK'
    BY <1>10 DEF Delete, Goto, Place
  <2>2. RunKnows'
    BY <1>10 DEF Delete, Goto
  <2>3. NothingLost' /\ DoneWasPosted' /\ NoSecondPost'
    BY <1>10 DEF Delete, Goto
  <2> QED BY <2>1, <2>2, <2>3
<1>11. ASSUME NEW r \in Run, Kill(r) PROVE RedriveInv'
  <2>1. TypeOK'
    BY <1>11 DEF Kill, Goto, Place
  <2>2. RunKnows'
    BY <1>11 DEF Kill, Goto
  <2>3. NothingLost' /\ DoneWasPosted'
    BY <1>11 DEF Kill, Goto
  <2>4. /\ known' = known /\ done' = done /\ pc'[r] = "idle"
        /\ \A q \in Run \ {r} : pc'[q] = pc[q] /\ at'[q] = at[q]
    BY <1>11 DEF Kill, Goto
  <2>5. NoSecondPost'
    <3>1. SUFFICES ASSUME NEW q \in known'
                   PROVE  pc'[q] \in {"idle", "next"} \/ (pc'[q] \in {"check", "copy", "delete"} /\ at'[q] \in done')
      OBVIOUS
    <3>2. q \in known /\ q \in Run
      BY <2>4, <3>1
    <3>3. CASE q = r
      BY <2>4, <3>3
    <3>4. CASE q # r
      <4>1. pc'[q] = pc[q] /\ at'[q] = at[q]
        BY <2>4, <3>2, <3>4
      <4>2. pc[q] \in {"idle", "next"} \/ (pc[q] \in {"check", "copy", "delete"} /\ at[q] \in done)
        BY <3>2
      <4> QED BY <2>4, <4>1, <4>2
    <3> QED BY <3>3, <3>4
  <2> QED BY <2>1, <2>2, <2>3, <2>5
<1>12. CASE UNCHANGED vars
  BY <1>12 DEF vars
<1> QED BY <1>1, <1>2, <1>3, <1>4, <1>5, <1>6, <1>7, <1>8, <1>9, <1>10, <1>11, <1>12 DEF Next

\* The inductive invariant holds in every reachable state.
THEOREM RedriveInvariant == Spec => []RedriveInv
<1>1. Init => RedriveInv
  BY RedriveAssumption DEF Init, RedriveInv, TypeOK, RunKnows, NothingLost, DoneWasPosted, NoSecondPost, Place
<1> QED BY <1>1, RedriveStep, PTL DEF Spec

\* No dead letter is lost.
THEOREM LettersSafe == Spec => []NothingLost
BY RedriveInvariant, PTL DEF RedriveInv

\* What is archived was posted.
THEOREM ArchiveMeansPosted == Spec => []DoneWasPosted
BY RedriveInvariant, PTL DEF RedriveInv

\* No run posts a letter that was archived when the run took it.
THEOREM NoRepost == Spec => []ArchivedNotReposted
<1>1. RedriveInv => ArchivedNotReposted
  BY DEF RedriveInv, NoSecondPost, ArchivedNotReposted
<1> QED BY <1>1, RedriveInvariant, PTL

\* Every reachable state is well typed.
THEOREM RedriveTypes == Spec => []TypeOK
BY RedriveInvariant, PTL DEF RedriveInv
=============================================================================
