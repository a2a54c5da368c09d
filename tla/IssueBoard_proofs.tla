------------------------- MODULE IssueBoard_proofs --------------------------
(* For any set of commands, agents and tokens: the mutex of an issue excludes,*)
(* the ownership fields are changed by their owner alone, a lock is left      *)
(* behind only for a cause, and the issue as seen with its mutex free moves   *)
(* by the single steps of IssuePromise.                                       *)
EXTENDS IssueBoard, TLAPS, FiniteSetTheorems

-----------------------------------------------------------------------------
(* The mutex of an issue excludes, for any set of commands.                   *)
(*                                                                            *)
(* Being inside is not inductive: the swap that let the command in was carried*)
(* out earlier, perhaps before its answer was lost, and others were under way *)
(* all the time.  HoldsOrWaits says what each request in flight can still do: *)
(* an acquire names an UNLOCK, so it cannot succeed over a LOCK, and nobody   *)
(* inside has a request of its own left.                                      *)
\* A command that is inside, or will learn that it may go in, has its LOCK on the
\* ref; every request still under way is one its command may have made there.
HoldsOrWaits ==
  \A c \in Command :
    /\ flight[c] = "acquire" => seen[c].state = "UNLOCK"
    /\ pc[c] = "acquire" => flight[c] # "release"
    /\ pc[c] = "inside" => flight[c] = "none"
    /\ pc[c] = "inside" \/ (pc[c] = "acquire" /\ flight[c] = "applied") => ref = Lock(c)

MutexInv == MutexTypeOK /\ HoldsOrWaits

\* A commit is known by its state and its maker.
LEMMA CommitsDiffer ==
  ASSUME NEW c \in Command, NEW d \in Command
  PROVE  /\ Lock(c) \in Commit /\ Unlock(c) \in Commit /\ Unlock(None) \in Commit
         /\ Lock(c).state = "LOCK" /\ Unlock(c).state = "UNLOCK"
         /\ Lock(c) = Lock(d) => c = d
  BY DEF Lock, Unlock, Commit

LEMMA MutexStarts == MutexInit => MutexInv
  <1> SUFFICES ASSUME MutexInit PROVE MutexInv
      OBVIOUS
  <1>1. MutexTypeOK
      BY DEF MutexInit, MutexTypeOK, Unlock, Commit, Stand, Flight
  <1>2. HoldsOrWaits
      BY DEF MutexInit, HoldsOrWaits
  <1> QED BY <1>1, <1>2 DEF MutexInv

\* A step of one command leaves the ref, the answers and the requests of the others
\* alone unless it carries out a swap: it is enough to look at its own.
LEMMA LocalStep ==
  ASSUME MutexInv, NEW c \in Command, UNCHANGED ref,
         NEW stand \in Stand, NEW request \in Flight, NEW saw \in Commit,
         pc' = [pc EXCEPT ![c] = stand], flight' = [flight EXCEPT ![c] = request],
         seen' = [seen EXCEPT ![c] = saw],
         request = "acquire" => saw.state = "UNLOCK",
         stand = "acquire" => request = "acquire",
         stand = "inside" => request = "none" /\ ref = Lock(c)
  PROVE  MutexInv'
  <1>1. MutexTypeOK'
      BY DEF MutexInv, MutexTypeOK
  <1>2. HoldsOrWaits'
      BY DEF MutexInv, MutexTypeOK, HoldsOrWaits
  <1> QED BY <1>1, <1>2 DEF MutexInv

LEMMA ServeKeeps == ASSUME MutexInv, NEW c \in Command, Serve(c) PROVE MutexInv'
  <1> USE DEF MutexInv, MutexTypeOK
  <1>1. MutexTypeOK'
      BY CommitsDiffer DEF Serve, Flight
  <1>2. CASE flight[c] = "acquire" /\ ref = seen[c]
    <2>1. ref' = Lock(c) /\ flight' = [flight EXCEPT ![c] = "applied"]
          /\ UNCHANGED <<pc, seen>> /\ ref.state = "UNLOCK"
        BY <1>2 DEF Serve, HoldsOrWaits
    <2>2. \A d \in Command : ref # Lock(d)
        BY <2>1, CommitsDiffer
    <2>3. HoldsOrWaits'
        BY <2>1, <2>2, <1>2, CommitsDiffer DEF HoldsOrWaits
    <2> QED BY <1>1, <2>3
  <1>3. CASE flight[c] = "release" /\ ref = Lock(c)
    <2>1. ref' = Unlock(c) /\ flight' = [flight EXCEPT ![c] = "applied"]
          /\ UNCHANGED <<pc, seen>>
        BY <1>3 DEF Serve
    <2>2. pc[c] \notin {"inside", "acquire"}
        BY <1>3 DEF HoldsOrWaits
    <2>3. \A d \in Command : ref = Lock(d) => d = c
        BY <1>3, CommitsDiffer
    <2>4. HoldsOrWaits'
        BY <2>1, <2>2, <2>3 DEF HoldsOrWaits
    <2> QED BY <1>1, <2>4
  <1>4. CASE flight' = [flight EXCEPT ![c] = "refused"] /\ UNCHANGED <<ref, pc, seen>>
    <2>1. flight[c] \in {"acquire", "release"}
        BY DEF Serve
    <2>2. HoldsOrWaits'
        BY <1>4, <2>1 DEF HoldsOrWaits
    <2> QED BY <1>1, <2>2
  <1> QED BY <1>2, <1>3, <1>4 DEF Serve

LEMMA RecoverKeeps == ASSUME MutexInv, NEW c \in Command, Recover(c) PROVE MutexInv'
  <1> USE DEF MutexInv, MutexTypeOK
  <1>1. MutexTypeOK'
      BY CommitsDiffer DEF Recover
  <1>2. \A d \in Command : ref = Lock(d) => d = c
      BY CommitsDiffer DEF Recover
  <1>3. HoldsOrWaits'
      BY <1>2 DEF Recover, HoldsOrWaits
  <1> QED BY <1>1, <1>3

LEMMA MutexKept == MutexInv /\ [MutexNext]_mutexVars => MutexInv'
  <1> SUFFICES ASSUME MutexInv, [MutexNext]_mutexVars PROVE MutexInv'
      OBVIOUS
  <1>1. CASE UNCHANGED mutexVars
      BY <1>1 DEF MutexInv, MutexTypeOK, HoldsOrWaits, mutexVars
  <1>2. ASSUME NEW c \in Command,
               \/ Prepare(c, "begin") \/ Prepare(c, "end") \/ ReadRef(c) \/ Serve(c)
               \/ Acquired(c) \/ Lost(c) \/ Unknown(c)
               \/ Leave(c) \/ Retain(c) \/ Released(c) \/ Crash(c) \/ Recover(c)
        PROVE  MutexInv'
    <2>0. /\ pc \in [Command -> Stand] /\ seen \in [Command -> Commit]
          /\ flight \in [Command -> Flight] /\ ref \in Commit
          /\ seen = [seen EXCEPT ![c] = seen[c]]
          /\ flight = [flight EXCEPT ![c] = flight[c]]
        BY DEF MutexInv, MutexTypeOK
    <2>1. CASE Prepare(c, "begin")
        BY <2>0, <2>1, LocalStep DEF Prepare, Move, Stand, Flight
    <2>2. CASE Prepare(c, "end")
        BY <2>0, <2>2, LocalStep DEF Prepare, Move, Stand, Flight
    <2>3. CASE ReadRef(c)
      <3>1. CASE Move(c, "end", "none") /\ UNCHANGED <<ref, seen>>
          BY <2>0, <3>1, LocalStep DEF Move, Stand, Flight
      <3>2. CASE Move(c, "end", "none") /\ seen' = [seen EXCEPT ![c] = ref] /\ UNCHANGED ref
          BY <2>0, <3>2, LocalStep DEF Move, Stand, Flight
      <3>3. CASE /\ Move(c, "acquire", "acquire") /\ seen' = [seen EXCEPT ![c] = ref]
                 /\ ref.state = "UNLOCK" /\ UNCHANGED ref
          BY <2>0, <3>3, LocalStep DEF Move, Stand, Flight
      <3> QED BY <2>3, <3>1, <3>2, <3>3 DEF ReadRef
    <2>4. CASE Serve(c)
        BY <2>4, ServeKeeps
    <2>5. CASE Acquired(c)
      <3>1. ref = Lock(c) /\ UNCHANGED <<ref, seen>>
          BY <2>5 DEF Acquired, MutexInv, HoldsOrWaits
      <3>2. CASE Move(c, "inside", "none")
          BY <2>0, <3>1, <3>2, LocalStep DEF Move, Stand, Flight
      <3>3. CASE Move(c, "release", "release")
          BY <2>0, <3>1, <3>3, LocalStep DEF Move, Stand, Flight
      <3> QED BY <2>5, <3>2, <3>3 DEF Acquired
    <2>6. CASE Lost(c)
        BY <2>0, <2>6, LocalStep DEF Lost, Move, Stand, Flight
    <2>7. CASE Unknown(c)
        BY <2>0, <2>7 DEF Unknown, Stand, MutexInv, MutexTypeOK, HoldsOrWaits
    <2>8. CASE Leave(c)
        BY <2>0, <2>8, LocalStep DEF Leave, Move, Stand, Flight
    <2>9. CASE Retain(c)
        BY <2>0, <2>9, LocalStep DEF Retain, Move, Stand, Flight
    <2>10. CASE Released(c)
        BY <2>0, <2>10, LocalStep DEF Released, Move, Stand, Flight
    <2>11. CASE Crash(c)
        BY <2>0, <2>11 DEF Crash, Stand, MutexInv, MutexTypeOK, HoldsOrWaits
    <2>12. CASE Recover(c)
        BY <2>12, RecoverKeeps
    <2> QED BY <1>2, <2>1, <2>2, <2>3, <2>4, <2>5, <2>6, <2>7, <2>8, <2>9, <2>10,
                <2>11, <2>12
  <1> QED BY <1>1, <1>2 DEF MutexNext

\* The inductive invariant holds in every reachable state of the mutex.
THEOREM MutexInvariant == MutexSpec => []MutexInv
  <1> QED BY MutexStarts, MutexKept, PTL DEF MutexSpec

\* Type correctness of the mutex, for any set of commands.
THEOREM MutexTypes == MutexSpec => []MutexTypeOK
  <1>1. MutexInv => MutexTypeOK
      BY DEF MutexInv
  <1> QED BY <1>1, MutexInvariant, PTL

\* A command inside the mutex is the one whose LOCK the ref carries, for any set of
\* commands: withIssueMutationLock never runs two callbacks at once, and no answer
\* lost on the way in or out can change that.
THEOREM MutexExcludes == MutexSpec => []InsideHoldsLock
  <1>1. MutexInv => InsideHoldsLock
      BY DEF MutexInv, HoldsOrWaits, InsideHoldsLock
  <1> QED BY <1>1, MutexInvariant, PTL

-----------------------------------------------------------------------------
(* The mutex.  What a command does inside leaves the mutex alone, and what it *)
(* does around it is a step of IssueMutex.                                    *)

LEMMA InsideIsQuiet ==
  ASSUME NEW c \in Command, CommandStep(c) PROVE UNCHANGED mutexVars
  <1>1. CASE ClaimIssue(c)
      BY <1>1 DEF ClaimIssue, Demand, Quiet
  <1>2. CASE CompletePartial(c)
      BY <1>2 DEF CompletePartial, Demand, Decide, Quiet
  <1>3. CASE ParkPartial(c)
      BY <1>3 DEF ParkPartial, Decide, Quiet
  <1>4. CASE Release(c)
      BY <1>4 DEF Release, Demand, Quiet
  <1>5. CASE RestoreRelease(c)
      BY <1>5 DEF RestoreRelease, Demand, Decide, Quiet
  <1>6. CASE Review(c)
      BY <1>6 DEF Review, Demand, Quiet
  <1>7. CASE LookReview(c)
      BY <1>7 DEF LookReview, Demand, Decide, Quiet
  <1>8. CASE Write(c) \/ Fails(c) \/ Refused(c)
      BY <1>8 DEF Write, Fails, Refused
  <1> QED BY <1>1, <1>2, <1>3, <1>4, <1>5, <1>6, <1>7, <1>8 DEF CommandStep

LEMMA AroundIsMutexStep ==
  ASSUME NEW c \in Command, Around(c) \/ Sorted(c) PROVE MutexNext
  <1>1. CASE Preview(c)
      BY <1>1 DEF Preview, MutexNext
  <1>2. CASE Acquire(c)
      BY <1>2 DEF Acquire, MutexNext
  <1>3. CASE GiveBack(c)
      BY <1>3 DEF GiveBack, MutexNext
  <1>4. CASE Stops(c) \/ Serve(c) \/ Released(c) \/ Sorted(c)
      BY <1>4 DEF Stops, Sorted, MutexNext
  <1> QED BY <1>1, <1>2, <1>3, <1>4 DEF Around

LEMMA StepsFollowMutex == [Next]_vars => [MutexNext]_mutexVars
  <1> SUFFICES ASSUME [Next]_vars PROVE [MutexNext]_mutexVars
      OBVIOUS
  <1>1. CASE UNCHANGED vars
      BY <1>1 DEF vars
  <1>2. CASE PrMoves \/ HandMoves
      BY <1>2 DEF PrMoves, HandMoves
  <1>3. ASSUME NEW c \in Command, CommandStep(c) \/ Around(c) \/ Sorted(c)
        PROVE  [MutexNext]_mutexVars
      BY <1>3, InsideIsQuiet, AroundIsMutexStep
  <1> QED BY <1>1, <1>2, <1>3 DEF Next

\* The commands of the board, with their crashes and their operator, use the mutex
\* as IssueMutex says.
THEOREM BoardFollowsMutex == Spec => MutexSpec
  <1>1. Init => MutexInit
      BY DEF Init
  <1> QED BY <1>1, StepsFollowMutex, PTL DEF Spec, MutexSpec

\* At most one command of the board is inside, and the ref carries its LOCK.
THEOREM BoardExcludes == Spec => []InsideHoldsLock
  <1> QED BY BoardFollowsMutex, MutexExcludes, PTL

-----------------------------------------------------------------------------
(* Types.                                                                     *)

Label == State \cup {None}
Place == ClaimPlaces \cup PartPlaces \cup ParkPlaces \cup ReleasePlaces \cup UndoPlaces
           \cup ReviewPlaces \cup LookPlaces \cup {"none", "out", "keep"}
Ownership == [id : Token \cup {None}, branch : Token \cup {None}, pr : Token \cup {None}]
Issue == [open : BOOLEAN, labels : SUBSET Label]
Job == [op : {"none", "claim", "release", "review"}, at : Place,
        token : Token \cup {None}, to : Label, mode : {"plain", "closed", "merged"},
        saw : Issue, snap : Ownership, want : Ownership, prev : Label,
        tried : BOOLEAN, swallowed : BOOLEAN, since : Nat]

\* A record as j, elsewhere.
SameErrand(j, k) == k \in Job /\ k.token = j.token /\ k.snap = j.snap /\ k.want = j.want

\* What a step of a command does to its own record: it moves on, and keeps what it
\* was asked.
Moves(c) == job' = [job EXCEPT ![c] = job'[c]] /\ SameErrand(job[c], job'[c])

Starts == {"none", "claim", "rel read", "rev read"}

LEMMA Places ==
  /\ "out" \in Place /\ "keep" \in Place /\ "part own" \in Place /\ "part park" \in Place
  /\ "look read" \in Place /\ "undo read" \in Place /\ "reserve" \in Place
  /\ "meta" \in Place /\ "claim id" \in Place /\ "recheck" \in Place
  /\ "claim label" \in Place /\ "claim branch" \in Place /\ "verify" \in Place
  /\ "comment" \in Place /\ "part issue" \in Place /\ "part label" \in Place
  /\ "part meta" \in Place /\ "part branch" \in Place /\ "part verify" \in Place
  /\ "part groom" \in Place /\ "part unready" \in Place /\ "part groomed" \in Place
  /\ "part unreadied" \in Place /\ "rel proof" \in Place /\ "rel again" \in Place
  /\ "rel proof 2" \in Place /\ "rel label" \in Place /\ "rel proof 3" \in Place
  /\ "rel field" \in Place /\ "rel proof 4" \in Place /\ "rel verify" \in Place
  /\ "undo confirm" \in Place /\ "undo again" \in Place /\ "undo label" \in Place
  /\ "undo field" \in Place /\ "undo verify" \in Place /\ "rev proof" \in Place
  /\ "rev again" \in Place /\ "rev proof 2" \in Place /\ "rev label" \in Place
  /\ "rev proof 3" \in Place /\ "rev pr" \in Place /\ "rev proof 4" \in Place
  /\ "rev verify" \in Place /\ "look confirm" \in Place /\ "claim" \in Place
  /\ "rel read" \in Place /\ "rev read" \in Place /\ "none" \in Place
  BY DEF Place, ClaimPlaces, PartPlaces, ParkPlaces, ReleasePlaces, UndoPlaces,
         ReviewPlaces, LookPlaces

LEMMA GotoMoves ==
  ASSUME job \in [Command -> Job], NEW c \in Command, NEW place, place \in Place,
         Goto(c, place)
  PROVE  Moves(c) /\ job'[c].at = place
  <1> DEFINE j == job[c]
             k == job'[c]
  <1>1. job' = [job EXCEPT ![c] = k] /\ k = [j EXCEPT !.at = place] /\ j \in Job
      BY DEF Goto
  <1>2. SameErrand(j, k) /\ k.at = place
    <2> HIDE DEF j, k
    <2> QED BY <1>1 DEF Job, SameErrand
  <1> QED BY <1>1, <1>2 DEF Moves

LEMMA RereadMoves ==
  ASSUME job \in [Command -> Job], NEW c \in Command, NEW place, place \in Place,
         issue \in Issue, Reread(c, place)
  PROVE  Moves(c) /\ job'[c].at = place
  <1> DEFINE j == job[c]
             k == job'[c]
  <1>1. job' = [job EXCEPT ![c] = k] /\ k = [j EXCEPT !.at = place, !.saw = issue] /\ j \in Job
      BY DEF Reread
  <1>2. SameErrand(j, k) /\ k.at = place
    <2> HIDE DEF j, k
    <2> QED BY <1>1 DEF Job, SameErrand
  <1> QED BY <1>1, <1>2 DEF Moves

LEMMA TryMoves ==
  ASSUME job \in [Command -> Job], NEW c \in Command, NEW place, place \in Place,
         Try(c, place)
  PROVE  Moves(c) /\ job'[c].at = place
  <1> DEFINE j == job[c]
             k == job'[c]
  <1>1. job' = [job EXCEPT ![c] = k] /\ k = [j EXCEPT !.at = place, !.tried = TRUE] /\ j \in Job
      BY DEF Try
  <1>2. SameErrand(j, k) /\ k.at = place
    <2> HIDE DEF j, k
    <2> QED BY <1>1 DEF Job, SameErrand
  <1> QED BY <1>1, <1>2 DEF Moves

LEMMA EndsMoves ==
  ASSUME job \in [Command -> Job], NEW c \in Command, NEW safe, Ends(c, safe)
  PROVE  Moves(c) /\ job'[c].at \in {"out", "keep"}
  <1>1. Goto(c, "out") \/ Goto(c, "keep")
      BY DEF Ends
  <1> QED BY <1>1, GotoMoves, Places

LEMMA ThrowsTo ==
  ASSUME job \in [Command -> Job], issue \in Issue, NEW c \in Command, Throws(c)
  PROVE  /\ Moves(c)
         /\ \/ job'[c].at \in {"out", "keep", "part own", "part park", "look read"}
            \/ job[c].at \in ReleasePlaces /\ job[c].tried /\ job'[c].at = "undo read"
  <1>1. CASE Goto(c, "part own") \/ Goto(c, "look read") \/ Goto(c, "part park")
      BY <1>1, GotoMoves, Places
  <1>2. CASE job[c].at \in ReleasePlaces /\ job[c].tried /\ Goto(c, "undo read")
      BY <1>2, GotoMoves, Places
  <1>3. CASE Ends(c, FALSE)
      BY <1>3, EndsMoves
  <1>4. CASE Ends(c, TRUE)
      BY <1>4, EndsMoves
  <1>5. CASE job' = [job EXCEPT ![c].at = "part park", ![c].swallowed = TRUE]
    <2> DEFINE j == job[c]
               k == job'[c]
    <2>1. /\ job' = [job EXCEPT ![c] = k] /\ k = [j EXCEPT !.at = "part park", !.swallowed = TRUE]
          /\ j \in Job
        BY <1>5
    <2>2. SameErrand(j, k) /\ k.at = "part park"
      <3> HIDE DEF j, k
      <3> QED BY <2>1, Places DEF Job, SameErrand
    <2> QED BY <2>1, <2>2 DEF Moves
  <1> QED BY <1>1, <1>2, <1>3, <1>4, <1>5 DEF Throws

-----------------------------------------------------------------------------
(* Whose the fields are.                                                      *)

\* The fields of o that are set name t.
NamedBy(o, t) == o.id \in {None, t} /\ o.branch \in {None, t} /\ o.pr \in {None, t}

LEMMA EmptyFields ==
  Empty \in Ownership /\ Empty.id = None /\ Empty.branch = None /\ Empty.pr = None
  BY DEF Empty, Ownership

\* Where a command has seen under the lock that the issue is its token's.
OwnedPlaces == (ReleasePlaces \ {"rel read"}) \cup UndoPlaces \cup (ReviewPlaces \ {"rev read"})

\* A command about to write a field has seen that it is free or its token's.
Held(c) ==
  /\ job[c].at = "claim id" => own = Empty
  /\ job[c].at \in {"claim branch", "part branch"} =>
       NamedBy(own, job[c].token) /\ own.branch = None
  /\ job[c].at \in OwnedPlaces => NamedBy(own, job[c].token)

\* What a command brings along names its token, and it starts at a start.
Errand(c) ==
  /\ job[c].at # "none" => job[c].token \in Token
  /\ NamedBy(job[c].snap, job[c].token) /\ NamedBy(job[c].want, job[c].token)
  /\ pc[c] \in {"begin", "acquire"} => job[c].at \in {"claim", "rel read", "rev read"}
  /\ pc[c] = "inside" => job[c].at # "none"
  /\ job[c].at = "rel read" => ~job[c].tried

BoardInv ==
  /\ issue \in Issue /\ own \in Ownership /\ job \in [Command -> Job] /\ troubles \in Nat
  /\ \E t \in Token : NamedBy(own, t)
  /\ \A c \in Command : Errand(c) /\ (pc[c] = "inside" => Held(c))

\* A step of a command inside: it moves on, and changes the fields only if they are
\* its token's, or free.
Changes(c) ==
  /\ pc[c] = "inside" /\ Moves(c) /\ job'[c].at \notin Starts /\ Held(c)'
  /\ UNCHANGED mutexVars
  /\ issue' \in Issue /\ own' \in Ownership /\ troubles' \in Nat
  /\ \/ own' = own
     \/ /\ job[c].token \in Token
        /\ NamedBy(own, job[c].token) /\ NamedBy(own', job[c].token)

LEMMA ThrowsHeld ==
  ASSUME BoardInv, NEW c \in Command, pc[c] = "inside", Throws(c),
         own' = own \/ NamedBy(own', job[c].token)
  PROVE  Moves(c) /\ job'[c].at \notin Starts /\ Held(c)'
  <1>1. job \in [Command -> Job] /\ issue \in Issue /\ Errand(c) /\ Held(c)
      BY DEF BoardInv
  <1>2. Moves(c) /\ job'[c].token = job[c].token
      BY <1>1, ThrowsTo DEF Moves, SameErrand
  <1>3. CASE job'[c].at \in {"out", "keep", "part own", "part park", "look read"}
      BY <1>2, <1>3
         DEF Held, Starts, OwnedPlaces, ReleasePlaces, UndoPlaces, ReviewPlaces
  <1>4. CASE job[c].at \in ReleasePlaces /\ job[c].tried /\ job'[c].at = "undo read"
    <2>1. NamedBy(own, job[c].token)
        BY <1>1, <1>4 DEF Errand, Held, OwnedPlaces
    <2>2. NamedBy(own', job'[c].token)
        BY <1>2, <2>1
    <2> QED BY <1>2, <1>4, <2>2 DEF Held, Starts
  <1> QED BY <1>1, <1>3, <1>4, ThrowsTo

LEMMA ThrowsReads ==
  ASSUME BoardInv, NEW c \in Command, pc[c] = "inside", Throws(c), Quiet
  PROVE  Changes(c)
  <1>1. UNCHANGED <<mutexVars, own, issue, troubles>>
      BY DEF Quiet
  <1>2. Moves(c) /\ job'[c].at \notin Starts /\ Held(c)'
      BY <1>1, ThrowsHeld
  <1> QED BY <1>1, <1>2 DEF Changes, BoardInv

\* Places where nothing of the fields is known, or needs to be.
FreePlaces == {"reserve", "meta", "recheck", "claim label", "verify", "comment", "part issue",
               "part label", "part meta", "part verify", "part groom", "part unready",
               "part groomed", "part unreadied", "out", "keep", "look confirm"}

LEMMA FreeReads ==
  ASSUME BoardInv, NEW c \in Command, pc[c] = "inside", Quiet,
         NEW place, place \in FreePlaces,
         Goto(c, place) \/ Reread(c, place) \/ Try(c, place)
  PROVE  Changes(c)
  <1>1. job \in [Command -> Job] /\ issue \in Issue
      BY DEF BoardInv
  <1>2. place \in Place
      BY Places DEF FreePlaces
  <1>3. Moves(c) /\ job'[c].at = place
      BY <1>1, <1>2, GotoMoves, RereadMoves, TryMoves
  <1>4. Held(c)' /\ job'[c].at \notin Starts
      BY <1>3 DEF Held, FreePlaces, OwnedPlaces, ReleasePlaces, UndoPlaces, ReviewPlaces, Starts
  <1> QED BY <1>3, <1>4 DEF Changes, Quiet, BoardInv

LEMMA OwnedReads ==
  ASSUME BoardInv, NEW c \in Command, pc[c] = "inside", Quiet,
         NEW place, place \in OwnedPlaces, NamedBy(own, job[c].token),
         Goto(c, place) \/ Reread(c, place) \/ Try(c, place)
  PROVE  Changes(c)
  <1>1. job \in [Command -> Job] /\ issue \in Issue
      BY DEF BoardInv
  <1>2. place \in Place
      BY DEF Place, OwnedPlaces
  <1>3. Moves(c) /\ job'[c].at = place /\ job'[c].token = job[c].token
      BY <1>1, <1>2, GotoMoves, RereadMoves, TryMoves DEF Moves, SameErrand
  <1>4. own' = own /\ NamedBy(own', job'[c].token)
      BY <1>3 DEF Quiet
  <1>5. place \notin {"claim id", "claim branch", "part branch"} /\ place \notin Starts
      BY DEF OwnedPlaces, ReleasePlaces, UndoPlaces, ReviewPlaces, Starts
  <1>6. Held(c)' /\ job'[c].at \notin Starts
      BY <1>3, <1>4, <1>5 DEF Held
  <1> QED BY <1>3, <1>6 DEF Changes, Quiet, BoardInv

-----------------------------------------------------------------------------
(* The reads of the three commands and of their repairs.                      *)

LEMMA ClaimReads == ASSUME BoardInv, NEW c \in Command, ClaimIssue(c) PROVE Changes(c)
  <1>1. /\ pc[c] = "inside" /\ Quiet
        /\ \/ Throws(c)
           \/ Try(c, "reserve") \/ Try(c, "meta") \/ Goto(c, "recheck")
           \/ Reread(c, "claim label") \/ Goto(c, "verify") \/ Goto(c, "comment")
           \/ Goto(c, "out")
           \/ Goto(c, "claim id") /\ Plannable(job[c].token) /\ own.id = None
              /\ job[c].at # "none"
           \/ Goto(c, "claim branch") /\ Plannable(job[c].token)
              /\ own.id = job[c].token /\ own.branch = None /\ job[c].at # "none"
      BY DEF ClaimIssue, Demand, Inside, Ends
  <1>2. job \in [Command -> Job] /\ Errand(c) /\ issue \in Issue
      BY DEF BoardInv
  <1>3. CASE Goto(c, "claim id") /\ Plannable(job[c].token) /\ own.id = None
             /\ job[c].at # "none"
    <2>1. own = Empty
        BY <1>2, <1>3, BoardAssumption DEF Plannable, Errand
    <2>2. Moves(c) /\ job'[c].at = "claim id"
        BY <1>2, <1>3, GotoMoves, Places
    <2>3. own' = own
        BY <1>1 DEF Quiet
    <2>4. Held(c)' /\ job'[c].at \notin Starts
        BY <2>1, <2>2, <2>3
           DEF Held, Starts, OwnedPlaces, ReleasePlaces, UndoPlaces, ReviewPlaces
    <2> QED BY <1>1, <2>2, <2>4 DEF Changes, Quiet, BoardInv
  <1>4. CASE Goto(c, "claim branch") /\ Plannable(job[c].token)
             /\ own.id = job[c].token /\ own.branch = None /\ job[c].at # "none"
    <2>0. own.pr = None
        BY <1>4, EmptyFields DEF Plannable
    <2>1. NamedBy(own, job[c].token)
        BY <1>4, <2>0 DEF NamedBy
    <2>2. Moves(c) /\ job'[c].at = "claim branch" /\ job'[c].token = job[c].token
        BY <1>2, <1>4, GotoMoves, Places DEF Moves, SameErrand
    <2>3. own' = own
        BY <1>1 DEF Quiet
    <2>4. NamedBy(own', job'[c].token) /\ own'.branch = None
        BY <2>1, <2>2, <2>3, <1>4
    <2>5. Held(c)' /\ job'[c].at \notin Starts
        BY <2>2, <2>4
           DEF Held, Starts, OwnedPlaces, ReleasePlaces, UndoPlaces, ReviewPlaces
    <2> QED BY <1>1, <2>2, <2>5 DEF Changes, Quiet, BoardInv
  <1>5. CASE Throws(c)
      BY <1>1, <1>5, ThrowsReads
  <1>6. {"reserve", "meta", "recheck", "claim label", "verify", "comment", "out"} \subseteq FreePlaces
      BY DEF FreePlaces
  <1> QED BY <1>1, <1>3, <1>4, <1>5, <1>6, FreeReads

LEMMA PartReads ==
  ASSUME BoardInv, NEW c \in Command, CompletePartial(c) \/ ParkPartial(c)
  PROVE  Changes(c)
  <1>1. /\ pc[c] = "inside" /\ Quiet
        /\ \/ Throws(c)
           \/ Goto(c, "part issue") \/ Goto(c, "out") \/ Goto(c, "keep")
           \/ Reread(c, "part label") \/ Goto(c, "part meta") \/ Goto(c, "part verify")
           \/ Reread(c, "part groom") \/ Reread(c, "part unready")
           \/ Goto(c, "part branch") /\ Plannable(job[c].token)
              /\ own.id = job[c].token /\ own.branch = None /\ job[c].at # "none"
    <2>1. CASE CompletePartial(c)
        BY <2>1 DEF CompletePartial, Demand, Decide, Inside, Ends
    <2>2. CASE ParkPartial(c)
        BY <2>2 DEF ParkPartial, Decide, Inside, Ends
    <2> QED BY <2>1, <2>2
  <1>2. job \in [Command -> Job] /\ Errand(c) /\ issue \in Issue
      BY DEF BoardInv
  <1>3. CASE Goto(c, "part branch") /\ Plannable(job[c].token)
             /\ own.id = job[c].token /\ own.branch = None /\ job[c].at # "none"
    <2>0. own.pr = None
        BY <1>3, EmptyFields DEF Plannable
    <2>1. NamedBy(own, job[c].token)
        BY <1>3, <2>0 DEF NamedBy
    <2>2. Moves(c) /\ job'[c].at = "part branch" /\ job'[c].token = job[c].token
        BY <1>2, <1>3, GotoMoves, Places DEF Moves, SameErrand
    <2>3. own' = own
        BY <1>1 DEF Quiet
    <2>4. NamedBy(own', job'[c].token) /\ own'.branch = None
        BY <2>1, <2>2, <2>3, <1>3
    <2>5. Held(c)' /\ job'[c].at \notin Starts
        BY <2>2, <2>4
           DEF Held, Starts, OwnedPlaces, ReleasePlaces, UndoPlaces, ReviewPlaces
    <2> QED BY <1>1, <2>2, <2>5 DEF Changes, Quiet, BoardInv
  <1>4. CASE Throws(c)
      BY <1>1, <1>4, ThrowsReads
  <1>5. {"part issue", "out", "keep", "part label", "part meta", "part verify", "part groom",
         "part unready"} \subseteq FreePlaces
      BY DEF FreePlaces
  <1> QED BY <1>1, <1>3, <1>4, <1>5, FreeReads

LEMMA ReleaseReads == ASSUME BoardInv, NEW c \in Command, Release(c) PROVE Changes(c)
  <1>1. /\ pc[c] = "inside" /\ Quiet
        /\ \/ Throws(c) \/ Goto(c, "out")
           \/ /\ own = job[c].snap
              /\ job' = [job EXCEPT ![c].at = "rel proof", ![c].prev = ReleaseState(job[c])]
           \/ /\ job[c].at \in ReleasePlaces \ {"rel read"}
              /\ \/ Goto(c, "rel again") \/ Reread(c, "rel proof 2") \/ Try(c, "rel label")
                 \/ Goto(c, "rel field") \/ Goto(c, "rel verify")
      BY DEF Release, Demand, Inside, Ends, StillOwned, ReleasePlaces
  <1>2. job \in [Command -> Job] /\ Errand(c) /\ Held(c)
      BY <1>1 DEF BoardInv
  <1>3. CASE /\ own = job[c].snap
             /\ job' = [job EXCEPT ![c].at = "rel proof", ![c].prev = ReleaseState(job[c])]
    <2> DEFINE j == job[c]
               k == job'[c]
               prev == ReleaseState(j)
    <2>1. prev \in Label
        BY DEF ReleaseState, Label, State
    <2>2. job' = [job EXCEPT ![c] = k] /\ k = [j EXCEPT !.at = "rel proof", !.prev = prev]
          /\ j \in Job
        BY <1>2, <1>3
    <2>3. SameErrand(j, k) /\ k.at = "rel proof"
      <3> HIDE DEF j, k, prev
      <3> QED BY <2>1, <2>2, Places DEF Job, SameErrand
    <2>4. Moves(c) /\ job'[c].at = "rel proof" /\ job'[c].token = job[c].token
        BY <2>2, <2>3 DEF Moves, SameErrand
    <2>5. NamedBy(own', job'[c].token)
        BY <1>1, <1>2, <1>3, <2>4 DEF Errand, Quiet
    <2>6. Held(c)' /\ job'[c].at \notin Starts
        BY <2>4, <2>5 DEF Held, Starts
    <2> QED BY <1>1, <2>4, <2>6 DEF Changes, Quiet, BoardInv
  <1>4. CASE /\ job[c].at \in ReleasePlaces \ {"rel read"}
             /\ \/ Goto(c, "rel again") \/ Reread(c, "rel proof 2") \/ Try(c, "rel label")
                \/ Goto(c, "rel field") \/ Goto(c, "rel verify")
    <2>1. NamedBy(own, job[c].token)
        BY <1>2, <1>4 DEF Held, OwnedPlaces
    <2>2. {"rel again", "rel proof 2", "rel label", "rel field", "rel verify"} \subseteq OwnedPlaces
        BY DEF OwnedPlaces, ReleasePlaces
    <2> QED BY <1>1, <1>4, <2>1, <2>2, OwnedReads
  <1>5. CASE Throws(c)
      BY <1>1, <1>5, ThrowsReads
  <1>6. CASE Goto(c, "out")
      BY <1>1, <1>6, FreeReads DEF FreePlaces
  <1> QED BY <1>1, <1>3, <1>4, <1>5, <1>6

LEMMA UndoReads == ASSUME BoardInv, NEW c \in Command, RestoreRelease(c) PROVE Changes(c)
  <1>1. /\ pc[c] = "inside" /\ Quiet /\ job[c].at \in UndoPlaces
        /\ \/ Throws(c) \/ Goto(c, "out") \/ Goto(c, "keep")
           \/ Reread(c, "undo confirm") \/ Goto(c, "undo again") \/ Reread(c, "undo label")
      BY DEF RestoreRelease, Demand, Decide, Inside, Ends, UndoPlaces
  <1>2. NamedBy(own, job[c].token)
      BY <1>1 DEF BoardInv, Held, OwnedPlaces
  <1>3. {"undo confirm", "undo again", "undo label"} \subseteq OwnedPlaces
        /\ {"out", "keep"} \subseteq FreePlaces
      BY DEF OwnedPlaces, UndoPlaces, FreePlaces
  <1> QED BY <1>1, <1>2, <1>3, ThrowsReads, FreeReads, OwnedReads

LEMMA ReviewReads == ASSUME BoardInv, NEW c \in Command, Review(c) PROVE Changes(c)
  <1>1. /\ pc[c] = "inside" /\ Quiet
        /\ \/ Throws(c) \/ Goto(c, "out")
           \/ /\ own = job[c].snap \/ job[c].at \in ReviewPlaces \ {"rev read"}
              /\ \/ Goto(c, "rev proof") \/ Goto(c, "rev again") \/ Reread(c, "rev proof 2")
                 \/ Try(c, "rev label") \/ Goto(c, "rev proof 4") \/ Goto(c, "rev pr")
                 \/ Goto(c, "rev verify")
      BY DEF Review, Demand, Inside, Ends, StillOwned, ReviewPlaces
  <1>2. Errand(c) /\ Held(c)
      BY <1>1 DEF BoardInv
  <1>3. CASE /\ own = job[c].snap \/ job[c].at \in ReviewPlaces \ {"rev read"}
             /\ \/ Goto(c, "rev proof") \/ Goto(c, "rev again") \/ Reread(c, "rev proof 2")
                \/ Try(c, "rev label") \/ Goto(c, "rev proof 4") \/ Goto(c, "rev pr")
                \/ Goto(c, "rev verify")
    <2>1. NamedBy(own, job[c].token)
        BY <1>2, <1>3 DEF Held, Errand, OwnedPlaces
    <2>2. {"rev proof", "rev again", "rev proof 2", "rev label", "rev proof 4", "rev pr",
           "rev verify"} \subseteq OwnedPlaces
        BY DEF OwnedPlaces, ReviewPlaces
    <2> QED BY <1>1, <1>3, <2>1, <2>2, OwnedReads
  <1>4. CASE Throws(c)
      BY <1>1, <1>4, ThrowsReads
  <1>5. CASE Goto(c, "out")
      BY <1>1, <1>5, FreeReads DEF FreePlaces
  <1> QED BY <1>1, <1>3, <1>4, <1>5

LEMMA LookReads == ASSUME BoardInv, NEW c \in Command, LookReview(c) PROVE Changes(c)
  <1>1. /\ pc[c] = "inside" /\ Quiet
        /\ Throws(c) \/ Goto(c, "out") \/ Goto(c, "keep") \/ Reread(c, "look confirm")
      BY DEF LookReview, Demand, Decide, Inside, Ends
  <1>2. {"out", "keep", "look confirm"} \subseteq FreePlaces
      BY DEF FreePlaces
  <1> QED BY <1>1, <1>2, ThrowsReads, FreeReads

-----------------------------------------------------------------------------
(* The writes.                                                                *)

LEMMA TowardsKeeps ==
  ASSUME NEW t, NEW goal \in Ownership, own \in Ownership,
         NamedBy(own, t), NamedBy(goal, t)
  PROVE  Towards(goal) \in Ownership /\ NamedBy(Towards(goal), t)
  <1> DEFINE differ == {i \in DOMAIN Field : own[Field[i]] # goal[Field[i]]}
             first  == CHOOSE i \in differ : \A k \in differ : i <= k
  <1>1. CASE differ = {}
      BY <1>1 DEF Towards
  <1>2. CASE differ # {}
    <2>1. differ \subseteq {1, 2, 3}
        BY DEF Field
    <2>2. \E i \in differ : \A k \in differ : i <= k
      <3>1. CASE 1 \in differ
          BY <3>1, <2>1
      <3>2. CASE 1 \notin differ /\ 2 \in differ
          BY <3>2, <2>1
      <3>3. CASE 1 \notin differ /\ 2 \notin differ
          BY <1>2, <3>3, <2>1
      <3> QED BY <3>1, <3>2, <3>3
    <2>3. first \in {1, 2, 3}
        BY <2>1, <2>2
    <2>4. Towards(goal) = [own EXCEPT ![Field[first]] = goal[Field[first]]]
        BY <1>2 DEF Towards
    <2>5. Field[1] = "branch" /\ Field[2] = "pr" /\ Field[3] = "id"
        BY DEF Field
    <2> HIDE DEF differ, first
    <2>6. CASE Towards(goal) = [own EXCEPT !["branch"] = goal["branch"]]
        BY <2>6 DEF Ownership, NamedBy
    <2>7. CASE Towards(goal) = [own EXCEPT !["pr"] = goal["pr"]]
        BY <2>7 DEF Ownership, NamedBy
    <2>8. CASE Towards(goal) = [own EXCEPT !["id"] = goal["id"]]
        BY <2>8 DEF Ownership, NamedBy
    <2> QED BY <2>3, <2>4, <2>5, <2>6, <2>7, <2>8
  <1> QED BY <1>1, <1>2

LEMMA FieldWritten ==
  ASSUME BoardInv, NEW c \in Command, pc[c] = "inside", job[c].at \in FieldWrites
  PROVE  /\ job[c].token \in Token
         /\ NamedBy(own, job[c].token) /\ NamedBy(NextOwn(job[c]), job[c].token)
         /\ NextOwn(job[c]) \in Ownership
  <1> DEFINE j == job[c]
  <1>1. /\ Held(c) /\ Errand(c) /\ own \in Ownership /\ j \in Job
        /\ j.snap \in Ownership /\ j.want \in Ownership
      BY DEF BoardInv, Job
  <1>2. j.token \in Token
      BY <1>1 DEF Errand
  <1>3. NamedBy(own, j.token)
      BY <1>1, EmptyFields
         DEF Held, FieldWrites, OwnedPlaces, ReleasePlaces, UndoPlaces, ReviewPlaces, NamedBy
  <1>4. NamedBy(j.snap, j.token) /\ NamedBy(j.want, j.token) /\ NamedBy(Empty, j.token)
      BY <1>1, EmptyFields DEF Errand, NamedBy
  <1>5. CASE j.at = "claim id"
    <2>1. NextOwn(j) = [own EXCEPT !.id = j.token]
        BY <1>5 DEF NextOwn
    <2> HIDE DEF j
    <2> QED BY <1>1, <1>2, <1>3, <2>1 DEF Ownership, NamedBy, j
  <1>6. CASE j.at \in {"claim branch", "part branch"}
    <2>1. NextOwn(j) = [own EXCEPT !.branch = j.token]
        BY <1>6 DEF NextOwn
    <2> QED BY <1>1, <1>2, <1>3, <2>1 DEF Ownership, NamedBy
  <1>7. CASE j.at = "rel field"
    <2>1. NextOwn(j) = Towards(Empty)
        BY <1>7 DEF NextOwn
    <2> QED BY <1>1, <1>2, <1>3, <1>4, <2>1, TowardsKeeps, EmptyFields
  <1>8. CASE j.at = "undo field"
    <2>1. NextOwn(j) = Towards(j.snap)
        BY <1>8 DEF NextOwn
    <2> QED BY <1>1, <1>2, <1>3, <1>4, <2>1, TowardsKeeps
  <1>9. CASE j.at = "rev pr"
    <2>1. NextOwn(j) = [own EXCEPT !.pr = j.want.pr]
        BY <1>9 DEF NextOwn
    <2>2. j.want.pr \in Token \cup {None} /\ j.want.pr \in {None, j.token}
        BY <1>1, <1>4 DEF Ownership, NamedBy
    <2> QED BY <1>1, <1>2, <1>3, <2>1, <2>2 DEF Ownership, NamedBy
  <1> QED BY <1>2, <1>3, <1>5, <1>6, <1>7, <1>8, <1>9 DEF FieldWrites

LEMMA LabelsWritten ==
  ASSUME issue \in Issue, NEW add, add \subseteq Label, NEW drop
  PROVE  Relabel(add, drop) \in Issue
  BY DEF Issue, Relabel

LEMMA LabelsAdded ==
  ASSUME job \in [Command -> Job], NEW c \in Command
  PROVE  Adds(job[c]) \subseteq Label
  <1>1. job[c].to \in Label /\ job[c].prev \in Label
      BY DEF Job
  <1>2. Target(job[c]) \in Label
      BY <1>1 DEF Target, Label, State
  <1> QED BY <1>2 DEF Adds, Added

LEMMA WriteChanges == ASSUME BoardInv, NEW c \in Command, Write(c) PROVE Changes(c)
  <1> DEFINE j    == job[c]
             next == Onward(j, own')
  <1>1. /\ pc[c] = "inside" /\ j.at \in LabelWrites \cup FieldWrites
        /\ UNCHANGED <<mutexVars, troubles>> /\ Goto(c, next)
        /\ \/ issue' = Relabel(Adds(j), Drops(j)) /\ own' = own
           \/ j.at \in FieldWrites /\ own' = NextOwn(j) /\ issue' = issue
      BY DEF Write
  <1>2. job \in [Command -> Job] /\ issue \in Issue /\ own \in Ownership /\ Held(c)
        /\ troubles \in Nat
      BY <1>1 DEF BoardInv
  <1>3. issue' \in Issue
      BY <1>1, <1>2, LabelsWritten, LabelsAdded
  <1>4. own' \in Ownership
        /\ \/ own' = own
           \/ j.token \in Token /\ NamedBy(own, j.token) /\ NamedBy(own', j.token)
      BY <1>1, <1>2, FieldWritten
  <1>5. \/ next \in FreePlaces
        \/ next \in OwnedPlaces /\ j.at \in OwnedPlaces
      BY <1>1, ZenonT(40) DEF Onward, FreePlaces, OwnedPlaces, LabelWrites, FieldWrites,
         ReleasePlaces, UndoPlaces, ReviewPlaces
  <1>6. next \in Place
      BY <1>5, Places DEF FreePlaces, OwnedPlaces, Place
  <1>7. Moves(c) /\ job'[c].at = next /\ job'[c].token = j.token
    <2> HIDE DEF next
    <2> QED BY <1>1, <1>2, <1>6, GotoMoves DEF Moves, SameErrand
  <1>8. j.at \in OwnedPlaces => NamedBy(own', j.token)
      BY <1>2, <1>4 DEF Held
  <1>9. Held(c)' /\ job'[c].at \notin Starts
    <2> HIDE DEF next, j
    <2> QED BY <1>5, <1>7, <1>8
            DEF Held, Starts, FreePlaces, OwnedPlaces, ReleasePlaces, UndoPlaces, ReviewPlaces
  <1> QED BY <1>1, <1>2, <1>3, <1>4, <1>7, <1>9 DEF Changes

LEMMA FailsChanges == ASSUME BoardInv, NEW c \in Command, Fails(c) PROVE Changes(c)
  <1>1. /\ pc[c] = "inside" /\ UNCHANGED mutexVars /\ Throws(c) /\ troubles' = troubles + 1
        /\ \/ UNCHANGED <<issue, own>>
           \/ /\ own' = own
              /\ \E a \in {Adds(job[c]), {}}, d \in {Drops(job[c]), {}} : issue' = Relabel(a, d)
           \/ job[c].at \in FieldWrites /\ own' = NextOwn(job[c]) /\ issue' = issue
      BY DEF Fails, Trouble
  <1>2. job \in [Command -> Job] /\ issue \in Issue /\ own \in Ownership /\ troubles \in Nat
      BY DEF BoardInv
  <1>3. issue' \in Issue
    <2>1. ASSUME NEW a \in {Adds(job[c]), {}}, NEW d, issue' = Relabel(a, d)
          PROVE  issue' \in Issue
      <3>1. a \subseteq Label
          BY <1>2, LabelsAdded
      <3> QED BY <1>2, <2>1, <3>1, LabelsWritten
    <2> QED BY <1>1, <1>2, <2>1
  <1>4. own' \in Ownership
        /\ \/ own' = own
           \/ /\ job[c].token \in Token
              /\ NamedBy(own, job[c].token) /\ NamedBy(own', job[c].token)
      BY <1>1, <1>2, FieldWritten
  <1>5. Moves(c) /\ job'[c].at \notin Starts /\ Held(c)'
      BY <1>1, <1>4, ThrowsHeld
  <1> QED BY <1>1, <1>2, <1>3, <1>4, <1>5 DEF Changes

LEMMA RefusedChanges == ASSUME BoardInv, NEW c \in Command, Refused(c) PROVE Changes(c)
  <1>1. /\ pc[c] = "inside" /\ Goto(c, "keep") /\ UNCHANGED <<mutexVars, issue, own>>
        /\ troubles' = troubles + 1
      BY DEF Refused, Trouble, Ends
  <1>2. job \in [Command -> Job] /\ issue \in Issue /\ own \in Ownership /\ troubles \in Nat
      BY DEF BoardInv
  <1>3. Moves(c) /\ job'[c].at = "keep"
      BY <1>1, <1>2, GotoMoves, Places
  <1>4. Held(c)' /\ job'[c].at \notin Starts
      BY <1>3 DEF Held, Starts, OwnedPlaces, ReleasePlaces, UndoPlaces, ReviewPlaces
  <1> QED BY <1>1, <1>2, <1>3, <1>4 DEF Changes

LEMMA CommandChanges == ASSUME BoardInv, NEW c \in Command, CommandStep(c) PROVE Changes(c)
  BY ClaimReads, PartReads, ReleaseReads, UndoReads, ReviewReads, LookReads, WriteChanges,
     FailsChanges, RefusedChanges DEF CommandStep

\* Nobody else is inside to be disturbed.
LEMMA ChangesKeep ==
  ASSUME BoardInv, MutexInv, NEW c \in Command, Changes(c)
  PROVE  BoardInv' /\ [ByItsToken]_own
  <1>1. /\ pc[c] = "inside" /\ UNCHANGED mutexVars /\ job' = [job EXCEPT ![c] = job'[c]]
        /\ job'[c] \in Job /\ job'[c].token = job[c].token /\ job'[c].snap = job[c].snap
        /\ job'[c].want = job[c].want /\ job'[c].at \notin Starts /\ Held(c)'
      BY DEF Changes, Moves, SameErrand
  <1>2. pc' = pc
      BY <1>1 DEF mutexVars
  <1>3. \A d \in Command : pc[d] = "inside" => d = c
    <2>1. ref = Lock(c) /\ \A d \in Command : pc[d] = "inside" => ref = Lock(d)
        BY <1>1 DEF MutexInv, HoldsOrWaits
    <2> QED BY <2>1, CommitsDiffer
  <1>4. job' \in [Command -> Job] /\ \A d \in Command : d # c => job'[d] = job[d]
      BY <1>1 DEF BoardInv
  <1>5. issue' \in Issue /\ own' \in Ownership /\ troubles' \in Nat
      BY DEF Changes
  <1>6. \E t \in Token : NamedBy(own', t)
      BY DEF Changes, BoardInv
  <1>7. \A d \in Command : Errand(d)'
    <2> SUFFICES ASSUME NEW d \in Command PROVE Errand(d)'
        OBVIOUS
    <2>1. Errand(d) /\ Errand(c)
        BY DEF BoardInv
    <2>2. CASE d = c
        BY <1>1, <1>2, <2>1, <2>2 DEF Errand, Starts
    <2>3. CASE d # c
        BY <1>2, <1>4, <2>1, <2>3 DEF Errand
    <2> QED BY <2>2, <2>3
  <1>8. \A d \in Command : pc'[d] = "inside" => Held(d)'
      BY <1>1, <1>2, <1>3
  <1>9. BoardInv'
      BY <1>4, <1>5, <1>6, <1>7, <1>8 DEF BoardInv
  <1>10. ASSUME job[c].token \in Token, NamedBy(own, job[c].token), NEW f \in DOMAIN own,
                own[f] # None
         PROVE  own[f] = job[c].token
    <2>1. DOMAIN own = {"id", "branch", "pr"}
        BY DEF BoardInv, Ownership
    <2>2. own[f] \in {None, job[c].token}
        BY <1>10, <2>1 DEF NamedBy
    <2> QED BY <1>10, <2>2
  <1>11. own' = own \/ ByItsToken
      BY <1>1, <1>10 DEF Changes, ByItsToken
  <1> QED BY <1>9, <1>11

-----------------------------------------------------------------------------
(* The steps around the mutex.                                                *)

LEMMA OutsideKeeps ==
  ASSUME BoardInv, NEW c \in Command,
         job' = [job EXCEPT ![c] = job'[c]], job'[c] \in Job,
         \A d \in Command \ {c} : pc'[d] = pc[d],
         UNCHANGED <<issue, own>>, troubles' \in Nat,
         Errand(c)', pc'[c] = "inside" => Held(c)'
  PROVE  BoardInv'
  <1>1. job' \in [Command -> Job] /\ \A d \in Command \ {c} : job'[d] = job[d]
      BY DEF BoardInv
  <1>2. \A d \in Command : Errand(d)'
      BY <1>1 DEF BoardInv, Errand
  <1>3. \A d \in Command : pc'[d] = "inside" => Held(d)'
      BY <1>1 DEF BoardInv, Held
  <1> QED BY <1>1, <1>2, <1>3 DEF BoardInv

\* A command that has ended, or stands idle, has no errand.
LEMMA IdleErrand ==
  ASSUME NEW c \in Command, job'[c].at = "none", job'[c].token = None,
         job'[c].snap = Empty, job'[c].want = Empty,
         pc'[c] \notin {"begin", "acquire", "inside"}
  PROVE  Errand(c)'
  BY EmptyFields DEF Errand, NamedBy

LEMMA NoJobs ==
  /\ NoJob \in Job /\ NoJob.at = "none" /\ NoJob.token = None /\ NoJob.snap = Empty
  /\ NoJob.want = Empty
  BY EmptyFields, Places DEF NoJob, Job, Label, State, Issue

LEMMA DoneIdles ==
  ASSUME BoardInv, NEW c \in Command, Done(c) \/ Stranded(c)
  PROVE  /\ job' = [job EXCEPT ![c] = job'[c]] /\ job'[c] \in Job
         /\ job'[c].at = "none" /\ job'[c].token = None
         /\ job'[c].snap = Empty /\ job'[c].want = Empty
  <1>1. job \in [Command -> Job]
      BY DEF BoardInv
  <1>2. CASE Done(c)
      BY <1>1, <1>2, NoJobs DEF Done
  <1>3. CASE Stranded(c)
    <2> DEFINE k == job'[c]
               n == job[c].since
    <2>1. n \in Nat
        BY <1>1 DEF Job
    <2>2. job' = [job EXCEPT ![c] = k] /\ k = [NoJob EXCEPT !.since = n]
        BY <1>1, <1>3 DEF Stranded
    <2>3. k \in Job /\ k.at = "none" /\ k.token = None /\ k.snap = Empty /\ k.want = Empty
      <3> HIDE DEF k, n
      <3> QED BY <2>1, <2>2, NoJobs DEF Job
    <2> QED BY <2>2, <2>3
  <1> QED BY <1>2, <1>3

LEMMA PreviewKeeps == 
  ASSUME BoardInv, MutexInv, NEW c \in Command, Preview(c),
         UNCHANGED <<issue, own, troubles>>
  PROVE  BoardInv'
  <1>1. /\ own \in Ownership /\ job \in [Command -> Job] /\ troubles' \in Nat
        /\ \E t \in Token : NamedBy(own, t)
        /\ pc \in [Command -> Stand]
      BY DEF BoardInv, MutexInv, MutexTypeOK
  <1>2. ASSUME NEW t \in Token, NEW k \in Job, job' = [job EXCEPT ![c] = k],
               Prepare(c, "begin"), k.at \in {"claim", "rel read", "rev read"},
               k.token = t, ~k.tried, NamedBy(k.snap, t), NamedBy(k.want, t)
        PROVE  BoardInv'
    <2>1. job'[c] = k
        BY <1>1, <1>2
    <2>2. pc'[c] # "inside" /\ \A d \in Command \ {c} : pc'[d] = pc[d]
        BY <1>1, <1>2 DEF Prepare, Move
    <2>3. Errand(c)'
        BY <1>2, <2>1, <2>2 DEF Errand
    <2> QED BY <1>1, <1>2, <2>1, <2>2, <2>3, OutsideKeeps
  <1>3. ASSUME NEW t \in Token, own.id = t PROVE NamedBy(own, t)
      BY <1>1, <1>3, BoardAssumption DEF NamedBy
  <1>4. ASSUME NEW t \in Token, Prepare(c, "begin"),
               job' = [job EXCEPT ![c] = [NoJob EXCEPT !.op = "claim", !.at = "claim",
                                                       !.token = t]]
        PROVE  BoardInv'
    <2> DEFINE k == [NoJob EXCEPT !.op = "claim", !.at = "claim", !.token = t]
    <2>1. /\ k \in Job /\ k.at = "claim" /\ k.token = t /\ ~k.tried
          /\ k.snap = Empty /\ k.want = Empty
        BY NoJobs, Places, EmptyFields DEF NoJob, Job
    <2>2. NamedBy(Empty, t)
        BY EmptyFields DEF NamedBy
    <2>3. job' = [job EXCEPT ![c] = k]
        BY <1>4
    <2> HIDE DEF k
    <2> QED BY <1>2, <1>4, <2>1, <2>2, <2>3
  <1>5. ASSUME NEW t \in Token, own.id = t, Prepare(c, "begin"),
               NEW mode \in {"plain", "closed", "merged"}, NEW to \in {"ready", "grooming"},
               job' = [job EXCEPT ![c] = [NoJob EXCEPT !.op = "release",
                         !.at = "rel read", !.token = t, !.mode = mode, !.to = to,
                         !.snap = own]]
        PROVE  BoardInv'
    <2> DEFINE k == [NoJob EXCEPT !.op = "release", !.at = "rel read", !.token = t,
                                  !.mode = mode, !.to = to, !.snap = own]
    <2>1. /\ k \in Job /\ k.at = "rel read" /\ k.token = t /\ ~k.tried
          /\ k.snap = own /\ k.want = Empty
        BY <1>1, NoJobs, Places, EmptyFields DEF NoJob, Job, Label, State
    <2>2. NamedBy(Empty, t) /\ NamedBy(own, t)
        BY <1>3, <1>5, EmptyFields DEF NamedBy
    <2>3. job' = [job EXCEPT ![c] = k]
        BY <1>5
    <2> HIDE DEF k
    <2> QED BY <1>2, <1>5, <2>1, <2>2, <2>3
  <1>6. ASSUME NEW t \in Token, own.id = t, own.branch # None, Prepare(c, "begin"),
               job' = [job EXCEPT ![c] = [NoJob EXCEPT !.op = "review", !.at = "rev read",
                         !.token = t, !.snap = own, !.want = [own EXCEPT !.pr = own.branch]]]
        PROVE  BoardInv'
    <2> DEFINE w == [own EXCEPT !.pr = own.branch]
               k == [NoJob EXCEPT !.op = "review", !.at = "rev read", !.token = t,
                                  !.snap = own, !.want = w]
    <2>1. NamedBy(own, t)
        BY <1>3, <1>6
    <2>2. w \in Ownership /\ NamedBy(w, t)
        BY <1>1, <2>1 DEF Ownership, NamedBy
    <2>3. job' = [job EXCEPT ![c] = k]
        BY <1>6
    <2> HIDE DEF w
    <2>4. /\ k \in Job /\ k.at = "rev read" /\ k.token = t /\ ~k.tried
          /\ k.snap = own /\ k.want = w
        BY <1>1, <2>2, NoJobs, Places, EmptyFields DEF NoJob, Job
    <2> HIDE DEF k
    <2> QED BY <1>2, <1>6, <2>1, <2>2, <2>3, <2>4
  <1>7. CASE Prepare(c, "end") /\ UNCHANGED job
    <2>1. job' = [job EXCEPT ![c] = job'[c]] /\ job'[c] \in Job
        BY <1>1, <1>7
    <2>2. pc'[c] = "end" \/ pc'[c] = pc[c]
        BY <1>7 DEF Prepare, Move
    <2>3. pc[c] = "new" /\ \A d \in Command \ {c} : pc'[d] = pc[d]
        BY <1>7 DEF Prepare, Move
    <2>4. Errand(c)' /\ pc'[c] # "inside"
        BY <1>7, <2>2, <2>3 DEF BoardInv, Errand
    <2> QED BY <1>1, <2>1, <2>3, <2>4, OutsideKeeps
  <1> QED BY <1>4, <1>5, <1>6, <1>7 DEF Preview

\* A command that ends or stops has no errand left.
LEMMA LeavingKeeps ==
  ASSUME BoardInv, NEW c \in Command, Done(c) \/ Stranded(c),
         pc \in [Command -> Stand], NEW stand \in {"end", "stopped", "release"},
         pc' = [pc EXCEPT ![c] = stand],
         UNCHANGED <<issue, own>>, troubles' \in Nat
  PROVE  BoardInv'
  <1>1. /\ job' = [job EXCEPT ![c] = job'[c]] /\ job'[c] \in Job
        /\ job'[c].at = "none" /\ job'[c].token = None
        /\ job'[c].snap = Empty /\ job'[c].want = Empty
      BY DoneIdles
  <1>2. pc'[c] = stand /\ \A d \in Command \ {c} : pc'[d] = pc[d]
      OBVIOUS
  <1>3. Errand(c)'
      BY <1>1, <1>2, IdleErrand
  <1> QED BY <1>1, <1>2, <1>3, OutsideKeeps

LEMMA AcquireKeeps ==
  ASSUME BoardInv, MutexInv, NEW c \in Command, Acquire(c), UNCHANGED <<issue, own>>
  PROVE  BoardInv'
  <1>1. /\ job \in [Command -> Job] /\ troubles \in Nat /\ pc \in [Command -> Stand]
        /\ Errand(c)
      BY DEF BoardInv, MutexInv, MutexTypeOK
  <1>2. troubles' \in Nat
      BY <1>1 DEF Acquire, Trouble
  <1>3. CASE ReadRef(c) /\ job' = [job EXCEPT ![c] = [@ EXCEPT !.since = troubles]]
                /\ pc' = [pc EXCEPT ![c] = "acquire"]
    <2> DEFINE j == job[c]
               k == [j EXCEPT !.since = troubles]
    <2>1. job'[c] = k /\ job' = [job EXCEPT ![c] = k]
        BY <1>1, <1>3
    <2>2. j \in Job /\ pc[c] = "begin" /\ Errand(c)
        BY <1>1, <1>3 DEF ReadRef
    <2>3. /\ k \in Job /\ k.at = j.at /\ k.token = j.token /\ k.snap = j.snap
          /\ k.want = j.want /\ k.tried = j.tried
      <3> HIDE DEF j
      <3> QED BY <1>1, <2>2 DEF Job, j
    <2>4. pc'[c] = "acquire" /\ \A d \in Command \ {c} : pc'[d] = pc[d]
        BY <1>1, <1>3
    <2>5. Errand(c)'
      <3> HIDE DEF k
      <3> QED BY <2>1, <2>2, <2>3, <2>4 DEF Errand
    <2> HIDE DEF k
    <2> QED BY <1>2, <2>1, <2>3, <2>4, <2>5, OutsideKeeps
  <1>4. CASE pc' = [pc EXCEPT ![c] = "end"] /\ Done(c)
      BY <1>1, <1>2, <1>4, LeavingKeeps
  <1>5. CASE pc' = [pc EXCEPT ![c] = "release"] /\ Done(c)
      BY <1>1, <1>2, <1>5, LeavingKeeps
  <1>6. CASE pc[c] = "acquire" /\ pc' = [pc EXCEPT ![c] = "inside"] /\ UNCHANGED job
    <2>1. job' = [job EXCEPT ![c] = job'[c]] /\ job'[c] \in Job /\ job'[c] = job[c]
        BY <1>1, <1>6
    <2>2. pc'[c] = "inside" /\ \A d \in Command \ {c} : pc'[d] = pc[d]
        BY <1>1, <1>6
    <2>3. job'[c].at \in {"claim", "rel read", "rev read"}
        BY <1>1, <1>6, <2>1 DEF Errand
    <2>4. Errand(c)'
        BY <1>1, <1>6, <2>1, <2>2, <2>3 DEF Errand
    <2>5. Held(c)'
        BY <2>3 DEF Held, OwnedPlaces, ReleasePlaces, UndoPlaces, ReviewPlaces
    <2> QED BY <1>2, <2>1, <2>2, <2>4, <2>5, OutsideKeeps
  <1>7. CASE ReadRef(c) /\ job' = [job EXCEPT ![c] = IF pc'[c] = "end" THEN NoJob
                                  ELSE [@ EXCEPT !.since = troubles]]
    <2>1. CASE pc' = [pc EXCEPT ![c] = "end"]
      <3>1. pc'[c] = "end"
          BY <1>1, <2>1
      <3>2. Done(c)
          BY <1>7, <3>1 DEF Done
      <3> QED BY <1>4, <2>1, <3>2
    <2>2. CASE pc' = [pc EXCEPT ![c] = "acquire"]
      <3>1. pc'[c] = "acquire"
          BY <1>1, <2>2
      <3>2. job' = [job EXCEPT ![c] = [@ EXCEPT !.since = troubles]]
          BY <1>7, <3>1
      <3> QED BY <1>3, <1>7, <2>2, <3>2
    <2> QED BY <1>7, <2>1, <2>2 DEF ReadRef, Move
  <1>8. CASE ReadRef(c) /\ pc'[c] = "end" /\ Done(c)
    <2>1. pc' = [pc EXCEPT ![c] = "end"]
        BY <1>1, <1>8 DEF ReadRef, Move
    <2> QED BY <1>4, <1>8, <2>1
  <1>9. CASE Acquired(c) /\ pc'[c] = "inside" /\ UNCHANGED job
    <2>1. pc' = [pc EXCEPT ![c] = "inside"] /\ pc[c] = "acquire"
        BY <1>1, <1>9 DEF Acquired, Move
    <2> QED BY <1>6, <1>9, <2>1
  <1>10. CASE Acquired(c) /\ pc'[c] = "release" /\ Done(c)
    <2>1. pc' = [pc EXCEPT ![c] = "release"]
        BY <1>1, <1>10 DEF Acquired, Move
    <2> QED BY <1>5, <1>10, <2>1
  <1>11. CASE Lost(c) /\ Done(c)
      BY <1>4, <1>11 DEF Lost, Move
  <1> QED BY <1>7, <1>8, <1>9, <1>10, <1>11 DEF Acquire

LEMMA AroundKeeps ==
  ASSUME BoardInv, MutexInv, NEW c \in Command, Around(c) PROVE BoardInv' /\ [ByItsToken]_own
  <1>1. /\ job \in [Command -> Job] /\ troubles \in Nat /\ pc \in [Command -> Stand]
        /\ UNCHANGED <<issue, own>>
      BY DEF Around, BoardInv, MutexInv, MutexTypeOK
  <1>2. CASE Preview(c) /\ UNCHANGED troubles
      BY <1>1, <1>2, PreviewKeeps
  <1>3. CASE Acquire(c)
      BY <1>1, <1>3, AcquireKeeps
  <1>4. CASE GiveBack(c)
    <2>1. (Done(c) \/ Stranded(c)) /\ troubles' \in Nat
        BY <1>1, <1>4 DEF GiveBack, Trouble
    <2>2. pc' = [pc EXCEPT ![c] = "release"] \/ pc' = [pc EXCEPT ![c] = "stopped"]
        BY <1>4 DEF GiveBack, Leave, Retain, Move
    <2> QED BY <1>1, <2>1, <2>2, LeavingKeeps
  <1>5. CASE Stops(c)
    <2>1. Stranded(c) /\ troubles' \in Nat /\ pc' = [pc EXCEPT ![c] = "stopped"]
        BY <1>1, <1>5 DEF Stops, Trouble, Crash, Unknown
    <2> QED BY <1>1, <2>1, LeavingKeeps
  <1>6. CASE (Serve(c) \/ Released(c)) /\ UNCHANGED <<job, troubles>>
    <2>1. job' = [job EXCEPT ![c] = job'[c]] /\ job'[c] \in Job
        BY <1>1, <1>6
    <2>2. /\ \A d \in Command \ {c} : pc'[d] = pc[d]
          /\ pc' = pc \/ pc' = [pc EXCEPT ![c] = "end"]
      <3>1. pc' = pc \/ pc' = [pc EXCEPT ![c] = "end"]
          BY <1>6 DEF Serve, Released, Move
      <3> QED BY <1>1, <3>1
    <2>3. Errand(c) /\ (pc[c] = "inside" => Held(c))
        BY DEF BoardInv
    <2>4. Errand(c)'
        BY <1>1, <1>6, <2>2, <2>3 DEF Errand
    <2>5. pc'[c] = "inside" => Held(c)'
        BY <1>1, <1>6, <2>2, <2>3 DEF Held
    <2> QED BY <1>1, <1>6, <2>1, <2>2, <2>4, <2>5, OutsideKeeps
  <1> QED BY <1>1, <1>2, <1>3, <1>4, <1>5, <1>6 DEF Around

\* An operator unlocks a command that has stopped: nobody is inside.
LEMMA SortedKeeps ==
  ASSUME BoardInv, MutexInv, NEW c \in Command, Sorted(c) PROVE BoardInv' /\ [ByItsToken]_own
  <1>1. /\ pc[c] = "stopped" /\ ref = Lock(c) /\ ref' = Unlock(c)
        /\ UNCHANGED <<pc, job, troubles>>
        /\ \/ UNCHANGED <<issue, own>>
           \/ own' = Empty /\ issue' = [issue EXCEPT !.labels = {"grooming"}]
      BY DEF Sorted, Recover
  <1>2. \A d \in Command : pc[d] # "inside"
    <2>1. ASSUME NEW d \in Command, pc[d] = "inside" PROVE FALSE
      <3>1. ref = Lock(d)
          BY <2>1 DEF MutexInv, HoldsOrWaits
      <3>2. c = d
          BY <1>1, <3>1, CommitsDiffer
      <3> QED BY <1>1, <2>1, <3>2
    <2> QED BY <2>1
  <1>3. issue' \in Issue
      BY <1>1 DEF BoardInv, Issue, Label, State
  <1>4. own' \in Ownership /\ \E t \in Token : NamedBy(own', t)
      BY <1>1, EmptyFields DEF BoardInv, NamedBy
  <1>5. \A d \in Command : Errand(d)'
      BY <1>1 DEF BoardInv, Errand
  <1>6. BoardInv'
      BY <1>1, <1>2, <1>3, <1>4, <1>5 DEF BoardInv
  <1>7. own' = own \/ ByItsToken
      BY <1>1 DEF ByItsToken
  <1> QED BY <1>6, <1>7

LEMMA PeopleKeep ==
  ASSUME BoardInv, PrMoves \/ HandMoves PROVE BoardInv' /\ [ByItsToken]_own
  <1>1. /\ UNCHANGED <<pc, own, job>> /\ troubles' = troubles + 1
      BY DEF PrMoves, HandMoves, mutexVars, Trouble
  <1>2. issue' \in Issue
    <2>1. issue \in Issue
        BY DEF BoardInv
    <2>2. CASE issue' = issue
        BY <2>1, <2>2
    <2>3. ASSUME NEW s \in State,
                 \/ issue' = [issue EXCEPT !.labels = @ \cup {s}]
                 \/ issue' = [issue EXCEPT !.labels = @ \ {s}]
                 \/ issue' = [issue EXCEPT !.labels = {s}]
          PROVE  issue' \in Issue
        BY <2>1, <2>3 DEF Issue, Label
    <2>4. CASE issue' = [issue EXCEPT !.open = ~issue.open]
      <3> DEFINE o == ~issue.open
      <3>1. o \in BOOLEAN /\ issue' = [issue EXCEPT !.open = o]
          BY <2>4
      <3> HIDE DEF o
      <3> QED BY <2>1, <3>1 DEF Issue
    <2> QED BY <2>2, <2>3, <2>4 DEF PrMoves, HandMoves
  <1>3. troubles' \in Nat
      BY <1>1 DEF BoardInv
  <1>4. \A d \in Command : Errand(d)' /\ (pc'[d] = "inside" => Held(d)')
      BY <1>1 DEF BoardInv, Errand, Held
  <1> QED BY <1>1, <1>2, <1>3, <1>4 DEF BoardInv

-----------------------------------------------------------------------------
(* The theorems.                                                              *)

LEMMA BoardStarts == Init => BoardInv
  <1> SUFFICES ASSUME Init PROVE BoardInv
      OBVIOUS
  <1>1. PICK t \in Token :
          /\ \/ \E s \in {"ready", "grooming"} :
                  issue = [open |-> TRUE, labels |-> {s}] /\ own = Empty
             \/ issue = [open |-> TRUE, labels |-> {"active"}] /\ own = Full(t)
             \/ issue = [open |-> TRUE, labels |-> {"review"}] /\ own = InReview(t)
      BY DEF Init, BoardInit
  <1>2. issue \in Issue
    <2>1. PICK s \in State : issue = [open |-> TRUE, labels |-> {s}]
        BY <1>1 DEF State
    <2> QED BY <2>1 DEF Issue, Label
  <1>3. own \in Ownership /\ NamedBy(own, t)
      BY <1>1, EmptyFields DEF Full, InReview, Ownership, NamedBy
  <1>4. job = [c \in Command |-> NoJob] /\ troubles = 0 /\ pc = [c \in Command |-> "new"]
      BY DEF Init, BoardInit, MutexInit
  <1>5. \A c \in Command : Errand(c) /\ pc[c] # "inside"
      BY <1>4, NoJobs, EmptyFields DEF Errand, NamedBy
  <1> QED BY <1>2, <1>3, <1>4, <1>5, NoJobs DEF BoardInv

LEMMA BoardKept == BoardInv /\ MutexInv /\ [Next]_vars => BoardInv' /\ [ByItsToken]_own
  <1> SUFFICES ASSUME BoardInv, MutexInv, [Next]_vars PROVE BoardInv' /\ [ByItsToken]_own
      OBVIOUS
  <1>1. CASE UNCHANGED vars
      BY <1>1 DEF vars, boardVars, mutexVars, BoardInv, Errand, Held
  <1>2. CASE PrMoves \/ HandMoves
      BY <1>2, PeopleKeep
  <1>3. ASSUME NEW c \in Command, CommandStep(c) PROVE BoardInv' /\ [ByItsToken]_own
      BY <1>3, CommandChanges, ChangesKeep
  <1>4. ASSUME NEW c \in Command, Around(c) \/ Sorted(c) PROVE BoardInv' /\ [ByItsToken]_own
      BY <1>4, AroundKeeps, SortedKeeps
  <1> QED BY <1>1, <1>2, <1>3, <1>4 DEF Next

\* The inductive invariant of the board under its mutex: the types, the fields of at
\* most one agent, and what each command inside knows of them before it writes.
THEOREM BoardInvariant == Spec => [](BoardInv /\ MutexInv)
  <1>1. Spec => []MutexInv
      BY BoardFollowsMutex, MutexInvariant, PTL
  <1> QED BY <1>1, BoardStarts, BoardKept, PTL DEF Spec

\* No command ever overwrites or clears the ownership fields of another agent, for
\* any set of commands and agents: what claim, release, review and their repairs
\* write is under the mutex and by the token that is there, an operator apart.
THEOREM OwnersKeepTheirs == Spec => OwnershipIsOwners
  <1> QED BY BoardInvariant, BoardKept, PTL DEF Spec, OwnershipIsOwners
\* What a command took along from its preview.
Briefed(c) ==
  LET j == job[c]
      t == j.token
  IN  /\ pc[c] \in {"begin", "acquire"} => ~j.tried /\ ~j.swallowed
      /\ j.at \in ReleasePlaces \cup UndoPlaces =>
           j.snap.id = t /\ j.snap.branch = t /\ j.to \in {"ready", "grooming"}
      /\ j.at \in ReviewPlaces \cup LookPlaces =>
           j.snap.id = t /\ j.snap.branch = t /\ j.want = InReview(t)

Untried == {"claim", "rel read", "rel proof", "rel again", "rel proof 2",
            "rev read", "rev proof", "rev again", "rev proof 2"}

\* Where a command stands that nothing has gone wrong for since it read the ref.
CalmPlaces == ClaimPlaces \cup ReleasePlaces \cup ReviewPlaces
                \cup {"part own", "part park", "part groom", "part groomed", "out"}

Calm(c) ==
  LET j == job[c]
      t == j.token
  IN  /\ ~j.swallowed /\ j.at \in CalmPlaces
      /\ j.at \in Untried => ~j.tried
      /\ j.at \in {"reserve", "claim id", "recheck", "claim label", "part own", "part park",
                   "part groom"} => Is(issue, "ready")
      /\ j.at \in {"claim label", "part groom", "rel proof 2", "rel label", "rev proof 2",
                   "rev label"} => j.saw = issue
      /\ j.at \in {"recheck", "claim label", "meta", "claim branch"} => own.id = t /\ Plannable(t)
      /\ j.at = "part own" => ~(own.id = t /\ Plannable(t))
      /\ j.at \in {"meta", "claim branch", "verify"} => Is(issue, "active")
      /\ j.at = "verify" => own = Full(t)
      /\ j.at = "part groomed" => Is(issue, "grooming")
      /\ j.at \in {"rel proof 2", "rel label", "rel proof 3", "rev proof 2", "rev label",
                   "rev proof 3", "rev pr"} => own = j.snap
      /\ j.at \in {"rel proof 2", "rel label", "rev proof 2", "rev label"} => issue.open
      /\ j.at \in {"rel label", "rel proof 3", "rel field", "rel proof 4", "rel verify",
                   "rev label", "rev proof 3", "rev pr", "rev proof 4", "rev verify"} => Proof(j)
      /\ j.at \in {"rel proof 3", "rel field", "rel proof 4", "rel verify"} => Is(issue, j.to)
      /\ j.at \in {"rel proof 4", "rel verify"} => own = Empty
      /\ j.at \in {"rev proof 3", "rev pr", "rev proof 4", "rev verify"} => Is(issue, "review")
      /\ j.at \in {"rev proof 4", "rev verify"} => own = j.want

Lucky(c) ==
  /\ Briefed(c) /\ job[c].since <= troubles
  /\ pc[c] = "stopped" => job[c].since < troubles
  /\ pc[c] = "inside" /\ job[c].since = troubles => Calm(c)

CalmInv == \A c \in Command : Lucky(c)

-----------------------------------------------------------------------------
(* The board as the mutex has it.                                            *)

Fr(s)  == byHand \/ Is(kept.issue, s)
Bec(s) == byHand \/ (issue.open = kept.issue.open /\ issue.labels = {s})

Claimable(t) == {Empty, [id |-> t, branch |-> None, pr |-> None], Full(t)}
Mine(t) == own \in Claimable(t) /\ kept.own \in Claimable(t)
Same    == own = kept.own /\ (byHand \/ issue = kept.issue)

Outcome ==
  \/ Same
  \/ \E t \in Token :
       \/ /\ Fr("ready") \/ (Fr("active") /\ kept.own # Empty)
          /\ Mine(t) /\ own = Full(t) /\ Bec("active")
       \/ /\ \/ Fr("ready") /\ (Bec("active") \/ Bec("grooming"))
             \/ Fr("active") /\ Bec("active")
          /\ own = kept.own \/ Mine(t)
       \/ /\ \E p \in State \ {"ready"} : Fr(p)
          /\ kept.own.id = t /\ kept.own.branch = t /\ own = Empty
          /\ Bec("ready") \/ Bec("grooming")
       \/ /\ Fr("active") /\ kept.own.id = t /\ kept.own.branch = t
          /\ Bec("review") /\ own = InReview(t)

\* The labels a claim of a ready issue, or a recovery of an active one, may have left.
ClaimLabels ==
  \/ byHand
  \/ Is(kept.issue, "ready") /\ issue.labels \subseteq {"ready", "active"}
  \/ Is(kept.issue, "active") /\ kept.own # Empty /\ issue.labels = {"active"}
ReadyStill == byHand \/ (Is(kept.issue, "ready") /\ issue.labels = {"ready"})

\* Of a claim: its labels, its fields, and what it saw.
ClaimWhole(c) ==
  LET j == job[c]
      t == j.token
      labels(s) == byHand \/ issue.labels = {s}
      saw(s) == byHand \/ (j.saw = issue /\ issue.labels = {s})
  IN  /\ j.at \in ClaimPlaces \ {"claim"} => j.tried
      /\ j.at \in {"reserve", "claim id", "recheck", "claim label"} => ReadyStill
      /\ j.at = "reserve" => Same
      /\ j.at \in {"claim label", "part label", "part groom"} => saw("ready")
      /\ j.at \in {"claim id", "recheck", "claim label", "meta", "claim branch", "verify", "comment",
                   "part issue", "part label", "part meta", "part branch", "part verify"} => Mine(t)
      /\ j.at \in {"claim branch", "part branch"} => own.id = t
      /\ j.at \in {"meta", "claim branch", "verify", "comment"} => labels("active")
      /\ j.at \in {"meta", "claim branch", "verify", "comment", "part unready", "part unreadied"}
            \cup PartPlaces \cup {"part park"} => ClaimLabels
      /\ j.at = "comment" => own = Full(t)
      /\ j.at \in {"part own", "part park", "part groom", "part groomed", "part unready",
                   "part unreadied"} => own = kept.own \/ Mine(t)
      /\ j.at \in {"part label", "part groom"} => ReadyStill
      /\ j.at = "part groomed" => Fr("ready") /\ labels("grooming")

\* Of a release and its repair.
ReleaseWhole(c) ==
  LET j == job[c]
      labels(s) == byHand \/ issue.labels = {s}
      saw(s) == byHand \/ (j.saw = issue /\ issue.labels = {s})
  IN  /\ j.at \in (ReleasePlaces \ {"rel read"}) \cup (UndoPlaces \ {"undo confirm"}) =>
           kept.own = j.snap /\ j.prev \in {"active", "review", "grooming"} /\ Fr(j.prev)
      /\ j.at \in {"rel label", "rel proof 3", "rel field", "rel proof 4", "rel verify"} => j.tried
      /\ j.at \in {"rel label", "rel proof 3"} => own = j.snap
      /\ j.at = "rel proof 2" => byHand \/ j.saw = issue
      /\ j.at = "rel label" => saw(j.prev)
      /\ j.at \in {"rel proof 3", "rel field", "rel proof 4", "rel verify"} => labels(j.to)
      /\ j.at \in {"rel field", "undo read"} => PartlyCleared(j.snap)
      /\ j.at \in {"rel proof 4", "rel verify"} => own = Empty
      /\ j.at = "undo read" => \/ byHand
                               \/ /\ issue.labels \subseteq {j.prev, j.to}
                                  /\ issue.labels = {j.to} \/ own = j.snap
      /\ j.at \in {"undo again", "undo label"} => labels("ready") /\ j.to = "ready"
      /\ j.at = "undo label" => saw("ready")
      /\ j.at \in {"undo field", "undo verify"} => labels(j.prev)

\* Of a review and its look back.
ReviewWhole(c) ==
  LET j == job[c]
      labels(s) == byHand \/ issue.labels = {s}
      saw(s) == byHand \/ (j.saw = issue /\ issue.labels = {s})
  IN  /\ j.at \in (ReviewPlaces \ {"rev read"}) \cup {"look read"} => kept.own = j.snap /\ Fr("active")
      /\ j.at \in {"rev label", "rev proof 3", "rev pr", "rev proof 4", "rev verify"} => j.tried
      /\ j.at \in {"rev label", "rev proof 3", "rev pr"} => own = j.snap
      /\ j.at = "rev proof 2" => byHand \/ j.saw = issue
      /\ j.at = "rev label" => saw("active")
      /\ j.at \in {"rev proof 3", "rev pr", "rev proof 4", "rev verify"} => labels("review")
      /\ j.at \in {"rev proof 4", "rev verify"} => own = j.want
      /\ j.at = "look read" => own \in {j.snap, j.want}
      /\ j.at = "look read" => byHand \/ issue.labels \subseteq {"active", "review"}

Whole(c) ==
  /\ job[c].at \in Untried => ~job[c].tried /\ Same
  /\ ClaimWhole(c) /\ ReleaseWhole(c) /\ ReviewWhole(c)
  /\ job[c].at \in {"out", "undo confirm", "look confirm"} => Outcome

Watched(c) ==
  /\ pc[c] = "acquire" => Same
  /\ flight[c] = "release" => Outcome
  /\ pc[c] = "inside" => Whole(c)

WholeInv ==
  /\ kept \in [issue : Issue, own : Ownership] /\ byHand \in BOOLEAN
  /\ issue.labels \subseteq State
  /\ ref.state = "UNLOCK" => kept = Board
  /\ ref.state = "LOCK" => byHand \/ issue.open = kept.issue.open
  /\ \A c \in Command : ref = Lock(c) => Watched(c)


-----------------------------------------------------------------------------
(* A turn of a command inside: its record moves on to a place.                *)

Errands(j, k) ==
  /\ k.op = j.op /\ k.mode = j.mode /\ k.to = j.to /\ k.token = j.token
  /\ k.snap = j.snap /\ k.want = j.want /\ k.since = j.since

Turn(c, place) ==
  /\ \A d \in Command \ {c} : job'[d] = job[d]
  /\ Errands(job[c], job'[c]) /\ job'[c].at = place

LEMMA GotoTurns ==
  ASSUME job \in [Command -> Job], NEW c \in Command, NEW place, Goto(c, place)
  PROVE  /\ Turn(c, place)
         /\ job'[c].saw = job[c].saw /\ job'[c].tried = job[c].tried
         /\ job'[c].swallowed = job[c].swallowed /\ job'[c].prev = job[c].prev
  <1> DEFINE j == job[c]
             k == job'[c]
  <1>1. k = [j EXCEPT !.at = place] /\ j \in Job /\ \A d \in Command \ {c} : job'[d] = job[d]
      BY DEF Goto
  <1>2. /\ Errands(j, k) /\ k.at = place
        /\ k.saw = j.saw /\ k.tried = j.tried /\ k.swallowed = j.swallowed /\ k.prev = j.prev
    <2> HIDE DEF j, k
    <2> QED BY <1>1 DEF Job, Errands
  <1> QED BY <1>1, <1>2 DEF Turn

LEMMA RereadTurns ==
  ASSUME job \in [Command -> Job], NEW c \in Command, NEW place, Reread(c, place)
  PROVE  /\ Turn(c, place)
         /\ job'[c].saw = issue /\ job'[c].tried = job[c].tried
         /\ job'[c].swallowed = job[c].swallowed /\ job'[c].prev = job[c].prev
  <1> DEFINE j == job[c]
             k == job'[c]
  <1>1. /\ k = [j EXCEPT !.at = place, !.saw = issue] /\ j \in Job
        /\ \A d \in Command \ {c} : job'[d] = job[d]
      BY DEF Reread
  <1>2. /\ Errands(j, k) /\ k.at = place
        /\ k.saw = issue /\ k.tried = j.tried /\ k.swallowed = j.swallowed /\ k.prev = j.prev
    <2> HIDE DEF j, k
    <2> QED BY <1>1 DEF Job, Errands
  <1> QED BY <1>1, <1>2 DEF Turn

LEMMA TryTurns ==
  ASSUME job \in [Command -> Job], NEW c \in Command, NEW place, Try(c, place)
  PROVE  /\ Turn(c, place)
         /\ job'[c].saw = job[c].saw /\ job'[c].tried
         /\ job'[c].swallowed = job[c].swallowed /\ job'[c].prev = job[c].prev
  <1> DEFINE j == job[c]
             k == job'[c]
  <1>1. /\ k = [j EXCEPT !.at = place, !.tried = TRUE] /\ j \in Job
        /\ \A d \in Command \ {c} : job'[d] = job[d]
      BY DEF Try
  <1>2. /\ Errands(j, k) /\ k.at = place
        /\ k.saw = j.saw /\ k.tried /\ k.swallowed = j.swallowed /\ k.prev = j.prev
    <2> HIDE DEF j, k
    <2> QED BY <1>1 DEF Job, Errands
  <1> QED BY <1>1, <1>2 DEF Turn

LEMMA SwallowTurns ==
  ASSUME job \in [Command -> Job], NEW c \in Command,
         job' = [job EXCEPT ![c].at = "part park", ![c].swallowed = TRUE]
  PROVE  /\ Turn(c, "part park") /\ job'[c].tried = job[c].tried
         /\ job'[c].prev = job[c].prev
  <1> DEFINE j == job[c]
             k == job'[c]
  <1>1. /\ k = [j EXCEPT !.at = "part park", !.swallowed = TRUE] /\ j \in Job
        /\ \A d \in Command \ {c} : job'[d] = job[d]
      OBVIOUS
  <1>2. Errands(j, k) /\ k.at = "part park" /\ k.tried = j.tried /\ k.prev = j.prev
    <2> HIDE DEF j, k
    <2> QED BY <1>1 DEF Job, Errands
  <1> QED BY <1>1, <1>2 DEF Turn

LEMMA PrevTurns ==
  ASSUME job \in [Command -> Job], NEW c \in Command, NEW prev,
         job' = [job EXCEPT ![c].at = "rel proof", ![c].prev = prev]
  PROVE  /\ Turn(c, "rel proof")
         /\ job'[c].saw = job[c].saw /\ job'[c].tried = job[c].tried
         /\ job'[c].swallowed = job[c].swallowed /\ job'[c].prev = prev
  <1> DEFINE j == job[c]
             k == job'[c]
  <1>1. /\ k = [j EXCEPT !.at = "rel proof", !.prev = prev] /\ j \in Job
        /\ \A d \in Command \ {c} : job'[d] = job[d]
      OBVIOUS
  <1>2. /\ Errands(j, k) /\ k.at = "rel proof"
        /\ k.saw = j.saw /\ k.tried = j.tried /\ k.swallowed = j.swallowed /\ k.prev = prev
    <2> HIDE DEF j, k
    <2> QED BY <1>1 DEF Job, Errands
  <1> QED BY <1>1, <1>2 DEF Turn

LEMMA ProofKept ==
  ASSUME NEW c \in Command, Errands(job[c], job'[c]), UNCHANGED prs
  PROVE  Proof(job[c])' <=> Proof(job[c])
  BY DEF Proof, Errands

LEMMA StatesFinite == IsFiniteSet(State)
  <1>1. IsFiniteSet({}) /\ State = ((({} \cup {"ready"}) \cup {"active"}) \cup {"review"}) \cup {"grooming"}
      BY FS_EmptySet DEF State
  <1>2. IsFiniteSet({} \cup {"ready"})
      BY <1>1, FS_AddElement
  <1>3. IsFiniteSet(({} \cup {"ready"}) \cup {"active"})
      BY <1>2, FS_AddElement
  <1>4. IsFiniteSet((({} \cup {"ready"}) \cup {"active"}) \cup {"review"})
      BY <1>3, FS_AddElement
  <1> QED BY <1>1, <1>4, FS_AddElement

\* exactQueueState names a state exactly when the predicates of that state hold.
LEMMA ExactIs ==
  ASSUME NEW i \in Issue, i.labels \subseteq State, NEW s \in State
  PROVE  Exact(i) = s <=> Is(i, s)
  <1>1. IsFiniteSet(i.labels)
      BY StatesFinite, FS_Subset
  <1>2. ASSUME Exact(i) = s PROVE Is(i, s)
    <2>1. i.open /\ Cardinality(i.labels) = 1 /\ s = CHOOSE x \in State : x \in i.labels
        BY <1>2, StateAssumption DEF Exact
    <2>2. PICK x : i.labels = {x}
        BY <1>1, <2>1, FS_Singleton
    <2>3. s \in i.labels
        BY <2>1, <2>2
    <2> QED BY <2>1, <2>2, <2>3 DEF Is
  <1>3. ASSUME Is(i, s) PROVE Exact(i) = s
    <2>1. Cardinality(i.labels) = 1
        BY <1>3, FS_Singleton DEF Is
    <2>2. \A x \in State : x \in i.labels <=> x = s
        BY <1>3 DEF Is
    <2>3. (CHOOSE x \in State : x \in i.labels) = s
        BY <2>2
    <2> QED BY <1>3, <2>1, <2>3 DEF Exact, Is
  <1> QED BY <1>2, <1>3

LEMMA ExactSome ==
  ASSUME NEW i \in Issue, i.labels \subseteq State, Exact(i) # None
  PROVE  \E s \in State : Exact(i) = s /\ Is(i, s)
  <1>1. IsFiniteSet(i.labels)
      BY StatesFinite, FS_Subset
  <1>2. i.open /\ Cardinality(i.labels) = 1
      BY DEF Exact
  <1>3. PICK x : i.labels = {x}
      BY <1>1, <1>2, FS_Singleton
  <1>4. x \in State /\ Is(i, x)
      BY <1>2, <1>3 DEF Is
  <1> QED BY <1>4, ExactIs

-----------------------------------------------------------------------------
(* A command inside keeps what is known of it.                                *)

Turns(c, place) ==
  /\ Turn(c, place) /\ job'[c].saw = job[c].saw /\ job'[c].tried = job[c].tried
  /\ job'[c].swallowed = job[c].swallowed /\ job'[c].prev = job[c].prev

TurnsSeeing(c, place) ==
  /\ Turn(c, place) /\ job'[c].saw = issue /\ job'[c].tried = job[c].tried
  /\ job'[c].swallowed = job[c].swallowed /\ job'[c].prev = job[c].prev

TurnsTrying(c, place) ==
  /\ Turn(c, place) /\ job'[c].saw = job[c].saw /\ job'[c].tried
  /\ job'[c].swallowed = job[c].swallowed /\ job'[c].prev = job[c].prev

LEMMA AnyTurns ==
  ASSUME BoardInv, NEW c \in Command, NEW place
  PROVE  /\ Goto(c, place) => Turns(c, place)
         /\ Reread(c, place) => TurnsSeeing(c, place)
         /\ Try(c, place) => TurnsTrying(c, place)
  BY GotoTurns, RereadTurns, TryTurns DEF BoardInv, Turns, TurnsSeeing, TurnsTrying

\* It stays on its errand, its luck lasts, and it keeps to the mutex's board.
Family(c) ==
  /\ Turn(c, job'[c].at)
  /\ job'[c].at \in ReleasePlaces \cup UndoPlaces => job[c].at \in ReleasePlaces \cup UndoPlaces
  /\ job'[c].at \in ReviewPlaces \cup LookPlaces => job[c].at \in ReviewPlaces \cup LookPlaces

Onwards(c) ==
  /\ Family(c)
  /\ Calm(c) /\ UNCHANGED troubles => Calm(c)'
  /\ Whole(c) => Whole(c)'

\* What a step of a command may rely on.
Ready(c) ==
  /\ BoardInv /\ Briefed(c) /\ pc[c] = "inside" /\ issue.labels \subseteq State
  /\ kept \in [issue : Issue, own : Ownership] /\ byHand \in BOOLEAN
  /\ byHand \/ issue.open = kept.issue.open

LEMMA NothingMoves ==
  ASSUME UNCHANGED <<issue, own, kept, byHand>>
  PROVE  /\ Outcome' = Outcome /\ Same' = Same /\ ClaimLabels' = ClaimLabels
         /\ ReadyStill' = ReadyStill
         /\ \A t : Mine(t)' = Mine(t) /\ Fr(t)' = Fr(t) /\ Plannable(t)' = Plannable(t)
  BY DEF Outcome, Same, ClaimLabels, ReadyStill, Mine, Fr, Bec, Plannable

\* What the fields are that a claim may plan from.
LEMMA PlannedFields ==
  ASSUME own \in Ownership, NEW t \in Token, Plannable(t)
  PROVE  /\ own \in Claimable(t)
         /\ own.id = None => own = Empty
         /\ own.id # None => own # Empty /\ own.id = t
         /\ own.id # None /\ own.branch # None => own = Full(t)
         /\ own.id # None /\ own.branch = None => own = [id |-> t, branch |-> None, pr |-> None]
  BY BoardAssumption DEF Plannable, Claimable, Ownership, Empty, Full

LEMMA TakeOutcome ==
  ASSUME NEW t \in Token, Fr("ready") \/ (Fr("active") /\ kept.own # Empty),
         Mine(t), own = Full(t), Bec("active")
  PROVE  Outcome
  BY DEF Outcome

LEMMA ParkOutcome ==
  ASSUME NEW t \in Token, own = kept.own \/ Mine(t),
         \/ Fr("ready") /\ (Bec("active") \/ Bec("grooming"))
         \/ Fr("active") /\ Bec("active")
  PROVE  Outcome
  BY DEF Outcome

LEMMA GiveOutcome ==
  ASSUME NEW t \in Token, NEW p \in State \ {"ready"}, Fr(p),
         kept.own.id = t, kept.own.branch = t, own = Empty, Bec("ready") \/ Bec("grooming")
  PROVE  Outcome
  BY DEF Outcome

LEMMA ShowOutcome ==
  ASSUME NEW t \in Token, Fr("active"), kept.own.id = t, kept.own.branch = t,
         Bec("review"), own = InReview(t)
  PROVE  Outcome
  BY DEF Outcome

-----------------------------------------------------------------------------
(* Errors.                                                                    *)

\* Where a command without trouble may meet a demand that fails.
Excused(c) ==
  \/ job[c].at \in Untried \cup {"part own"}
  \/ job[c].at = "reserve" /\ ~Plannable(job[c].token)

\* What the catch blocks find, whatever became of the write that failed.
Broken(c) ==
  LET j == job[c]
      t == j.token
  IN  /\ j.at \in (ClaimPlaces \ {"claim"}) \cup PartPlaces =>
           ClaimLabels' /\ (own' = kept.own \/ Mine(t)')
      /\ j.at \in ReleasePlaces \ (Untried \cup {"rel read"}) =>
           /\ PartlyCleared(j.snap)'
           /\ \/ byHand
              \/ /\ issue'.labels \subseteq {j.prev, j.to}
                 /\ issue'.labels = {j.to} \/ own' = j.snap
      /\ j.at \in ReviewPlaces \ (Untried \cup {"rev read"}) =>
           /\ own' \in {j.snap, j.want}
           /\ byHand \/ issue'.labels \subseteq {"active", "review"}
      /\ j.at \in Untried => UNCHANGED <<issue, own>>

LEMMA ThrowsTurns ==
  ASSUME BoardInv, NEW c \in Command, Throws(c)
  PROVE  /\ Turn(c, job'[c].at) /\ job'[c].tried = job[c].tried /\ job'[c].prev = job[c].prev
         /\ job'[c].at = "part park" \/ job'[c].swallowed = job[c].swallowed
         /\ \/ job[c].at \in ClaimPlaces /\ job[c].tried /\ job'[c].at = "part own"
            \/ job[c].at \in ReleasePlaces /\ job[c].tried /\ job'[c].at = "undo read"
            \/ job[c].at \in ReviewPlaces /\ job[c].tried /\ job'[c].at = "look read"
            \/ /\ job[c].at \in PartPlaces /\ job'[c].at = "part park"
               /\ job[c].at # "part branch" => job'[c].swallowed = job[c].swallowed
            \/ job[c].at \in ParkPlaces \cup UndoPlaces \cup LookPlaces /\ job'[c].at = "keep"
            \/ /\ job[c].at \in ClaimPlaces \cup ReleasePlaces \cup ReviewPlaces
               /\ ~job[c].tried /\ job'[c].at = "out"
  <1>1. CASE job[c].at \in ClaimPlaces /\ job[c].tried /\ Goto(c, "part own")
    <2>1. Turns(c, "part own")
        BY <1>1, AnyTurns
    <2> QED BY <1>1, <2>1 DEF Turns, Turn
  <1>2. CASE job[c].at \in ReleasePlaces /\ job[c].tried /\ Goto(c, "undo read")
    <2>1. Turns(c, "undo read")
        BY <1>2, AnyTurns
    <2> QED BY <1>2, <2>1 DEF Turns, Turn
  <1>3. CASE job[c].at \in ReviewPlaces /\ job[c].tried /\ Goto(c, "look read")
    <2>1. Turns(c, "look read")
        BY <1>3, AnyTurns
    <2> QED BY <1>3, <2>1 DEF Turns, Turn
  <1>4. CASE job[c].at \in PartPlaces \ {"part branch"} /\ Goto(c, "part park")
    <2>1. Turns(c, "part park")
        BY <1>4, AnyTurns
    <2> QED BY <1>4, <2>1 DEF Turns, Turn
  <1>5. CASE /\ job[c].at = "part branch"
             /\ job' = [job EXCEPT ![c].at = "part park", ![c].swallowed = TRUE]
    <2>1. Turn(c, "part park") /\ job'[c].tried = job[c].tried /\ job'[c].prev = job[c].prev
        BY <1>5, SwallowTurns DEF BoardInv
    <2>2. job[c].at \in PartPlaces
        BY <1>5 DEF PartPlaces
    <2> QED BY <1>5, <2>1, <2>2 DEF Turn
  <1>6. CASE job[c].at \in ParkPlaces \cup UndoPlaces \cup LookPlaces /\ Goto(c, "keep")
    <2>1. Turns(c, "keep")
        BY <1>6, AnyTurns
    <2> QED BY <1>6, <2>1 DEF Turns, Turn
  <1>7. CASE /\ job[c].at \in ClaimPlaces \cup ReleasePlaces \cup ReviewPlaces /\ ~job[c].tried
             /\ Goto(c, "out")
    <2>1. Turns(c, "out")
        BY <1>7, AnyTurns
    <2> QED BY <1>7, <2>1 DEF Turns, Turn
  <1> QED BY <1>1, <1>2, <1>3, <1>4, <1>5, <1>6, <1>7 DEF Throws, Ends

LEMMA ThrowsFamily ==
  ASSUME BoardInv, NEW c \in Command, Throws(c) PROVE Family(c)
  BY ThrowsTurns
     DEF Family, ClaimPlaces, PartPlaces, ParkPlaces, ReleasePlaces, UndoPlaces, ReviewPlaces,
         LookPlaces

LEMMA ThrowsWhole ==
  ASSUME NEW c \in Command, Ready(c), Throws(c), UNCHANGED <<kept, byHand>>, Whole(c), Broken(c)
  PROVE  Whole(c)'
  <1> DEFINE j == job[c]
             k == job'[c]
             t == j.token
  <1>1. Errands(j, k) /\ k.tried = j.tried /\ k.prev = j.prev
      BY ThrowsTurns DEF Turn, Ready
  <1>2. CASE j.at \in ClaimPlaces /\ j.tried /\ k.at = "part own"
    <2>1. ClaimLabels' /\ (own' = kept'.own \/ Mine(job[c].token)')
      <3>1. ClaimLabels' /\ (own' = kept.own \/ Mine(t)')
          BY <1>2 DEF Broken, Whole, ClaimWhole, ReleaseWhole, ReviewWhole, Untried
      <3>2. t = k.token
          BY <1>1 DEF Errands
      <3> QED BY <3>1, <3>2 DEF Mine
    <2> HIDE DEF k
    <2> QED BY <1>2, <2>1
            DEF k, Whole, ClaimWhole, ReleaseWhole, ReviewWhole, ClaimPlaces, PartPlaces,
                ParkPlaces, ReleasePlaces, UndoPlaces,
                ReviewPlaces, Untried
  <1>3. CASE j.at \in ReleasePlaces /\ j.tried /\ k.at = "undo read"
    <2>1. j.at \in ReleasePlaces \ (Untried \cup {"rel read"})
        BY <1>3 DEF Whole, ClaimWhole, ReleaseWhole, ReviewWhole, Untried
    <2>2. kept.own = j.snap /\ j.prev \in {"active", "review", "grooming"} /\ Fr(j.prev)
        BY <2>1 DEF Whole, ClaimWhole, ReleaseWhole, ReviewWhole
    <2>3. /\ kept'.own = k.snap /\ k.prev \in {"active", "review", "grooming"}
          /\ Fr(job[c].prev)'
        BY <1>1, <2>2 DEF Errands, Fr
    <2>4. /\ PartlyCleared(job[c].snap)'
          /\ \/ byHand'
             \/ /\ issue'.labels \subseteq {k.prev, k.to}
                /\ issue'.labels = {k.to} \/ own' = k.snap
        BY <1>1, <2>1 DEF Broken, Errands
    <2> HIDE DEF k
    <2> QED BY <1>3, <2>3, <2>4
            DEF k, Whole, ClaimWhole, ReleaseWhole, ReviewWhole, ClaimPlaces, PartPlaces,
                ParkPlaces, ReleasePlaces, UndoPlaces,
                ReviewPlaces, Untried
  <1>4. CASE j.at \in ReviewPlaces /\ j.tried /\ k.at = "look read"
    <2>1. j.at \in ReviewPlaces \ (Untried \cup {"rev read"})
        BY <1>4 DEF Whole, ClaimWhole, ReleaseWhole, ReviewWhole, Untried
    <2>2. kept.own = j.snap /\ Fr("active")
        BY <2>1 DEF Whole, ClaimWhole, ReleaseWhole, ReviewWhole
    <2>3. kept'.own = k.snap /\ Fr("active")'
        BY <1>1, <2>2 DEF Errands, Fr
    <2>4. /\ own' \in {k.snap, k.want}
          /\ byHand' \/ issue'.labels \subseteq {"active", "review"}
        BY <1>1, <2>1 DEF Broken, Errands
    <2> HIDE DEF k
    <2> QED BY <1>4, <2>3, <2>4
            DEF k, Whole, ClaimWhole, ReleaseWhole, ReviewWhole, ClaimPlaces, PartPlaces,
                ParkPlaces, ReleasePlaces, UndoPlaces,
                ReviewPlaces, Untried
  <1>5. CASE j.at \in PartPlaces /\ k.at = "part park"
    <2>1. ClaimLabels' /\ (own' = kept'.own \/ Mine(job[c].token)')
      <3>1. ClaimLabels' /\ (own' = kept.own \/ Mine(t)')
          BY <1>5 DEF Broken
      <3>2. t = k.token
          BY <1>1 DEF Errands
      <3> QED BY <3>1, <3>2 DEF Mine
    <2> HIDE DEF k
    <2> QED BY <1>5, <2>1
            DEF k, Whole, ClaimWhole, ReleaseWhole, ReviewWhole, ClaimPlaces, PartPlaces,
                ParkPlaces, ReleasePlaces, UndoPlaces,
                ReviewPlaces, Untried
  <1>6. CASE k.at = "keep"
    <2> HIDE DEF k
    <2> QED BY <1>6
            DEF k, Whole, ClaimWhole, ReleaseWhole, ReviewWhole, ClaimPlaces, PartPlaces,
                ParkPlaces, ReleasePlaces, UndoPlaces,
                ReviewPlaces, Untried
  <1>7. CASE j.at \in ClaimPlaces \cup ReleasePlaces \cup ReviewPlaces /\ ~j.tried /\ k.at = "out"
    <2>1. j.at \in Untried
        BY <1>7 DEF Whole, ClaimWhole, ReleaseWhole, ReviewWhole, ClaimPlaces, ReleasePlaces,
                    ReviewPlaces, Untried
    <2>2. Same /\ UNCHANGED <<issue, own>>
        BY <2>1 DEF Whole, ClaimWhole, ReleaseWhole, ReviewWhole, Broken
    <2>3. Outcome'
        BY <2>2, NothingMoves DEF Outcome
    <2> HIDE DEF k
    <2> QED BY <1>7, <2>3
            DEF k, Whole, ClaimWhole, ReleaseWhole, ReviewWhole, ClaimPlaces, PartPlaces,
                ParkPlaces, ReleasePlaces, UndoPlaces,
                ReviewPlaces, Untried
  <1> QED BY <1>2, <1>3, <1>4, <1>5, <1>6, <1>7, ThrowsTurns DEF Ready

LEMMA ReadsBreakNothing ==
  ASSUME NEW c \in Command, Ready(c), Throws(c), UNCHANGED <<issue, own, kept, byHand>>, Whole(c)
  PROVE  Broken(c)
  <1> DEFINE j == job[c]
             k == job'[c]
             t == j.token
  <1>1. Errands(j, k)
      BY ThrowsTurns DEF Turn, Ready
  <1>2. ASSUME j.at \in (ClaimPlaces \ {"claim"}) \cup PartPlaces
        PROVE  ClaimLabels /\ (own = kept.own \/ Mine(t))
    <2>1. ReadyStill => ClaimLabels
        BY DEF ReadyStill, ClaimLabels
    <2>2. Same => own = kept.own
        BY DEF Same
    <2> QED BY <1>2, <2>1, <2>2 DEF Whole, ClaimWhole, ReleaseWhole, ReviewWhole, ClaimPlaces,
                                    PartPlaces
  <1>3. ASSUME j.at \in (ClaimPlaces \ {"claim"}) \cup PartPlaces
        PROVE  ClaimLabels' /\ (own' = kept.own \/ Mine(t)')
      BY <1>1, <1>2, <1>3, NothingMoves DEF Mine, Errands
  <1>4. ASSUME j.at \in ReleasePlaces \ (Untried \cup {"rel read"})
        PROVE  /\ PartlyCleared(j.snap)'
               /\ \/ byHand
                  \/ /\ issue'.labels \subseteq {j.prev, j.to}
                     /\ issue'.labels = {j.to} \/ own' = j.snap
    <2>1. own = j.snap \/ own = Empty \/ PartlyCleared(j.snap)
        BY <1>4 DEF Whole, ClaimWhole, ReleaseWhole, ReviewWhole, ReleasePlaces, Untried
    <2>2. PartlyCleared(j.snap)
        BY <2>1, EmptyFields DEF PartlyCleared, Empty
    <2>3. PartlyCleared(j.snap)'
        BY <1>1, <2>2 DEF PartlyCleared, Errands
    <2>4. \/ byHand
          \/ issue.labels = {j.prev} /\ own = j.snap
          \/ issue.labels = {j.to}
        BY <1>4 DEF Whole, ClaimWhole, ReleaseWhole, ReviewWhole, ReleasePlaces, Untried
    <2> QED BY <2>3, <2>4
  <1>5. ASSUME j.at \in ReviewPlaces \ (Untried \cup {"rev read"})
        PROVE  own' \in {j.snap, j.want} /\ (byHand \/ issue'.labels \subseteq {"active", "review"})
      BY <1>5 DEF Whole, ClaimWhole, ReleaseWhole, ReviewWhole, ReviewPlaces, Untried
  <1> QED BY <1>3, <1>4, <1>5 DEF Broken

LEMMA ThrowsCalm ==
  ASSUME BoardInv, NEW c \in Command, Throws(c), UNCHANGED <<issue, own, prs>>,
         Calm(c), Excused(c)
  PROVE  Calm(c)'
  <1> DEFINE j == job[c]
             k == job'[c]
  <1>1. Errands(j, k) /\ k.tried = j.tried
      BY ThrowsTurns DEF Turn
  <1>2. CASE j.at \in ClaimPlaces /\ j.tried /\ k.at = "part own"
    <2>1. j.at = "reserve" /\ ~Plannable(j.token) /\ Is(issue, "ready") /\ ~j.swallowed
        BY <1>2 DEF Excused, Calm, Untried, ClaimPlaces
    <2>2. /\ ~k.swallowed /\ ~Plannable(job[c].token)' /\ Is(issue', "ready")
        BY <1>1, <1>2, <2>1, ThrowsTurns DEF Plannable, Errands
    <2> HIDE DEF k
    <2> QED BY <1>2, <2>2
            DEF k, Calm, CalmPlaces, ClaimPlaces, ReleasePlaces, ReviewPlaces, Untried
  <1>3. CASE (j.at \in ReleasePlaces \/ j.at \in ReviewPlaces) /\ j.tried
      BY <1>3 DEF Excused, Calm, ClaimPlaces, ReleasePlaces, ReviewPlaces, Untried
  <1>4. CASE j.at \in PartPlaces /\ k.at = "part park"
    <2>1. j.at = "part own" /\ Is(issue, "ready") /\ ~j.swallowed
        BY <1>4 DEF Excused, Calm, Untried, PartPlaces
    <2>2. ~k.swallowed /\ Is(issue', "ready")
        BY <1>4, <2>1, ThrowsTurns
    <2> HIDE DEF k
    <2> QED BY <1>4, <2>2
            DEF k, Calm, CalmPlaces, ClaimPlaces, ReleasePlaces, ReviewPlaces, Untried
  <1>5. CASE j.at \in ParkPlaces \cup UndoPlaces \cup LookPlaces
      BY <1>5 DEF Excused, Untried, ParkPlaces, UndoPlaces, LookPlaces
  <1>6. CASE k.at = "out"
    <2>1. ~k.swallowed
        BY <1>6, ThrowsTurns DEF Calm
    <2> HIDE DEF k
    <2> QED BY <1>6, <2>1
            DEF k, Calm, CalmPlaces, ClaimPlaces, ReleasePlaces, ReviewPlaces, Untried
  <1> QED BY <1>2, <1>3, <1>4, <1>5, <1>6, ThrowsTurns

LEMMA ThrowsOnwards ==
  ASSUME NEW c \in Command, Ready(c), Throws(c), UNCHANGED <<issue, own, prs, kept, byHand>>,
         Calm(c) => Excused(c)
  PROVE  Onwards(c)
  <1>1. BoardInv
      BY DEF Ready
  <1> QED BY <1>1, ThrowsFamily, ThrowsWhole, ReadsBreakNothing, ThrowsCalm DEF Onwards

-----------------------------------------------------------------------------
(* Ends.                                                                      *)

LEMMA TakeEnds ==
  ASSUME NEW t \in Token, own = Full(t), Mine(t), ClaimLabels,
         byHand \/ issue.labels = {"active"}, byHand \/ issue.open = kept.issue.open
  PROVE  Outcome
  <1>1. Bec("active")
      BY DEF Bec
  <1>2. Fr("ready") \/ (Fr("active") /\ kept.own # Empty)
    <2>1. CASE byHand
        BY <2>1 DEF Fr
    <2>2. CASE Is(kept.issue, "ready")
        BY <2>2 DEF Fr
    <2>3. CASE Is(kept.issue, "active") /\ kept.own # Empty
        BY <2>3 DEF Fr
    <2> QED BY <2>1, <2>2, <2>3 DEF ClaimLabels
  <1> QED BY <1>1, <1>2, TakeOutcome

LEMMA ParkEnds ==
  ASSUME NEW t \in Token, own = kept.own \/ Mine(t), ClaimLabels,
         byHand \/ issue.open = kept.issue.open,
         ~issue.open \/ \E s \in State \ {"ready"} : Is(issue, s)
  PROVE  Outcome
  <1>1. CASE byHand
    <2>1. Fr("active") /\ Bec("active")
        BY <1>1 DEF Fr, Bec
    <2> QED BY <2>1, ParkOutcome
  <1>2. CASE ~byHand
    <2>1. issue.open /\ kept.issue.open /\ issue.labels \subseteq {"ready", "active"}
          /\ (Is(kept.issue, "ready") \/ Is(kept.issue, "active"))
        BY <1>2 DEF ClaimLabels, Is
    <2>2. issue.labels = {"active"}
        BY <2>1 DEF Is
    <2>3. Bec("active") /\ (Fr("ready") \/ Fr("active"))
        BY <2>1, <2>2 DEF Bec, Fr
    <2> QED BY <2>3, ParkOutcome
  <1> QED BY <1>1, <1>2

\* The issue where a failed release found it, or where a person has put it.
LEMMA SameEnds ==
  ASSUME own = kept.own, issue \in Issue, kept.issue \in Issue, NEW s \in State, Fr(s),
         byHand \/ issue.labels = {s}, byHand \/ issue.open = kept.issue.open
  PROVE  Outcome
  <1>1. byHand \/ issue = kept.issue
      BY DEF Issue, Fr, Is
  <1> QED BY <1>1 DEF Outcome, Same

LEMMA GiveEnds ==
  ASSUME NEW t \in Token, NEW p \in State \ {"ready"}, Fr(p), own = Empty,
         kept.own.id = t, kept.own.branch = t, NEW s \in {"ready", "grooming"},
         byHand \/ issue.labels = {s}, byHand \/ issue.open = kept.issue.open
  PROVE  Outcome
  <1>1. Bec(s)
      BY DEF Bec
  <1> QED BY <1>1, GiveOutcome

LEMMA OutWhole ==
  ASSUME NEW c \in Command, job'[c].at \in {"out", "undo confirm", "look confirm"}, Outcome,
         UNCHANGED <<issue, own, kept, byHand>>
  PROVE  Whole(c)'
  <1>1. Outcome'
      BY NothingMoves
  <1> DEFINE k == job'[c]
  <1>2. k.at \in {"out", "undo confirm", "look confirm"}
      OBVIOUS
  <1> HIDE DEF k
  <1> QED BY <1>1, <1>2
          DEF k, Whole, ClaimWhole, ReleaseWhole, ReviewWhole, ClaimPlaces, PartPlaces,
              ParkPlaces, ReleasePlaces, UndoPlaces,
              ReviewPlaces, LookPlaces, Untried

LEMMA ReleaseOpen == ASSUME NEW j, ReleaseState(j) # None PROVE issue.open
  BY DEF ReleaseState, Is

LEMMA ClaimOnwards ==
  ASSUME NEW c \in Command, Ready(c), ClaimIssue(c), UNCHANGED <<kept, byHand>>
  PROVE  Onwards(c)
  <1> USE DEF ClaimPlaces, PartPlaces, ParkPlaces, ReleasePlaces, UndoPlaces, ReviewPlaces,
              LookPlaces, Untried
  <1> DEFINE At(p) == job[c].at = p
             t == job[c].token
  <1>0. /\ t \in Token /\ own \in Ownership
        /\ Plannable(t) => /\ own \in Claimable(t)
                           /\ own.id # None => own # Empty /\ own.id = t
                           /\ own.id # None /\ own.branch # None => own = Full(t)
    <2>1. t \in Token /\ own \in Ownership
        BY DEF Ready, BoardInv, Errand
    <2> QED BY <2>1, PlannedFields
  <1>1. BoardInv /\ UNCHANGED <<issue, own, prs, troubles, kept, byHand>>
        /\ (byHand' <=> byHand)
      BY DEF Ready, ClaimIssue, Demand, Decide, Quiet
  <1>2. CASE At("claim") /\ Is(issue, "ready")
             /\ Try(c, "reserve")
    <2>1. TurnsTrying(c, "reserve")
        BY <1>1, <1>2, AnyTurns
    <2>2. Family(c)
        BY <1>2, <2>1 DEF Family, TurnsTrying, Turn
    <2>3. Calm(c) => Calm(c)'
        BY <1>1, <1>2, <2>1, ProofKept DEF TurnsTrying, Turn, Errands, Calm, CalmPlaces, Is,
                                           Plannable, Empty
    <2>4. Whole(c) => Whole(c)'
        BY <1>1, <1>2, <2>1, NothingMoves DEF TurnsTrying, Turn, Errands, Whole, ClaimWhole,
                                              ReleaseWhole, ReviewWhole, Same, ClaimLabels,
                                              ReadyStill, Mine, Claimable, Fr, Is, Plannable,
                                              Empty, Full
    <2> QED BY <2>2, <2>3, <2>4 DEF Onwards
  <1>3. CASE At("claim") /\ Is(issue, "active") /\ own.id = t /\ Plannable(t)
             /\ Try(c, "meta")
    <2>1. TurnsTrying(c, "meta")
        BY <1>1, <1>3, AnyTurns
    <2>2. Family(c)
        BY <1>3, <2>1 DEF Family, TurnsTrying, Turn
    <2>3. Calm(c) => Calm(c)'
        BY <1>1, <1>3, <2>1, ProofKept, <1>0 DEF TurnsTrying, Turn, Errands, Calm, CalmPlaces,
                                                 Is, Plannable, Empty
    <2>4. Whole(c) => Whole(c)'
      <3>1. own # Empty /\ own \in Claimable(t)
          BY <1>3, <1>0, BoardAssumption
      <3>2. ASSUME Whole(c) PROVE Mine(t) /\ ClaimLabels /\ (byHand \/ issue.labels = {"active"})
          BY <1>3, <3>1, <3>2 DEF Whole, ClaimWhole, Same, Mine, ClaimLabels, Is
      <3> QED BY <1>1, <1>3, <2>1, <3>2, NothingMoves
              DEF TurnsTrying, Turn, Errands, Whole, ClaimWhole, ReleaseWhole, ReviewWhole
    <2> QED BY <2>2, <2>3, <2>4 DEF Onwards
  <1>4. CASE At("reserve") /\ Plannable(t) /\ own.id = None
             /\ Goto(c, "claim id")
    <2>1. Turns(c, "claim id")
        BY <1>1, <1>4, AnyTurns
    <2>2. Family(c)
        BY <1>4, <2>1 DEF Family, Turns, Turn
    <2>3. Calm(c) => Calm(c)'
        BY <1>1, <1>4, <2>1, ProofKept, <1>0 DEF Turns, Turn, Errands, Calm, CalmPlaces, Is,
                                                 Plannable, Empty
    <2>4. Whole(c) => Whole(c)'
        BY <1>1, <1>4, <2>1, NothingMoves, <1>0 DEF Turns, Turn, Errands, Whole, ClaimWhole,
                                                    ReleaseWhole, ReviewWhole, Same,
                                                    ClaimLabels, ReadyStill, Mine, Claimable,
                                                    Fr, Is, Plannable, Empty, Full
    <2> QED BY <2>2, <2>3, <2>4 DEF Onwards
  <1>5. CASE At("reserve") /\ Plannable(t) /\ own.id # None
             /\ Goto(c, "recheck")
    <2>1. Turns(c, "recheck")
        BY <1>1, <1>5, AnyTurns
    <2>2. Family(c)
        BY <1>5, <2>1 DEF Family, Turns, Turn
    <2>3. Calm(c) => Calm(c)'
        BY <1>1, <1>5, <2>1, ProofKept, <1>0 DEF Turns, Turn, Errands, Calm, CalmPlaces, Is,
                                                 Plannable, Empty
    <2>4. Whole(c) => Whole(c)'
        BY <1>1, <1>5, <2>1, NothingMoves, <1>0 DEF Turns, Turn, Errands, Whole, ClaimWhole,
                                                    ReleaseWhole, ReviewWhole, Same,
                                                    ClaimLabels, ReadyStill, Mine, Claimable,
                                                    Fr, Is, Plannable, Empty, Full
    <2> QED BY <2>2, <2>3, <2>4 DEF Onwards
  <1>6. CASE At("recheck") /\ own.id = t /\ Plannable(t) /\ Is(issue, "ready")
             /\ Reread(c, "claim label")
    <2>1. TurnsSeeing(c, "claim label")
        BY <1>1, <1>6, AnyTurns
    <2>2. Family(c)
        BY <1>6, <2>1 DEF Family, TurnsSeeing, Turn
    <2>3. Calm(c) => Calm(c)'
        BY <1>1, <1>6, <2>1, ProofKept, <1>0 DEF TurnsSeeing, Turn, Errands, Calm, CalmPlaces,
                                                 Is, Plannable, Empty
    <2>4. Whole(c) => Whole(c)'
        BY <1>1, <1>6, <2>1, NothingMoves, <1>0 DEF TurnsSeeing, Turn, Errands, Whole,
                                                    ClaimWhole, ReleaseWhole, ReviewWhole, Same,
                                                    ClaimLabels, ReadyStill, Mine, Claimable,
                                                    Fr, Is, Plannable, Empty, Full
    <2> QED BY <2>2, <2>3, <2>4 DEF Onwards
  <1>7. CASE At("meta") /\ own.id = t /\ Plannable(t) /\ own.branch = None
             /\ Goto(c, "claim branch")
    <2>1. Turns(c, "claim branch")
        BY <1>1, <1>7, AnyTurns
    <2>2. Family(c)
        BY <1>7, <2>1 DEF Family, Turns, Turn
    <2>3. Calm(c) => Calm(c)'
        BY <1>1, <1>7, <2>1, ProofKept, <1>0 DEF Turns, Turn, Errands, Calm, CalmPlaces, Is,
                                                 Plannable, Empty
    <2>4. Whole(c) => Whole(c)'
      <3>0. SUFFICES ASSUME Whole(c) PROVE Whole(c)'
          OBVIOUS
      <3> DEFINE k == job'[c]
      <3>1. job[c].tried /\ Mine(t) /\ ClaimLabels /\ (byHand \/ issue.labels = {"active"})
          BY <1>7, <3>0 DEF Whole, ClaimWhole
      <3>2. k.at = "claim branch" /\ own'.id = k.token /\ k.token = t /\ k.tried
          BY <1>1, <1>7, <2>1, <3>1 DEF Turns, Turn, Errands
      <3>3. Mine(job[c].token)' /\ ClaimLabels'
          BY <1>1, <3>1, <3>2, NothingMoves DEF Mine, Claimable, Full
      <3>4. byHand' \/ issue'.labels = {"active"}
          BY <1>1, <3>1
      <3> HIDE DEF k
      <3> QED BY <3>2, <3>3, <3>4
              DEF k, Whole, ClaimWhole, ReleaseWhole, ReviewWhole
    <2> QED BY <2>2, <2>3, <2>4 DEF Onwards
  <1>8. CASE At("meta") /\ own.id = t /\ Plannable(t) /\ own.branch # None
             /\ Goto(c, "verify")
    <2>1. Turns(c, "verify")
        BY <1>1, <1>8, AnyTurns
    <2>2. Family(c)
        BY <1>8, <2>1 DEF Family, Turns, Turn
    <2>3. Calm(c) => Calm(c)'
        BY <1>1, <1>8, <2>1, ProofKept, <1>0 DEF Turns, Turn, Errands, Calm, CalmPlaces, Is,
                                                 Plannable, Empty
    <2>4. Whole(c) => Whole(c)'
        BY <1>1, <1>8, <2>1, NothingMoves, <1>0 DEF Turns, Turn, Errands, Whole, ClaimWhole,
                                                    ReleaseWhole, ReviewWhole, Same,
                                                    ClaimLabels, ReadyStill, Mine, Claimable,
                                                    Fr, Is, Plannable, Empty, Full
    <2> QED BY <2>2, <2>3, <2>4 DEF Onwards
  <1>9. CASE At("verify") /\ own = Full(t) /\ Is(issue, "active")
             /\ Goto(c, "comment")
    <2>1. Turns(c, "comment")
        BY <1>1, <1>9, AnyTurns
    <2>2. Family(c)
        BY <1>9, <2>1 DEF Family, Turns, Turn
    <2>3. Calm(c) => Calm(c)'
        BY <1>1, <1>9, <2>1, ProofKept, <1>0 DEF Turns, Turn, Errands, Calm, CalmPlaces, Is,
                                                 Plannable, Empty
    <2>4. Whole(c) => Whole(c)'
        BY <1>1, <1>9, <2>1, NothingMoves, <1>0 DEF Turns, Turn, Errands, Whole, ClaimWhole,
                                                    ReleaseWhole, ReviewWhole, Same,
                                                    ClaimLabels, ReadyStill, Mine, Claimable,
                                                    Fr, Is, Plannable, Empty, Full
    <2> QED BY <2>2, <2>3, <2>4 DEF Onwards
  <1>10. CASE At("comment")
             /\ Goto(c, "out")
    <2>1. Turns(c, "out")
        BY <1>1, <1>10, AnyTurns
    <2>2. Family(c)
        BY <1>10, <2>1 DEF Family, Turns, Turn
    <2>3. Calm(c) => Calm(c)'
        BY <1>1, <1>10, <2>1, ProofKept DEF Turns, Turn, Errands, Calm, CalmPlaces, Is,
                                            Plannable, Empty
    <2>4. Whole(c) => Whole(c)'
      <3>1. ASSUME Whole(c) PROVE Outcome
        <4>1. /\ Mine(t) /\ own = Full(t) /\ ClaimLabels
              /\ byHand \/ issue.labels = {"active"}
            BY <1>10, <3>1 DEF Whole, ClaimWhole
        <4> QED BY <1>0, <4>1, TakeEnds DEF Ready
      <3> QED BY <1>1, <1>10, <2>1, <3>1, NothingMoves
              DEF Turns, Turn, Errands, Whole, ClaimWhole, ReleaseWhole, ReviewWhole
    <2> QED BY <2>2, <2>3, <2>4 DEF Onwards
  <1>11. CASE Throws(c) /\ (Calm(c) => Excused(c))
      BY <1>1, <1>11, ThrowsOnwards DEF Ready
  <1> QED BY <1>2, <1>3, <1>4, <1>5, <1>6, <1>7, <1>8, <1>9, <1>10, <1>11
          DEF ClaimIssue, Demand, Decide, Inside, Ends, Calm, Excused, Full

LEMMA PartOnwards ==
  ASSUME NEW c \in Command, Ready(c), CompletePartial(c), UNCHANGED <<kept, byHand>>
  PROVE  Onwards(c)
  <1> USE DEF ClaimPlaces, PartPlaces, ParkPlaces, ReleasePlaces, UndoPlaces, ReviewPlaces,
              LookPlaces, Untried
  <1> DEFINE At(p) == job[c].at = p
             t == job[c].token
  <1>0. /\ t \in Token /\ own \in Ownership
        /\ Plannable(t) => /\ own \in Claimable(t)
                           /\ own.id # None => own # Empty /\ own.id = t
                           /\ own.id # None /\ own.branch # None => own = Full(t)
    <2>1. t \in Token /\ own \in Ownership
        BY DEF Ready, BoardInv, Errand
    <2> QED BY <2>1, PlannedFields
  <1>1. BoardInv /\ UNCHANGED <<issue, own, prs, troubles, kept, byHand>>
        /\ (byHand' <=> byHand)
      BY DEF Ready, CompletePartial, Demand, Decide, Quiet
  <1>2. CASE At("part own") /\ own.id = t /\ Plannable(t)
             /\ Goto(c, "part issue")
    <2>1. Turns(c, "part issue")
        BY <1>1, <1>2, AnyTurns
    <2>2. Family(c)
        BY <1>2, <2>1 DEF Family, Turns, Turn
    <2>3. Calm(c) => Calm(c)'
        BY <1>1, <1>2, <2>1, ProofKept DEF Turns, Turn, Errands, Calm, CalmPlaces, Is,
                                           Plannable, Empty
    <2>4. Whole(c) => Whole(c)'
      <3>1. ASSUME Whole(c) PROVE Mine(t) /\ ClaimLabels
          BY <1>0, <1>2, <3>1 DEF Whole, ClaimWhole, Mine
      <3>2. ASSUME Whole(c) PROVE Mine(job[c].token)' /\ ClaimLabels'
          BY <1>1, <2>1, <3>1, <3>2, NothingMoves DEF Mine, Claimable, Full, Turns, Turn, Errands
      <3> DEFINE k == job'[c]
      <3>3. k.at = "part issue"
          BY <2>1 DEF Turns, Turn
      <3> HIDE DEF k
      <3> QED BY <1>1, <3>2, <3>3
              DEF k, Whole, ClaimWhole, ReleaseWhole, ReviewWhole
    <2> QED BY <2>2, <2>3, <2>4 DEF Onwards
  <1>3. CASE At("part issue") /\ ~issue.open
             /\ Goto(c, "out")
    <2>1. Turns(c, "out")
        BY <1>1, <1>3, AnyTurns
    <2>2. Family(c)
        BY <1>3, <2>1 DEF Family, Turns, Turn
    <2>3. Calm(c) => Calm(c)'
        BY <1>1, <1>3, <2>1, ProofKept, <1>0 DEF Turns, Turn, Errands, Calm, CalmPlaces, Is,
                                                 Plannable, Empty
    <2>4. Whole(c) => Whole(c)'
      <3>1. ASSUME Whole(c) PROVE Outcome
        <4>1. Mine(t) /\ byHand
            BY <1>3, <3>1 DEF Whole, ClaimWhole, ClaimLabels, Is, Ready
        <4>2. Fr("active") /\ Bec("active")
            BY <4>1 DEF Fr, Bec
        <4> QED BY <1>0, <4>1, <4>2, ParkOutcome
      <3> QED BY <1>1, <2>1, <3>1, OutWhole DEF Turns, Turn
    <2> QED BY <2>2, <2>3, <2>4 DEF Onwards
  <1>4. CASE At("part issue") /\ Exact(issue) = "ready"
             /\ Reread(c, "part label")
    <2>1. TurnsSeeing(c, "part label")
        BY <1>1, <1>4, AnyTurns
    <2>2. Family(c)
        BY <1>4, <2>1 DEF Family, TurnsSeeing, Turn
    <2>3. Calm(c) => Calm(c)'
        BY <1>1, <1>4, <2>1, ProofKept DEF TurnsSeeing, Turn, Errands, Calm, CalmPlaces, Is,
                                           Plannable, Empty
    <2>4. Whole(c) => Whole(c)'
      <3>0. SUFFICES ASSUME Whole(c) PROVE Whole(c)'
          OBVIOUS
      <3> DEFINE k == job'[c]
      <3>1. Mine(t) /\ ClaimLabels /\ ReadyStill /\ (byHand \/ issue.labels = {"ready"})
        <4>1. Is(issue, "ready")
            BY <1>4, <1>1, ExactIs DEF Ready, BoardInv, State
        <4>2. Mine(t) /\ ClaimLabels
            BY <1>4, <3>0 DEF Whole, ClaimWhole
        <4> QED BY <4>1, <4>2 DEF ClaimLabels, ReadyStill, Is
      <3>2. Mine(job[c].token)' /\ ClaimLabels' /\ ReadyStill'
          BY <1>1, <2>1, <3>1, NothingMoves
             DEF Mine, Claimable, Full, TurnsSeeing, Turn, Errands
      <3>3. k.at = "part label" /\ k.saw = issue'
          BY <1>1, <2>1 DEF TurnsSeeing, Turn
      <3>4. byHand' \/ issue'.labels = {"ready"}
          BY <1>1, <3>1
      <3> HIDE DEF k
      <3> QED BY <3>2, <3>3, <3>4
              DEF k, Whole, ClaimWhole, ReleaseWhole, ReviewWhole
    <2> QED BY <2>2, <2>3, <2>4 DEF Onwards
  <1>5. CASE At("part issue") /\ Exact(issue) = "active"
             /\ Goto(c, "part meta")
    <2>1. Turns(c, "part meta")
        BY <1>1, <1>5, AnyTurns
    <2>2. Family(c)
        BY <1>5, <2>1 DEF Family, Turns, Turn
    <2>3. Calm(c) => Calm(c)'
        BY <1>1, <1>5, <2>1, ProofKept DEF Turns, Turn, Errands, Calm, CalmPlaces, Is,
                                           Plannable, Empty
    <2>4. Whole(c) => Whole(c)'
        BY <1>1, <1>5, <2>1, NothingMoves DEF Turns, Turn, Errands, Whole, ClaimWhole,
                                              ReleaseWhole, ReviewWhole, Same, ClaimLabels,
                                              ReadyStill, Mine, Claimable, Fr, Is, Plannable,
                                              Empty, Full
    <2> QED BY <2>2, <2>3, <2>4 DEF Onwards
  <1>6. CASE At("part meta") /\ own.id = t /\ Plannable(t) /\ own.branch = None
             /\ Goto(c, "part branch")
    <2>1. Turns(c, "part branch")
        BY <1>1, <1>6, AnyTurns
    <2>2. Family(c)
        BY <1>6, <2>1 DEF Family, Turns, Turn
    <2>3. Calm(c) => Calm(c)'
        BY <1>1, <1>6, <2>1, ProofKept, <1>0 DEF Turns, Turn, Errands, Calm, CalmPlaces, Is,
                                                 Plannable, Empty
    <2>4. Whole(c) => Whole(c)'
        BY <1>1, <1>6, <2>1, NothingMoves, <1>0 DEF Turns, Turn, Errands, Whole, ClaimWhole,
                                                    ReleaseWhole, ReviewWhole, Same,
                                                    ClaimLabels, ReadyStill, Mine, Claimable,
                                                    Fr, Is, Plannable, Empty, Full
    <2> QED BY <2>2, <2>3, <2>4 DEF Onwards
  <1>7. CASE At("part meta") /\ own.id = t /\ Plannable(t) /\ own.branch # None
             /\ Goto(c, "part verify")
    <2>1. Turns(c, "part verify")
        BY <1>1, <1>7, AnyTurns
    <2>2. Family(c)
        BY <1>7, <2>1 DEF Family, Turns, Turn
    <2>3. Calm(c) => Calm(c)'
        BY <1>1, <1>7, <2>1, ProofKept, <1>0 DEF Turns, Turn, Errands, Calm, CalmPlaces, Is,
                                                 Plannable, Empty
    <2>4. Whole(c) => Whole(c)'
        BY <1>1, <1>7, <2>1, NothingMoves, <1>0 DEF Turns, Turn, Errands, Whole, ClaimWhole,
                                                    ReleaseWhole, ReviewWhole, Same,
                                                    ClaimLabels, ReadyStill, Mine, Claimable,
                                                    Fr, Is, Plannable, Empty, Full
    <2> QED BY <2>2, <2>3, <2>4 DEF Onwards
  <1>8. CASE At("part verify") /\ own = Full(t) /\ Is(issue, "active")
             /\ Goto(c, "out")
    <2>1. Turns(c, "out")
        BY <1>1, <1>8, AnyTurns
    <2>2. Family(c)
        BY <1>8, <2>1 DEF Family, Turns, Turn
    <2>3. Calm(c) => Calm(c)'
        BY <1>1, <1>8, <2>1, ProofKept, <1>0 DEF Turns, Turn, Errands, Calm, CalmPlaces, Is,
                                                 Plannable, Empty
    <2>4. Whole(c) => Whole(c)'
      <3>1. ASSUME Whole(c) PROVE Outcome
        <4>1. Mine(t) /\ ClaimLabels
            BY <1>8, <3>1 DEF Whole, ClaimWhole
        <4> QED BY <1>0, <1>8, <4>1, TakeEnds DEF Ready, Is
      <3> QED BY <1>1, <2>1, <3>1, OutWhole DEF Turns, Turn
    <2> QED BY <2>2, <2>3, <2>4 DEF Onwards
  <1>9. CASE Throws(c) /\ (Calm(c) => Excused(c))
      BY <1>1, <1>9, ThrowsOnwards DEF Ready
  <1> QED BY <1>2, <1>3, <1>4, <1>5, <1>6, <1>7, <1>8, <1>9
          DEF CompletePartial, Demand, Decide, Inside, Ends, Calm, CalmPlaces, Excused

LEMMA ParkOnwards ==
  ASSUME NEW c \in Command, Ready(c), ParkPartial(c), UNCHANGED <<kept, byHand>>
  PROVE  Onwards(c)
  <1> USE DEF ClaimPlaces, PartPlaces, ParkPlaces, ReleasePlaces, UndoPlaces, ReviewPlaces,
              LookPlaces, Untried
  <1> DEFINE At(p) == job[c].at = p
             t == job[c].token
  <1>0. /\ t \in Token /\ own \in Ownership /\ issue \in Issue /\ kept.issue \in Issue
        /\ \A s \in State : Exact(issue) = s <=> Is(issue, s)
    <2>1. t \in Token /\ own \in Ownership /\ issue \in Issue /\ kept.issue \in Issue
        BY DEF Ready, BoardInv, Errand
    <2> QED BY <2>1, ExactIs DEF Ready
  <1>1. BoardInv /\ UNCHANGED <<issue, own, prs, troubles, kept, byHand>>
        /\ (byHand' <=> byHand)
      BY DEF Ready, ParkPartial, Demand, Decide, Quiet
  <1>2. CASE At("part park") /\ (~issue.open \/ (Exact(issue) # None /\ "ready" \notin issue.labels))
             /\ Goto(c, "out")
    <2>1. Turns(c, "out")
        BY <1>1, <1>2, AnyTurns
    <2>2. Family(c)
        BY <1>2, <2>1 DEF Family, Turns, Turn
    <2>3. Calm(c) => Calm(c)'
        BY <1>1, <1>2, <2>1, ProofKept, <1>0 DEF Turns, Turn, Errands, Calm, CalmPlaces, Is,
                                                 Plannable, Empty
    <2>4. Whole(c) => Whole(c)'
      <3>1. ASSUME Whole(c) PROVE Outcome
        <4>1. ~issue.open \/ \E s \in State \ {"ready"} : Is(issue, s)
            BY <1>2, <1>0, ExactSome, StateAssumption DEF Ready, Is, State
        <4>2. (own = kept.own \/ Mine(t)) /\ ClaimLabels
            BY <1>2, <3>1 DEF Whole, ClaimWhole
        <4> QED BY <1>0, <4>1, <4>2, ParkEnds DEF Ready
      <3> QED BY <1>1, <2>1, <3>1, OutWhole DEF Turns, Turn
    <2> QED BY <2>2, <2>3, <2>4 DEF Onwards
  <1>3. CASE At("part park") /\ issue.open /\ Exact(issue) = None
             /\ Goto(c, "keep")
    <2>1. Turns(c, "keep")
        BY <1>1, <1>3, AnyTurns
    <2>2. Family(c)
        BY <1>3, <2>1 DEF Family, Turns, Turn
    <2>3. Calm(c) => Calm(c)'
        BY <1>1, <1>3, <2>1, ProofKept, <1>0, StateAssumption
           DEF Turns, Turn, Errands, Calm, CalmPlaces, Is, Plannable, Empty, State
    <2>4. Whole(c) => Whole(c)'
        BY <1>1, <1>3, <2>1, NothingMoves DEF Turns, Turn, Errands, Whole, ClaimWhole,
                                              ReleaseWhole, ReviewWhole, Same, ClaimLabels,
                                              ReadyStill, Mine, Claimable, Fr, Is, Plannable,
                                              Empty, Full
    <2> QED BY <2>2, <2>3, <2>4 DEF Onwards
  <1>4. CASE At("part park") /\ Exact(issue) = "ready"
             /\ Reread(c, "part groom")
    <2>1. TurnsSeeing(c, "part groom")
        BY <1>1, <1>4, AnyTurns
    <2>2. Family(c)
        BY <1>4, <2>1 DEF Family, TurnsSeeing, Turn
    <2>3. Calm(c) => Calm(c)'
        BY <1>1, <1>4, <2>1, ProofKept DEF TurnsSeeing, Turn, Errands, Calm, CalmPlaces
    <2>4. Whole(c) => Whole(c)'
      <3>0. SUFFICES ASSUME Whole(c) PROVE Whole(c)'
          OBVIOUS
      <3> DEFINE k == job'[c]
      <3>1. (own = kept.own \/ Mine(t)) /\ ReadyStill /\ (byHand \/ issue.labels = {"ready"})
        <4>1. Is(issue, "ready")
            BY <1>4, <1>0 DEF State
        <4>2. (own = kept.own \/ Mine(t)) /\ ClaimLabels
            BY <1>4, <3>0 DEF Whole, ClaimWhole
        <4> QED BY <4>1, <4>2 DEF ClaimLabels, ReadyStill, Is
      <3>2. k.at = "part groom" /\ k.saw = issue'
          BY <1>1, <2>1, <3>1 DEF TurnsSeeing, Turn, Errands
      <3>3. /\ own' = kept'.own \/ Mine(job[c].token)'
            /\ ReadyStill'
            /\ byHand' \/ issue'.labels = {"ready"}
        <4>1. own' = kept'.own \/ Mine(job[c].token)'
            BY <1>1, <1>4, <2>1, <3>1
               DEF TurnsSeeing, Turn, Errands, Mine, Claimable, Full, Fr, Is, PartlyCleared
        <4>2. ReadyStill'
            BY <1>1, <1>4, <2>1, <3>1, NothingMoves
               DEF TurnsSeeing, Turn, Errands, Mine, Claimable, Full, Fr, Is, PartlyCleared
        <4>3. byHand' \/ issue'.labels = {"ready"}
            BY <1>1, <1>4, <2>1, <3>1
               DEF TurnsSeeing, Turn, Errands, Mine, Claimable, Full, Fr, Is, PartlyCleared
        <4> QED BY <4>1, <4>2, <4>3
      <3> HIDE DEF k
      <3> QED BY <3>2, <3>3
              DEF k, Whole, ClaimWhole, ReleaseWhole, ReviewWhole
    <2> QED BY <2>2, <2>3, <2>4 DEF Onwards
  <1>5. CASE At("part park") /\ Exact(issue) = None /\ issue.open
             /\ Reread(c, "part unready")
    <2>1. TurnsSeeing(c, "part unready")
        BY <1>1, <1>5, AnyTurns
    <2>2. Family(c)
        BY <1>5, <2>1 DEF Family, TurnsSeeing, Turn
    <2>3. Calm(c) => Calm(c)'
        BY <1>1, <1>5, <2>1, ProofKept, <1>0, StateAssumption
           DEF TurnsSeeing, Turn, Errands, Calm, CalmPlaces, Is, Plannable, Empty, State
    <2>4. Whole(c) => Whole(c)'
      <3>0. SUFFICES ASSUME Whole(c) PROVE Whole(c)'
          OBVIOUS
      <3> DEFINE k == job'[c]
      <3>1. (own = kept.own \/ Mine(t)) /\ ClaimLabels
          BY <1>5, <3>0 DEF Whole, ClaimWhole
      <3>2. k.at = "part unready"
          BY <1>1, <2>1, <3>1 DEF TurnsSeeing, Turn, Errands
      <3>3. /\ own' = kept'.own \/ Mine(job[c].token)'
            /\ ClaimLabels'
        <4>1. own' = kept'.own \/ Mine(job[c].token)'
            BY <1>1, <1>5, <2>1, <3>1
               DEF TurnsSeeing, Turn, Errands, Mine, Claimable, Full, Fr, Is, PartlyCleared
        <4>2. ClaimLabels'
            BY <1>1, <1>5, <2>1, <3>1, NothingMoves
               DEF TurnsSeeing, Turn, Errands, Mine, Claimable, Full, Fr, Is, PartlyCleared
        <4> QED BY <4>1, <4>2
      <3> HIDE DEF k
      <3> QED BY <3>2, <3>3
              DEF k, Whole, ClaimWhole, ReleaseWhole, ReviewWhole
    <2> QED BY <2>2, <2>3, <2>4 DEF Onwards
  <1>6. CASE At("part groomed") /\ Exact(issue) = "grooming"
             /\ Goto(c, "out")
    <2>1. Turns(c, "out")
        BY <1>1, <1>6, AnyTurns
    <2>2. Family(c)
        BY <1>6, <2>1 DEF Family, Turns, Turn
    <2>3. Calm(c) => Calm(c)'
        BY <1>1, <1>6, <2>1, ProofKept, <1>0 DEF Turns, Turn, Errands, Calm, CalmPlaces, Is,
                                                 Plannable, Empty
    <2>4. Whole(c) => Whole(c)'
      <3>1. ASSUME Whole(c) PROVE Outcome
        <4>1. /\ own = kept.own \/ Mine(t)
              /\ Fr("ready") /\ (byHand \/ issue.labels = {"grooming"})
            BY <1>6, <3>1 DEF Whole, ClaimWhole
        <4>2. Bec("grooming")
            BY <4>1 DEF Ready, Bec
        <4> QED BY <1>0, <4>1, <4>2, ParkOutcome
      <3> QED BY <1>1, <2>1, <3>1, OutWhole DEF Turns, Turn
    <2> QED BY <2>2, <2>3, <2>4 DEF Onwards
  <1>7. CASE At("part groomed") /\ Exact(issue) # "grooming"
             /\ Goto(c, "keep")
    <2>1. Turns(c, "keep")
        BY <1>1, <1>7, AnyTurns
    <2>2. Family(c)
        BY <1>7, <2>1 DEF Family, Turns, Turn
    <2>3. Calm(c) => Calm(c)'
        BY <1>1, <1>7, <2>1, ProofKept, <1>0, StateAssumption
           DEF Turns, Turn, Errands, Calm, CalmPlaces, Is, Plannable, Empty, State
    <2>4. Whole(c) => Whole(c)'
        BY <1>1, <1>7, <2>1, NothingMoves DEF Turns, Turn, Errands, Whole, ClaimWhole,
                                              ReleaseWhole, ReviewWhole, Same, ClaimLabels,
                                              ReadyStill, Mine, Claimable, Fr, Is, Plannable,
                                              Empty, Full
    <2> QED BY <2>2, <2>3, <2>4 DEF Onwards
  <1>8. CASE At("part unreadied") /\ Exact(issue) \notin {None, "ready"}
             /\ Goto(c, "out")
    <2>1. Turns(c, "out")
        BY <1>1, <1>8, AnyTurns
    <2>2. Family(c)
        BY <1>8, <2>1 DEF Family, Turns, Turn
    <2>3. Calm(c) => Calm(c)'
        BY <1>1, <1>8, <2>1, ProofKept, <1>0 DEF Turns, Turn, Errands, Calm, CalmPlaces, Is,
                                                 Plannable, Empty
    <2>4. Whole(c) => Whole(c)'
      <3>1. ASSUME Whole(c) PROVE Outcome
        <4>1. ~issue.open \/ \E s \in State \ {"ready"} : Is(issue, s)
            BY <1>8, <1>0, ExactSome, StateAssumption DEF Ready, Is, State
        <4>2. (own = kept.own \/ Mine(t)) /\ ClaimLabels
            BY <1>8, <3>1 DEF Whole, ClaimWhole
        <4> QED BY <1>0, <4>1, <4>2, ParkEnds DEF Ready
      <3> QED BY <1>1, <2>1, <3>1, OutWhole DEF Turns, Turn
    <2> QED BY <2>2, <2>3, <2>4 DEF Onwards
  <1>9. CASE At("part unreadied") /\ Exact(issue) \in {None, "ready"}
             /\ Goto(c, "keep")
    <2>1. Turns(c, "keep")
        BY <1>1, <1>9, AnyTurns
    <2>2. Family(c)
        BY <1>9, <2>1 DEF Family, Turns, Turn
    <2>3. Calm(c) => Calm(c)'
        BY <1>1, <1>9, <2>1, ProofKept DEF Turns, Turn, Errands, Calm, CalmPlaces, Is,
                                           Plannable, Empty
    <2>4. Whole(c) => Whole(c)'
        BY <1>1, <1>9, <2>1, NothingMoves DEF Turns, Turn, Errands, Whole, ClaimWhole,
                                              ReleaseWhole, ReviewWhole, Same, ClaimLabels,
                                              ReadyStill, Mine, Claimable, Fr, Is, Plannable,
                                              Empty, Full
    <2> QED BY <2>2, <2>3, <2>4 DEF Onwards
  <1> QED BY <1>2, <1>3, <1>4, <1>5, <1>6, <1>7, <1>8, <1>9
          DEF ParkPartial, Demand, Decide, Inside, Ends

LEMMA ReleaseOnwards ==
  ASSUME NEW c \in Command, Ready(c), Release(c), UNCHANGED <<kept, byHand>>
  PROVE  Onwards(c)
  <1> USE DEF ClaimPlaces, PartPlaces, ParkPlaces, ReleasePlaces, UndoPlaces, ReviewPlaces,
              LookPlaces, Untried
  <1> DEFINE At(p) == job[c].at = p
             t == job[c].token
  <1>0. /\ t \in Token /\ own \in Ownership /\ issue \in Issue /\ kept.issue \in Issue
        /\ \A s \in State : Exact(issue) = s <=> Is(issue, s)
    <2>1. t \in Token /\ own \in Ownership /\ issue \in Issue /\ kept.issue \in Issue
        BY DEF Ready, BoardInv, Errand
    <2> QED BY <2>1, ExactIs DEF Ready
  <1>1. BoardInv /\ UNCHANGED <<issue, own, prs, troubles, kept, byHand>>
        /\ (byHand' <=> byHand)
      BY DEF Ready, Release, Demand, Decide, Quiet
  <1>2. CASE At("rel proof") /\ Proof(job[c])
             /\ Goto(c, "rel again")
    <2>1. Turns(c, "rel again")
        BY <1>1, <1>2, AnyTurns
    <2>2. Family(c)
        BY <1>2, <2>1 DEF Family, Turns, Turn
    <2>3. Calm(c) => Calm(c)'
        BY <1>1, <1>2, <2>1, ProofKept DEF Turns, Turn, Errands, Calm, CalmPlaces, Is,
                                           Plannable, Empty
    <2>4. Whole(c) => Whole(c)'
        BY <1>1, <1>2, <2>1, NothingMoves, ZenonT(40) DEF Turns, Turn, Errands, Whole, ClaimWhole,
                                              ReleaseWhole, ReviewWhole, Same, ClaimLabels,
                                              ReadyStill, Mine, Claimable, Fr, Is, Plannable,
                                              Empty, Full
    <2> QED BY <2>2, <2>3, <2>4 DEF Onwards
  <1>3. CASE At("rel again") /\ ReleaseState(job[c]) # None /\ own = job[c].snap
             /\ Reread(c, "rel proof 2")
    <2>1. TurnsSeeing(c, "rel proof 2")
        BY <1>1, <1>3, AnyTurns
    <2>2. Family(c)
        BY <1>3, <2>1 DEF Family, TurnsSeeing, Turn
    <2>3. Calm(c) => Calm(c)'
        BY <1>1, <1>3, <2>1, ProofKept, ReleaseOpen DEF TurnsSeeing, Turn, Errands, Calm,
                                                        CalmPlaces, Is, Plannable, Empty
    <2>4. Whole(c) => Whole(c)'
        BY <1>1, <1>3, <2>1, NothingMoves, ZenonT(40) DEF TurnsSeeing, Turn, Errands, Whole, ClaimWhole,
                                              ReleaseWhole, ReviewWhole, Same, ClaimLabels,
                                              ReadyStill, Mine, Claimable, Fr, Is, Plannable,
                                              Empty, Full
    <2> QED BY <2>2, <2>3, <2>4 DEF Onwards
  <1>4. CASE At("rel proof 2") /\ Proof(job[c])
             /\ Try(c, "rel label")
    <2>1. TurnsTrying(c, "rel label")
        BY <1>1, <1>4, AnyTurns
    <2>2. Family(c)
        BY <1>4, <2>1 DEF Family, TurnsTrying, Turn
    <2>3. Calm(c) => Calm(c)'
        BY <1>1, <1>4, <2>1, ProofKept DEF TurnsTrying, Turn, Errands, Calm, CalmPlaces, Is,
                                           Plannable, Empty
    <2>4. Whole(c) => Whole(c)'
      <3>0. SUFFICES ASSUME Whole(c) PROVE Whole(c)'
          OBVIOUS
      <3> DEFINE k == job'[c]
      <3>1. /\ kept.own = job[c].snap /\ Fr(job[c].prev)
            /\ job[c].prev \in {"active", "review", "grooming"}
            /\ own = job[c].snap /\ (byHand \/ (job[c].saw = issue /\ issue.labels = {job[c].prev}))
        <4>1. /\ kept.own = job[c].snap /\ Fr(job[c].prev) /\ Same /\ (byHand \/ job[c].saw = issue)
              /\ job[c].prev \in {"active", "review", "grooming"}
            BY <1>4, <3>0 DEF Whole, ReleaseWhole
        <4> QED BY <4>1 DEF Same, Fr, Is
      <3>2. k.at = "rel label" /\ k.tried
          BY <1>1, <2>1, <3>1 DEF TurnsTrying, Turn, Errands
      <3>3. /\ kept'.own = job'[c].snap
            /\ Fr(job[c].prev)'
            /\ job'[c].prev \in {"active", "review", "grooming"}
            /\ own' = job'[c].snap
            /\ byHand' \/ (job'[c].saw = issue' /\ issue'.labels = {job'[c].prev})
        <4>1. kept'.own = job'[c].snap
            BY <1>1, <1>4, <2>1, <3>1
               DEF TurnsTrying, Turn, Errands, Mine, Claimable, Full, Fr, Is, PartlyCleared
        <4>2. Fr(job[c].prev)'
            BY <1>1, <1>4, <2>1, <3>1
               DEF TurnsTrying, Turn, Errands, Mine, Claimable, Full, Fr, Is, PartlyCleared
        <4>3. job'[c].prev \in {"active", "review", "grooming"}
            BY <1>1, <1>4, <2>1, <3>1
               DEF TurnsTrying, Turn, Errands, Mine, Claimable, Full, Fr, Is, PartlyCleared
        <4>4. own' = job'[c].snap
            BY <1>1, <1>4, <2>1, <3>1
               DEF TurnsTrying, Turn, Errands, Mine, Claimable, Full, Fr, Is, PartlyCleared
        <4>5. byHand' \/ (job'[c].saw = issue' /\ issue'.labels = {job'[c].prev})
            BY <1>1, <1>4, <2>1, <3>1
               DEF TurnsTrying, Turn, Errands, Mine, Claimable, Full, Fr, Is, PartlyCleared
        <4> QED BY <4>1, <4>2, <4>3, <4>4, <4>5
      <3> HIDE DEF k
      <3> QED BY <3>2, <3>3
              DEF k, Whole, ClaimWhole, ReleaseWhole, ReviewWhole
    <2> QED BY <2>2, <2>3, <2>4 DEF Onwards
  <1>5. CASE At("rel proof 3") /\ Proof(job[c]) /\ own = job[c].snap
             /\ Goto(c, "rel field")
    <2>1. Turns(c, "rel field")
        BY <1>1, <1>5, AnyTurns
    <2>2. Family(c)
        BY <1>5, <2>1 DEF Family, Turns, Turn
    <2>3. Calm(c) => Calm(c)'
        BY <1>1, <1>5, <2>1, ProofKept DEF Turns, Turn, Errands, Calm, CalmPlaces, Is,
                                           Plannable, Empty
    <2>4. Whole(c) => Whole(c)'
      <3>0. SUFFICES ASSUME Whole(c) PROVE Whole(c)'
          OBVIOUS
      <3> DEFINE k == job'[c]
      <3>1. /\ kept.own = job[c].snap /\ Fr(job[c].prev)
            /\ job[c].prev \in {"active", "review", "grooming"}
            /\ job[c].tried /\ PartlyCleared(job[c].snap) /\ (byHand \/ issue.labels = {job[c].to})
          BY <1>5, <3>0 DEF Whole, ReleaseWhole, PartlyCleared
      <3>2. k.at = "rel field" /\ k.tried
          BY <1>1, <2>1, <3>1 DEF Turns, Turn, Errands
      <3>3. /\ kept'.own = job'[c].snap
            /\ Fr(job[c].prev)'
            /\ job'[c].prev \in {"active", "review", "grooming"}
            /\ PartlyCleared(job[c].snap)'
            /\ byHand' \/ issue'.labels = {job'[c].to}
        <4>1. kept'.own = job'[c].snap
            BY <1>1, <1>5, <2>1, <3>1
               DEF Turns, Turn, Errands, Mine, Claimable, Full, Fr, Is, PartlyCleared
        <4>2. Fr(job[c].prev)'
            BY <1>1, <1>5, <2>1, <3>1
               DEF Turns, Turn, Errands, Mine, Claimable, Full, Fr, Is, PartlyCleared
        <4>3. job'[c].prev \in {"active", "review", "grooming"}
            BY <1>1, <1>5, <2>1, <3>1
               DEF Turns, Turn, Errands, Mine, Claimable, Full, Fr, Is, PartlyCleared
        <4>4. PartlyCleared(job[c].snap)'
            BY <1>1, <1>5, <2>1, <3>1
               DEF Turns, Turn, Errands, Mine, Claimable, Full, Fr, Is, PartlyCleared
        <4>5. byHand' \/ issue'.labels = {job'[c].to}
            BY <1>1, <1>5, <2>1, <3>1
               DEF Turns, Turn, Errands, Mine, Claimable, Full, Fr, Is, PartlyCleared
        <4> QED BY <4>1, <4>2, <4>3, <4>4, <4>5
      <3> HIDE DEF k
      <3> QED BY <3>2, <3>3
              DEF k, Whole, ClaimWhole, ReleaseWhole, ReviewWhole
    <2> QED BY <2>2, <2>3, <2>4 DEF Onwards
  <1>6. CASE At("rel proof 4") /\ Proof(job[c])
             /\ Goto(c, "rel verify")
    <2>1. Turns(c, "rel verify")
        BY <1>1, <1>6, AnyTurns
    <2>2. Family(c)
        BY <1>6, <2>1 DEF Family, Turns, Turn
    <2>3. Calm(c) => Calm(c)'
        BY <1>1, <1>6, <2>1, ProofKept DEF Turns, Turn, Errands, Calm, CalmPlaces, Is,
                                           Plannable, Empty
    <2>4. Whole(c) => Whole(c)'
        BY <1>1, <1>6, <2>1, NothingMoves DEF Turns, Turn, Errands, Whole, ClaimWhole,
                                              ReleaseWhole, ReviewWhole, Same, ClaimLabels,
                                              ReadyStill, Mine, Claimable, Fr, Is, Plannable,
                                              Empty, Full
    <2> QED BY <2>2, <2>3, <2>4 DEF Onwards
  <1>7. CASE At("rel verify") /\ Is(issue, job[c].to) /\ own = Empty
             /\ Goto(c, "out")
    <2>1. Turns(c, "out")
        BY <1>1, <1>7, AnyTurns
    <2>2. Family(c)
        BY <1>7, <2>1 DEF Family, Turns, Turn
    <2>3. Calm(c) => Calm(c)'
        BY <1>1, <1>7, <2>1, ProofKept, <1>0 DEF Turns, Turn, Errands, Calm, CalmPlaces, Is,
                                                 Plannable, Empty
    <2>4. Whole(c) => Whole(c)'
      <3>1. ASSUME Whole(c) PROVE Outcome
        <4>1. /\ kept.own = job[c].snap /\ job[c].prev \in {"active", "review", "grooming"}
              /\ Fr(job[c].prev) /\ (byHand \/ issue.labels = {job[c].to})
            BY <1>7, <3>1 DEF Whole, ReleaseWhole
        <4>2. job[c].snap.id = t /\ job[c].snap.branch = t /\ job[c].to \in {"ready", "grooming"}
            BY <1>7 DEF Ready, Briefed
        <4>3. job[c].prev \in State \ {"ready"}
            BY <4>1 DEF State
        <4> QED BY <1>0, <1>7, <4>1, <4>2, <4>3, GiveEnds DEF Ready
      <3> QED BY <1>1, <2>1, <3>1, OutWhole DEF Turns, Turn
    <2> QED BY <2>2, <2>3, <2>4 DEF Onwards
  <1>8. CASE Throws(c) /\ (Calm(c) => Excused(c))
      BY <1>1, <1>8, ThrowsOnwards DEF Ready
  <1>9. CASE /\ At("rel read") /\ ReleaseState(job[c]) # None /\ own = job[c].snap
             /\ job' = [job EXCEPT ![c].at = "rel proof", ![c].prev = ReleaseState(job[c])]
    <2>1. /\ Turn(c, "rel proof")
          /\ job'[c].saw = job[c].saw /\ job'[c].tried = job[c].tried
          /\ job'[c].swallowed = job[c].swallowed /\ job'[c].prev = ReleaseState(job[c])
        BY <1>1, <1>9, PrevTurns DEF BoardInv
    <2>2. Family(c)
        BY <1>9, <2>1 DEF Family, Turn
    <2>3. Calm(c) => Calm(c)'
        BY <1>1, <1>9, <2>1
           DEF Turn, Errands, Calm, CalmPlaces
    <2>4. Whole(c) => Whole(c)'
      <3>0. SUFFICES ASSUME Whole(c) PROVE Whole(c)'
          OBVIOUS
      <3> DEFINE k == job'[c]
                 p == ReleaseState(job[c])
      <3>1. ~job[c].tried /\ Same
          BY <1>9, <3>0 DEF Whole, ReleaseWhole
      <3>2. p \in {"active", "review", "grooming"} /\ Is(issue, p)
          BY <1>9 DEF ReleaseState
      <3>3. kept.own = job[c].snap /\ Fr(p)
          BY <1>9, <3>1, <3>2 DEF Same, Fr
      <3>4. k.at = "rel proof" /\ ~k.tried /\ k.snap = job[c].snap /\ k.prev = p
          BY <2>1, <3>1 DEF Turn, Errands
      <3>5. Same'
          BY <1>1, <3>1, NothingMoves
      <3>6. kept'.own = k.snap
          BY <1>1, <3>3, <3>4
      <3> HIDE DEF p
      <3>7. Fr(job[c].prev)'
          BY <1>1, <3>3, <3>4 DEF Fr, Is
      <3> HIDE DEF k
      <3> QED BY <3>2, <3>4, <3>5, <3>6, <3>7
              DEF k, Whole, ClaimWhole, ReleaseWhole, ReviewWhole
    <2> QED BY <2>2, <2>3, <2>4 DEF Onwards
  <1> QED BY <1>2, <1>3, <1>4, <1>5, <1>6, <1>7, <1>8, <1>9
          DEF Release, Demand, Decide, Inside, Ends, StillOwned, Calm, Excused

LEMMA UndoOnwards ==
  ASSUME NEW c \in Command, Ready(c), RestoreRelease(c), UNCHANGED <<kept, byHand>>
  PROVE  Onwards(c)
  <1> USE DEF ClaimPlaces, PartPlaces, ParkPlaces, ReleasePlaces, UndoPlaces, ReviewPlaces,
              LookPlaces, Untried
  <1> DEFINE At(p) == job[c].at = p
             t == job[c].token
  <1>0. /\ t \in Token /\ own \in Ownership /\ issue \in Issue /\ kept.issue \in Issue
        /\ \A s \in State : Exact(issue) = s <=> Is(issue, s)
    <2>1. t \in Token /\ own \in Ownership /\ issue \in Issue /\ kept.issue \in Issue
        BY DEF Ready, BoardInv, Errand
    <2> QED BY <2>1, ExactIs DEF Ready
  <1>1. BoardInv /\ UNCHANGED <<issue, own, prs, troubles, kept, byHand>>
        /\ (byHand' <=> byHand)
      BY DEF Ready, RestoreRelease, Demand, Decide, Quiet
  <1>2. CASE At("undo read") /\ (
             \/ Exact(issue) \in {"active", "review", "grooming"} \ {job[c].prev, job[c].to}
                /\ own = job[c].snap
             \/ Exact(issue) = job[c].prev /\ Exact(issue) # None /\ own = job[c].snap
             \/ Exact(issue) = "grooming" /\ job[c].to = "grooming" /\ own = Empty)
             /\ Reread(c, "undo confirm")
    <2>1. TurnsSeeing(c, "undo confirm")
        BY <1>1, <1>2, AnyTurns
    <2>2. Family(c)
        BY <1>2, <2>1 DEF Family, TurnsSeeing, Turn
    <2>3. Calm(c) => Calm(c)'
        BY <1>1, <1>2, <2>1, ProofKept, <1>0 DEF TurnsSeeing, Turn, Errands, Calm, CalmPlaces,
                                                 Is, Plannable, Empty
    <2>4. Whole(c) => Whole(c)'
      <3>1. ASSUME Whole(c) PROVE Outcome
        <4>1. /\ kept.own = job[c].snap /\ job[c].prev \in {"active", "review", "grooming"}
              /\ Fr(job[c].prev) /\ (byHand \/ issue.labels \subseteq {job[c].prev, job[c].to})
            BY <1>2, <3>1 DEF Whole, ReleaseWhole
        <4>2. job[c].snap.id = t /\ job[c].snap.branch = t
            BY <1>2 DEF Ready, Briefed
        <4>3. job[c].prev \in State \ {"ready"}
            BY <4>1 DEF State
        <4>4. CASE Exact(issue) \in {"active", "review", "grooming"} \ {job[c].prev, job[c].to} /\ own = job[c].snap
          <5>1. Is(issue, Exact(issue))
              BY <1>0, <4>4 DEF State
          <5>2. byHand
              BY <4>1, <4>4, <5>1 DEF Is
          <5> QED BY <4>1, <4>4, <5>2 DEF Outcome, Same
        <4>5. CASE Exact(issue) = job[c].prev /\ own = job[c].snap
          <5>1. Is(issue, job[c].prev)
              BY <1>0, <4>3, <4>5
          <5> QED BY <1>0, <4>1, <4>3, <4>5, <5>1, SameEnds DEF Ready, Is
        <4>6. CASE Exact(issue) = "grooming" /\ own = Empty
          <5>1. Is(issue, "grooming")
              BY <1>0, <4>6 DEF State
          <5> QED BY <1>0, <4>1, <4>2, <4>3, <4>6, <5>1, GiveEnds DEF Ready, Is
        <4> QED BY <1>2, <4>4, <4>5, <4>6
      <3> QED BY <1>1, <2>1, <3>1, OutWhole DEF TurnsSeeing, Turn
    <2> QED BY <2>2, <2>3, <2>4 DEF Onwards
  <1>3. CASE At("undo read") /\ Exact(issue) = "ready" /\ job[c].to = "ready" /\ PartlyCleared(job[c].snap)
             /\ Goto(c, "undo again")
    <2>1. Turns(c, "undo again")
        BY <1>1, <1>3, AnyTurns
    <2>2. Family(c)
        BY <1>3, <2>1 DEF Family, Turns, Turn
    <2>3. Calm(c) => Calm(c)'
        BY <1>1, <1>3, <2>1, ProofKept DEF Turns, Turn, Errands, Calm, CalmPlaces, Is,
                                           Plannable, Empty
    <2>4. Whole(c) => Whole(c)'
      <3>0. SUFFICES ASSUME Whole(c) PROVE Whole(c)'
          OBVIOUS
      <3> DEFINE k == job'[c]
      <3>1. /\ kept.own = job[c].snap /\ Fr(job[c].prev)
            /\ job[c].prev \in {"active", "review", "grooming"}
            /\ issue.labels = {"ready"}
        <4>1. Is(issue, "ready")
            BY <1>0, <1>3 DEF State
        <4> QED BY <1>3, <3>0, <4>1 DEF Whole, ReleaseWhole, Is
      <3>2. k.at = "undo again"
          BY <1>1, <2>1, <3>1 DEF Turns, Turn, Errands
      <3>3. /\ kept'.own = job'[c].snap
            /\ Fr(job[c].prev)'
            /\ job'[c].prev \in {"active", "review", "grooming"}
            /\ job'[c].to = "ready"
            /\ issue'.labels = {"ready"}
        <4>1. kept'.own = job'[c].snap
            BY <1>1, <1>3, <2>1, <3>1
               DEF Turns, Turn, Errands, Mine, Claimable, Full, Fr, Is, PartlyCleared
        <4>2. Fr(job[c].prev)'
            BY <1>1, <1>3, <2>1, <3>1
               DEF Turns, Turn, Errands, Mine, Claimable, Full, Fr, Is, PartlyCleared
        <4>3. job'[c].prev \in {"active", "review", "grooming"}
            BY <1>1, <1>3, <2>1, <3>1
               DEF Turns, Turn, Errands, Mine, Claimable, Full, Fr, Is, PartlyCleared
        <4>4. job'[c].to = "ready"
            BY <1>1, <1>3, <2>1, <3>1
               DEF Turns, Turn, Errands, Mine, Claimable, Full, Fr, Is, PartlyCleared
        <4>5. issue'.labels = {"ready"}
            BY <1>1, <1>3, <2>1, <3>1
               DEF Turns, Turn, Errands, Mine, Claimable, Full, Fr, Is, PartlyCleared
        <4> QED BY <4>1, <4>2, <4>3, <4>4, <4>5
      <3> HIDE DEF k
      <3> QED BY <3>2, <3>3
              DEF k, Whole, ClaimWhole, ReleaseWhole, ReviewWhole
    <2> QED BY <2>2, <2>3, <2>4 DEF Onwards
  <1>4. CASE At("undo read")
             /\ Goto(c, "keep")
    <2>1. Turns(c, "keep")
        BY <1>1, <1>4, AnyTurns
    <2>2. Family(c)
        BY <1>4, <2>1 DEF Family, Turns, Turn
    <2>3. Calm(c) => Calm(c)'
        BY <1>1, <1>4, <2>1, ProofKept DEF Turns, Turn, Errands, Calm, CalmPlaces, Is,
                                           Plannable, Empty
    <2>4. Whole(c) => Whole(c)'
        BY <1>1, <1>4, <2>1, NothingMoves DEF Turns, Turn, Errands, Whole, ClaimWhole,
                                              ReleaseWhole, ReviewWhole, Same, ClaimLabels,
                                              ReadyStill, Mine, Claimable, Fr, Is, Plannable,
                                              Empty, Full
    <2> QED BY <2>2, <2>3, <2>4 DEF Onwards
  <1>5. CASE At("undo confirm")
             /\ Goto(c, "out")
    <2>1. Turns(c, "out")
        BY <1>1, <1>5, AnyTurns
    <2>2. Family(c)
        BY <1>5, <2>1 DEF Family, Turns, Turn
    <2>3. Calm(c) => Calm(c)'
        BY <1>1, <1>5, <2>1, ProofKept DEF Turns, Turn, Errands, Calm, CalmPlaces, Is,
                                           Plannable, Empty
    <2>4. Whole(c) => Whole(c)'
        BY <1>1, <1>5, <2>1, NothingMoves DEF Turns, Turn, Errands, Whole, ClaimWhole,
                                              ReleaseWhole, ReviewWhole, Same, ClaimLabels,
                                              ReadyStill, Mine, Claimable, Fr, Is, Plannable,
                                              Empty, Full
    <2> QED BY <2>2, <2>3, <2>4 DEF Onwards
  <1>6. CASE At("undo confirm")
             /\ Goto(c, "keep")
    <2>1. Turns(c, "keep")
        BY <1>1, <1>6, AnyTurns
    <2>2. Family(c)
        BY <1>6, <2>1 DEF Family, Turns, Turn
    <2>3. Calm(c) => Calm(c)'
        BY <1>1, <1>6, <2>1, ProofKept DEF Turns, Turn, Errands, Calm, CalmPlaces, Is,
                                           Plannable, Empty
    <2>4. Whole(c) => Whole(c)'
        BY <1>1, <1>6, <2>1, NothingMoves DEF Turns, Turn, Errands, Whole, ClaimWhole,
                                              ReleaseWhole, ReviewWhole, Same, ClaimLabels,
                                              ReadyStill, Mine, Claimable, Fr, Is, Plannable,
                                              Empty, Full
    <2> QED BY <2>2, <2>3, <2>4 DEF Onwards
  <1>7. CASE At("undo again") /\ Exact(issue) = "ready"
             /\ Reread(c, "undo label")
    <2>1. TurnsSeeing(c, "undo label")
        BY <1>1, <1>7, AnyTurns
    <2>2. Family(c)
        BY <1>7, <2>1 DEF Family, TurnsSeeing, Turn
    <2>3. Calm(c) => Calm(c)'
        BY <1>1, <1>7, <2>1, ProofKept DEF TurnsSeeing, Turn, Errands, Calm, CalmPlaces, Is,
                                           Plannable, Empty
    <2>4. Whole(c) => Whole(c)'
        BY <1>1, <1>7, <2>1, NothingMoves, ZenonT(40) DEF TurnsSeeing, Turn, Errands, Whole, ClaimWhole,
                                              ReleaseWhole, ReviewWhole, Same, ClaimLabels,
                                              ReadyStill, Mine, Claimable, Fr, Is, Plannable,
                                              Empty, Full
    <2> QED BY <2>2, <2>3, <2>4 DEF Onwards
  <1>8. CASE At("undo verify") /\ Is(issue, job[c].prev) /\ own = job[c].snap
             /\ Goto(c, "out")
    <2>1. Turns(c, "out")
        BY <1>1, <1>8, AnyTurns
    <2>2. Family(c)
        BY <1>8, <2>1 DEF Family, Turns, Turn
    <2>3. Calm(c) => Calm(c)'
        BY <1>1, <1>8, <2>1, ProofKept, <1>0 DEF Turns, Turn, Errands, Calm, CalmPlaces, Is,
                                                 Plannable, Empty
    <2>4. Whole(c) => Whole(c)'
      <3>1. ASSUME Whole(c) PROVE Outcome
        <4>1. /\ kept.own = job[c].snap /\ job[c].prev \in State /\ Fr(job[c].prev)
            BY <1>8, <3>1 DEF Whole, ReleaseWhole, State
        <4> QED BY <1>0, <1>8, <4>1, SameEnds DEF Ready, Is
      <3> QED BY <1>1, <2>1, <3>1, OutWhole DEF Turns, Turn
    <2> QED BY <2>2, <2>3, <2>4 DEF Onwards
  <1>9. CASE At("undo verify")
             /\ Goto(c, "keep")
    <2>1. Turns(c, "keep")
        BY <1>1, <1>9, AnyTurns
    <2>2. Family(c)
        BY <1>9, <2>1 DEF Family, Turns, Turn
    <2>3. Calm(c) => Calm(c)'
        BY <1>1, <1>9, <2>1, ProofKept DEF Turns, Turn, Errands, Calm, CalmPlaces, Is,
                                           Plannable, Empty
    <2>4. Whole(c) => Whole(c)'
        BY <1>1, <1>9, <2>1, NothingMoves DEF Turns, Turn, Errands, Whole, ClaimWhole,
                                              ReleaseWhole, ReviewWhole, Same, ClaimLabels,
                                              ReadyStill, Mine, Claimable, Fr, Is, Plannable,
                                              Empty, Full
    <2> QED BY <2>2, <2>3, <2>4 DEF Onwards
  <1>10. CASE Throws(c) /\ (Calm(c) => Excused(c))
      BY <1>1, <1>10, ThrowsOnwards DEF Ready
  <1> DEFINE j == job[c]
             e == Exact(issue)
             newer   == e \in {"active", "review", "grooming"} \ {j.prev, j.to} /\ StillOwned(j)
             done    == e = "grooming" /\ j.to = "grooming" /\ own = Empty
             settled == e # None /\ (newer \/ done \/ (e = j.prev /\ StillOwned(j)))
             back == e = "ready" /\ j.to = "ready" /\ PartlyCleared(j.snap)
  <1>11. CASE Decide(c, "undo read", settled /\ Reread(c, "undo confirm"))
    <2>1. e # None /\ (newer \/ done \/ (e = j.prev /\ own = j.snap))
        BY <1>11 DEF Decide, StillOwned
    <2>2. newer => e \in {"active", "review", "grooming"} \ {j.prev, j.to} /\ own = j.snap
        BY DEF StillOwned
    <2>3. At("undo read") /\ Reread(c, "undo confirm")
        BY <1>11 DEF Decide, Inside
    <2> QED BY <1>2, <2>1, <2>2, <2>3
  <1>12. CASE Decide(c, "undo read", ~settled /\ back /\ Goto(c, "undo again"))
      BY <1>3, <1>12 DEF Decide, Inside
  <1>13. CASE Decide(c, "undo read", ~settled /\ ~back /\ Ends(c, FALSE))
      BY <1>4, <1>13 DEF Decide, Inside, Ends
  <1>14. CASE Decide(c, "undo confirm", Ends(c, e = Exact(j.saw)))
      BY <1>5, <1>6, <1>14 DEF Decide, Inside, Ends
  <1>15. CASE Demand(c, "undo again", e = "ready", Reread(c, "undo label"))
      BY <1>7, <1>10, <1>15
         DEF Demand, Inside, Calm, CalmPlaces
  <1>16. CASE Decide(c, "undo verify", Ends(c, Is(issue, j.prev) /\ StillOwned(j)))
      BY <1>8, <1>9, <1>16 DEF Decide, Inside, Ends, StillOwned
  <1> QED BY <1>11, <1>12, <1>13, <1>14, <1>15, <1>16 DEF RestoreRelease

LEMMA ReviewOnwards ==
  ASSUME NEW c \in Command, Ready(c), Review(c), UNCHANGED <<kept, byHand>>
  PROVE  Onwards(c)
  <1> USE DEF ClaimPlaces, PartPlaces, ParkPlaces, ReleasePlaces, UndoPlaces, ReviewPlaces,
              LookPlaces, Untried
  <1> DEFINE At(p) == job[c].at = p
             t == job[c].token
  <1>0. /\ t \in Token /\ own \in Ownership /\ issue \in Issue /\ kept.issue \in Issue
        /\ \A s \in State : Exact(issue) = s <=> Is(issue, s)
    <2>1. t \in Token /\ own \in Ownership /\ issue \in Issue /\ kept.issue \in Issue
        BY DEF Ready, BoardInv, Errand
    <2> QED BY <2>1, ExactIs DEF Ready
  <1>1. BoardInv /\ UNCHANGED <<issue, own, prs, troubles, kept, byHand>>
        /\ (byHand' <=> byHand)
      BY DEF Ready, Review, Demand, Decide, Quiet
  <1>2. CASE At("rev read") /\ Is(issue, "active") /\ own = job[c].snap
             /\ Goto(c, "rev proof")
    <2>1. Turns(c, "rev proof")
        BY <1>1, <1>2, AnyTurns
    <2>2. Family(c)
        BY <1>2, <2>1 DEF Family, Turns, Turn
    <2>3. Calm(c) => Calm(c)'
        BY <1>1, <1>2, <2>1, ProofKept DEF Turns, Turn, Errands, Calm, CalmPlaces, Is,
                                           Plannable, Empty
    <2>4. Whole(c) => Whole(c)'
      <3>0. SUFFICES ASSUME Whole(c) PROVE Whole(c)'
          OBVIOUS
      <3> DEFINE k == job'[c]
      <3>1. /\ kept.own = job[c].snap /\ Fr("active") /\ Same /\ ~job[c].tried
        <4>1. Same /\ ~job[c].tried
            BY <1>2, <3>0 DEF Whole, ReviewWhole
        <4> QED BY <1>2, <4>1 DEF Same, Fr
      <3>2. k.at = "rev proof"
          BY <1>1, <2>1, <3>1 DEF Turns, Turn, Errands
      <3>3. /\ kept'.own = job'[c].snap
            /\ Fr("active")'
            /\ Same'
            /\ ~job'[c].tried
        <4>1. kept'.own = job'[c].snap
            BY <1>1, <1>2, <2>1, <3>1
               DEF Turns, Turn, Errands, Mine, Claimable, Full, Fr, Is, PartlyCleared
        <4>2. Fr("active")'
            BY <1>1, <1>2, <2>1, <3>1
               DEF Turns, Turn, Errands, Mine, Claimable, Full, Fr, Is, PartlyCleared
        <4>3. Same'
            BY <1>1, <1>2, <2>1, <3>1, NothingMoves
               DEF Turns, Turn, Errands, Mine, Claimable, Full, Fr, Is, PartlyCleared
        <4>4. ~job'[c].tried
            BY <1>1, <1>2, <2>1, <3>1
               DEF Turns, Turn, Errands, Mine, Claimable, Full, Fr, Is, PartlyCleared
        <4> QED BY <4>1, <4>2, <4>3, <4>4
      <3> HIDE DEF k
      <3> QED BY <3>2, <3>3
              DEF k, Whole, ClaimWhole, ReleaseWhole, ReviewWhole
    <2> QED BY <2>2, <2>3, <2>4 DEF Onwards
  <1>3. CASE At("rev proof") /\ Proof(job[c])
             /\ Goto(c, "rev again")
    <2>1. Turns(c, "rev again")
        BY <1>1, <1>3, AnyTurns
    <2>2. Family(c)
        BY <1>3, <2>1 DEF Family, Turns, Turn
    <2>3. Calm(c) => Calm(c)'
        BY <1>1, <1>3, <2>1, ProofKept DEF Turns, Turn, Errands, Calm, CalmPlaces, Is,
                                           Plannable, Empty
    <2>4. Whole(c) => Whole(c)'
      <3>0. SUFFICES ASSUME Whole(c) PROVE Whole(c)'
          OBVIOUS
      <3> DEFINE k == job'[c]
      <3>1. /\ kept.own = job[c].snap /\ Fr("active") /\ Same /\ ~job[c].tried
          BY <1>3, <3>0 DEF Whole, ReviewWhole
      <3>2. k.at = "rev again"
          BY <1>1, <2>1, <3>1 DEF Turns, Turn, Errands
      <3>3. /\ kept'.own = job'[c].snap
            /\ Fr("active")'
            /\ Same'
            /\ ~job'[c].tried
        <4>1. kept'.own = job'[c].snap
            BY <1>1, <1>3, <2>1, <3>1
               DEF Turns, Turn, Errands, Mine, Claimable, Full, Fr, Is, PartlyCleared
        <4>2. Fr("active")'
            BY <1>1, <1>3, <2>1, <3>1
               DEF Turns, Turn, Errands, Mine, Claimable, Full, Fr, Is, PartlyCleared
        <4>3. Same'
            BY <1>1, <1>3, <2>1, <3>1, NothingMoves
               DEF Turns, Turn, Errands, Mine, Claimable, Full, Fr, Is, PartlyCleared
        <4>4. ~job'[c].tried
            BY <1>1, <1>3, <2>1, <3>1
               DEF Turns, Turn, Errands, Mine, Claimable, Full, Fr, Is, PartlyCleared
        <4> QED BY <4>1, <4>2, <4>3, <4>4
      <3> HIDE DEF k
      <3> QED BY <3>2, <3>3
              DEF k, Whole, ClaimWhole, ReleaseWhole, ReviewWhole
    <2> QED BY <2>2, <2>3, <2>4 DEF Onwards
  <1>4. CASE At("rev again") /\ Is(issue, "active") /\ own = job[c].snap
             /\ Reread(c, "rev proof 2")
    <2>1. TurnsSeeing(c, "rev proof 2")
        BY <1>1, <1>4, AnyTurns
    <2>2. Family(c)
        BY <1>4, <2>1 DEF Family, TurnsSeeing, Turn
    <2>3. Calm(c) => Calm(c)'
        BY <1>1, <1>4, <2>1, ProofKept DEF TurnsSeeing, Turn, Errands, Calm, CalmPlaces, Is,
                                           Plannable, Empty
    <2>4. Whole(c) => Whole(c)'
      <3>0. SUFFICES ASSUME Whole(c) PROVE Whole(c)'
          OBVIOUS
      <3> DEFINE k == job'[c]
      <3>1. /\ kept.own = job[c].snap /\ Fr("active") /\ Same /\ ~job[c].tried
          BY <1>4, <3>0 DEF Whole, ReviewWhole
      <3>2. k.at = "rev proof 2" /\ k.saw = issue'
          BY <1>1, <2>1, <3>1 DEF TurnsSeeing, Turn, Errands
      <3>3. /\ kept'.own = job'[c].snap
            /\ Fr("active")'
            /\ Same'
            /\ ~job'[c].tried
        <4>1. kept'.own = job'[c].snap
            BY <1>1, <1>4, <2>1, <3>1
               DEF TurnsSeeing, Turn, Errands, Mine, Claimable, Full, Fr, Is, PartlyCleared
        <4>2. Fr("active")'
            BY <1>1, <1>4, <2>1, <3>1
               DEF TurnsSeeing, Turn, Errands, Mine, Claimable, Full, Fr, Is, PartlyCleared
        <4>3. Same'
            BY <1>1, <1>4, <2>1, <3>1, NothingMoves
               DEF TurnsSeeing, Turn, Errands, Mine, Claimable, Full, Fr, Is, PartlyCleared
        <4>4. ~job'[c].tried
            BY <1>1, <1>4, <2>1, <3>1
               DEF TurnsSeeing, Turn, Errands, Mine, Claimable, Full, Fr, Is, PartlyCleared
        <4> QED BY <4>1, <4>2, <4>3, <4>4
      <3> HIDE DEF k
      <3> QED BY <3>2, <3>3
              DEF k, Whole, ClaimWhole, ReleaseWhole, ReviewWhole
    <2> QED BY <2>2, <2>3, <2>4 DEF Onwards
  <1>5. CASE At("rev proof 2") /\ Proof(job[c])
             /\ Try(c, "rev label")
    <2>1. TurnsTrying(c, "rev label")
        BY <1>1, <1>5, AnyTurns
    <2>2. Family(c)
        BY <1>5, <2>1 DEF Family, TurnsTrying, Turn
    <2>3. Calm(c) => Calm(c)'
        BY <1>1, <1>5, <2>1, ProofKept DEF TurnsTrying, Turn, Errands, Calm, CalmPlaces, Is,
                                           Plannable, Empty
    <2>4. Whole(c) => Whole(c)'
      <3>0. SUFFICES ASSUME Whole(c) PROVE Whole(c)'
          OBVIOUS
      <3> DEFINE k == job'[c]
      <3>1. /\ kept.own = job[c].snap /\ Fr("active")
            /\ own = job[c].snap /\ (byHand \/ (job[c].saw = issue /\ issue.labels = {"active"}))
        <4>1. kept.own = job[c].snap /\ Fr("active") /\ Same /\ (byHand \/ job[c].saw = issue)
            BY <1>5, <3>0 DEF Whole, ReviewWhole
        <4> QED BY <4>1 DEF Same, Fr, Is
      <3>2. k.at = "rev label" /\ k.tried
          BY <1>1, <2>1, <3>1 DEF TurnsTrying, Turn, Errands
      <3>3. /\ kept'.own = job'[c].snap
            /\ Fr("active")'
            /\ own' = job'[c].snap
            /\ byHand' \/ (job'[c].saw = issue' /\ issue'.labels = {"active"})
        <4>1. kept'.own = job'[c].snap
            BY <1>1, <1>5, <2>1, <3>1
               DEF TurnsTrying, Turn, Errands, Mine, Claimable, Full, Fr, Is, PartlyCleared
        <4>2. Fr("active")'
            BY <1>1, <1>5, <2>1, <3>1
               DEF TurnsTrying, Turn, Errands, Mine, Claimable, Full, Fr, Is, PartlyCleared
        <4>3. own' = job'[c].snap
            BY <1>1, <1>5, <2>1, <3>1
               DEF TurnsTrying, Turn, Errands, Mine, Claimable, Full, Fr, Is, PartlyCleared
        <4>4. byHand' \/ (job'[c].saw = issue' /\ issue'.labels = {"active"})
            BY <1>1, <1>5, <2>1, <3>1
               DEF TurnsTrying, Turn, Errands, Mine, Claimable, Full, Fr, Is, PartlyCleared
        <4> QED BY <4>1, <4>2, <4>3, <4>4
      <3> HIDE DEF k
      <3> QED BY <3>2, <3>3
              DEF k, Whole, ClaimWhole, ReleaseWhole, ReviewWhole
    <2> QED BY <2>2, <2>3, <2>4 DEF Onwards
  <1>6. CASE At("rev proof 3") /\ Proof(job[c]) /\ own = job[c].snap /\ own = job[c].want
             /\ Goto(c, "rev proof 4")
    <2>1. Turns(c, "rev proof 4")
        BY <1>1, <1>6, AnyTurns
    <2>2. Family(c)
        BY <1>6, <2>1 DEF Family, Turns, Turn
    <2>3. Calm(c) => Calm(c)'
        BY <1>1, <1>6, <2>1, ProofKept DEF Turns, Turn, Errands, Calm, CalmPlaces, Is,
                                           Plannable, Empty
    <2>4. Whole(c) => Whole(c)'
        BY <1>1, <1>6, <2>1, NothingMoves, ZenonT(40) DEF Turns, Turn, Errands, Whole, ClaimWhole,
                                              ReleaseWhole, ReviewWhole, Same, ClaimLabels,
                                              ReadyStill, Mine, Claimable, Fr, Is, Plannable,
                                              Empty, Full
    <2> QED BY <2>2, <2>3, <2>4 DEF Onwards
  <1>7. CASE At("rev proof 3") /\ Proof(job[c]) /\ own = job[c].snap
             /\ Goto(c, "rev pr")
    <2>1. Turns(c, "rev pr")
        BY <1>1, <1>7, AnyTurns
    <2>2. Family(c)
        BY <1>7, <2>1 DEF Family, Turns, Turn
    <2>3. Calm(c) => Calm(c)'
        BY <1>1, <1>7, <2>1, ProofKept DEF Turns, Turn, Errands, Calm, CalmPlaces, Is,
                                           Plannable, Empty
    <2>4. Whole(c) => Whole(c)'
        BY <1>1, <1>7, <2>1, NothingMoves, ZenonT(40) DEF Turns, Turn, Errands, Whole, ClaimWhole,
                                              ReleaseWhole, ReviewWhole, Same, ClaimLabels,
                                              ReadyStill, Mine, Claimable, Fr, Is, Plannable,
                                              Empty, Full
    <2> QED BY <2>2, <2>3, <2>4 DEF Onwards
  <1>8. CASE At("rev proof 4") /\ Proof(job[c])
             /\ Goto(c, "rev verify")
    <2>1. Turns(c, "rev verify")
        BY <1>1, <1>8, AnyTurns
    <2>2. Family(c)
        BY <1>8, <2>1 DEF Family, Turns, Turn
    <2>3. Calm(c) => Calm(c)'
        BY <1>1, <1>8, <2>1, ProofKept DEF Turns, Turn, Errands, Calm, CalmPlaces, Is,
                                           Plannable, Empty
    <2>4. Whole(c) => Whole(c)'
        BY <1>1, <1>8, <2>1, NothingMoves, ZenonT(40) DEF Turns, Turn, Errands, Whole, ClaimWhole,
                                              ReleaseWhole, ReviewWhole, Same, ClaimLabels,
                                              ReadyStill, Mine, Claimable, Fr, Is, Plannable,
                                              Empty, Full
    <2> QED BY <2>2, <2>3, <2>4 DEF Onwards
  <1>9. CASE At("rev verify") /\ own = job[c].want /\ Is(issue, "review")
             /\ Goto(c, "out")
    <2>1. Turns(c, "out")
        BY <1>1, <1>9, AnyTurns
    <2>2. Family(c)
        BY <1>9, <2>1 DEF Family, Turns, Turn
    <2>3. Calm(c) => Calm(c)'
        BY <1>1, <1>9, <2>1, ProofKept, <1>0 DEF Turns, Turn, Errands, Calm, CalmPlaces, Is,
                                                 Plannable, Empty
    <2>4. Whole(c) => Whole(c)'
      <3>1. ASSUME Whole(c) PROVE Outcome
        <4>1. kept.own = job[c].snap /\ Fr("active")
            BY <1>9, <3>1 DEF Whole, ReviewWhole
        <4>2. job[c].snap.id = t /\ job[c].snap.branch = t /\ job[c].want = InReview(t)
            BY <1>9 DEF Ready, Briefed
        <4>3. Bec("review")
            BY <1>9 DEF Ready, Bec, Is
        <4> QED BY <1>0, <1>9, <4>1, <4>2, <4>3, ShowOutcome
      <3> QED BY <1>1, <2>1, <3>1, OutWhole DEF Turns, Turn
    <2> QED BY <2>2, <2>3, <2>4 DEF Onwards
  <1>10. CASE Throws(c) /\ (Calm(c) => Excused(c))
      BY <1>1, <1>10, ThrowsOnwards DEF Ready
  <1> QED BY <1>2, <1>3, <1>4, <1>5, <1>6, <1>7, <1>8, <1>9, <1>10
          DEF Review, Demand, Decide, Inside, Ends, StillOwned, Calm, Excused

LEMMA LookOnwards ==
  ASSUME NEW c \in Command, Ready(c), LookReview(c), UNCHANGED <<kept, byHand>>
  PROVE  Onwards(c)
  <1> USE DEF ClaimPlaces, PartPlaces, ParkPlaces, ReleasePlaces, UndoPlaces, ReviewPlaces,
              LookPlaces, Untried
  <1> DEFINE At(p) == job[c].at = p
             t == job[c].token
  <1>0. /\ t \in Token /\ own \in Ownership /\ issue \in Issue /\ kept.issue \in Issue
        /\ \A s \in State : Exact(issue) = s <=> Is(issue, s)
    <2>1. t \in Token /\ own \in Ownership /\ issue \in Issue /\ kept.issue \in Issue
        BY DEF Ready, BoardInv, Errand
    <2> QED BY <2>1, ExactIs DEF Ready
  <1>1. BoardInv /\ UNCHANGED <<issue, own, prs, troubles, kept, byHand>>
        /\ (byHand' <=> byHand)
      BY DEF Ready, LookReview, Demand, Decide, Quiet
  <1>2. CASE At("look read") /\ Exact(issue) = "active" /\ own = job[c].snap
             /\ Reread(c, "look confirm")
    <2>1. TurnsSeeing(c, "look confirm")
        BY <1>1, <1>2, AnyTurns
    <2>2. Family(c)
        BY <1>2, <2>1 DEF Family, TurnsSeeing, Turn
    <2>3. Calm(c) => Calm(c)'
        BY <1>1, <1>2, <2>1, ProofKept, <1>0 DEF TurnsSeeing, Turn, Errands, Calm, CalmPlaces,
                                                 Is, Plannable, Empty
    <2>4. Whole(c) => Whole(c)'
      <3>1. ASSUME Whole(c) PROVE Outcome
        <4>1. kept.own = job[c].snap /\ Fr("active") /\ own \in {job[c].snap, job[c].want}
            BY <1>2, <3>1 DEF Whole, ReviewWhole
        <4>2. job[c].snap.id = t /\ job[c].snap.branch = t /\ job[c].want = InReview(t)
            BY <1>2 DEF Ready, Briefed
        <4>3. Is(issue, "active")
            BY <1>2, <1>0 DEF State
        <4>4. Bec("active")
            BY <4>3 DEF Ready, Bec, Is
        <4> QED BY <1>0, <1>2, <4>1, <4>4, ParkOutcome
      <3> QED BY <1>1, <2>1, <3>1, OutWhole DEF TurnsSeeing, Turn
    <2> QED BY <2>2, <2>3, <2>4 DEF Onwards
  <1>3. CASE At("look read") /\ Exact(issue) = "review" /\ own = job[c].want
             /\ Reread(c, "look confirm")
    <2>1. TurnsSeeing(c, "look confirm")
        BY <1>1, <1>3, AnyTurns
    <2>2. Family(c)
        BY <1>3, <2>1 DEF Family, TurnsSeeing, Turn
    <2>3. Calm(c) => Calm(c)'
        BY <1>1, <1>3, <2>1, ProofKept, <1>0 DEF TurnsSeeing, Turn, Errands, Calm, CalmPlaces,
                                                 Is, Plannable, Empty
    <2>4. Whole(c) => Whole(c)'
      <3>1. ASSUME Whole(c) PROVE Outcome
        <4>1. kept.own = job[c].snap /\ Fr("active") /\ own \in {job[c].snap, job[c].want}
            BY <1>3, <3>1 DEF Whole, ReviewWhole
        <4>2. job[c].snap.id = t /\ job[c].snap.branch = t /\ job[c].want = InReview(t)
            BY <1>3 DEF Ready, Briefed
        <4>3. Is(issue, "review")
            BY <1>3, <1>0 DEF State
        <4>4. Bec("review")
            BY <4>3 DEF Ready, Bec, Is
        <4> QED BY <1>0, <1>3, <4>1, <4>2, <4>4, ShowOutcome
      <3> QED BY <1>1, <2>1, <3>1, OutWhole DEF TurnsSeeing, Turn
    <2> QED BY <2>2, <2>3, <2>4 DEF Onwards
  <1>4. CASE At("look read") /\ Exact(issue) = "grooming" /\ own = Empty
             /\ Reread(c, "look confirm")
    <2>1. TurnsSeeing(c, "look confirm")
        BY <1>1, <1>4, AnyTurns
    <2>2. Family(c)
        BY <1>4, <2>1 DEF Family, TurnsSeeing, Turn
    <2>3. Calm(c) => Calm(c)'
        BY <1>1, <1>4, <2>1, ProofKept, <1>0 DEF TurnsSeeing, Turn, Errands, Calm, CalmPlaces,
                                                 Is, Plannable, Empty
    <2>4. Whole(c) => Whole(c)'
      <3>1. ASSUME Whole(c) PROVE Outcome
        <4>1. kept.own = job[c].snap /\ Fr("active") /\ own \in {job[c].snap, job[c].want}
            BY <1>4, <3>1 DEF Whole, ReviewWhole
        <4>2. job[c].snap.id = t /\ job[c].snap.branch = t /\ job[c].want = InReview(t)
            BY <1>4 DEF Ready, Briefed
        <4>3. own.id = t /\ Empty.id = None
            BY <4>1, <4>2 DEF InReview, Empty
        <4> QED BY <1>0, <1>4, <4>3, BoardAssumption
      <3> QED BY <1>1, <2>1, <3>1, OutWhole DEF TurnsSeeing, Turn
    <2> QED BY <2>2, <2>3, <2>4 DEF Onwards
  <1>5. CASE At("look confirm")
             /\ Goto(c, "out")
    <2>1. Turns(c, "out")
        BY <1>1, <1>5, AnyTurns
    <2>2. Family(c)
        BY <1>5, <2>1 DEF Family, Turns, Turn
    <2>3. Calm(c) => Calm(c)'
        BY <1>1, <1>5, <2>1, ProofKept DEF Turns, Turn, Errands, Calm, CalmPlaces, Is,
                                           Plannable, Empty
    <2>4. Whole(c) => Whole(c)'
        BY <1>1, <1>5, <2>1, NothingMoves DEF Turns, Turn, Errands, Whole, ClaimWhole,
                                              ReleaseWhole, ReviewWhole, Same, ClaimLabels,
                                              ReadyStill, Mine, Claimable, Fr, Is, Plannable,
                                              Empty, Full
    <2> QED BY <2>2, <2>3, <2>4 DEF Onwards
  <1>6. CASE At("look confirm")
             /\ Goto(c, "keep")
    <2>1. Turns(c, "keep")
        BY <1>1, <1>6, AnyTurns
    <2>2. Family(c)
        BY <1>6, <2>1 DEF Family, Turns, Turn
    <2>3. Calm(c) => Calm(c)'
        BY <1>1, <1>6, <2>1, ProofKept DEF Turns, Turn, Errands, Calm, CalmPlaces, Is,
                                           Plannable, Empty
    <2>4. Whole(c) => Whole(c)'
        BY <1>1, <1>6, <2>1, NothingMoves DEF Turns, Turn, Errands, Whole, ClaimWhole,
                                              ReleaseWhole, ReviewWhole, Same, ClaimLabels,
                                              ReadyStill, Mine, Claimable, Fr, Is, Plannable,
                                              Empty, Full
    <2> QED BY <2>2, <2>3, <2>4 DEF Onwards
  <1>7. CASE Throws(c) /\ (Calm(c) => Excused(c))
      BY <1>1, <1>7, ThrowsOnwards DEF Ready
  <1> QED BY <1>2, <1>3, <1>4, <1>5, <1>6, <1>7
          DEF LookReview, Demand, Decide, Inside, Ends, StillOwned, Calm, CalmPlaces

-----------------------------------------------------------------------------
(* The writes, whole and in part.                                             *)

LEMMA RelabelIs ==
  ASSUME issue \in Issue, NEW add, NEW drop
  PROVE  /\ Relabel(add, drop).open = issue.open
         /\ Relabel(add, drop).labels = (issue.labels \ drop) \cup add
  BY DEF Issue, Relabel

\* What was read is what is there: the issue ends with the one label.
LEMMA Relabelled ==
  ASSUME issue \in Issue, NEW s
  PROVE  Relabel(Added(issue, s), Dropped(issue, s)).labels = {s}
  <1>1. (issue.labels \ (issue.labels \ {s})) \cup ({s} \ issue.labels) = {s}
      OBVIOUS
  <1> QED BY <1>1, RelabelIs DEF Added, Dropped

LEMMA BranchFills ==
  ASSUME own \in Ownership, NEW t, own.id = t, own.pr = None
  PROVE  [own EXCEPT !.branch = t] = Full(t)
  BY DEF Ownership, Full

LEMMA PrFills ==
  ASSUME own \in Ownership, NEW t, own.id = t, own.branch = t
  PROVE  [own EXCEPT !.pr = InReview(t).pr] = InReview(t)
  BY DEF Ownership, InReview

LEMMA TowardsClears ==
  ASSUME own \in Ownership, NEW snap, PartlyCleared(snap)
  PROVE  \A f \in DOMAIN Towards(Empty) : Towards(Empty)[f] \in {snap[f], None}
  <1> DEFINE differ == {i \in DOMAIN Field : own[Field[i]] # Empty[Field[i]]}
             first  == CHOOSE i \in differ : \A k \in differ : i <= k
  <1>1. CASE differ = {}
      BY <1>1 DEF Towards, PartlyCleared
  <1>2. CASE differ # {}
    <2>1. differ \subseteq {1, 2, 3}
        BY DEF Field
    <2>2. \E i \in differ : \A k \in differ : i <= k
      <3>1. CASE 1 \in differ
          BY <3>1, <2>1
      <3>2. CASE 1 \notin differ /\ 2 \in differ
          BY <3>2, <2>1
      <3>3. CASE 1 \notin differ /\ 2 \notin differ
          BY <1>2, <3>3, <2>1
      <3> QED BY <3>1, <3>2, <3>3
    <2>3. first \in {1, 2, 3}
        BY <2>1, <2>2
    <2>4. Towards(Empty) = [own EXCEPT ![Field[first]] = Empty[Field[first]]]
        BY <1>2 DEF Towards
    <2>5. Field[first] \in {"branch", "pr", "id"}
      <3>1. Field[1] = "branch" /\ Field[2] = "pr" /\ Field[3] = "id"
          BY DEF Field
      <3> HIDE DEF first
      <3> QED BY <2>3, <3>1
    <2>6. Empty[Field[first]] = None
        BY <2>5, EmptyFields
    <2> DEFINE g == Field[first]
    <2>7. Towards(Empty) = [own EXCEPT ![g] = None]
        BY <2>4, <2>6
    <2> HIDE DEF g, differ, first
    <2> QED BY <2>7 DEF PartlyCleared, Ownership
  <1> QED BY <1>1, <1>2

LEMMA WriteOnwards ==
  ASSUME NEW c \in Command, Ready(c), Write(c), UNCHANGED <<kept, byHand>>
  PROVE  Onwards(c)
  <1> USE DEF ClaimPlaces, PartPlaces, ParkPlaces, ReleasePlaces, UndoPlaces, ReviewPlaces,
              LookPlaces, Untried
  <1> DEFINE At(p) == job[c].at = p
             t == job[c].token
  <1>0. t \in Token /\ own \in Ownership /\ issue \in Issue /\ Held(c)
      BY DEF Ready, BoardInv, Errand
  <1>1. /\ BoardInv /\ issue \in Issue /\ UNCHANGED <<prs, troubles, kept, byHand>>
        /\ (byHand' <=> byHand)
      BY <1>0 DEF Ready, Write
  <1>2. CASE At("claim label")
    <2>1. Turns(c, "meta")
      <3>1. Goto(c, "meta")
          BY <1>2 DEF Write, Onward
      <3> QED BY <1>1, <3>1, AnyTurns
    <2>2. issue' = Relabel(Adds(job[c]), Drops(job[c])) /\ own' = own
        BY <1>2 DEF Write, LabelWrites, FieldWrites
    <2>3. own' = own /\ issue'.open = issue.open
        BY <1>1, <2>2, RelabelIs
    <2>4. job[c].saw = issue => issue'.labels = {"active"}
        BY <1>1, <1>2, <2>2, Relabelled DEF Adds, Drops, Target
    <2>5. Family(c)
        BY <1>2, <2>1 DEF Family, Turns, Turn
    <2>6. Calm(c) => Calm(c)'
      <3>0. SUFFICES ASSUME Calm(c) PROVE Calm(c)'
          OBVIOUS
      <3> DEFINE k == job'[c]
      <3>1. k.at \in {"meta"} /\ k.token = t
          BY <2>1 DEF Turns, Turn, Errands
      <3>2. ~k.swallowed
          BY <2>1, <3>0 DEF Calm, Turns
      <3>3. own.id = t /\ Plannable(t) /\ Is(issue, "ready") /\ job[c].saw = issue
          BY <1>2, <3>0 DEF Calm
      <3>4. own'.id = k.token /\ Plannable(job[c].token)'
          BY <2>2, <2>3, <2>4, <2>1, <3>3 DEF Plannable, Turns, Turn, Errands
      <3>5. Is(issue', "active")
          BY <2>2, <2>3, <2>4, <3>3 DEF Is
      <3> HIDE DEF k
      <3> QED BY <3>1, <3>2, <3>3, <3>4, <3>5
              DEF k, Calm, CalmPlaces
    <2>7. Whole(c) => Whole(c)'
      <3>0. SUFFICES ASSUME Whole(c) PROVE Whole(c)'
          OBVIOUS
      <3> DEFINE k == job'[c]
      <3>1. job[c].tried /\ ReadyStill /\ Mine(t) /\ (byHand \/ (job[c].saw = issue /\ issue.labels = {"ready"}))
          BY <1>2, <3>0 DEF Whole, ClaimWhole
      <3>2. k.at = "meta" /\ k.tried
          BY <2>1, <3>1 DEF Turns, Turn, Errands
      <3>3. byHand' \/ issue'.labels = {"active"}
          BY <1>1, <2>2, <2>3, <2>4, <3>1
      <3>4. ClaimLabels'
          BY <1>1, <3>1, <3>3 DEF ReadyStill, ClaimLabels, Is
      <3>5. Mine(job[c].token)'
          BY <1>1, <2>2, <2>3, <2>4, <2>1, <3>1 DEF Mine, Claimable, Full, Turns, Turn, Errands
      <3> HIDE DEF k
      <3> QED BY <3>1, <3>2, <3>3, <3>4, <3>5
              DEF k, Whole, ClaimWhole, ReleaseWhole, ReviewWhole, PartlyCleared
    <2> QED BY <2>5, <2>6, <2>7 DEF Onwards
  <1>3. CASE At("part label")
    <2>1. Turns(c, "part meta")
      <3>1. Goto(c, "part meta")
          BY <1>3 DEF Write, Onward
      <3> QED BY <1>1, <3>1, AnyTurns
    <2>2. issue' = Relabel(Adds(job[c]), Drops(job[c])) /\ own' = own
        BY <1>3 DEF Write, LabelWrites, FieldWrites
    <2>3. own' = own /\ issue'.open = issue.open
        BY <1>1, <2>2, RelabelIs
    <2>4. job[c].saw = issue => issue'.labels = {"active"}
        BY <1>1, <1>3, <2>2, Relabelled DEF Adds, Drops, Target
    <2>5. Family(c)
        BY <1>3, <2>1 DEF Family, Turns, Turn
    <2>6. ~Calm(c)
        BY <1>3 DEF Calm, CalmPlaces
    <2>7. Whole(c) => Whole(c)'
      <3>0. SUFFICES ASSUME Whole(c) PROVE Whole(c)'
          OBVIOUS
      <3> DEFINE k == job'[c]
      <3>1. ReadyStill /\ Mine(t) /\ (byHand \/ (job[c].saw = issue /\ issue.labels = {"ready"}))
          BY <1>3, <3>0 DEF Whole, ClaimWhole
      <3>2. k.at = "part meta"
          BY <2>1 DEF Turns, Turn, Errands
      <3>3. byHand' \/ issue'.labels = {"active"}
          BY <1>1, <2>2, <2>3, <2>4, <3>1
      <3>4. ClaimLabels'
          BY <1>1, <3>1, <3>3 DEF ReadyStill, ClaimLabels, Is
      <3>5. Mine(job[c].token)'
          BY <1>1, <2>2, <2>3, <2>4, <2>1, <3>1 DEF Mine, Claimable, Full, Turns, Turn, Errands
      <3> HIDE DEF k
      <3> QED BY <3>1, <3>2, <3>3, <3>4, <3>5
              DEF k, Whole, ClaimWhole, ReleaseWhole, ReviewWhole, PartlyCleared
    <2> QED BY <2>5, <2>6, <2>7 DEF Onwards
  <1>4. CASE At("part groom")
    <2>1. Turns(c, "part groomed")
      <3>1. Goto(c, "part groomed")
          BY <1>4 DEF Write, Onward
      <3> QED BY <1>1, <3>1, AnyTurns
    <2>2. issue' = Relabel(Adds(job[c]), Drops(job[c])) /\ own' = own
        BY <1>4 DEF Write, LabelWrites, FieldWrites
    <2>3. own' = own /\ issue'.open = issue.open
        BY <1>1, <2>2, RelabelIs
    <2>4. job[c].saw = issue => issue'.labels = {"grooming"}
        BY <1>1, <1>4, <2>2, Relabelled DEF Adds, Drops, Target
    <2>5. Family(c)
        BY <1>4, <2>1 DEF Family, Turns, Turn
    <2>6. Calm(c) => Calm(c)'
      <3>0. SUFFICES ASSUME Calm(c) PROVE Calm(c)'
          OBVIOUS
      <3> DEFINE k == job'[c]
      <3>1. k.at \in {"part groomed"}
          BY <2>1 DEF Turns, Turn, Errands
      <3>2. ~k.swallowed
          BY <2>1, <3>0 DEF Calm, Turns
      <3>3. Is(issue', "grooming")
          BY <1>4, <2>2, <2>3, <2>4, <3>0 DEF Calm, Is
      <3> HIDE DEF k
      <3> QED BY <3>1, <3>2, <3>3
              DEF k, Calm, CalmPlaces
    <2>7. Whole(c) => Whole(c)'
      <3>0. SUFFICES ASSUME Whole(c) PROVE Whole(c)'
          OBVIOUS
      <3> DEFINE k == job'[c]
      <3>1. ReadyStill /\ (own = kept.own \/ Mine(t)) /\ (byHand \/ (job[c].saw = issue /\ issue.labels = {"ready"}))
          BY <1>4, <3>0 DEF Whole, ClaimWhole
      <3>2. k.at = "part groomed"
          BY <2>1 DEF Turns, Turn, Errands
      <3>3. byHand' \/ issue'.labels = {"grooming"}
          BY <1>1, <2>2, <2>3, <2>4, <3>1
      <3>4. Fr("ready")'
          BY <1>1, <3>1 DEF ReadyStill, Fr, Is
      <3>5. own' = kept'.own \/ Mine(job[c].token)'
          BY <1>1, <2>2, <2>3, <2>4, <2>1, <3>1 DEF Mine, Claimable, Full, Turns, Turn, Errands
      <3> HIDE DEF k
      <3> QED BY <3>1, <3>2, <3>3, <3>4, <3>5
              DEF k, Whole, ClaimWhole, ReleaseWhole, ReviewWhole, PartlyCleared
    <2> QED BY <2>5, <2>6, <2>7 DEF Onwards
  <1>5. CASE At("part unready")
    <2>1. Turns(c, "part unreadied")
      <3>1. Goto(c, "part unreadied")
          BY <1>5 DEF Write, Onward
      <3> QED BY <1>1, <3>1, AnyTurns
    <2>2. issue' = Relabel({}, {"ready"}) /\ own' = own
        BY <1>5 DEF Write, LabelWrites, FieldWrites, Adds, Drops
    <2>3. own' = own /\ issue'.labels = issue.labels \ {"ready"}
        BY <1>1, <2>2, RelabelIs
    <2>4. Family(c)
        BY <1>5, <2>1 DEF Family, Turns, Turn
    <2>5. ~Calm(c)
        BY <1>5 DEF Calm, CalmPlaces
    <2>6. Whole(c) => Whole(c)'
      <3>0. SUFFICES ASSUME Whole(c) PROVE Whole(c)'
          OBVIOUS
      <3> DEFINE k == job'[c]
      <3>1. ClaimLabels /\ (own = kept.own \/ Mine(t))
          BY <1>5, <3>0 DEF Whole, ClaimWhole
      <3>2. k.at = "part unreadied"
          BY <2>1 DEF Turns, Turn, Errands
      <3>3. ClaimLabels'
          BY <1>1, <2>2, <2>3, <3>1 DEF ClaimLabels
      <3>4. own' = kept'.own \/ Mine(job[c].token)'
          BY <1>1, <2>2, <2>3, <2>1, <3>1 DEF Mine, Claimable, Full, Turns, Turn, Errands
      <3> HIDE DEF k
      <3> QED BY <3>1, <3>2, <3>3, <3>4
              DEF k, Whole, ClaimWhole, ReleaseWhole, ReviewWhole, PartlyCleared
    <2> QED BY <2>4, <2>5, <2>6 DEF Onwards
  <1>6. CASE At("rel label")
    <2>1. Turns(c, "rel proof 3")
      <3>1. Goto(c, "rel proof 3")
          BY <1>6 DEF Write, Onward
      <3> QED BY <1>1, <3>1, AnyTurns
    <2>2. issue' = Relabel(Adds(job[c]), Drops(job[c])) /\ own' = own
        BY <1>6 DEF Write, LabelWrites, FieldWrites
    <2>3. own' = own /\ issue'.open = issue.open
        BY <1>1, <2>2, RelabelIs
    <2>4. job[c].saw = issue => issue'.labels = {job[c].to}
        BY <1>1, <1>6, <2>2, Relabelled DEF Adds, Drops, Target
    <2>5. Family(c)
        BY <1>6, <2>1 DEF Family, Turns, Turn
    <2>6. Calm(c) => Calm(c)'
      <3>0. SUFFICES ASSUME Calm(c) PROVE Calm(c)'
          OBVIOUS
      <3> DEFINE k == job'[c]
      <3>1. Proof(job[c])'
          BY <1>1, <1>6, <2>1, <3>0, ProofKept DEF Calm, Turns, Turn
      <3>2. k.at \in {"rel proof 3"}
          BY <2>1 DEF Turns, Turn, Errands
      <3>3. ~k.swallowed
          BY <2>1, <3>0 DEF Calm, Turns
      <3>4. own' = k.snap /\ Is(issue', k.to)
          BY <1>6, <2>2, <2>3, <2>4, <2>1, <3>0 DEF Calm, Is, Turns, Turn, Errands
      <3> HIDE DEF k
      <3> QED BY <3>1, <3>2, <3>3, <3>4
              DEF k, Calm, CalmPlaces
    <2>7. Whole(c) => Whole(c)'
      <3>0. SUFFICES ASSUME Whole(c) PROVE Whole(c)'
          OBVIOUS
      <3> DEFINE k == job'[c]
      <3>1. kept.own = job[c].snap /\ job[c].prev \in {"active", "review", "grooming"} /\ Fr(job[c].prev)
          BY <1>6, <3>0 DEF Whole, ReleaseWhole
      <3>2. job[c].tried /\ own = job[c].snap /\ (byHand \/ job[c].saw = issue)
          BY <1>6, <3>0 DEF Whole, ReleaseWhole
      <3>3. k.at = "rel proof 3" /\ k.tried /\ own' = k.snap
          BY <2>2, <2>3, <2>4, <2>1, <3>2 DEF Turns, Turn, Errands
      <3>4. kept'.own = k.snap /\ k.prev \in {"active", "review", "grooming"}
          BY <1>1, <2>1, <3>1 DEF Turns, Turn, Errands
      <3>5. Fr(job[c].prev)'
          BY <1>1, <2>1, <3>1 DEF Fr, Is, Turns
      <3>6. byHand' \/ issue'.labels = {k.to}
          BY <1>1, <2>2, <2>3, <2>4, <2>1, <3>2 DEF Turns, Turn, Errands
      <3> HIDE DEF k
      <3> QED BY <3>1, <3>2, <3>3, <3>4, <3>5, <3>6
              DEF k, Whole, ClaimWhole, ReleaseWhole, ReviewWhole, PartlyCleared
    <2> QED BY <2>5, <2>6, <2>7 DEF Onwards
  <1>7. CASE At("undo label")
    <2>1. Turns(c, "undo field") \/ Turns(c, "undo verify")
      <3>1. Goto(c, "undo field") \/ Goto(c, "undo verify")
          BY <1>7 DEF Write, Onward
      <3> QED BY <1>1, <3>1, AnyTurns
    <2>2. issue' = Relabel(Adds(job[c]), Drops(job[c])) /\ own' = own
        BY <1>7 DEF Write, LabelWrites, FieldWrites
    <2>3. own' = own /\ issue'.open = issue.open
        BY <1>1, <2>2, RelabelIs
    <2>4. job[c].saw = issue => issue'.labels = {job[c].prev}
        BY <1>1, <1>7, <2>2, Relabelled DEF Adds, Drops, Target
    <2>5. Family(c)
        BY <1>7, <2>1 DEF Family, Turns, Turn
    <2>6. ~Calm(c)
        BY <1>7 DEF Calm, CalmPlaces
    <2>7. Whole(c) => Whole(c)'
      <3>0. SUFFICES ASSUME Whole(c) PROVE Whole(c)'
          OBVIOUS
      <3> DEFINE k == job'[c]
      <3>1. kept.own = job[c].snap /\ job[c].prev \in {"active", "review", "grooming"} /\ Fr(job[c].prev)
          BY <1>7, <3>0 DEF Whole, ReleaseWhole
      <3>2. byHand \/ job[c].saw = issue
          BY <1>7, <3>0 DEF Whole, ReleaseWhole
      <3>3. k.at \in {"undo field", "undo verify"}
          BY <2>1 DEF Turns, Turn, Errands
      <3>4. kept'.own = k.snap /\ k.prev \in {"active", "review", "grooming"}
          BY <1>1, <2>1, <3>1 DEF Turns, Turn, Errands
      <3>5. Fr(job[c].prev)'
          BY <1>1, <2>1, <3>1 DEF Fr, Is, Turns
      <3>6. byHand' \/ issue'.labels = {k.prev}
          BY <1>1, <2>2, <2>3, <2>4, <2>1, <3>2 DEF Turns, Turn, Errands
      <3> HIDE DEF k
      <3> QED BY <3>1, <3>2, <3>3, <3>4, <3>5, <3>6
              DEF k, Whole, ClaimWhole, ReleaseWhole, ReviewWhole, PartlyCleared
    <2> QED BY <2>5, <2>6, <2>7 DEF Onwards
  <1>8. CASE At("rev label")
    <2>1. Turns(c, "rev proof 3")
      <3>1. Goto(c, "rev proof 3")
          BY <1>8 DEF Write, Onward
      <3> QED BY <1>1, <3>1, AnyTurns
    <2>2. issue' = Relabel(Adds(job[c]), Drops(job[c])) /\ own' = own
        BY <1>8 DEF Write, LabelWrites, FieldWrites
    <2>3. own' = own /\ issue'.open = issue.open
        BY <1>1, <2>2, RelabelIs
    <2>4. job[c].saw = issue => issue'.labels = {"review"}
        BY <1>1, <1>8, <2>2, Relabelled DEF Adds, Drops, Target
    <2>5. Family(c)
        BY <1>8, <2>1 DEF Family, Turns, Turn
    <2>6. Calm(c) => Calm(c)'
      <3>0. SUFFICES ASSUME Calm(c) PROVE Calm(c)'
          OBVIOUS
      <3> DEFINE k == job'[c]
      <3>1. Proof(job[c])'
          BY <1>1, <1>8, <2>1, <3>0, ProofKept DEF Calm, Turns, Turn
      <3>2. k.at \in {"rev proof 3"}
          BY <2>1 DEF Turns, Turn, Errands
      <3>3. ~k.swallowed
          BY <2>1, <3>0 DEF Calm, Turns
      <3>4. own' = k.snap /\ Is(issue', "review")
          BY <1>8, <2>2, <2>3, <2>4, <2>1, <3>0 DEF Calm, Is, Turns, Turn, Errands
      <3> HIDE DEF k
      <3> QED BY <3>1, <3>2, <3>3, <3>4
              DEF k, Calm, CalmPlaces
    <2>7. Whole(c) => Whole(c)'
      <3>0. SUFFICES ASSUME Whole(c) PROVE Whole(c)'
          OBVIOUS
      <3> DEFINE k == job'[c]
      <3>1. kept.own = job[c].snap /\ Fr("active")
          BY <1>8, <3>0 DEF Whole, ReviewWhole
      <3>2. job[c].tried /\ own = job[c].snap /\ (byHand \/ job[c].saw = issue)
          BY <1>8, <3>0 DEF Whole, ReviewWhole
      <3>3. k.at = "rev proof 3" /\ k.tried /\ own' = k.snap /\ kept'.own = k.snap
          BY <1>1, <2>2, <2>3, <2>4, <2>1, <3>1, <3>2 DEF Turns, Turn, Errands
      <3>4. Fr("active")'
          BY <1>1, <3>1 DEF Fr, Is
      <3>5. byHand' \/ issue'.labels = {"review"}
          BY <1>1, <2>2, <2>3, <2>4, <3>2
      <3> HIDE DEF k
      <3> QED BY <3>1, <3>2, <3>3, <3>4, <3>5
              DEF k, Whole, ClaimWhole, ReleaseWhole, ReviewWhole, PartlyCleared
    <2> QED BY <2>5, <2>6, <2>7 DEF Onwards
  <1>9. CASE At("claim id")
    <2>1. Turns(c, "recheck")
      <3>1. Goto(c, "recheck")
          BY <1>9 DEF Write, Onward
      <3> QED BY <1>1, <3>1, AnyTurns
    <2>2. issue' = issue /\ own' = [own EXCEPT !.id = t]
        BY <1>9 DEF Write, LabelWrites, FieldWrites, NextOwn
    <2>3. own = Empty
        BY <1>0, <1>9 DEF Held
    <2>4. own' = [id |-> t, branch |-> None, pr |-> None]
        BY <2>2, <2>3 DEF Empty
    <2>5. Family(c)
        BY <1>9, <2>1 DEF Family, Turns, Turn
    <2>6. Calm(c) => Calm(c)'
      <3>0. SUFFICES ASSUME Calm(c) PROVE Calm(c)'
          OBVIOUS
      <3> DEFINE k == job'[c]
      <3>1. k.at \in {"recheck"} /\ k.token = t
          BY <2>1 DEF Turns, Turn, Errands
      <3>2. ~k.swallowed
          BY <2>1, <3>0 DEF Calm, Turns
      <3>3. own'.id = k.token /\ Plannable(job[c].token)'
          BY <2>2, <2>3, <2>4, <2>1 DEF Plannable, Turns, Turn, Errands
      <3>4. Is(issue', "ready")
          BY <1>9, <2>2, <2>3, <2>4, <3>0 DEF Calm
      <3> HIDE DEF k
      <3> QED BY <3>1, <3>2, <3>3, <3>4
              DEF k, Calm, CalmPlaces
    <2>7. Whole(c) => Whole(c)'
      <3>0. SUFFICES ASSUME Whole(c) PROVE Whole(c)'
          OBVIOUS
      <3> DEFINE k == job'[c]
      <3>1. job[c].tried /\ ReadyStill /\ Mine(t)
          BY <1>9, <3>0 DEF Whole, ClaimWhole
      <3>2. k.at = "recheck" /\ k.tried
          BY <2>1, <3>1 DEF Turns, Turn, Errands
      <3>3. ReadyStill'
          BY <1>1, <2>2, <2>3, <2>4, <3>1 DEF ReadyStill, Is
      <3>4. Mine(job[c].token)'
          BY <1>1, <2>2, <2>3, <2>4, <2>1, <3>1 DEF Mine, Claimable, Full, Turns, Turn, Errands
      <3> HIDE DEF k
      <3> QED BY <3>1, <3>2, <3>3, <3>4
              DEF k, Whole, ClaimWhole, ReleaseWhole, ReviewWhole, PartlyCleared
    <2> QED BY <2>5, <2>6, <2>7 DEF Onwards
  <1>10. CASE At("claim branch")
    <2>1. Turns(c, "verify")
      <3>1. Goto(c, "verify")
          BY <1>10 DEF Write, Onward
      <3> QED BY <1>1, <3>1, AnyTurns
    <2>2. issue' = issue /\ own' = [own EXCEPT !.branch = t]
        BY <1>10 DEF Write, LabelWrites, FieldWrites, NextOwn
    <2>3. own.id = t /\ own.pr = None => own' = Full(t)
        BY <1>0, <2>2, BranchFills
    <2>4. Family(c)
        BY <1>10, <2>1 DEF Family, Turns, Turn
    <2>5. Calm(c) => Calm(c)'
      <3>0. SUFFICES ASSUME Calm(c) PROVE Calm(c)'
          OBVIOUS
      <3> DEFINE k == job'[c]
      <3>1. k.at \in {"verify"} /\ k.token = t
          BY <2>1 DEF Turns, Turn, Errands
      <3>2. ~k.swallowed
          BY <2>1, <3>0 DEF Calm, Turns
      <3>3. own.id = t /\ Plannable(t) /\ Is(issue, "active")
          BY <1>10, <3>0 DEF Calm
      <3>4. own.pr = None
          BY <3>3 DEF Plannable, Empty
      <3>5. own' = Full(t) /\ Is(issue', "active")
          BY <2>2, <2>3, <3>3, <3>4
      <3> HIDE DEF k
      <3> QED BY <3>1, <3>2, <3>3, <3>4, <3>5
              DEF k, Calm, CalmPlaces
    <2>6. Whole(c) => Whole(c)'
      <3>0. SUFFICES ASSUME Whole(c) PROVE Whole(c)'
          OBVIOUS
      <3> DEFINE k == job'[c]
      <3>1. job[c].tried /\ ClaimLabels /\ Mine(t) /\ own.id = t /\ (byHand \/ issue.labels = {"active"})
          BY <1>10, <3>0 DEF Whole, ClaimWhole
      <3>2. k.at = "verify" /\ k.tried
          BY <2>1, <3>1 DEF Turns, Turn, Errands
      <3>3. ClaimLabels'
          BY <1>1, <2>2, <2>3, <3>1 DEF ClaimLabels, Is
      <3>4. own' = Full(t)
          BY <1>0, <2>2, <2>3, <3>1 DEF Mine, Claimable, Full, Empty
      <3>5. Mine(job[c].token)'
          BY <1>1, <2>1, <3>1, <3>4 DEF Mine, Claimable, Full, Turns, Turn, Errands
      <3>6. byHand' \/ issue'.labels = {"active"}
          BY <1>1, <2>2, <2>3, <3>1
      <3> HIDE DEF k
      <3> QED BY <3>1, <3>2, <3>3, <3>4, <3>5, <3>6
              DEF k, Whole, ClaimWhole, ReleaseWhole, ReviewWhole, PartlyCleared
    <2> QED BY <2>4, <2>5, <2>6 DEF Onwards
  <1>11. CASE At("part branch")
    <2>1. Turns(c, "part verify")
      <3>1. Goto(c, "part verify")
          BY <1>11 DEF Write, Onward
      <3> QED BY <1>1, <3>1, AnyTurns
    <2>2. issue' = issue /\ own' = [own EXCEPT !.branch = t]
        BY <1>11 DEF Write, LabelWrites, FieldWrites, NextOwn
    <2>3. own.id = t /\ own.pr = None => own' = Full(t)
        BY <1>0, <2>2, BranchFills
    <2>4. Family(c)
        BY <1>11, <2>1 DEF Family, Turns, Turn
    <2>5. ~Calm(c)
        BY <1>11 DEF Calm, CalmPlaces
    <2>6. Whole(c) => Whole(c)'
      <3>0. SUFFICES ASSUME Whole(c) PROVE Whole(c)'
          OBVIOUS
      <3> DEFINE k == job'[c]
      <3>1. ClaimLabels /\ Mine(t) /\ own.id = t
          BY <1>11, <3>0 DEF Whole, ClaimWhole
      <3>2. k.at = "part verify"
          BY <2>1 DEF Turns, Turn, Errands
      <3>3. ClaimLabels'
          BY <1>1, <2>2, <2>3, <3>1 DEF ClaimLabels, Is
      <3>4. own' = Full(t)
          BY <1>0, <2>2, <2>3, <3>1 DEF Mine, Claimable, Full, Empty
      <3>5. Mine(job[c].token)'
          BY <1>1, <2>1, <3>1, <3>4 DEF Mine, Claimable, Full, Turns, Turn, Errands
      <3> HIDE DEF k
      <3> QED BY <3>1, <3>2, <3>3, <3>4, <3>5
              DEF k, Whole, ClaimWhole, ReleaseWhole, ReviewWhole, PartlyCleared
    <2> QED BY <2>4, <2>5, <2>6 DEF Onwards
  <1>12. CASE At("rel field")
    <2>1. Turns(c, "rel field") \/ Turns(c, "rel proof 4")
      <3>1. Goto(c, "rel field") \/ Goto(c, "rel proof 4")
          BY <1>12 DEF Write, Onward
      <3> QED BY <1>1, <3>1, AnyTurns
    <2>2. issue' = issue /\ own' = Towards(Empty)
        BY <1>12 DEF Write, LabelWrites, FieldWrites, NextOwn
    <2>3. job'[c].at = "rel proof 4" => own' = Empty
      <3>1. CASE own' = Empty
          BY <3>1
      <3>2. CASE own' # Empty
        <4>1. Goto(c, "rel field")
            BY <1>12, <3>2 DEF Write, Onward
        <4>2. Turns(c, "rel field")
            BY <1>1, <4>1, AnyTurns
        <4> QED BY <4>2 DEF Turns, Turn
      <3> QED BY <3>1, <3>2
    <2>4. Family(c)
        BY <1>12, <2>1 DEF Family, Turns, Turn
    <2>5. Calm(c) => Calm(c)'
      <3>0. SUFFICES ASSUME Calm(c) PROVE Calm(c)'
          OBVIOUS
      <3> DEFINE k == job'[c]
      <3>1. Proof(job[c])'
          BY <1>1, <1>12, <2>1, <3>0, ProofKept DEF Calm, Turns, Turn
      <3>2. k.at \in {"rel field", "rel proof 4"}
          BY <2>1 DEF Turns, Turn, Errands
      <3>3. ~k.swallowed
          BY <2>1, <3>0 DEF Calm, Turns
      <3>4. Is(issue', k.to)
          BY <1>12, <2>2, <2>3, <2>1, <3>0 DEF Calm, Is, Turns, Turn, Errands
      <3>5. k.at = "rel proof 4" => own' = Empty
          BY <2>3
      <3> HIDE DEF k
      <3> QED BY <3>1, <3>2, <3>3, <3>4, <3>5
              DEF k, Calm, CalmPlaces
    <2>6. Whole(c) => Whole(c)'
      <3>0. SUFFICES ASSUME Whole(c) PROVE Whole(c)'
          OBVIOUS
      <3> DEFINE k == job'[c]
      <3>1. kept.own = job[c].snap /\ job[c].prev \in {"active", "review", "grooming"} /\ Fr(job[c].prev)
          BY <1>12, <3>0 DEF Whole, ReleaseWhole
      <3>2. job[c].tried /\ PartlyCleared(job[c].snap) /\ (byHand \/ issue.labels = {job[c].to})
          BY <1>12, <3>0 DEF Whole, ReleaseWhole
      <3>3. k.at \in {"rel field", "rel proof 4"} /\ k.tried /\ (k.at = "rel proof 4" => own' = Empty)
          BY <2>2, <2>3, <2>1, <3>2 DEF Turns, Turn, Errands
      <3>4. kept'.own = k.snap /\ k.prev \in {"active", "review", "grooming"}
          BY <1>1, <2>1, <3>1 DEF Turns, Turn, Errands
      <3>5. Fr(job[c].prev)'
          BY <1>1, <2>1, <3>1 DEF Fr, Is, Turns
      <3>6. \A f \in DOMAIN own' : own'[f] \in {k.snap[f], None}
          BY <1>0, <2>1, <2>2, <3>2, TowardsClears DEF PartlyCleared, Turns, Turn, Errands
      <3>7. byHand' \/ issue'.labels = {k.to}
          BY <1>1, <2>2, <2>3, <2>1, <3>2 DEF Turns, Turn, Errands
      <3> HIDE DEF k
      <3> QED BY <3>1, <3>2, <3>3, <3>4, <3>5, <3>6, <3>7
              DEF k, Whole, ClaimWhole, ReleaseWhole, ReviewWhole, PartlyCleared
    <2> QED BY <2>4, <2>5, <2>6 DEF Onwards
  <1>13. CASE At("undo field")
    <2>1. Turns(c, "undo field") \/ Turns(c, "undo verify")
      <3>1. Goto(c, "undo field") \/ Goto(c, "undo verify")
          BY <1>13 DEF Write, Onward
      <3> QED BY <1>1, <3>1, AnyTurns
    <2>2. issue' = issue /\ own' = Towards(job[c].snap)
        BY <1>13 DEF Write, LabelWrites, FieldWrites, NextOwn
    <2>3. Family(c)
        BY <1>13, <2>1 DEF Family, Turns, Turn
    <2>4. ~Calm(c)
        BY <1>13 DEF Calm, CalmPlaces
    <2>5. Whole(c) => Whole(c)'
      <3>0. SUFFICES ASSUME Whole(c) PROVE Whole(c)'
          OBVIOUS
      <3> DEFINE k == job'[c]
      <3>1. kept.own = job[c].snap /\ job[c].prev \in {"active", "review", "grooming"} /\ Fr(job[c].prev)
          BY <1>13, <3>0 DEF Whole, ReleaseWhole
      <3>2. byHand \/ issue.labels = {job[c].prev}
          BY <1>13, <3>0 DEF Whole, ReleaseWhole
      <3>3. k.at \in {"undo field", "undo verify"}
          BY <2>1 DEF Turns, Turn, Errands
      <3>4. kept'.own = k.snap /\ k.prev \in {"active", "review", "grooming"}
          BY <1>1, <2>1, <3>1 DEF Turns, Turn, Errands
      <3>5. Fr(job[c].prev)'
          BY <1>1, <2>1, <3>1 DEF Fr, Is, Turns
      <3>6. byHand' \/ issue'.labels = {k.prev}
          BY <1>1, <2>2, <2>1, <3>2 DEF Turns, Turn, Errands
      <3> HIDE DEF k
      <3> QED BY <3>1, <3>2, <3>3, <3>4, <3>5, <3>6
              DEF k, Whole, ClaimWhole, ReleaseWhole, ReviewWhole, PartlyCleared
    <2> QED BY <2>3, <2>4, <2>5 DEF Onwards
  <1>14. CASE At("rev pr")
    <2>1. Turns(c, "rev proof 4")
      <3>1. Goto(c, "rev proof 4")
          BY <1>14 DEF Write, Onward
      <3> QED BY <1>1, <3>1, AnyTurns
    <2>2. issue' = issue /\ own' = [own EXCEPT !.pr = job[c].want.pr]
        BY <1>14 DEF Write, LabelWrites, FieldWrites, NextOwn
    <2>3. own = job[c].snap => own' = job[c].want
      <3>1. job[c].snap.id = t /\ job[c].snap.branch = t /\ job[c].want = InReview(t)
          BY <1>14 DEF Ready, Briefed
      <3> QED BY <1>0, <2>2, <3>1, PrFills
    <2>4. Family(c)
        BY <1>14, <2>1 DEF Family, Turns, Turn
    <2>5. Calm(c) => Calm(c)'
      <3>0. SUFFICES ASSUME Calm(c) PROVE Calm(c)'
          OBVIOUS
      <3> DEFINE k == job'[c]
      <3>1. Proof(job[c])'
          BY <1>1, <1>14, <2>1, <3>0, ProofKept DEF Calm, Turns, Turn
      <3>2. k.at \in {"rev proof 4"}
          BY <2>1 DEF Turns, Turn, Errands
      <3>3. ~k.swallowed
          BY <2>1, <3>0 DEF Calm, Turns
      <3>4. own' = k.want /\ Is(issue', "review")
          BY <1>14, <2>2, <2>3, <2>1, <3>0 DEF Calm, Turns, Turn, Errands
      <3> HIDE DEF k
      <3> QED BY <3>1, <3>2, <3>3, <3>4
              DEF k, Calm, CalmPlaces
    <2>6. Whole(c) => Whole(c)'
      <3>0. SUFFICES ASSUME Whole(c) PROVE Whole(c)'
          OBVIOUS
      <3> DEFINE k == job'[c]
      <3>1. kept.own = job[c].snap /\ Fr("active")
          BY <1>14, <3>0 DEF Whole, ReviewWhole
      <3>2. job[c].tried /\ own = job[c].snap /\ (byHand \/ issue.labels = {"review"})
          BY <1>14, <3>0 DEF Whole, ReviewWhole
      <3>3. k.at = "rev proof 4" /\ k.tried /\ own' = k.want /\ kept'.own = k.snap
          BY <1>1, <2>2, <2>3, <2>1, <3>1, <3>2 DEF Turns, Turn, Errands
      <3>4. Fr("active")'
          BY <1>1, <3>1 DEF Fr, Is
      <3>5. byHand' \/ issue'.labels = {"review"}
          BY <1>1, <2>2, <2>3, <3>2
      <3> HIDE DEF k
      <3> QED BY <3>1, <3>2, <3>3, <3>4, <3>5
              DEF k, Whole, ClaimWhole, ReleaseWhole, ReviewWhole, PartlyCleared
    <2> QED BY <2>4, <2>5, <2>6 DEF Onwards
  <1> QED BY <1>2, <1>3, <1>4, <1>5, <1>6, <1>7, <1>8, <1>9, <1>10, <1>11, <1>12, <1>13, <1>14
          DEF Write, LabelWrites, FieldWrites

\* A label write, in whole or in part, leaves only labels that were there and the
\* one it meant to set.
LEMMA LabelsBounded ==
  ASSUME issue \in Issue, NEW c, NEW a \in {Adds(job[c]), {}}, NEW d
  PROVE  /\ Relabel(a, d).labels \subseteq issue.labels \cup {Target(job[c])}
         /\ Relabel(a, d).open = issue.open
         /\ job[c].at = "part unready" => Relabel(a, d).labels \subseteq issue.labels
  <1> DEFINE s == Target(job[c])
  <1>1. a = {} \/ (job[c].at # "part unready" /\ a = {s} \ job[c].saw.labels)
      BY DEF Adds, Added
  <1> HIDE DEF s
  <1>2. a \subseteq {s} /\ (job[c].at = "part unready" => a = {})
      BY <1>1
  <1>3. /\ Relabel(a, d).open = issue.open
        /\ Relabel(a, d).labels = (issue.labels \ d) \cup a
      BY RelabelIs
  <1> QED BY <1>2, <1>3 DEF s

LEMMA FailsBroken ==
  ASSUME NEW c \in Command, Ready(c), Fails(c), UNCHANGED <<kept, byHand>>, Whole(c)
  PROVE  Broken(c)
  <1> DEFINE j == job[c]
             k == job'[c]
             t == j.token
  <1>1. /\ Throws(c) /\ BoardInv /\ issue \in Issue /\ own \in Ownership /\ Held(c)
        /\ (byHand' <=> byHand) /\ kept' = kept
      BY DEF Fails, Ready, BoardInv
  <1>2. k.token = t /\ k.snap = j.snap
      BY <1>1, ThrowsTurns DEF Turn, Errands
  <1>3. CASE UNCHANGED <<issue, own>>
      BY <1>1, <1>3, ReadsBreakNothing
  <1>4. ASSUME j.at \in LabelWrites, own' = own,
               NEW a \in {Adds(j), {}}, NEW d \in {Drops(j), {}}, issue' = Relabel(a, d)
        PROVE  Broken(c)
    <2>1. issue'.labels \subseteq issue.labels \cup {Target(j)}
        BY <1>1, <1>4, LabelsBounded
    <2>2. CASE j.at \in {"claim label", "part label"}
      <3>1. ReadyStill /\ Mine(t)
          BY <2>2 DEF Whole, ClaimWhole, ReleaseWhole, ReviewWhole
      <3>2. Target(j) = "active"
          BY <2>2 DEF Target
      <3>3. ClaimLabels'
          BY <1>1, <2>1, <3>1, <3>2 DEF ReadyStill, ClaimLabels, Is
      <3>4. Mine(t)'
          BY <1>1, <1>2, <1>4, <3>1 DEF Mine, Claimable, Full
      <3> HIDE DEF j
      <3> QED BY <1>2, <2>2, <3>3, <3>4
              DEF j, Broken, ReleasePlaces, ReviewPlaces, Untried
    <2>3. CASE j.at = "rel label"
      <3>1. own = j.snap /\ (byHand \/ issue.labels = {j.prev})
          BY <2>3 DEF Whole, ClaimWhole, ReleaseWhole, ReviewWhole
      <3>2. Target(j) = j.to
          BY <2>3 DEF Target
      <3>3. byHand \/ (issue'.labels \subseteq {j.prev, j.to} /\ own' = j.snap)
          BY <1>4, <2>1, <3>1, <3>2
      <3>4. PartlyCleared(job[c].snap)'
          BY <1>2, <1>4, <3>1 DEF PartlyCleared
      <3> HIDE DEF j
      <3> QED BY <2>3, <3>3, <3>4
              DEF j, Broken, ClaimPlaces, PartPlaces, ReviewPlaces, Untried
    <2>4. CASE j.at = "rev label"
      <3>1. own = j.snap /\ (byHand \/ issue.labels = {"active"})
          BY <2>4 DEF Whole, ClaimWhole, ReleaseWhole, ReviewWhole
      <3>2. Target(j) = "review"
          BY <2>4 DEF Target
      <3>3. own' \in {j.snap, j.want} /\ (byHand \/ issue'.labels \subseteq {"active", "review"})
          BY <1>4, <2>1, <3>1, <3>2
      <3> HIDE DEF j
      <3> QED BY <2>4, <3>3
              DEF j, Broken, ClaimPlaces, PartPlaces, ReleasePlaces, Untried
    <2>5. CASE j.at \in {"part groom", "part unready", "undo label"}
        BY <2>5 DEF Broken, ClaimPlaces, PartPlaces, ReleasePlaces, ReviewPlaces, Untried
    <2> QED BY <1>4, <2>2, <2>3, <2>4, <2>5 DEF LabelWrites
  <1>5. ASSUME j.at \in FieldWrites, own' = NextOwn(j), issue' = issue
        PROVE  Broken(c)
    <2>1. CASE j.at \in {"claim id", "claim branch", "part branch"}
      <3>1. (ReadyStill \/ ClaimLabels) /\ Mine(t)
          BY <2>1 DEF Whole, ClaimWhole, ReleaseWhole, ReviewWhole, PartPlaces
      <3>2. ClaimLabels'
          BY <1>1, <1>5, <3>1 DEF ReadyStill, ClaimLabels, Is
      <3>3. own' \in {Full(t), [id |-> t, branch |-> None, pr |-> None]}
        <4>1. CASE j.at = "claim id"
          <5>1. own = Empty /\ own' = [own EXCEPT !.id = t]
              BY <1>1, <1>5, <4>1 DEF Held, NextOwn
          <5> QED BY <5>1 DEF Empty
        <4>2. CASE j.at \in {"claim branch", "part branch"}
          <5>1. own.id = t /\ own' = [own EXCEPT !.branch = t]
              BY <1>5, <4>2 DEF Whole, ClaimWhole, ReleaseWhole, ReviewWhole, NextOwn
          <5>2. own.pr = None
              BY <3>1 DEF Mine, Claimable, Empty, Full
          <5> QED BY <1>1, <5>1, <5>2, BranchFills
        <4> QED BY <2>1, <4>1, <4>2
      <3>4. Mine(t)'
          BY <1>1, <1>2, <3>1, <3>3 DEF Mine, Claimable, Full
      <3> HIDE DEF j
      <3> QED BY <1>2, <2>1, <3>2, <3>4
              DEF j, Broken, ReleasePlaces, ReviewPlaces, Untried
    <2>2. CASE j.at = "rel field"
      <3>1. PartlyCleared(j.snap) /\ (byHand \/ issue.labels = {j.to})
          BY <2>2 DEF Whole, ClaimWhole, ReleaseWhole, ReviewWhole
      <3>2. own' = Towards(Empty)
          BY <1>5, <2>2 DEF NextOwn
      <3>3. PartlyCleared(job[c].snap)'
          BY <1>1, <1>2, <3>1, <3>2, TowardsClears DEF PartlyCleared
      <3>4. byHand \/ (issue'.labels \subseteq {j.prev, j.to} /\ issue'.labels = {j.to})
          BY <1>5, <3>1
      <3> HIDE DEF j
      <3> QED BY <2>2, <3>3, <3>4
              DEF j, Broken, ClaimPlaces, PartPlaces, ReviewPlaces, Untried
    <2>3. CASE j.at = "rev pr"
      <3>1. own = j.snap /\ (byHand \/ issue.labels = {"review"})
          BY <2>3 DEF Whole, ClaimWhole, ReleaseWhole, ReviewWhole
      <3>2. own' = [own EXCEPT !.pr = j.want.pr]
          BY <1>5, <2>3 DEF NextOwn
      <3>3. j.snap.id = t /\ j.snap.branch = t /\ j.want = InReview(t)
          BY <2>3 DEF Ready, Briefed, ReviewPlaces
      <3>4. own' = j.want
          BY <1>1, <3>1, <3>2, <3>3, PrFills
      <3>5. own' \in {j.snap, j.want} /\ (byHand \/ issue'.labels \subseteq {"active", "review"})
          BY <1>5, <3>1, <3>4
      <3> HIDE DEF j
      <3> QED BY <2>3, <3>5
              DEF j, Broken, ClaimPlaces, PartPlaces, ReleasePlaces, Untried
    <2>4. CASE j.at = "undo field"
        BY <2>4 DEF Broken, ClaimPlaces, PartPlaces, ReleasePlaces, ReviewPlaces, Untried
    <2> QED BY <1>5, <2>1, <2>2, <2>3, <2>4 DEF FieldWrites
  <1>6. \/ UNCHANGED <<issue, own>>
        \/ /\ j.at \in LabelWrites /\ own' = own
           /\ \E a \in {Adds(j), {}}, d \in {Drops(j), {}} : issue' = Relabel(a, d)
        \/ j.at \in FieldWrites /\ own' = NextOwn(j) /\ issue' = issue
      BY DEF Fails
  <1> HIDE DEF j
  <1> QED BY <1>3, <1>4, <1>5, <1>6

LEMMA FailsOnwards ==
  ASSUME NEW c \in Command, Ready(c), Fails(c), UNCHANGED <<kept, byHand>>
  PROVE  Onwards(c)
  <1>1. BoardInv /\ Throws(c) /\ troubles \in Nat /\ troubles' = troubles + 1
      BY DEF Ready, BoardInv, Fails, Trouble
  <1>2. Family(c)
      BY <1>1, ThrowsFamily
  <1>3. Whole(c) => Whole(c)'
      BY <1>1, FailsBroken, ThrowsWhole
  <1> QED BY <1>1, <1>2, <1>3 DEF Onwards

LEMMA RefusedOnwards ==
  ASSUME NEW c \in Command, Ready(c), Refused(c), UNCHANGED <<kept, byHand>>
  PROVE  Onwards(c)
  <1> USE DEF ClaimPlaces, PartPlaces, ParkPlaces, ReleasePlaces, UndoPlaces, ReviewPlaces,
              LookPlaces, Untried
  <1>1. BoardInv /\ Goto(c, "keep") /\ troubles \in Nat /\ troubles' = troubles + 1
      BY DEF Ready, BoardInv, Refused, Ends, Trouble
  <1>2. Turn(c, "keep")
      BY <1>1, AnyTurns DEF Turns
  <1>3. Family(c)
      BY <1>2 DEF Family, Turn
  <1>4. Whole(c)'
    <2> DEFINE k == job'[c]
    <2>1. k.at = "keep"
        BY <1>2 DEF Turn
    <2> HIDE DEF k
    <2> QED BY <2>1
            DEF k, Whole, ClaimWhole, ReleaseWhole, ReviewWhole
  <1> QED BY <1>1, <1>3, <1>4 DEF Onwards

LEMMA CommandOnwards ==
  ASSUME NEW c \in Command, Ready(c), CommandStep(c), UNCHANGED <<kept, byHand>>
  PROVE  Onwards(c)
  BY ClaimOnwards, PartOnwards, ParkOnwards, ReleaseOnwards, UndoOnwards, ReviewOnwards,
     LookOnwards, WriteOnwards, FailsOnwards, RefusedOnwards DEF CommandStep

\* Commands know no labels but those of the queue, and close no issue.
LEMMA LabelsStay ==
  ASSUME NEW c \in Command, Ready(c), Whole(c), CommandStep(c)
  PROVE  issue'.labels \subseteq State /\ issue'.open = issue.open
  <1> DEFINE j == job[c]
  <1>1. issue \in Issue /\ issue.labels \subseteq State
      BY DEF Ready, BoardInv
  <1>2. CASE UNCHANGED issue
      BY <1>1, <1>2
  <1>3. ASSUME j.at \in LabelWrites, NEW a \in {Adds(j), {}}, NEW d, issue' = Relabel(a, d)
        PROVE  issue'.labels \subseteq State /\ issue'.open = issue.open
    <2>1. j.at # "part unready" => Target(j) \in State
      <3>1. j.at = "rel label" => j.to \in State
          BY DEF Ready, Briefed, ReleasePlaces, State
      <3>2. j.at = "undo label" => j.prev \in State
          BY DEF Whole, ClaimWhole, ReleaseWhole, ReviewWhole, UndoPlaces, State
      <3> HIDE DEF j
      <3> QED BY <3>1, <3>2 DEF Target, State
    <2> QED BY <1>1, <1>3, <2>1, LabelsBounded
  <1>4. \/ UNCHANGED issue
        \/ /\ j.at \in LabelWrites
           /\ \E a \in {Adds(j), {}}, d \in {Drops(j), {}} : issue' = Relabel(a, d)
      BY DEF CommandStep, ClaimIssue, CompletePartial, ParkPartial, Release, RestoreRelease,
             Review, LookReview, Write, Fails, Refused, Demand, Decide, Quiet
  <1> HIDE DEF j
  <1> QED BY <1>2, <1>3, <1>4

-----------------------------------------------------------------------------
(* A lock that waits for an operator has a cause.                             *)

LEMMA InsideReady ==
  ASSUME BoardInv, MutexInv, CalmInv, WholeInv, NEW c \in Command, pc[c] = "inside"
  PROVE  /\ Ready(c) /\ Whole(c) /\ ref = Lock(c) /\ ref.state = "LOCK"
         /\ \A d \in Command \ {c} : pc[d] # "inside" /\ ref # Lock(d)
  <1>1. ref = Lock(c) /\ \A d \in Command : pc[d] = "inside" => ref = Lock(d)
      BY DEF MutexInv, HoldsOrWaits
  <1>2. ref.state = "LOCK" /\ \A d \in Command : ref = Lock(d) => d = c
      BY <1>1, CommitsDiffer
  <1>3. Whole(c)
      BY <1>1 DEF WholeInv, Watched
  <1>4. Ready(c)
      BY <1>2 DEF Ready, WholeInv, CalmInv, Lucky
  <1> QED BY <1>1, <1>2, <1>3, <1>4

LEMMA TroublesGrow ==
  ASSUME BoardInv, NEW c \in Command, CommandStep(c) \/ Around(c) \/ Sorted(c)
  PROVE  troubles \in Nat /\ troubles' \in {troubles, troubles + 1}
  <1>1. troubles \in Nat
      BY DEF BoardInv
  <1>2. ASSUME CommandStep(c) PROVE troubles' \in {troubles, troubles + 1}
      BY <1>2
         DEF CommandStep, ClaimIssue, CompletePartial, ParkPartial, Release, RestoreRelease,
             Review, LookReview, Write, Fails, Refused, Demand, Decide, Quiet, Trouble
  <1>3. ASSUME Around(c) \/ Sorted(c) PROVE troubles' \in {troubles, troubles + 1}
      BY <1>3 DEF Around, Sorted, Acquire, GiveBack, Stops, Trouble
  <1> QED BY <1>1, <1>2, <1>3

\* A step of a command inside, seen from the mutex and from those who watch it.
LEMMA InsideSteps ==
  ASSUME BoardInv, MutexInv, CalmInv, WholeInv, NEW c \in Command, CommandStep(c), Watch
  PROVE  /\ pc[c] = "inside" /\ UNCHANGED <<ref, pc, flight, kept, byHand>> /\ Onwards(c)
         /\ issue'.labels \subseteq State /\ issue'.open = issue.open
  <1>1. pc[c] = "inside" /\ UNCHANGED <<ref, pc, flight>>
      BY CommandChanges DEF Changes, mutexVars
  <1>2. Ready(c) /\ Whole(c) /\ ref.state = "LOCK"
      BY <1>1, InsideReady
  <1>3. UNCHANGED <<kept, byHand>>
      BY <1>1, <1>2 DEF Watch, Ready
  <1> QED BY <1>1, <1>2, <1>3, CommandOnwards, LabelsStay

\* Whoever a step leaves alone keeps its luck.
LEMMA LuckStays ==
  ASSUME BoardInv, NEW c \in Command, Lucky(c), job'[c] = job[c], pc'[c] = pc[c],
         troubles' \in {troubles, troubles + 1},
         pc[c] # "inside" \/ UNCHANGED <<issue, own, prs>> \/ troubles' = troubles + 1
  PROVE  Lucky(c)'
  <1>1. troubles \in Nat /\ job[c].since \in Nat
      BY DEF BoardInv, Job
  <1>2. Briefed(c)'
      BY DEF Lucky, Briefed
  <1>3. job'[c].since <= troubles' /\ (pc'[c] = "stopped" => job'[c].since < troubles')
      BY <1>1 DEF Lucky
  <1>4. ASSUME pc'[c] = "inside", job'[c].since = troubles' PROVE Calm(c)'
    <2>1. troubles' = troubles /\ Calm(c) /\ UNCHANGED <<issue, own, prs>>
        BY <1>1, <1>4 DEF Lucky
    <2> QED BY <2>1, ZenonT(100) DEF Calm, Plannable, Proof, Is
  <1> QED BY <1>2, <1>3, <1>4 DEF Lucky

LEMMA CommandLuck ==
  ASSUME BoardInv, MutexInv, CalmInv, WholeInv, NEW c \in Command, CommandStep(c), Watch
  PROVE  CalmInv'
  <1>1. /\ pc[c] = "inside" /\ pc' = pc /\ Family(c) /\ troubles \in Nat
        /\ Calm(c) /\ UNCHANGED troubles => Calm(c)'
        /\ troubles' \in {troubles, troubles + 1}
        /\ \A d \in Command \ {c} : pc[d] # "inside"
      BY InsideSteps, InsideReady, TroublesGrow DEF Onwards
  <1>2. \A d \in Command \ {c} : Lucky(d)'
      BY <1>1, LuckStays DEF CalmInv, Family, Turn
  <1>3. Lucky(c)'
    <2> DEFINE j == job[c]
               k == job'[c]
    <2>1. /\ Errands(j, k) /\ j.since \in Nat
          /\ k.at \in ReleasePlaces \cup UndoPlaces => j.at \in ReleasePlaces \cup UndoPlaces
          /\ k.at \in ReviewPlaces \cup LookPlaces => j.at \in ReviewPlaces \cup LookPlaces
        BY <1>1 DEF Family, Turn, BoardInv, Job
    <2>2. Lucky(c)
        BY DEF CalmInv
    <2>3. Briefed(c)'
      <3>1. Briefed(c) /\ pc'[c] = "inside"
          BY <1>1, <2>2 DEF Lucky
      <3> QED BY <2>1, <3>1 DEF Briefed, Errands
    <2>4. k.since = j.since
        BY <2>1 DEF Errands
    <2>5. k.since <= troubles' /\ (k.since = troubles' => troubles' = troubles /\ j.since = troubles)
      <3> HIDE DEF j, k
      <3>1. j.since <= troubles
          BY <2>2 DEF Lucky, j
      <3> QED BY <1>1, <2>1, <2>4, <3>1
    <2>6. k.since = troubles' => Calm(c)'
        BY <1>1, <2>2, <2>5 DEF Lucky
    <2> QED BY <1>1, <2>3, <2>5, <2>6 DEF Lucky
  <1> QED BY <1>2, <1>3 DEF CalmInv

LEMMA PreviewLuck ==
  ASSUME BoardInv, MutexInv, NEW c \in Command, Preview(c), UNCHANGED troubles, Lucky(c)
  PROVE  /\ Lucky(c)' /\ \A d \in Command \ {c} : UNCHANGED <<job[d], pc[d]>>
  <1>1. /\ own \in Ownership /\ job \in [Command -> Job] /\ troubles \in Nat
        /\ \E t \in Token : NamedBy(own, t)
        /\ pc \in [Command -> Stand]
      BY DEF BoardInv, MutexInv, MutexTypeOK
  <1>2. ASSUME NEW t \in Token, own.id = t, own.branch # None
        PROVE  own.branch = t /\ [own EXCEPT !.pr = own.branch] = InReview(t)
    <2>1. own.branch = t
        BY <1>1, <1>2, BoardAssumption DEF NamedBy, Ownership
    <2> QED BY <1>1, <1>2, <2>1 DEF Ownership, InReview
  <1>3. ASSUME NEW k, job' = [job EXCEPT ![c] = k], Prepare(c, "begin"),
               ~k.tried, ~k.swallowed, k.since = 0,
               \/ k.at = "claim"
               \/ /\ k.at = "rel read" /\ k.snap.id = k.token /\ k.snap.branch = k.token
                  /\ k.to \in {"ready", "grooming"}
               \/ /\ k.at = "rev read" /\ k.snap.id = k.token /\ k.snap.branch = k.token
                  /\ k.want = InReview(k.token)
        PROVE  Lucky(c)' /\ \A d \in Command \ {c} : UNCHANGED <<job[d], pc[d]>>
    <2>1. job'[c] = k /\ \A d \in Command \ {c} : UNCHANGED job[d]
        BY <1>1, <1>3
    <2>2. pc'[c] = "begin" /\ \A d \in Command \ {c} : UNCHANGED pc[d]
        BY <1>1, <1>3 DEF Prepare, Move
    <2>3. Briefed(c)'
        BY <1>3, <2>1, <2>2
           DEF Briefed, ReleasePlaces, UndoPlaces, ReviewPlaces, LookPlaces
    <2>4. job'[c].since <= troubles' /\ pc'[c] \notin {"stopped", "inside"}
      <3>1. job'[c].since = 0 /\ troubles' = troubles
          BY <1>3, <2>1
      <3>2. troubles \in Nat
          BY <1>1
      <3> QED BY <2>2, <3>1, <3>2
    <2>5. Lucky(c)'
        BY <2>3, <2>4 DEF Lucky
    <2> QED BY <2>1, <2>2, <2>5
  <1>4. ASSUME NEW t \in Token, Prepare(c, "begin"),
               job' = [job EXCEPT ![c] = [NoJob EXCEPT !.op = "claim", !.at = "claim",
                                                       !.token = t]]
        PROVE  Lucky(c)' /\ \A d \in Command \ {c} : UNCHANGED <<job[d], pc[d]>>
    <2> DEFINE k == [NoJob EXCEPT !.op = "claim", !.at = "claim", !.token = t]
    <2>1. k.at = "claim" /\ ~k.tried /\ ~k.swallowed /\ k.since = 0
        BY DEF NoJob
    <2>2. job' = [job EXCEPT ![c] = k]
        BY <1>4
    <2> HIDE DEF k
    <2> QED BY <1>3, <1>4, <2>1, <2>2
  <1>5. ASSUME NEW t \in Token, own.id = t, own.branch # None, Prepare(c, "begin"),
               NEW mode \in {"plain", "closed", "merged"}, NEW to \in {"ready", "grooming"},
               job' = [job EXCEPT ![c] = [NoJob EXCEPT !.op = "release",
                         !.at = "rel read", !.token = t, !.mode = mode, !.to = to,
                         !.snap = own]]
        PROVE  Lucky(c)' /\ \A d \in Command \ {c} : UNCHANGED <<job[d], pc[d]>>
    <2> DEFINE k == [NoJob EXCEPT !.op = "release", !.at = "rel read", !.token = t,
                                  !.mode = mode, !.to = to, !.snap = own]
    <2>1. /\ k.at = "rel read" /\ k.token = t /\ ~k.tried /\ ~k.swallowed /\ k.since = 0
          /\ k.snap = own /\ k.to = to
        BY DEF NoJob
    <2>2. job' = [job EXCEPT ![c] = k]
        BY <1>5
    <2> HIDE DEF k
    <2> QED BY <1>2, <1>3, <1>5, <2>1, <2>2
  <1>6. ASSUME NEW t \in Token, own.id = t, own.branch # None, Prepare(c, "begin"),
               job' = [job EXCEPT ![c] = [NoJob EXCEPT !.op = "review", !.at = "rev read",
                         !.token = t, !.snap = own, !.want = [own EXCEPT !.pr = own.branch]]]
        PROVE  Lucky(c)' /\ \A d \in Command \ {c} : UNCHANGED <<job[d], pc[d]>>
    <2> DEFINE w == [own EXCEPT !.pr = own.branch]
               k == [NoJob EXCEPT !.op = "review", !.at = "rev read", !.token = t,
                                  !.snap = own, !.want = w]
    <2>1. /\ k.at = "rev read" /\ k.token = t /\ ~k.tried /\ ~k.swallowed /\ k.since = 0
          /\ k.snap = own /\ k.want = w
      <3> HIDE DEF w
      <3> QED BY DEF NoJob
    <2>2. job' = [job EXCEPT ![c] = k]
        BY <1>6
    <2>3. w = InReview(t) /\ own.branch = t
        BY <1>2, <1>6
    <2> HIDE DEF k, w
    <2> QED BY <1>3, <1>6, <2>1, <2>2, <2>3
  <1>7. CASE Prepare(c, "end") /\ UNCHANGED job
    <2>1. pc'[c] = "end" /\ \A d \in Command \ {c} : UNCHANGED pc[d]
        BY <1>1, <1>7 DEF Prepare, Move
    <2>2. Briefed(c)'
        BY <1>7, <2>1 DEF Lucky, Briefed
    <2> QED BY <1>7, <2>1, <2>2 DEF Lucky
  <1> QED BY <1>4, <1>5, <1>6, <1>7 DEF Preview

\* A command without a job has nothing to be briefed for.
LEMMA IdleLuck ==
  ASSUME BoardInv, NEW c \in Command, job'[c].at = "none",
         pc'[c] \notin {"begin", "acquire", "inside"}, job'[c].since <= troubles',
         pc'[c] = "stopped" => job'[c].since < troubles'
  PROVE  Lucky(c)'
  BY DEF Lucky, Briefed, ReleasePlaces, UndoPlaces, ReviewPlaces, LookPlaces

LEMMA JobsGone ==
  ASSUME BoardInv, NEW c \in Command
  PROVE  /\ Done(c) => /\ job'[c].at = "none" /\ job'[c].since = 0
                       /\ \A d \in Command \ {c} : UNCHANGED job[d]
         /\ Stranded(c) => /\ job'[c].at = "none" /\ job'[c].since = job[c].since
                           /\ \A d \in Command \ {c} : UNCHANGED job[d]
  <1>1. job \in [Command -> Job]
      BY DEF BoardInv
  <1>2. ASSUME Done(c)
        PROVE  /\ job'[c].at = "none" /\ job'[c].since = 0
               /\ \A d \in Command \ {c} : UNCHANGED job[d]
      BY <1>1, <1>2 DEF Done, NoJob
  <1>3. ASSUME Stranded(c)
        PROVE  /\ job'[c].at = "none" /\ job'[c].since = job[c].since
               /\ \A d \in Command \ {c} : UNCHANGED job[d]
    <2> DEFINE n == job[c].since
    <2>1. job' = [job EXCEPT ![c] = [NoJob EXCEPT !.since = n]]
        BY <1>3 DEF Stranded
    <2> HIDE DEF n
    <2>2. job'[c] = [NoJob EXCEPT !.since = n] /\ \A d \in Command \ {c} : UNCHANGED job[d]
        BY <1>1, <2>1
    <2>3. job'[c].at = "none" /\ job'[c].since = n
        BY <2>2 DEF NoJob
    <2> QED BY <2>2, <2>3 DEF n
  <1> QED BY <1>2, <1>3

LEMMA AcquireLuck ==
  ASSUME BoardInv, MutexInv, NEW c \in Command, Acquire(c), Lucky(c)
  PROVE  Lucky(c)' /\ \A d \in Command \ {c} : UNCHANGED <<job[d], pc[d]>>
  <1>1. /\ job \in [Command -> Job] /\ troubles \in Nat /\ pc \in [Command -> Stand]
        /\ troubles' \in {troubles, troubles + 1} /\ Errand(c)
      BY DEF BoardInv, MutexInv, MutexTypeOK, Acquire, Trouble
  <1>2. \A d \in Command \ {c} : UNCHANGED pc[d]
      BY <1>1 DEF Acquire, ReadRef, Acquired, Lost, Move
  <1>3. ASSUME Done(c), pc'[c] \in {"end", "release"}
        PROVE  Lucky(c)' /\ \A d \in Command \ {c} : UNCHANGED <<job[d], pc[d]>>
    <2>1. /\ job'[c].at = "none" /\ job'[c].since = 0
          /\ \A d \in Command \ {c} : UNCHANGED job[d]
        BY <1>3, JobsGone
    <2>2. Lucky(c)'
        BY <1>1, <1>3, <2>1, IdleLuck
    <2> QED BY <1>2, <2>1, <2>2
  <1>4. ASSUME ReadRef(c), UNCHANGED troubles, pc'[c] = "acquire",
               job' = [job EXCEPT ![c] = [@ EXCEPT !.since = troubles]]
        PROVE  Lucky(c)' /\ \A d \in Command \ {c} : UNCHANGED <<job[d], pc[d]>>
    <2> DEFINE j == job[c]
               k == job'[c]
    <2>1. k = [j EXCEPT !.since = troubles] /\ \A d \in Command \ {c} : UNCHANGED job[d]
        BY <1>1, <1>4
    <2>2. j \in Job /\ pc[c] = "begin" /\ Briefed(c)
        BY <1>1, <1>4 DEF ReadRef, Lucky
    <2>3. /\ k.at = j.at /\ k.token = j.token /\ k.snap = j.snap /\ k.want = j.want
          /\ k.to = j.to /\ k.tried = j.tried /\ k.swallowed = j.swallowed
          /\ k.since = troubles
      <3> HIDE DEF j, k
      <3> QED BY <2>1, <2>2 DEF Job
    <2>4. Briefed(c)'
        BY <1>4, <2>2, <2>3 DEF Briefed
    <2>5. Lucky(c)'
        BY <1>1, <1>4, <2>3, <2>4 DEF Lucky
    <2> QED BY <1>2, <2>1, <2>5
  <1>5. ASSUME Acquired(c), pc'[c] = "inside", UNCHANGED <<job, troubles>>
        PROVE  Lucky(c)' /\ \A d \in Command \ {c} : UNCHANGED <<job[d], pc[d]>>
    <2>1. pc[c] = "acquire" /\ job[c].at \in {"claim", "rel read", "rev read"}
        BY <1>1, <1>5 DEF Acquired, Errand
    <2>2. Briefed(c) /\ ~job[c].tried /\ ~job[c].swallowed
        BY <2>1 DEF Lucky, Briefed
    <2>3. Briefed(c)'
        BY <1>5, <2>2 DEF Briefed
    <2>4. Calm(c)'
      <3> DEFINE k == job'[c]
      <3>1. k.at \in {"claim", "rel read", "rev read"} /\ ~k.tried /\ ~k.swallowed
          BY <1>5, <2>1, <2>2
      <3> HIDE DEF k
      <3> QED BY <3>1
              DEF k, Calm, CalmPlaces, ClaimPlaces, ReleasePlaces, ReviewPlaces, Untried
    <2>5. Lucky(c)'
        BY <1>5, <2>3, <2>4 DEF Lucky
    <2> QED BY <1>2, <1>5, <2>5
  <1>6. CASE /\ ReadRef(c) /\ UNCHANGED troubles
             /\ job' = [job EXCEPT ![c] = IF pc'[c] = "end" THEN NoJob
                                          ELSE [@ EXCEPT !.since = troubles]]
    <2>1. pc'[c] \in {"acquire", "end"}
        BY <1>1, <1>6 DEF ReadRef, Move
    <2>2. CASE pc'[c] = "end"
      <3>1. Done(c)
          BY <1>6, <2>2 DEF Done
      <3> QED BY <1>3, <2>2, <3>1
    <2>3. CASE pc'[c] = "acquire"
      <3>1. job' = [job EXCEPT ![c] = [@ EXCEPT !.since = troubles]]
          BY <1>6, <2>3
      <3> QED BY <1>4, <1>6, <2>3, <3>1
    <2> QED BY <2>1, <2>2, <2>3
  <1>7. ASSUME Lost(c) PROVE pc'[c] = "end"
      BY <1>1, <1>7 DEF Lost, Move
  <1> QED BY <1>3, <1>5, <1>6, <1>7 DEF Acquire

\* The lock is kept only for a cause: a calm command does not stop at "keep", and has
\* seen no owner write fail.
LEMMA GiveBackLuck ==
  ASSUME BoardInv, MutexInv, NEW c \in Command, GiveBack(c), Lucky(c)
  PROVE  Lucky(c)' /\ \A d \in Command \ {c} : UNCHANGED <<job[d], pc[d]>>
  <1> DEFINE j == job[c]
             safe == j.at = "out" /\ ~j.swallowed
  <1>1. /\ job \in [Command -> Job] /\ troubles \in Nat /\ pc \in [Command -> Stand]
        /\ j.since \in Nat /\ j.since <= troubles
        /\ pc[c] = "inside" /\ j.at \in {"out", "keep"}
      BY DEF BoardInv, Job, MutexInv, MutexTypeOK, Lucky, GiveBack, Inside
  <1>2. ASSUME Leave(c), Done(c), UNCHANGED troubles
        PROVE  Lucky(c)' /\ \A d \in Command \ {c} : UNCHANGED <<job[d], pc[d]>>
    <2>1. pc'[c] = "release" /\ \A d \in Command \ {c} : UNCHANGED pc[d]
        BY <1>1, <1>2 DEF Leave, Move
    <2> QED BY <1>1, <1>2, <2>1, JobsGone, IdleLuck
  <1>3. ASSUME Retain(c), Stranded(c), j.since < troubles'
        PROVE  Lucky(c)' /\ \A d \in Command \ {c} : UNCHANGED <<job[d], pc[d]>>
    <2>1. pc'[c] = "stopped" /\ \A d \in Command \ {c} : UNCHANGED pc[d]
        BY <1>1, <1>3 DEF Retain, Move
    <2>2. job'[c].at = "none" /\ job'[c].since = j.since
          /\ \A d \in Command \ {c} : UNCHANGED job[d]
        BY <1>3, JobsGone
    <2>3. job'[c].since <= troubles'
        BY <1>1, <1>3, <2>2 DEF GiveBack, Trouble
    <2> QED BY <1>3, <2>1, <2>2, <2>3, IdleLuck
  <1>4. Calm(c) => safe
      BY <1>1 DEF Calm, CalmPlaces, ClaimPlaces, ReleasePlaces, ReviewPlaces
  <1>5. ~safe => j.since < troubles
      BY <1>1, <1>4 DEF Lucky
  <1>6. CASE safe /\ Leave(c) /\ Done(c) /\ UNCHANGED troubles
      BY <1>2, <1>6
  <1>7. CASE Retain(c) /\ Stranded(c) /\ j.since < troubles'
      BY <1>3, <1>7
  <1>8. Trouble => j.since < troubles'
      BY <1>1 DEF Trouble
  <1> QED BY <1>5, <1>6, <1>7, <1>8 DEF GiveBack

LEMMA StopsLuck ==
  ASSUME BoardInv, MutexInv, NEW c \in Command, Stops(c), Lucky(c)
  PROVE  Lucky(c)' /\ \A d \in Command \ {c} : UNCHANGED <<job[d], pc[d]>>
  <1>1. /\ pc \in [Command -> Stand] /\ troubles \in Nat /\ job[c].since \in Nat
        /\ job[c].since <= troubles
      BY DEF BoardInv, Job, MutexInv, MutexTypeOK, Lucky
  <1>2. pc'[c] = "stopped" /\ \A d \in Command \ {c} : UNCHANGED pc[d]
      BY <1>1 DEF Stops, Crash, Unknown
  <1>3. job'[c].at = "none" /\ job'[c].since = job[c].since
        /\ \A d \in Command \ {c} : UNCHANGED job[d]
      BY JobsGone DEF Stops
  <1>4. job'[c].since < troubles' /\ job'[c].since <= troubles'
      BY <1>1, <1>3 DEF Stops, Trouble
  <1> QED BY <1>2, <1>3, <1>4, IdleLuck

LEMMA AnswersLuck ==
  ASSUME BoardInv, MutexInv, NEW c \in Command, Serve(c) \/ Released(c),
         UNCHANGED <<job, issue, own, prs, troubles>>, Lucky(c)
  PROVE  Lucky(c)' /\ \A d \in Command \ {c} : UNCHANGED <<job[d], pc[d]>>
  <1>1. pc \in [Command -> Stand]
      BY DEF MutexInv, MutexTypeOK
  <1>2. \A d \in Command \ {c} : UNCHANGED pc[d]
      BY <1>1 DEF Serve, Released, Move
  <1>3. CASE pc' = pc
      BY <1>3, LuckStays
  <1>4. CASE pc'[c] = "end"
    <2>1. Briefed(c)'
        BY <1>4 DEF Lucky, Briefed
    <2> QED BY <1>2, <1>4, <2>1 DEF Lucky
  <1> QED BY <1>1, <1>2, <1>3, <1>4 DEF Serve, Released, Move

LEMMA AroundLuck ==
  ASSUME BoardInv, MutexInv, CalmInv, NEW c \in Command, Around(c)
  PROVE  CalmInv'
  <1>1. Lucky(c) /\ UNCHANGED <<issue, own, prs>> /\ troubles' \in {troubles, troubles + 1}
      BY TroublesGrow DEF CalmInv, Around
  <1>2. Lucky(c)' /\ \A d \in Command \ {c} : UNCHANGED <<job[d], pc[d]>>
      BY <1>1, PreviewLuck, AcquireLuck, GiveBackLuck, StopsLuck, AnswersLuck DEF Around
  <1>3. \A d \in Command \ {c} : Lucky(d)'
      BY <1>1, <1>2, LuckStays DEF CalmInv
  <1> QED BY <1>2, <1>3 DEF CalmInv

LEMMA SortedLuck ==
  ASSUME BoardInv, MutexInv, CalmInv, NEW c \in Command, Sorted(c)
  PROVE  CalmInv'
  <1>1. /\ pc[c] = "stopped" /\ ref = Lock(c) /\ UNCHANGED <<pc, job, troubles>>
      BY DEF Sorted, Recover
  <1>2. \A d \in Command : pc[d] # "inside"
      BY <1>1, CommitsDiffer DEF MutexInv, HoldsOrWaits
  <1> QED BY <1>1, <1>2, LuckStays DEF CalmInv

LEMMA PeopleLuck ==
  ASSUME BoardInv, CalmInv, PrMoves \/ HandMoves
  PROVE  CalmInv'
  <1>1. UNCHANGED <<pc, job>> /\ troubles' = troubles + 1
      BY DEF PrMoves, HandMoves, Trouble, mutexVars
  <1> QED BY <1>1, LuckStays DEF CalmInv

LEMMA CalmStarts == Init => CalmInv
  <1> SUFFICES ASSUME Init, NEW c \in Command PROVE Lucky(c)
      BY DEF CalmInv
  <1>1. job[c] = NoJob /\ troubles = 0 /\ pc[c] = "new"
      BY DEF Init, BoardInit, MutexInit
  <1>2. job[c].at = "none" /\ job[c].since = 0
      BY <1>1 DEF NoJob
  <1> QED BY <1>1, <1>2
          DEF Lucky, Briefed, ReleasePlaces, UndoPlaces, ReviewPlaces, LookPlaces

-----------------------------------------------------------------------------
(* The board stays whole.                                                     *)

\* Whoever a step leaves alone keeps to the board.
LEMMA WatchedStays ==
  ASSUME NEW c \in Command, Watched(c), job'[c] = job[c], pc'[c] = pc[c],
         flight'[c] = flight[c], UNCHANGED <<issue, own, kept, byHand>>
  PROVE  Watched(c)'
  <1>1. /\ Outcome' = Outcome /\ Same' = Same /\ ClaimLabels' = ClaimLabels
        /\ ReadyStill' = ReadyStill
      BY NothingMoves
  <1>2. Whole(c) => Whole(c)'
    <2>1. ClaimWhole(c) => ClaimWhole(c)'
        BY <1>1, ZenonT(40) DEF ClaimWhole, Mine, Fr
    <2>2. ReleaseWhole(c) => ReleaseWhole(c)'
        BY ZenonT(40) DEF ReleaseWhole, Fr, PartlyCleared
    <2>3. ReviewWhole(c) => ReviewWhole(c)'
        BY ZenonT(40) DEF ReviewWhole, Fr
    <2> QED BY <1>1, <2>1, <2>2, <2>3 DEF Whole
  <1> QED BY <1>1, <1>2 DEF Watched

LEMMA RefStates ==
  ASSUME MutexInv PROVE ref.state \in {"LOCK", "UNLOCK"}
  BY DEF MutexInv, MutexTypeOK, Commit

\* While the ref stays where it is, so does what is remembered.
LEMMA RestWatches ==
  ASSUME MutexInv, WholeInv, Watch, UNCHANGED <<ref, issue, own>>
  PROVE  UNCHANGED <<kept, byHand>>
  BY RefStates DEF Watch, WholeInv, Board

\* A step around the mutex that leaves the ref alone.
LEMMA RestKeeps ==
  ASSUME MutexInv, WholeInv, BoardInv', NEW c \in Command,
         UNCHANGED <<ref, issue, own, kept, byHand>>,
         \A d \in Command \ {c} :
           job'[d] = job[d] /\ pc'[d] = pc[d] /\ flight'[d] = flight[d],
         ref = Lock(c) => Watched(c)'
  PROVE  WholeInv'
  <1>1. \A d \in Command : ref' = Lock(d) => Watched(d)'
      BY WatchedStays DEF WholeInv
  <1> QED BY <1>1 DEF WholeInv, Board

LEMMA CommandWhole ==
  ASSUME BoardInv, MutexInv, CalmInv, WholeInv, NEW c \in Command, CommandStep(c), Watch
  PROVE  WholeInv' /\ UNCHANGED <<kept, byHand>>
  <1>1. /\ pc[c] = "inside" /\ UNCHANGED <<ref, pc, flight, kept, byHand>> /\ Onwards(c)
        /\ issue'.labels \subseteq State /\ issue'.open = issue.open
        /\ ref = Lock(c) /\ ref.state = "LOCK" /\ Whole(c)
        /\ \A d \in Command \ {c} : ref # Lock(d)
      BY InsideSteps, InsideReady
  <1>2. Watched(c)'
    <2>1. flight[c] # "release"
        BY <1>1 DEF MutexInv, HoldsOrWaits
    <2> QED BY <1>1, <2>1 DEF Watched, Onwards
  <1>3. \A d \in Command : ref' = Lock(d) => Watched(d)'
      BY <1>1, <1>2
  <1> QED BY <1>1, <1>3 DEF WholeInv

LEMMA AcquireWhole ==
  ASSUME BoardInv, MutexInv, CalmInv, WholeInv, NEW c \in Command, Acquire(c),
         UNCHANGED <<issue, own, kept, byHand>>
  PROVE  /\ ref = Lock(c) => Watched(c)'
         /\ UNCHANGED ref
         /\ \A d \in Command \ {c} :
              job'[d] = job[d] /\ pc'[d] = pc[d] /\ flight'[d] = flight[d]
  <1>1. /\ pc \in [Command -> Stand] /\ flight \in [Command -> Flight] /\ Lucky(c)
        /\ Errand(c)
      BY DEF BoardInv, MutexInv, MutexTypeOK, CalmInv
  <1>2. Outcome' = Outcome /\ Same' = Same
      BY NothingMoves
  <1>3. /\ UNCHANGED ref
        /\ \A d \in Command \ {c} : flight'[d] = flight[d]
      BY <1>1 DEF Acquire, ReadRef, Acquired, Lost, Move
  <1>4. ASSUME ref = Lock(c) PROVE Watched(c)'
    <2>1. CASE ReadRef(c)
      <3>1. ref.state = "LOCK"
          BY <1>4, CommitsDiffer
      <3>2. pc'[c] = "end" /\ flight'[c] = "none"
          BY <1>1, <2>1, <3>1 DEF ReadRef, Move
      <3> QED BY <3>2 DEF Watched
    <2>2. CASE Acquired(c)
      <3>0. pc[c] = "acquire" /\ flight[c] = "applied" /\ pc'[c] \in {"inside", "release"}
          BY <1>1, <2>2 DEF Acquired, Move
      <3>1. Same
          BY <1>4, <3>0 DEF WholeInv, Watched
      <3>2. CASE pc'[c] = "inside" /\ UNCHANGED job
        <4>1. flight'[c] = "none"
            BY <1>1, <2>2, <3>2 DEF Acquired, Move
        <4>2. Whole(c)'
          <5> DEFINE k == job'[c]
          <5>1. k.at \in {"claim", "rel read", "rev read"} /\ ~k.tried
              BY <1>1, <3>0, <3>2 DEF Errand, Lucky, Briefed
          <5>2. Same'
              BY <1>2, <3>1
          <5> HIDE DEF k
          <5> QED BY <5>1, <5>2
                  DEF k, Whole, ClaimWhole, ReleaseWhole, ReviewWhole, Untried, ClaimPlaces,
                      PartPlaces, ParkPlaces, ReleasePlaces,
                      UndoPlaces, ReviewPlaces, LookPlaces
        <4> QED BY <3>2, <4>1, <4>2 DEF Watched
      <3>3. CASE pc'[c] = "release"
        <4>1. Outcome'
            BY <1>2, <3>1 DEF Outcome
        <4> QED BY <3>3, <4>1 DEF Watched
      <3>4. pc'[c] = "inside" => UNCHANGED job
          BY <3>0 DEF Acquire, Lost, ReadRef
      <3> QED BY <3>0, <3>2, <3>3, <3>4
    <2>3. CASE Lost(c)
      <3>1. pc'[c] = "end" /\ flight'[c] = "none"
          BY <1>1, <2>3 DEF Lost, Move
      <3> QED BY <3>1 DEF Watched
    <2> QED BY <2>1, <2>2, <2>3 DEF Acquire
  <1> QED BY <1>1, <1>3, <1>4, AcquireLuck

LEMMA GiveBackWhole ==
  ASSUME BoardInv, MutexInv, CalmInv, WholeInv, NEW c \in Command, GiveBack(c),
         UNCHANGED <<issue, own, kept, byHand>>
  PROVE  /\ ref = Lock(c) => Watched(c)'
         /\ UNCHANGED ref
         /\ \A d \in Command \ {c} :
              job'[d] = job[d] /\ pc'[d] = pc[d] /\ flight'[d] = flight[d]
  <1>1. /\ pc \in [Command -> Stand] /\ flight \in [Command -> Flight] /\ Lucky(c)
      BY DEF MutexInv, MutexTypeOK, CalmInv
  <1>2. /\ UNCHANGED ref
        /\ \A d \in Command \ {c} : flight'[d] = flight[d]
      BY <1>1 DEF GiveBack, Leave, Retain, Move
  <1>3. ASSUME ref = Lock(c) PROVE Watched(c)'
    <2>1. CASE Leave(c) /\ job[c].at = "out"
      <3>1. pc[c] = "inside" /\ pc'[c] = "release"
          BY <1>1, <2>1 DEF Leave, Move
      <3>2. Outcome
          BY <1>3, <2>1, <3>1 DEF WholeInv, Watched, Whole, ClaimWhole, ReleaseWhole, ReviewWhole
      <3>3. Outcome'
          BY <3>2, NothingMoves
      <3> QED BY <3>1, <3>3 DEF Watched
    <2>2. CASE Retain(c)
      <3>1. pc'[c] = "stopped" /\ flight'[c] = "none"
          BY <1>1, <2>2 DEF Retain, Move
      <3> QED BY <3>1 DEF Watched
    <2> QED BY <2>1, <2>2 DEF GiveBack
  <1> QED BY <1>1, <1>2, <1>3, GiveBackLuck

LEMMA OtherWhole ==
  ASSUME BoardInv, MutexInv, CalmInv, WholeInv, NEW c \in Command,
         \/ Preview(c) /\ UNCHANGED troubles
         \/ Stops(c)
         \/ Released(c) /\ UNCHANGED job,
         UNCHANGED <<issue, own, kept, byHand>>
  PROVE  /\ ref = Lock(c) => Watched(c)'
         /\ UNCHANGED ref
         /\ \A d \in Command \ {c} :
              job'[d] = job[d] /\ pc'[d] = pc[d] /\ flight'[d] = flight[d]
  <1>1. /\ pc \in [Command -> Stand] /\ flight \in [Command -> Flight] /\ Lucky(c)
      BY DEF MutexInv, MutexTypeOK, CalmInv
  <1>2. /\ UNCHANGED ref
        /\ pc'[c] \notin {"acquire", "inside"}
        /\ flight'[c] = "none" \/ flight'[c] = flight[c]
        /\ \A d \in Command \ {c} : pc'[d] = pc[d] /\ flight'[d] = flight[d]
    <2>1. CASE Preview(c)
      <3>1. Prepare(c, "begin") \/ Prepare(c, "end")
          BY <2>1 DEF Preview
      <3> QED BY <1>1, <3>1 DEF Prepare, Move
    <2>2. CASE Stops(c)
        BY <1>1, <2>2 DEF Stops, Crash, Unknown
    <2>3. CASE Released(c)
        BY <1>1, <2>3 DEF Released, Move
    <2> QED BY <2>1, <2>2, <2>3
  <1>3. \A d \in Command \ {c} : job'[d] = job[d]
      BY <1>1, PreviewLuck, StopsLuck
  <1>4. ref = Lock(c) => Watched(c)'
      BY <1>2, NothingMoves DEF WholeInv, Watched
  <1> QED BY <1>2, <1>3, <1>4

LEMMA AroundWhole ==
  ASSUME BoardInv, BoardInv', MutexInv, CalmInv, WholeInv, NEW c \in Command, Around(c), Watch,
         UNCHANGED ref
  PROVE  WholeInv' /\ UNCHANGED <<kept, byHand>>
  <1>1. UNCHANGED <<issue, own, prs>>
      BY DEF Around
  <1>2. UNCHANGED <<kept, byHand>>
      BY <1>1, RestWatches
  <1>3. CASE \/ Preview(c) /\ UNCHANGED troubles
             \/ Stops(c)
             \/ Released(c) /\ UNCHANGED job
      BY <1>1, <1>2, <1>3, OtherWhole, RestKeeps
  <1>4. CASE Acquire(c)
      BY <1>1, <1>2, <1>4, AcquireWhole, RestKeeps
  <1>5. CASE GiveBack(c)
      BY <1>1, <1>2, <1>5, GiveBackWhole, RestKeeps
  <1>6. CASE Serve(c) /\ UNCHANGED job
    <2>1. /\ flight \in [Command -> Flight] /\ pc' = pc
          /\ ref # Lock(c) \/ flight[c] = "acquire"
        <3>1. flight \in [Command -> Flight] /\ pc' = pc
            BY <1>6 DEF MutexInv, MutexTypeOK, Serve
        <3>2. CASE flight[c] = "release" /\ ref = Lock(c)
          <4>1. ref' = Unlock(c)
              BY <1>6, <3>2 DEF Serve
          <4> QED BY <3>2, <4>1, CommitsDiffer
        <3> QED BY <1>6, <3>1, <3>2 DEF Serve
    <2>2. /\ flight'[c] \in {"applied", "refused"}
          /\ \A d \in Command \ {c} : flight'[d] = flight[d]
        BY <1>6, <2>1 DEF Serve
    <2>3. pc'[c] # "inside" /\ (ref = Lock(c) => Watched(c)')
      <3>1. pc[c] # "inside"
        <4>1. flight[c] \in {"acquire", "release"}
            BY <1>6 DEF Serve
        <4> QED BY <4>1 DEF MutexInv, HoldsOrWaits
      <3>2. Same => Same'
          BY <1>1, <1>2, NothingMoves
      <3>3. ref = Lock(c) => (pc[c] = "acquire" => Same)
          BY DEF WholeInv, Watched
      <3> QED BY <2>1, <2>2, <3>1, <3>2, <3>3 DEF Watched
    <2> QED BY <1>1, <1>2, <1>6, <2>1, <2>2, <2>3, RestKeeps
  <1> QED BY <1>3, <1>4, <1>5, <1>6 DEF Around

\* The swap that takes the lock: the board is what is remembered.
LEMMA TakesWhole ==
  ASSUME BoardInv, BoardInv', MutexInv, WholeInv, NEW c \in Command, Serve(c), Watch,
         UNCHANGED <<job, issue, own>>, ref' = Lock(c), ref # Lock(c)
  PROVE  WholeInv' /\ kept' = kept /\ ~byHand'
  <1>1. ref.state = "UNLOCK" /\ ref'.state = "LOCK" /\ flight[c] = "acquire"
    <2>1. flight[c] = "acquire" /\ ref = seen[c]
        BY CommitsDiffer DEF Serve
    <2> QED BY <2>1, CommitsDiffer DEF MutexInv, HoldsOrWaits
  <1>2. kept' = kept /\ byHand' = FALSE /\ kept = Board
      BY <1>1 DEF Watch, WholeInv
  <1>3. Same' /\ issue'.open = kept'.issue.open
      BY <1>2 DEF Same, Board
  <1>4. pc'[c] # "inside" /\ flight'[c] # "release"
      BY <1>1 DEF Serve, MutexInv, MutexTypeOK, HoldsOrWaits
  <1>5. \A d \in Command : ref' = Lock(d) => Watched(d)'
      BY <1>3, <1>4, CommitsDiffer DEF Watched
  <1> QED BY <1>1, <1>2, <1>3, <1>5 DEF WholeInv

\* The ref is unlocked: what is remembered is the board.
LEMMA FreedWhole ==
  ASSUME BoardInv', WholeInv, Watch, NEW c \in Command, ref' = Unlock(c), ref.state = "LOCK",
         issue'.labels \subseteq State
  PROVE  WholeInv' /\ kept' = Board' /\ byHand' = byHand
  <1>1. ref'.state = "UNLOCK" /\ \A d \in Command : ref' # Lock(d)
      BY CommitsDiffer
  <1>2. kept' = Board' /\ byHand' = byHand
      BY <1>1 DEF Watch, WholeInv
  <1>3. Board' \in [issue : Issue, own : Ownership]
      BY DEF Board, BoardInv
  <1> QED BY <1>1, <1>2, <1>3 DEF WholeInv

\* What people do to the labels breaks nothing: the promise allows for them.
LEMMA HandsWatched ==
  ASSUME NEW c \in Command, Watched(c), UNCHANGED <<own, job, pc, flight, kept>>, byHand'
  PROVE  Watched(c)'
  <1>1. Same => Same'
      BY DEF Same
  <1>2. /\ ClaimLabels' /\ ReadyStill' /\ \A s : Fr(s)' /\ Bec(s)'
        /\ \A t : Mine(t)' <=> Mine(t)
      BY DEF ClaimLabels, ReadyStill, Fr, Bec, Mine
  <1>3. Outcome => Outcome'
    <2> SUFFICES ASSUME Outcome PROVE Outcome'
        OBVIOUS
    <2>1. CASE Same
        BY <1>1, <2>1 DEF Outcome
    <2>2. CASE \E t \in Token : own = kept.own \/ Mine(t)
      <3>1. \E t \in Token : own' = kept'.own \/ Mine(t)'
          BY <1>2, <2>2
      <3> QED BY <1>2, <3>1 DEF Outcome
    <2>3. CASE \E t \in Token : kept.own.id = t /\ kept.own.branch = t /\ own = Empty
      <3>1. "active" \in State \ {"ready"}
          BY DEF State
      <3> QED BY <1>2, <2>3, <3>1 DEF Outcome
    <2>4. CASE \E t \in Token : kept.own.id = t /\ kept.own.branch = t /\ own = InReview(t)
        BY <1>2, <2>4 DEF Outcome
    <2> QED BY <2>1, <2>2, <2>3, <2>4 DEF Outcome
  <1>4. Whole(c) => Whole(c)'
    <2>1. ClaimWhole(c) => ClaimWhole(c)'
        BY <1>1, <1>2, ZenonT(40) DEF ClaimWhole, Mine
    <2>2. ReleaseWhole(c) => ReleaseWhole(c)'
        BY <1>2, ZenonT(40) DEF ReleaseWhole, PartlyCleared
    <2>3. ReviewWhole(c) => ReviewWhole(c)'
        BY <1>2, ZenonT(40) DEF ReviewWhole
    <2> QED BY <1>1, <1>3, <2>1, <2>2, <2>3 DEF Whole
  <1> QED BY <1>1, <1>3, <1>4 DEF Watched

LEMMA HandsWhole ==
  ASSUME BoardInv, BoardInv', MutexInv, WholeInv, HandMoves
  PROVE  WholeInv'
  <1>1. /\ UNCHANGED <<own, job, ref, pc, flight>> /\ byHand' = TRUE
        /\ kept' = IF ref.state = "UNLOCK" THEN Board' ELSE kept
      BY DEF HandMoves, mutexVars
  <1>2. issue'.labels \subseteq State
    <2>1. issue \in Issue /\ issue.labels \subseteq State
        BY DEF BoardInv, WholeInv
    <2>2. ASSUME NEW s \in State,
                 \/ issue' = [issue EXCEPT !.labels = @ \cup {s}]
                 \/ issue' = [issue EXCEPT !.labels = @ \ {s}]
                 \/ issue' = [issue EXCEPT !.labels = {s}]
          PROVE  issue'.labels \subseteq State
        BY <2>1, <2>2 DEF Issue
    <2>3. ASSUME issue' = [issue EXCEPT !.open = ~issue.open]
          PROVE  issue'.labels \subseteq State
      <3> DEFINE o == ~issue.open
      <3>1. issue' = [issue EXCEPT !.open = o]
          BY <2>3
      <3> HIDE DEF o
      <3> QED BY <2>1, <3>1 DEF Issue
    <2> QED BY <2>2, <2>3 DEF HandMoves
  <1>3. kept' \in [issue : Issue, own : Ownership]
    <2>1. Board' \in [issue : Issue, own : Ownership]
        BY DEF Board, BoardInv
    <2> QED BY <1>1, <2>1 DEF WholeInv
  <1>4. ASSUME NEW c \in Command, ref' = Lock(c) PROVE Watched(c)'
    <2>1. Watched(c) /\ kept' = kept
        BY <1>1, <1>4, CommitsDiffer DEF WholeInv
    <2> QED BY <1>1, <2>1, HandsWatched
  <1>5. ref'.state = "UNLOCK" => kept' = Board'
      BY <1>1
  <1> QED BY <1>1, <1>2, <1>3, <1>4, <1>5 DEF WholeInv

LEMMA PrsWhole ==
  ASSUME BoardInv', MutexInv, WholeInv, PrMoves, Watch
  PROVE  WholeInv' /\ UNCHANGED <<kept, byHand>>
  <1>1. UNCHANGED <<ref, pc, flight, issue, own, job>>
      BY DEF PrMoves, mutexVars
  <1>2. UNCHANGED <<kept, byHand>>
      BY <1>1, RestWatches
  <1>3. \A d \in Command : ref' = Lock(d) => Watched(d)'
      BY <1>1, <1>2, WatchedStays DEF WholeInv
  <1> QED BY <1>1, <1>2, <1>3 DEF WholeInv, Board

LEMMA WholeStarts == Init => WholeInv
  <1> SUFFICES ASSUME Init PROVE WholeInv
      OBVIOUS
  <1>1. BoardInv
      BY BoardStarts
  <1>2. kept = Board /\ byHand = FALSE /\ ref = Unlock(None)
      BY DEF Init, MutexInit
  <1>3. ref.state = "UNLOCK" /\ \A c \in Command : ref # Lock(c)
      BY <1>2 DEF Unlock, Lock
  <1>4. issue.labels \subseteq State
      BY DEF Init, BoardInit, State
  <1>5. kept \in [issue : Issue, own : Ownership]
      BY <1>1, <1>2 DEF BoardInv, Board
  <1> QED BY <1>2, <1>3, <1>4, <1>5 DEF WholeInv

-----------------------------------------------------------------------------
(* The board keeps its promise.                                               *)

\* Luck and wholeness need each other: a command is sure of its place because the
\* board is whole, and leaves it whole because it is sure of its place.
BoardWhole == BoardInv /\ MutexInv /\ CalmInv /\ WholeInv

promised == <<kept.issue.open, kept.issue.labels, kept.own, byHand>>

\* What a command that gives the lock back has done, as one step of the promise.
LEMMA OutcomePromised ==
  ASSUME Outcome, kept' = Board, byHand' = byHand, byHand \in BOOLEAN,
         kept \in [issue : Issue, own : Ownership], issue \in Issue
  PROVE  [Promise!Next]_promised
  <1>1. kept'.issue = issue /\ kept'.own = own
      BY DEF Board
  <1>2. CASE Same
    <2>1. CASE byHand
        BY <1>1, <1>2, <2>1 DEF Same, Promise!Next, Promise!Hand
    <2>2. CASE ~byHand
        BY <1>1, <1>2, <2>2 DEF Same, promised
    <2> QED BY <2>1, <2>2
  <1>3. \A s : Fr(s) => Promise!From(s)
      BY DEF Fr, Is, Promise!From
  <1>4. \A s : Bec(s) => Promise!Becomes(s)
      BY <1>1 DEF Bec, Promise!Becomes
  <1>5. \A t : Claimable(t) = Promise!Claimed(t)
      BY DEF Claimable, Empty, Full, Promise!Claimed, Promise!Empty, Promise!Reserved, Promise!Full
  <1>6. ASSUME NEW t \in Token, Fr("ready") \/ (Fr("active") /\ kept.own # Empty),
               Mine(t), own = Full(t), Bec("active")
        PROVE  Promise!Take(t)
      BY <1>1, <1>3, <1>4, <1>5, <1>6
         DEF Mine, Empty, Full, Promise!Take, Promise!Empty, Promise!Full
  <1>7. ASSUME NEW t \in Token,
               \/ Fr("ready") /\ (Bec("active") \/ Bec("grooming"))
               \/ Fr("active") /\ Bec("active"),
               own = kept.own \/ Mine(t)
        PROVE  Promise!Park(t)
      BY <1>1, <1>3, <1>4, <1>5, <1>7 DEF Mine, Promise!Park
  <1>8. ASSUME NEW t \in Token, NEW p \in State \ {"ready"}, Fr(p), kept.own.id = t,
               kept.own.branch = t, own = Empty, Bec("ready") \/ Bec("grooming")
        PROVE  \E s \in Promise!State : Promise!Give(t, s)
    <2>1. ASSUME NEW s \in {"ready", "grooming"}, Bec(s)
          PROVE  s \in Promise!State /\ Promise!Give(t, s)
        BY <1>1, <1>3, <1>4, <1>8, <2>1
           DEF State, Empty, Promise!State, Promise!Empty, Promise!Give
    <2> QED BY <1>8, <2>1
  <1>9. ASSUME NEW t \in Token, Fr("active"), kept.own.id = t, kept.own.branch = t,
               Bec("review"), own = InReview(t)
        PROVE  Promise!Show(t)
      BY <1>1, <1>3, <1>4, <1>9 DEF InReview, Promise!Show, Promise!InReview
  <1> QED BY <1>2, <1>6, <1>7, <1>8, <1>9 DEF Outcome, Promise!Next

LEMMA CommandPromised ==
  ASSUME BoardWhole, BoardWhole', NEW c \in Command, CommandStep(c), Watch
  PROVE  [Promise!Next]_promised
  BY CommandWhole DEF BoardWhole, promised

LEMMA AroundPromised ==
  ASSUME BoardInv, BoardInv', MutexInv, CalmInv, WholeInv, NEW c \in Command, Around(c), Watch
  PROVE  WholeInv' /\ [Promise!Next]_promised
  <1>1. CASE UNCHANGED ref
      BY <1>1, AroundWhole DEF promised
  <1>2. CASE Serve(c) /\ UNCHANGED job /\ ref' = Lock(c) /\ ref # Lock(c)
    <2>1. WholeInv' /\ kept' = kept /\ ~byHand'
        BY <1>2, TakesWhole DEF Around
    <2> QED BY <2>1 DEF Promise!Next, Promise!Begin
  <1>3. CASE Serve(c) /\ flight[c] = "release" /\ ref = Lock(c) /\ ref' = Unlock(c)
    <2>1. ref.state = "LOCK" /\ Outcome
        BY <1>3, CommitsDiffer DEF WholeInv, Watched
    <2>2. /\ UNCHANGED <<issue, own>> /\ issue.labels \subseteq State /\ issue \in Issue
          /\ kept \in [issue : Issue, own : Ownership] /\ byHand \in BOOLEAN
        BY DEF Around, WholeInv, BoardInv
    <2>3. WholeInv' /\ kept' = Board' /\ byHand' = byHand
        BY <1>3, <2>1, <2>2, FreedWhole
    <2>4. kept' = Board
        BY <2>2, <2>3 DEF Board
    <2> QED BY <2>1, <2>2, <2>3, <2>4, OutcomePromised
  <1>4. \/ UNCHANGED ref
        \/ Serve(c) /\ UNCHANGED job /\ ref' = Lock(c)
        \/ Serve(c) /\ flight[c] = "release" /\ ref = Lock(c) /\ ref' = Unlock(c)
    <2>1. CASE Preview(c)
        BY <2>1 DEF Preview, Prepare
    <2>2. CASE Acquire(c)
        BY <2>2 DEF Acquire, ReadRef, Acquired, Lost
    <2>3. CASE GiveBack(c)
        BY <2>3 DEF GiveBack, Leave, Retain
    <2>4. CASE Stops(c) \/ Released(c)
        BY <2>4 DEF Stops, Crash, Unknown, Released
    <2>5. CASE Serve(c) /\ UNCHANGED job
        BY <2>5 DEF Serve
    <2> QED BY <2>1, <2>2, <2>3, <2>4, <2>5 DEF Around
  <1> QED BY <1>1, <1>2, <1>3, <1>4

LEMMA SortedPromised ==
  ASSUME BoardInv, BoardInv', WholeInv, NEW c \in Command, Sorted(c), Watch
  PROVE  WholeInv' /\ [Promise!Next]_promised
  <1>1. /\ ref = Lock(c) /\ ref' = Unlock(c) /\ ref.state = "LOCK"
        /\ issue \in Issue /\ issue.labels \subseteq State
        /\ kept \in [issue : Issue, own : Ownership] /\ byHand \in BOOLEAN
        /\ byHand \/ issue.open = kept.issue.open
      BY CommitsDiffer DEF Sorted, Recover, BoardInv, WholeInv
  <1>2. CASE own = kept.own /\ (byHand \/ issue = kept.issue) /\ UNCHANGED <<issue, own>>
    <2>1. WholeInv' /\ kept' = Board' /\ byHand' = byHand
        BY <1>1, <1>2, FreedWhole
    <2>2. kept' = Board /\ Outcome
        BY <1>2, <2>1 DEF Board, Outcome, Same
    <2> QED BY <1>1, <2>1, <2>2, OutcomePromised
  <1>3. CASE own' = Empty /\ issue' = [issue EXCEPT !.labels = {"grooming"}]
    <2>1. issue'.labels = {"grooming"} /\ issue'.open = issue.open
        BY <1>1, <1>3 DEF Issue
    <2>2. WholeInv' /\ kept' = Board' /\ byHand' = byHand
        BY <1>1, <2>1, FreedWhole DEF State
    <2>3. kept'.own = own' /\ kept'.issue = issue'
        BY <2>2 DEF Board
    <2>4. Promise!Repair
        BY <1>1, <1>3, <2>1, <2>2, <2>3 DEF Empty, Promise!Repair, Promise!Empty
    <2> QED BY <2>2, <2>4 DEF Promise!Next
  <1> QED BY <1>2, <1>3 DEF Sorted

LEMMA PeoplePromised ==
  ASSUME BoardInv, BoardInv', MutexInv, WholeInv, HandMoves \/ (PrMoves /\ Watch)
  PROVE  WholeInv' /\ [Promise!Next]_promised
  <1>1. CASE PrMoves /\ Watch
      BY <1>1, PrsWhole DEF promised
  <1>2. CASE HandMoves
    <2>1. /\ own' = own /\ byHand'
          /\ kept' = IF ref.state = "UNLOCK" THEN Board' ELSE kept
        BY <1>2 DEF HandMoves
    <2>2. ref.state = "UNLOCK" => kept = Board
        BY DEF WholeInv
    <2>3. kept'.own = kept.own
        BY <2>1, <2>2 DEF Board
    <2> QED BY <1>2, <2>1, <2>3, HandsWhole DEF Promise!Next, Promise!Hand
  <1> QED BY <1>1, <1>2

LEMMA BoardSteps == BoardWhole /\ [Next]_vars => BoardWhole' /\ [Promise!Next]_promised
  <1> SUFFICES ASSUME BoardWhole, [Next]_vars PROVE BoardWhole' /\ [Promise!Next]_promised
      OBVIOUS
  <1>1. BoardInv /\ MutexInv /\ CalmInv /\ WholeInv
      BY DEF BoardWhole
  <1>2. BoardInv' /\ MutexInv'
      BY <1>1, BoardKept, StepsFollowMutex, MutexKept
  <1>3. CASE UNCHANGED vars
    <2>1. UNCHANGED <<ref, pc, flight, issue, own, prs, job, troubles, kept, byHand>>
        BY <1>3 DEF vars, boardVars, mutexVars
    <2>2. CalmInv'
      <3>1. troubles \in Nat
          BY <1>1 DEF BoardInv
      <3> QED BY <1>1, <2>1, <3>1, LuckStays DEF CalmInv
    <2>3. \A c \in Command : ref' = Lock(c) => Watched(c)'
        BY <1>1, <2>1, WatchedStays DEF WholeInv
    <2>4. WholeInv'
        BY <1>1, <2>1, <2>3 DEF WholeInv, Board
    <2> QED BY <1>2, <2>1, <2>2, <2>4 DEF BoardWhole, promised
  <1>4. ASSUME NEW c \in Command, CommandStep(c), Watch
        PROVE  BoardWhole' /\ [Promise!Next]_promised
      BY <1>1, <1>2, <1>4, CommandLuck, CommandWhole, CommandPromised DEF BoardWhole
  <1>5. ASSUME NEW c \in Command, Around(c), Watch
        PROVE  BoardWhole' /\ [Promise!Next]_promised
      BY <1>1, <1>2, <1>5, AroundLuck, AroundPromised DEF BoardWhole
  <1>6. ASSUME NEW c \in Command, Sorted(c), Watch
        PROVE  BoardWhole' /\ [Promise!Next]_promised
      BY <1>1, <1>2, <1>6, SortedLuck, SortedPromised DEF BoardWhole
  <1>7. CASE HandMoves \/ (PrMoves /\ Watch)
      BY <1>1, <1>2, <1>7, PeopleLuck, PeoplePromised DEF BoardWhole
  <1> QED BY <1>3, <1>4, <1>5, <1>6, <1>7 DEF Next

LEMMA BoardWholeStarts == Init => BoardWhole /\ Promise!Init
  <1> SUFFICES ASSUME Init PROVE BoardWhole /\ Promise!Init
      OBVIOUS
  <1>1. BoardWhole
      BY BoardStarts, MutexStarts, CalmStarts, WholeStarts DEF BoardWhole, Init
  <1>2. kept.issue = issue /\ kept.own = own /\ byHand = FALSE
      BY DEF Init, Board
  <1>3. PICK t \in Token :
          \/ \E s \in {"ready", "grooming"} :
               issue = [open |-> TRUE, labels |-> {s}] /\ own = Empty
          \/ issue = [open |-> TRUE, labels |-> {"active"}] /\ own = Full(t)
          \/ issue = [open |-> TRUE, labels |-> {"review"}] /\ own = InReview(t)
      BY DEF Init, BoardInit
  <1>4. Promise!Init
      BY <1>2, <1>3
         DEF Empty, Full, InReview, Promise!Init, Promise!Empty, Promise!Full, Promise!InReview
  <1> QED BY <1>1, <1>4

\* The inductive invariant of the board: what each command knows of the issue where
\* it stands, with luck and without.
THEOREM BoardStaysWhole == Spec => []BoardWhole
  <1> QED BY BoardWholeStarts, BoardSteps, PTL DEF Spec

\* A lock is left to an operator only for a cause: whatever the commands and their
\* repairs do, one that nothing has gone wrong for since it read the ref unlocks by
\* itself.
THEOREM StaleHasACause == Spec => []StaleHasCause
  <1>1. BoardWhole => StaleHasCause
    <2> SUFFICES ASSUME BoardWhole, NEW c \in Command, pc[c] = "stopped"
                 PROVE  troubles > job[c].since
        BY DEF StaleHasCause
    <2>1. job[c].since < troubles /\ job[c].since \in Nat /\ troubles \in Nat
        BY DEF BoardWhole, BoardInv, Job, CalmInv, Lucky
    <2> QED BY <2>1
  <1> QED BY <1>1, BoardStaysWhole, PTL

\* Seen whenever its mutex is free, the issue has moved as by the single steps of
\* IssuePromise, for any set of commands and agents and any number of failed calls,
\* crashes and hands: a command unlocks only where its move is whole, undone, or
\* parked out of the ready queue.
THEOREM BoardImplementsPromise == Spec => KeepsIssuePromise
  <1>1. BoardWhole /\ [Next]_vars => [Promise!Next]_promised
      BY BoardSteps
  <1> QED BY <1>1, BoardWholeStarts, BoardStaysWhole, PTL
          DEF Spec, KeepsIssuePromise, Promise!Spec, promised
=============================================================================
