----------------------------- MODULE IssueMutex -----------------------------
(***************************************************************************)
(* The persistent mutex of one issue (scripts/pr/issue-board-lock.mjs): a  *)
(* Git ref that moves along a chain of UNLOCK and LOCK commits by compare- *)
(* and-swap.  A command reads the ref, makes a LOCK child of the UNLOCK it *)
(* saw and asks for the swap; what it does while it holds the lock is left *)
(* to the module that extends this one (IssueBoard).  An answer may be     *)
(* lost and a swap may be carried out after its command has stopped; a     *)
(* stopped command's lock stays until an operator moves the ref on.        *)
(*                                                                         *)
(* A command is one run of the helper and takes the lock at most once, so  *)
(* a commit is known by its state and its maker.                           *)
(***************************************************************************)

CONSTANTS Command, None

ASSUME NoneAssumption == None \notin Command

VARIABLES
  ref,      \* the commit the ref points to
  pc,       \* where each command stands
  seen,     \* the UNLOCK commit a command read
  flight    \* its request to move the ref: under way, carried out or refused

mutexVars == <<ref, pc, seen, flight>>

Lock(c)   == [state |-> "LOCK", by |-> c]
Unlock(c) == [state |-> "UNLOCK", by |-> c]
Commit    == [state : {"LOCK", "UNLOCK"}, by : Command \cup {None}]

Stand  == {"new", "begin", "acquire", "inside", "release", "stopped", "end"}
Flight == {"none", "acquire", "release", "applied", "refused"}

MutexTypeOK ==
  /\ ref \in Commit
  /\ pc \in [Command -> Stand]
  /\ seen \in [Command -> Commit]
  /\ flight \in [Command -> Flight]

\* The ref has been initialised with an UNLOCK commit.
MutexInit ==
  /\ ref = Unlock(None)
  /\ pc = [c \in Command |-> "new"]
  /\ seen = [c \in Command |-> Unlock(None)]
  /\ flight = [c \in Command |-> "none"]

Move(c, stand, request) ==
  /\ pc' = [pc EXCEPT ![c] = stand]
  /\ flight' = [flight EXCEPT ![c] = request]

\* What precedes the lock is read and decided; the command goes for the lock or
\* gives up.
Prepare(c, stand) ==
  /\ pc[c] = "new"
  /\ Move(c, stand, "none")
  /\ UNCHANGED <<ref, seen>>

\* acquireIssueMutationLock up to its swap: a LOCK is a conflict; the child
\* commit is made, or making it fails.
ReadRef(c) ==
  /\ pc[c] = "begin"
  /\ \/ ref.state = "LOCK" /\ Move(c, "end", "none") /\ UNCHANGED seen
     \/ /\ ref.state = "UNLOCK"
        /\ seen' = [seen EXCEPT ![c] = ref]
        /\ Move(c, "acquire", "acquire") \/ Move(c, "end", "none")
  /\ UNCHANGED ref

\* Variant: the swap is a forced update.
Serve_Forced(c) ==
  /\ \/ flight[c] = "acquire" /\ ref' = Lock(c)
     \/ flight[c] = "release" /\ ref' = Unlock(c)
  /\ flight' = [flight EXCEPT ![c] = "applied"]
  /\ UNCHANGED <<pc, seen>>

\* GitHub carries out a swap whose expected commit is still there and refuses
\* any other; the command may have stopped meanwhile.
Serve(c) ==
  /\ \/ /\ flight[c] = "acquire"
        /\ IF ref = seen[c]
           THEN ref' = Lock(c) /\ flight' = [flight EXCEPT ![c] = "applied"]
           ELSE flight' = [flight EXCEPT ![c] = "refused"] /\ UNCHANGED ref
     \/ /\ flight[c] = "release"
        /\ IF ref = Lock(c)
           THEN ref' = Unlock(c) /\ flight' = [flight EXCEPT ![c] = "applied"]
           ELSE flight' = [flight EXCEPT ![c] = "refused"] /\ UNCHANGED ref
  /\ UNCHANGED <<pc, seen>>

\* The swap is known to have succeeded, from its answer or from a read of the
\* ref.  A failing proof of the owner target gives the lock back untouched.
Acquired(c) ==
  /\ pc[c] = "acquire" /\ flight[c] = "applied"
  /\ Move(c, "inside", "none") \/ Move(c, "release", "release")
  /\ UNCHANGED <<ref, seen>>

Lost(c) ==
  /\ pc[c] = "acquire" /\ flight[c] = "refused"
  /\ Move(c, "end", "none")
  /\ UNCHANGED <<ref, seen>>

\* The outcome cannot be reconciled: the helper stops with a stale-lock error,
\* whatever became or becomes of its request.
Unknown(c) ==
  /\ pc[c] \in {"acquire", "release"}
  /\ pc' = [pc EXCEPT ![c] = "stopped"]
  /\ UNCHANGED <<ref, seen, flight>>

\* withIssueMutationLock after the callback: the UNLOCK child is made and asked
\* for, or the lock is kept and reported.
Leave(c) ==
  /\ pc[c] = "inside"
  /\ Move(c, "release", "release")
  /\ UNCHANGED <<ref, seen>>

Retain(c) ==
  /\ pc[c] = "inside"
  /\ Move(c, "stopped", "none")
  /\ UNCHANGED <<ref, seen>>

Released(c) ==
  /\ pc[c] = "release" /\ flight[c] = "applied"
  /\ Move(c, "end", "none")
  /\ UNCHANGED <<ref, seen>>

Crash(c) ==
  /\ pc[c] \in {"acquire", "inside", "release"}
  /\ pc' = [pc EXCEPT ![c] = "stopped"]
  /\ UNCHANGED <<ref, seen, flight>>

\* An operator, once the helper cannot resume and no request of it is under way,
\* moves its LOCK on to an UNLOCK child.
Recover(c) ==
  /\ pc[c] = "stopped" /\ flight[c] \notin {"acquire", "release"}
  /\ ref = Lock(c)
  /\ ref' = Unlock(c)
  /\ UNCHANGED <<pc, seen, flight>>

MutexNext ==
  \E c \in Command :
    \/ Prepare(c, "begin") \/ Prepare(c, "end") \/ ReadRef(c) \/ Serve(c)
    \/ Acquired(c) \/ Lost(c) \/ Unknown(c)
    \/ Leave(c) \/ Retain(c) \/ Released(c) \/ Crash(c) \/ Recover(c)

MutexSpec == MutexInit /\ [][MutexNext]_mutexVars

-----------------------------------------------------------------------------
\* A command that may write to the board is the one whose LOCK the ref carries,
\* whatever answers were lost and however late a swap is carried out: so there is
\* only one, and an operator never unlocks under it.
InsideHoldsLock == \A c \in Command : pc[c] = "inside" => ref = Lock(c)
=============================================================================
