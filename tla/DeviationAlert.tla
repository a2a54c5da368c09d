--------------------------- MODULE DeviationAlert ---------------------------
(***************************************************************************)
(* The metrics bridge's alert state of one pool (deviation-alert-state.ts): *)
(* a classification of each polled row, how long it has lasted, and the    *)
(* transitions that the deviation rules report.  All of it is memory.  Two *)
(* bridges poll the same rows here: one that never stops, and one that may *)
(* forget everything, in a restart or because a poll lacks the pool, and   *)
(* then has only what the indexer stored to start from.                    *)
(***************************************************************************)
EXTENDS Naturals, FiniteSets, FiniteSetsExt

CONSTANTS
  Unseen, Untold,
  WarningPending, CriticalThreshold, CriticalPending, TransitionActive,
  Weekend,     \* the minutes in which FX markets are closed
  IndexLag,    \* bound: how old a breach may be when its row appears
  MaxMinute    \* bound: the end of the clock

ASSUME AlertAssumption ==
  /\ {WarningPending, CriticalThreshold, CriticalPending, TransitionActive} \subseteq Nat
  /\ Weekend \subseteq Nat /\ IndexLag \in Nat /\ MaxMinute \in Nat

Bridge == {"steady", "forgetful"}

VARIABLES
  fx,        \* the pair trades FX: the weekend pauses it
  minute,
  breach,    \* when the pool's breach began, or 0; and when the last one began
  latest,
  memory,    \* per bridge: previousStates, or Unseen
  recent,    \* per bridge: recentTransitions, or Untold
  excused,   \* history: the forgetful bridge came back to what no row can tell it
  episode    \* history: of its critical signal, and how often that escalated in a week

alertVars == <<fx, minute, breach, latest, memory, recent, excused, episode>>

-----------------------------------------------------------------------------
(* The snapshot of one poll.                                                  *)

Critical == {"critical", "gap_critical"}     \* gap: deviation_ratio_unavailable
Warning  == {"warning", "gap_warning"}
Gap      == {"gap_warning", "gap_critical"}

AlertState == {"ok", "fx_paused"} \cup Warning \cup Critical
AlertSignal == {"none"} \cup Critical
AlertReason == {"recovered", "suppressed", "reopened", "escalated", "deescalated",
                "unavailable", "restored", "started"}

StateSnapshot == [state : AlertState, start : Nat, signal : AlertSignal, entered : Nat, signaled : Nat]
Told     == [reason : AlertReason, ended : Nat]

ASSUME NothingAssumption == Unseen \notin StateSnapshot /\ Untold \notin Told

As(state, start, signal) == [state |-> state, start |-> start, signal |-> signal]

\* classifyDeviationAlertState
Classified(row) ==
  CASE fx /\ minute \in Weekend /\ (row.start > 0 \/ row.ratio = "high") ->
         As("fx_paused", row.start, "none")
    [] ~(fx /\ minute \in Weekend) /\ row.ratio = "high" ->
         As("warning", row.start,
            IF row.critical /\ row.start > 0 THEN "critical" ELSE "none")
    [] ~(fx /\ minute \in Weekend) /\ row.ratio = "absent" /\ row.start > 0 ->
         As("gap_warning", row.start, "gap_critical")
    [] OTHER -> As("ok", 0, "none")

\* lastFxReopenAtOrBefore, outside a weekend
LastReopen == Max({0} \cup {m \in 1..minute : m - 1 \in Weekend /\ m \notin Weekend})

\* Trading weeks of the pair, known by when they began.
Week == IF fx THEN LastReopen ELSE 0

\* Variant: the dwell begins with the process.
InitialEnteredAt_Process(now) == minute

InitialEnteredAt(now) ==
  IF now.state = "warning" /\ now.start > 0
  THEN IF fx THEN Max({now.start, LastReopen}) ELSE now.start
  ELSE minute

EnteredAt(was, now) ==
  CASE was = Unseen -> InitialEnteredAt(now)
    [] was # Unseen -> IF was.state = now.state \/ was.state = now.signal
                       THEN was.entered ELSE minute

\* Variant: the first signal a process sees is new.
SignalEnteredAt_Process(was, now, entered) ==
  IF was # Unseen /\ (was.signal = now.signal \/ was.state \in Critical)
  THEN was.signaled ELSE minute

\* criticalSignalEnteredAt; without a signal nobody looks at it
SignalEnteredAt(was, now, entered) ==
  CASE now.signal = "none" -> 0
    [] now.signal # "none" /\ was = Unseen ->
         IF now.state = "warning" THEN entered ELSE minute
    [] now.signal # "none" /\ was # Unseen ->
         IF was.signal = now.signal \/ was.state \in Critical THEN was.signaled ELSE minute

\* criticalStateCanFire
CriticalCanFire(now, signaled) ==
  /\ now.signal # "none" /\ now.start > 0
  /\ minute > CriticalPending + Max({signaled, now.start + CriticalThreshold})

\* buildCurrentSnapshot
AlertSnapshot(was, row) ==
  LET now == Classified(row)
      entered == EnteredAt(was, now)
      signaled == SignalEnteredAt(was, now, entered)
  IN  [state |-> IF CriticalCanFire(now, signaled) THEN now.signal ELSE now.state,
       start |-> now.start, signal |-> now.signal,
       entered |-> entered, signaled |-> signaled]

-----------------------------------------------------------------------------
(* Transitions.                                                               *)

\* transitionReason
Reason(from, to) ==
  IF to = "ok" THEN "recovered"
  ELSE IF to = "fx_paused" THEN "suppressed"
  ELSE IF from = "fx_paused" THEN "reopened"
  ELSE IF from \in Warning /\ to \in Critical THEN "escalated"
  ELSE IF from \in Critical /\ to \in Warning THEN "deescalated"
  ELSE IF to \in Gap THEN "unavailable"
  ELSE IF from \in Gap THEN "restored"
  ELSE "started"

\* alertCouldHaveFired
CouldHaveFired(snapshot) ==
  \/ snapshot.state \in Warning /\ minute >= snapshot.entered + WarningPending
  \/ snapshot.state \in Critical

\* shouldRecordTransition, for a bridge that had a snapshot
ShouldRecord(was, is) ==
  /\ was.state # is.state /\ CouldHaveFired(was)
  /\ Reason(was.state, is.state) \notin {"started", "reopened"}

\* buildTransition, without its labels
Transition(was, is) ==
  IF was # Unseen /\ ShouldRecord(was, is)
  THEN [reason |-> Reason(was.state, is.state), ended |-> minute]
  ELSE Untold

Tells(was, is, reason) ==
  Transition(was, is) # Untold /\ Transition(was, is).reason = reason

\* pruneRecentTransitions
Pruned(transition) ==
  IF transition # Untold /\ minute > transition.ended + TransitionActive
  THEN Untold ELSE transition

-----------------------------------------------------------------------------
AlertInit ==
  /\ fx \in BOOLEAN /\ minute = 1
  /\ breach = 0 /\ latest = 0
  /\ memory = [b \in Bridge |-> Unseen]
  /\ recent = [b \in Bridge |-> Untold]
  /\ excused = FALSE /\ episode = [start |-> 0, signal |-> "none", week |-> 0, told |-> 0]

\* Polls may fail, but not for a whole weekend.
Slept ==
  /\ fx /\ minute \in Weekend /\ minute + 1 \notin Weekend
  /\ memory["steady"] # Unseen /\ memory["steady"].state \notin {"ok", "fx_paused"}

Advance ==
  /\ minute < MaxMinute /\ ~Slept
  /\ minute' = minute + 1
  /\ UNCHANGED <<fx, breach, latest, memory, recent, excused, episode>>

\* The rows a poll may get.  Ratio and peak come from queries of their own and may
\* disagree with the breach; "critical" is the one or the other.
Rows ==
  LET Starts == {0, breach} \cup {m \in (latest + 1)..minute : m + IndexLag >= minute}
  IN  [start : Starts, ratio : {"low", "high", "absent"}, critical : {FALSE}]
        \cup [start : Starts \ {0}, ratio : {"high"}, critical : {TRUE}]

\* observeDeviationAlertState; the forgetful bridge may be down when it knows nothing.
Observe(polling) ==
  /\ \E row \in Rows :
       /\ breach' = row.start /\ latest' = Max({latest, row.start})
       /\ memory' = [b \in Bridge |->
            IF b \in polling THEN AlertSnapshot(memory[b], row) ELSE memory[b]]
  /\ recent' = [b \in Bridge |->
       CASE b \notin polling -> recent[b]
         [] b \in polling -> LET new == Transition(memory[b], memory'[b])
                             IN  IF new = Untold THEN Pruned(recent[b]) ELSE new]
  /\ UNCHANGED <<fx, minute>>

\* What the row cannot tell a bridge that starts: since when the ratio is absent, since
\* when it is high without a breach, that the breach replaced another between two polls,
\* and, once it has escalated on its own, since when the other bridge has been warning.
Excuse(was, is, other) ==
  \/ was = Unseen /\ (is.state \in Gap \/ is.start = 0 \/ other.entered < is.start)
  \/ was # Unseen /\ was.state \in Critical /\ is.state \in Warning

\* Both poll the row.
Both ==
  /\ Observe(Bridge)
  /\ LET was == memory["forgetful"]  is == memory'["forgetful"]
         same == [start |-> is.start, signal |-> is.signal, week |-> Week, told |-> episode.told]
         before == IF episode = same THEN episode.told ELSE 0
     IN  /\ excused' = /\ is.state \notin {"ok", "fx_paused"}
                       /\ excused \/ Excuse(was, is, memory'["steady"])
         /\ episode' = [same EXCEPT !.told =
                           IF is.signal = "none" THEN 0
                           ELSE IF Tells(was, is, "escalated") THEN before + 1 ELSE before]

\* The other one is still starting.
Alone ==
  /\ memory["forgetful"] = Unseen
  /\ Observe({"steady"})
  /\ UNCHANGED <<excused, episode>>

\* The process starts again, or pruneDeviationAlertStates finds the pool missing.
Forget ==
  /\ memory' = [memory EXCEPT !["forgetful"] = Unseen]
  /\ recent' = [recent EXCEPT !["forgetful"] = Untold]
  /\ excused' = FALSE
  /\ UNCHANGED <<fx, minute, breach, latest, episode>>

AlertNext == Advance \/ Both \/ Alone \/ Forget

AlertSpec == AlertInit /\ [][AlertNext]_alertVars

-----------------------------------------------------------------------------
(* Properties.                                                                *)

\* A bridge that has started again reports the end of every alert that one which never
\* stopped reports, unless the row it found could not tell it what the other knew: the
\* age of a breach survives the process (buildCurrentSnapshot, :309-317).
RecoveryKeepsContext ==
  [][ memory["forgetful"] # Unseen /\ memory'["forgetful"] # Unseen /\ ~excused =>
        \A reason \in {"recovered", "suppressed"} :
          Tells(memory["steady"], memory'["steady"], reason) =>
            Tells(memory["forgetful"], memory'["forgetful"], reason) ]_alertVars

\* While a breach's ratio or peak stays critical its escalation is reported once in a week
\* of trading, through any number of restarts, as long as the ratio is known.
EscalatedOnce == episode.signal = "critical" => episode.told <= 1
=============================================================================
