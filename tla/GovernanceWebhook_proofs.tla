----------------------- MODULE GovernanceWebhook_proofs -----------------------
(***************************************************************************)
(* Machine-checked proofs about GovernanceWebhook for any number of        *)
(* deliveries, instances and events, any window and cache size; and, at    *)
(* the end, about the on-call announcer (OncallRotation).                  *)
(***************************************************************************)
EXTENDS GovernanceWebhook, OncallRotation, TLAPS

Steps(a) ==
  \/ Receive(a) \/ Reserve(a) \/ Parse(a) \/ Skip(a) \/ Register(a)
  \/ Dispatch(a) \/ Discord(a) \/ Telegram(a) \/ Finish(a)

\* What is let through within the window is still in the cache.
CacheRemembers ==
  \A i \in Instance, e \in Event :
    handled[i][e] \in 0..(Window - 1) => seen[i][e] = handled[i][e]

\* A delivery with a nonce works only after it reserved it, and alone.
Working(a) == pc[a] \in {"parse", "dedup", "handle", "discord", "telegram"}
Owns(a)    == Working(a) \/ Sent(a)
NonceKept  ==
  /\ \A a \in Attempt : NonceOf[a] # NoNonce /\ Owns(a) => NonceOf[a] \in nonces
  /\ \A a, b \in Attempt :
       NonceOf[a] = NonceOf[b] /\ NonceOf[a] # NoNonce /\ Owns(a) /\ Owns(b) => a = b

\* A working delivery has dealt with every event before the one at hand.
Settled(a, e) == e \in passed[a] \/ \A c \in Channel : e \in tried[a][c]
Progress(a) ==
  /\ Working(a) => \A e \in Event : Kind[e] = "good" /\ e < at[a] => Settled(a, e)
  /\ pc[a] \in {"handle", "discord", "telegram"} => at[a] \in Event
  /\ pc[a] = "telegram" => at[a] \in tried[a]["discord"]
  /\ pc[a] = "parse" => at[a] = 1
  /\ pc[a] \in {"idle", "reserve"} => at[a] = 1
  /\ pc[a] = "reserve" => NonceOf[a] # NoNonce
  /\ reply[a] = "ok" => \A e \in Event : Kind[e] = "good" => Settled(a, e)

ProgressInv == \A a \in Attempt : Progress(a)
GovernanceInv == TypeOK /\ CacheRemembers /\ NonceKept /\ ProgressInv

\* What belongs to one delivery stays when another takes a step.
Same(b) ==
  /\ pc'[b] = pc[b] /\ at'[b] = at[b] /\ reply'[b] = reply[b]
  /\ tried'[b] = tried[b] /\ passed'[b] = passed[b]
LEMMA OthersProgress ==
  ASSUME GovernanceInv, NEW b \in Attempt, Same(b)
  PROVE  Progress(b)'
BY DEF GovernanceInv, ProgressInv, Progress, Working, Settled, Same

\* Trimming the cache forgets nothing within the window.
LEMMA TrimKeepsYoung ==
  ASSUME NEW cache \in [Event -> Age \cup {Never}]
  PROVE  /\ Trim(cache) \in [Event -> Age \cup {Never}]
         /\ \A e \in Event : cache[e] \in 0..(Window - 1) => Trim(cache)[e] = cache[e]
BY GovernanceAssumption DEF Trim, Cleanup, Age, Never

\* The invariant is inductive: one step per action.
LEMMA GovernanceStep == GovernanceInv /\ [Next]_vars => GovernanceInv'
<1> SUFFICES ASSUME GovernanceInv, [Next]_vars PROVE GovernanceInv'
  OBVIOUS
<1> USE GovernanceAssumption DEF GovernanceInv
<1>1. ASSUME NEW a \in Attempt, Receive(a) PROVE GovernanceInv'
  <2>1. TypeOK'
    BY <1>1 DEF Receive, Goto, TypeOK, Place, Reply, Event
  <2>2. CacheRemembers'
    BY <1>1 DEF Receive, Goto, CacheRemembers
  <2>3. NonceKept'
    BY <1>1 DEF Receive, Goto, TypeOK, NonceKept, Owns, Working, Sent, Channel
  <2>4. Progress(a)'
    BY <1>1 DEF Receive, Goto, TypeOK, ProgressInv, Progress, Working, Settled, Event, Channel
  <2>5. \A b \in Attempt \ {a} : Progress(b)'
    BY <1>1, OthersProgress DEF Receive, Goto, TypeOK, Same
  <2> QED BY <2>1, <2>2, <2>3, <2>4, <2>5 DEF ProgressInv
<1>2. ASSUME NEW a \in Attempt, Reserve(a) PROVE GovernanceInv'
  <2>1. TypeOK'
    <3>1. NonceOf[a] # NoNonce
      BY <1>2 DEF Reserve, ProgressInv, Progress
    <3>2. nonces' \subseteq {NonceOf[b] : b \in Attempt} \ {NoNonce}
      BY <1>2, <3>1 DEF Reserve, TypeOK
    <3>3. pc' \in [Attempt -> Place] /\ reply' \in [Attempt -> Reply]
      BY <1>2 DEF Reserve, Goto, Answer, TypeOK, Place, Reply
    <3> QED BY <1>2, <3>2, <3>3 DEF Reserve, TypeOK
  <2>2. CacheRemembers'
    BY <1>2 DEF Reserve, Goto, Answer, CacheRemembers
  <2>3. NonceKept'
    <3>1. \A b \in Attempt \ {a} : Owns(b)' <=> Owns(b)
      BY <1>2 DEF Reserve, Goto, Answer, TypeOK, Owns, Working, Sent
    <3>2. nonces \subseteq nonces'
      BY <1>2 DEF Reserve
    <3>3. Owns(a)' => \/ Owns(a)
                      \/ NonceOf[a] \notin nonces /\ NonceOf[a] \in nonces'
      BY <1>2 DEF Reserve, Goto, Answer, TypeOK, Owns, Working, Sent
    <3> QED BY <3>1, <3>2, <3>3, Zenon DEF NonceKept
  <2>4. Progress(a)'
    BY <1>2 DEF Reserve, Goto, Answer, TypeOK, ProgressInv, Progress, Working, Settled, Event, Channel
  <2>5. \A b \in Attempt \ {a} : Progress(b)'
    BY <1>2, OthersProgress DEF Reserve, Goto, Answer, TypeOK, Same
  <2> QED BY <2>1, <2>2, <2>3, <2>4, <2>5 DEF ProgressInv
<1>3. ASSUME NEW a \in Attempt, Parse(a) PROVE GovernanceInv'
  <2>1. TypeOK'
    BY <1>3 DEF Parse, Goto, Answer, TypeOK, Place, Reply, Event
  <2>2. CacheRemembers'
    BY <1>3 DEF Parse, Goto, Answer, CacheRemembers
  <2>3. NonceKept'
    BY <1>3, ZenonT(40) DEF Parse, Goto, Answer, TypeOK, NonceKept, Owns, Working, Sent, Channel
  <2>4. Progress(a)'
    BY <1>3 DEF Parse, Goto, Answer, TypeOK, ProgressInv, Progress, Working, Settled, Event, Channel
  <2>5. \A b \in Attempt \ {a} : Progress(b)'
    BY <1>3, OthersProgress DEF Parse, Goto, Answer, TypeOK, Same
  <2> QED BY <2>1, <2>2, <2>3, <2>4, <2>5 DEF ProgressInv
<1>4. ASSUME NEW a \in Attempt, Skip(a) PROVE GovernanceInv'
  <2>1. TypeOK'
    BY <1>4 DEF Skip, TypeOK, Place, Reply, Event
  <2>2. CacheRemembers'
    BY <1>4 DEF Skip, CacheRemembers
  <2>3. NonceKept'
    BY <1>4 DEF Skip, TypeOK, NonceKept, Owns, Working, Sent, Channel
  <2>4. Progress(a)'
    BY <1>4 DEF Skip, TypeOK, ProgressInv, Progress, Working, Settled, Event, Channel
  <2>5. \A b \in Attempt \ {a} : Progress(b)'
    BY <1>4, OthersProgress DEF Skip, TypeOK, Same
  <2> QED BY <2>1, <2>2, <2>3, <2>4, <2>5 DEF ProgressInv
<1>5. ASSUME NEW a \in Attempt, Register(a) PROVE GovernanceInv'
  <2>1. TypeOK'
    <3>1. [seen[host[a]] EXCEPT ![at[a]] = 0] \in [Event -> Age \cup {Never}]
      BY <1>5 DEF Register, TypeOK, Age
    <3>2. seen' \in [Instance -> [Event -> Age \cup {Never}]]
      BY <1>5, <3>1, TrimKeepsYoung DEF Register, TypeOK
    <3>3. handled' \in [Instance -> [Event -> Age \cup {Never}]]
      BY <1>5 DEF Register, LetThrough, TypeOK, Age
    <3>4. pc' \in [Attempt -> Place]
      BY <1>5 DEF Register, Goto, TypeOK, Place
    <3> QED BY <1>5, <3>2, <3>3, <3>4 DEF Register, TypeOK
  <2>2. CacheRemembers'
    <3> DEFINE cache == [seen[host[a]] EXCEPT ![at[a]] = 0]
    <3>1. cache \in [Event -> Age \cup {Never}]
      BY <1>5 DEF Register, TypeOK, Age
    <3>2. /\ seen' = [seen EXCEPT ![host[a]] = Trim(cache)]
          /\ handled' = [handled EXCEPT ![host[a]][at[a]] = 0]
          /\ host[a] \in Instance /\ at[a] \in Event
      BY <1>5 DEF Register, LetThrough, TypeOK
    <3>3. SUFFICES ASSUME NEW i \in Instance, NEW e \in Event, handled'[i][e] \in 0..(Window - 1)
                   PROVE  seen'[i][e] = handled'[i][e]
      BY DEF CacheRemembers
    <3>4. CASE i = host[a]
      <4>1. cache[e] = handled'[i][e]
        BY <3>2, <3>3, <3>4 DEF TypeOK, CacheRemembers
      <4>2. Trim(cache)[e] = cache[e]
        BY <3>1, <3>3, <4>1, TrimKeepsYoung
      <4> QED BY <3>2, <3>4, <4>1, <4>2 DEF TypeOK
    <3>5. CASE i # host[a]
      BY <3>2, <3>3, <3>5 DEF TypeOK, CacheRemembers
    <3> QED BY <3>4, <3>5
  <2>3. NonceKept'
    BY <1>5 DEF Register, Goto, TypeOK, NonceKept, Owns, Working, Sent, Channel
  <2>4. Progress(a)'
    BY <1>5 DEF Register, Goto, TypeOK, ProgressInv, Progress, Working, Settled, Event, Channel
  <2>5. \A b \in Attempt \ {a} : Progress(b)'
    BY <1>5, OthersProgress DEF Register, Goto, TypeOK, Same
  <2> QED BY <2>1, <2>2, <2>3, <2>4, <2>5 DEF ProgressInv
<1>6. ASSUME NEW a \in Attempt, Dispatch(a) PROVE GovernanceInv'
  <2>1. TypeOK'
    <3>1. at[a] \in Event
      BY <1>6 DEF Dispatch, ProgressInv, Progress
    <3>2. at[a] + 1 \in 1..(Len(Kind) + 1)
      BY <3>1 DEF Event
    <3>3. at' \in [Attempt -> 1..(Len(Kind) + 1)]
      BY <1>6, <3>2 DEF Dispatch, NextEvent, Answer, TypeOK
    <3>4. pc' \in [Attempt -> Place] /\ reply' \in [Attempt -> Reply]
      BY <1>6 DEF Dispatch, NextEvent, Goto, Answer, TypeOK, Place, Reply
    <3> QED BY <1>6, <3>3, <3>4 DEF Dispatch, TypeOK
  <2>2. CacheRemembers'
    BY <1>6 DEF Dispatch, NextEvent, Goto, Answer, CacheRemembers
  <2>3. NonceKept'
    BY <1>6, ZenonT(40) DEF Dispatch, NextEvent, Goto, Answer, TypeOK, NonceKept, Owns, Working, Sent, Channel
  <2>4. Progress(a)'
    BY <1>6 DEF Dispatch, NextEvent, Goto, Answer, TypeOK, ProgressInv, Progress, Working, Settled, Event, Channel
  <2>5. \A b \in Attempt \ {a} : Progress(b)'
    BY <1>6, OthersProgress DEF Dispatch, NextEvent, Goto, Answer, TypeOK, Same
  <2> QED BY <2>1, <2>2, <2>3, <2>4, <2>5 DEF ProgressInv
<1>7. ASSUME NEW a \in Attempt, Discord(a) PROVE GovernanceInv'
  <2>1. TypeOK'
    <3>1. at[a] \in Event
      BY <1>7 DEF Discord, ProgressInv, Progress
    <3>2. tried' \in [Attempt -> [Channel -> SUBSET Event]]
      BY <1>7, <3>1 DEF Discord, Try, TypeOK, Channel
    <3>3. pc' \in [Attempt -> Place]
      BY <1>7 DEF Discord, Goto, TypeOK, Place
    <3> QED BY <1>7, <3>2, <3>3 DEF Discord, TypeOK
  <2>2. CacheRemembers'
    BY <1>7 DEF Discord, Try, Goto, CacheRemembers
  <2>3. NonceKept'
    BY <1>7 DEF Discord, Try, Goto, TypeOK, NonceKept, Owns, Working, Sent, Channel
  <2>4. Progress(a)'
    BY <1>7 DEF Discord, Try, Goto, TypeOK, ProgressInv, Progress, Working, Settled, Event, Channel
  <2>5. \A b \in Attempt \ {a} : Progress(b)'
    BY <1>7, OthersProgress DEF Discord, Try, Goto, TypeOK, Same
  <2> QED BY <2>1, <2>2, <2>3, <2>4, <2>5 DEF ProgressInv
<1>8. ASSUME NEW a \in Attempt, Telegram(a) PROVE GovernanceInv'
  <2>1. TypeOK'
    <3>1. at[a] \in Event
      BY <1>8 DEF Telegram, ProgressInv, Progress
    <3>2. tried' \in [Attempt -> [Channel -> SUBSET Event]]
      BY <1>8, <3>1 DEF Telegram, Try, TypeOK, Channel
    <3>3. at[a] + 1 \in 1..(Len(Kind) + 1)
      BY <3>1 DEF Event
    <3>4. at' \in [Attempt -> 1..(Len(Kind) + 1)]
      BY <1>8, <3>3 DEF Telegram, NextEvent, TypeOK
    <3>5. pc' \in [Attempt -> Place]
      BY <1>8 DEF Telegram, NextEvent, Goto, TypeOK, Place
    <3> QED BY <1>8, <3>2, <3>4, <3>5 DEF Telegram, TypeOK
  <2>2. CacheRemembers'
    BY <1>8 DEF Telegram, Try, NextEvent, Goto, CacheRemembers
  <2>3. NonceKept'
    BY <1>8 DEF Telegram, Try, NextEvent, Goto, TypeOK, NonceKept, Owns, Working, Sent, Channel
  <2>4. Progress(a)'
    <3>1. /\ pc[a] = "telegram" /\ pc'[a] = "dedup" /\ at'[a] = at[a] + 1
          /\ reply' = reply /\ passed' = passed
          /\ tried'[a] = [tried[a] EXCEPT !["telegram"] = @ \cup {at[a]}]
      BY <1>8 DEF Telegram, Try, NextEvent, Goto, TypeOK
    <3>2. /\ tried'[a]["discord"] = tried[a]["discord"]
          /\ tried'[a]["telegram"] = tried[a]["telegram"] \cup {at[a]}
      BY <3>1 DEF TypeOK, Channel
    <3>3. Progress(a)
      BY DEF ProgressInv
    <3>4. \A e \in Event : Settled(a, e) => Settled(a, e)'
      BY <3>1, <3>2 DEF Settled, Channel
    <3>5. \A e \in Event : e < at'[a] => e < at[a] \/ e = at[a]
      BY <3>1, <3>3 DEF Progress, Event
    <3>6. \A e \in Event : e = at[a] => Settled(a, e)'
      BY <3>1, <3>2, <3>3 DEF Settled, Channel, Progress
    <3> QED BY <3>1, <3>3, <3>4, <3>5, <3>6 DEF Progress, Working
  <2>5. \A b \in Attempt \ {a} : Progress(b)'
    BY <1>8, OthersProgress DEF Telegram, Try, NextEvent, Goto, TypeOK, Same
  <2> QED BY <2>1, <2>2, <2>3, <2>4, <2>5 DEF ProgressInv
<1>9. ASSUME NEW a \in Attempt, Finish(a) PROVE GovernanceInv'
  <2>1. TypeOK'
    BY <1>9 DEF Finish, Answer, Goto, TypeOK, Place, Reply, Event
  <2>2. CacheRemembers'
    BY <1>9 DEF Finish, Answer, Goto, CacheRemembers
  <2>3. NonceKept'
    BY <1>9 DEF Finish, Answer, Goto, TypeOK, NonceKept, Owns, Working, Sent, Channel
  <2>4. Progress(a)'
    BY <1>9 DEF Finish, Answer, Goto, TypeOK, ProgressInv, Progress, Working, Settled, Event, Channel
  <2>5. \A b \in Attempt \ {a} : Progress(b)'
    BY <1>9, OthersProgress DEF Finish, Answer, Goto, TypeOK, Same
  <2> QED BY <2>1, <2>2, <2>3, <2>4, <2>5 DEF ProgressInv
<1>10. ASSUME NEW i \in Instance, Crash(i) PROVE GovernanceInv'
  <2>1. TypeOK'
    BY <1>10 DEF Crash, Empty, TypeOK, Place
  <2>2. CacheRemembers'
    BY <1>10 DEF Crash, Empty, TypeOK, CacheRemembers, Never
  <2>3. NonceKept'
    BY <1>10 DEF Crash, TypeOK, NonceKept, Owns, Working, Sent
  <2>4. ProgressInv'
    BY <1>10 DEF Crash, TypeOK, ProgressInv, Progress, Working, Settled
  <2> QED BY <2>1, <2>2, <2>3, <2>4
<1>11. CASE Tick
  <2>1. TypeOK'
    BY <1>11 DEF Tick, Older, TypeOK, Age, Never
  <2>2. CacheRemembers'
    <3>1. SUFFICES ASSUME NEW i \in Instance, NEW e \in Event, handled'[i][e] \in 0..(Window - 1)
                   PROVE  seen'[i][e] = handled'[i][e]
      BY DEF CacheRemembers
    <3>2. /\ handled[i][e] \in Age \cup {Never} /\ seen[i][e] \in Age \cup {Never}
          /\ handled'[i][e] = IF handled[i][e] \in 0..Window THEN handled[i][e] + 1 ELSE handled[i][e]
          /\ seen'[i][e] = IF seen[i][e] \in 0..Window THEN seen[i][e] + 1 ELSE seen[i][e]
      BY <1>11 DEF Tick, Older, TypeOK
    <3>3. handled[i][e] \in 0..(Window - 1)
      BY <3>1, <3>2 DEF Age, Never
    <3>4. seen[i][e] = handled[i][e]
      BY <3>3 DEF CacheRemembers
    <3> QED BY <3>2, <3>3, <3>4
  <2>3. NonceKept'
    BY <1>11 DEF Tick, NonceKept, Owns, Working, Sent
  <2>4. ProgressInv'
    BY <1>11 DEF Tick, ProgressInv, Progress, Working, Settled
  <2> QED BY <2>1, <2>2, <2>3, <2>4
<1>12. CASE UNCHANGED vars
  BY <1>12 DEF vars, TypeOK, CacheRemembers, NonceKept, Owns, Working, Sent,
              ProgressInv, Progress, Settled
<1> QED BY <1>1, <1>2, <1>3, <1>4, <1>5, <1>6, <1>7, <1>8, <1>9, <1>10, <1>11, <1>12 DEF Next

LEMMA GovernanceInit == Init => GovernanceInv
<1> SUFFICES ASSUME Init PROVE GovernanceInv
  OBVIOUS
<1> USE GovernanceAssumption DEF Init
<1>1. TypeOK
  BY DEF TypeOK, Empty, Place, Reply
<1>2. CacheRemembers
  BY DEF CacheRemembers, Empty, Never
<1>3. NonceKept
  BY DEF NonceKept, Owns, Working, Sent
<1>4. ProgressInv
  BY DEF ProgressInv, Progress, Working
<1> QED BY <1>1, <1>2, <1>3, <1>4 DEF GovernanceInv

LEMMA GovernanceInvariant == Spec => []GovernanceInv
BY GovernanceInit, GovernanceStep, PTL DEF Spec

\* The handler is type correct.
THEOREM GovernanceTypes == Spec => []TypeOK
BY GovernanceInvariant, PTL DEF GovernanceInv

\* No instance lets the same event through twice within the window.
THEOREM DedupHolds == Spec => OncePerWindow
<1>1. GovernanceInv /\ [Next]_vars =>
        [\A a \in Attempt :
           pc[a] = "dedup" /\ pc'[a] = "handle"
             => handled[host[a]][at[a]] \notin 0..(Window - 1)]_vars
  <2> SUFFICES ASSUME GovernanceInv, Next, NEW a \in Attempt,
                      pc[a] = "dedup", pc'[a] = "handle"
               PROVE  handled[host[a]][at[a]] \notin 0..(Window - 1)
    OBVIOUS
  <2>1. Register(a)
    BY DEF GovernanceInv, TypeOK, Next, Tick, Crash, Receive, Reserve, Parse, Skip, Register,
           Dispatch, Discord, Telegram, Finish, Answer, Goto, NextEvent
  <2> QED BY <2>1, GovernanceAssumption
          DEF GovernanceInv, TypeOK, CacheRemembers, Register, IsDuplicate, Never
<1> QED BY <1>1, GovernanceInvariant, PTL DEF Spec, OncePerWindow

\* Of the deliveries under one nonce at most one sends anything.
THEOREM NonceHolds == Spec => []OneSenderPerNonce
<1>1. GovernanceInv => OneSenderPerNonce
  BY DEF GovernanceInv, NonceKept, Owns, OneSenderPerNonce
<1> QED BY <1>1, GovernanceInvariant, PTL

\* A 200 for the batch means every event was tried on both channels, or left to
\* an earlier delivery.
THEOREM OkIsTried == Spec => []OkMeansTried
<1>1. GovernanceInv => OkMeansTried
  BY DEF GovernanceInv, ProgressInv, Progress, Settled, OkMeansTried
<1> QED BY <1>1, GovernanceInvariant, PTL

-----------------------------------------------------------------------------
(* The on-call announcer (OncallRotation).  The message precedes the record,  *)
(* so what is recorded was said; what was said once is not said again, for    *)
(* Slack knows it; and nothing but tampering comes between what an invocation *)
(* read and what it replaces (Reads).                                         *)

Rotation == {Undefined} \cup [user : User, slackId : BOOLEAN]

RotationTypes ==
  /\ onCall \in User \cup {Nobody} /\ state \in Rotation /\ previous \in Rotation
  /\ call \in {"idle", "read", "group", "post", "write"} /\ (call # "idle" => current \in User)
  /\ accepted \subseteq Handover /\ earlier \subseteq accepted
  /\ told \in [Handover -> Nat]

\* Every message was shown once: since the record last changed, or before.
ShownOnce == \A h \in Handover : told[h] = IF h \in accepted /\ h \notin earlier THEN 1 ELSE 0

\* What an invocation read is still so, unless somebody has tampered with it; and it
\* does not come to the record before it has said what it has to say.
Reads ==
  /\ call \in {"group", "post", "write"} /\ state # Undefined => previous.user = state.user /\ previous # Undefined
  /\ call = "write" /\ ShouldAnnounce => ClientMsgId \in accepted

RotationInv == RotationTypes /\ ShownOnce /\ Reads

\* Records, and what tampering leaves of one.
LEMMA RotationIs ==
  ASSUME RotationAssumption
  PROVE  /\ \A r \in Rotation : r # Undefined => r.user \in User
         /\ \A u \in User : Recorded(u) \in Rotation /\ Recorded(u) # Undefined /\ Recorded(u).user = u
         /\ \A r \in Rotation : r # Undefined => /\ [r EXCEPT !.slackId = FALSE] \in Rotation
                                                 /\ [r EXCEPT !.slackId = FALSE].user = r.user
         /\ Undefined.user = Nobody /\ [Undefined EXCEPT !.slackId = FALSE] = Undefined
         /\ Undefined \in Rotation
<1>1. Undefined = [user |-> Nobody, slackId |-> FALSE] /\ Nobody \notin User
  BY DEF Undefined, RotationAssumption
<1>2. ASSUME NEW r \in [user : User, slackId : BOOLEAN]
      PROVE  /\ r.user \in User /\ [r EXCEPT !.slackId = FALSE] \in [user : User, slackId : BOOLEAN]
             /\ [r EXCEPT !.slackId = FALSE].user = r.user
  OBVIOUS
<1>3. ASSUME NEW u \in User
      PROVE  Recorded(u) \in [user : User, slackId : BOOLEAN] /\ Recorded(u).user = u
  BY DEF Recorded
<1>4. Undefined.user = Nobody /\ [Undefined EXCEPT !.slackId = FALSE] = Undefined
  <2>1. Undefined \in [user : {Nobody}, slackId : {FALSE}]
    BY <1>1
  <2>2. ASSUME NEW r \in [user : {Nobody}, slackId : {FALSE}] PROVE r.user = Nobody /\ [r EXCEPT !.slackId = FALSE] = r
    OBVIOUS
  <2> QED BY <2>1, <2>2
<1>5. Undefined \notin [user : User, slackId : BOOLEAN]
  BY <1>1
<1> QED BY <1>2, <1>3, <1>4, <1>5, Zenon DEF Rotation

\* A message of the invocation, however its call ends.
LEMMA MessageShown ==
  ASSUME RotationAssumption, RotationTypes, ShownOnce, call = "post", Posted, earlier' = earlier
  PROVE  /\ accepted' \subseteq Handover /\ earlier' \subseteq accepted' /\ told' \in [Handover -> Nat]
         /\ ShownOnce' /\ ClientMsgId \in accepted'
<1>1. previous.user \in User \cup {Nobody} /\ current \in User
  BY RotationIs DEF RotationTypes
<1>2. PICK id : id = ClientMsgId
  OBVIOUS
<1>3. id \in Handover
  BY <1>1, <1>2 DEF ClientMsgId, Handover
<1>4. /\ accepted' = accepted \cup {id}
      /\ told' = IF id \in accepted THEN told ELSE [told EXCEPT ![id] = @ + 1]
  BY <1>2, Zenon DEF Posted, ClientMsgId
<1>5. told \in [Handover -> Nat] /\ accepted \subseteq Handover /\ earlier \subseteq accepted
  BY DEF RotationTypes
<1>6. accepted' \subseteq Handover /\ earlier' \subseteq accepted' /\ told' \in [Handover -> Nat] /\ id \in accepted'
  BY <1>3, <1>4, <1>5
<1>7. ASSUME NEW h \in Handover
      PROVE  told'[h] = IF h \in accepted' /\ h \notin earlier' THEN 1 ELSE 0
  BY <1>3, <1>4, <1>5, <1>7 DEF ShownOnce
<1>8. ShownOnce'
  BY <1>7, Zenon DEF ShownOnce
<1> QED BY <1>2, <1>6, <1>8

\* A record, however its call ends.
LEMMA RecordWritten ==
  ASSUME RotationAssumption, RotationTypes, ShownOnce, call = "write", Written, accepted' = accepted
  PROVE  /\ state' \in Rotation /\ earlier' \subseteq accepted' /\ told' \in [Handover -> Nat] /\ ShownOnce'
<1>1. state' = Recorded(current) /\ current \in User
  BY DEF Written, RotationTypes
<1>2. CASE told' = told /\ earlier' = earlier
  BY <1>1, <1>2, RotationIs, Zenon DEF RotationTypes, ShownOnce
<1>3. CASE told' = Silent /\ earlier' = accepted
  <2>1. told' \in [Handover -> Nat] /\ \A h \in Handover : told'[h] = 0
    BY <1>3 DEF Silent
  <2>2. ShownOnce'
    BY <1>3, <2>1 DEF ShownOnce
  <2> QED BY <1>1, <1>3, <2>1, <2>2, RotationIs
<1> QED BY <1>2, <1>3 DEF Written

\* What the announcer knows at each call and what the channel has got, for any users and
\* any number of overrides in a morning (handleRotation).
THEOREM RotationKnows == RotationSpec => []RotationInv
<1>1. RotationAssumption /\ RotationInit => RotationInv
  <2> SUFFICES ASSUME RotationAssumption, RotationInit PROVE RotationInv
    OBVIOUS
  <2>1. RotationTypes
    BY RotationIs DEF RotationInit, RotationTypes, Silent
  <2>2. ShownOnce
    BY DEF RotationInit, ShownOnce, Silent
  <2>3. Reads
    BY DEF RotationInit, Reads
  <2> QED BY <2>1, <2>2, <2>3 DEF RotationInv
<1>2. RotationAssumption /\ RotationInv /\ [RotationNext]_rotationVars => RotationInv'
  <2> SUFFICES ASSUME RotationAssumption, RotationInv, [RotationNext]_rotationVars PROVE RotationInv'
    OBVIOUS
  <2>1. RotationTypes /\ ShownOnce /\ Reads
    BY DEF RotationInv
  <2>2. CASE FetchCurrent
    <3>1. /\ current' = onCall /\ onCall # Nobody /\ call' = "read" /\ UNCHANGED <<previous, outside, calendar>>
      BY <2>2, Zenon DEF FetchCurrent
    <3>2. RotationTypes' /\ ShownOnce'
      BY <2>1, <3>1 DEF RotationTypes, ShownOnce, outside, calendar
    <3> QED BY <3>1, <3>2 DEF Reads, RotationInv
  <2>3. CASE ReadState
    <3>1. previous' = state /\ call' = "group" /\ UNCHANGED <<current, outside, calendar>> /\ call = "read"
      BY <2>3, Zenon DEF ReadState
    <3>2. RotationTypes' /\ ShownOnce'
      BY <2>1, <3>1 DEF RotationTypes, ShownOnce, outside, calendar
    <3>3. Reads'
      BY <3>1 DEF Reads, outside
    <3> QED BY <3>2, <3>3 DEF RotationInv
  <2>4. CASE UpdateGroup
    <3>1. call = "group" /\ UNCHANGED <<state, accepted, told, earlier, calendar>>
      BY <2>4, Zenon DEF UpdateGroup
    <3>2. \/ call' = "idle" /\ previous' = Undefined
          \/ UNCHANGED <<current, previous>> /\ call' = IF ShouldAnnounce THEN "post" ELSE "write"
      BY <2>4, Zenon DEF UpdateGroup, Respond, To
    <3>3. ShownOnce'
      BY <2>1, <3>1 DEF ShownOnce
    <3>4. CASE call' = "idle" /\ previous' = Undefined
      BY <2>1, <3>1, <3>3, <3>4, RotationIs DEF RotationTypes, Reads, calendar, RotationInv
    <3>5. CASE UNCHANGED <<current, previous>> /\ call' = IF ShouldAnnounce THEN "post" ELSE "write"
      <4>1. RotationTypes'
        BY <2>1, <3>1, <3>5 DEF RotationTypes, calendar
      <4>2. call' = "write" => ~ShouldAnnounce'
        BY <3>5 DEF ShouldAnnounce, SameUser
      <4>3. state' # Undefined => previous'.user = state'.user /\ previous' # Undefined
        BY <2>1, <3>1, <3>5 DEF Reads
      <4>4. Reads'
        BY <4>2, <4>3, Zenon DEF Reads
      <4> QED BY <3>3, <4>1, <4>4 DEF RotationInv
    <3> QED BY <3>2, <3>4, <3>5
  <2>5. CASE Post
    <3>1. /\ call = "post" /\ Posted /\ call' = "write" /\ UNCHANGED <<current, previous, state, earlier, calendar>>
      BY <2>5, Zenon DEF Post, To
    <3>2. /\ accepted' \subseteq Handover /\ earlier' \subseteq accepted' /\ told' \in [Handover -> Nat]
          /\ ShownOnce' /\ ClientMsgId \in accepted'
      BY <2>1, <3>1, MessageShown, Zenon
    <3>3. RotationTypes'
      BY <2>1, <3>1, <3>2 DEF RotationTypes, calendar
    <3>4. ClientMsgId' = ClientMsgId
      BY <3>1 DEF ClientMsgId
    <3>5. Reads'
      BY <2>1, <3>1, <3>2, <3>4 DEF Reads
    <3> QED BY <3>2, <3>3, <3>5 DEF RotationInv
  <2>6. CASE WriteState
    <3>1. call = "write" /\ Written /\ call' = "idle" /\ previous' = Undefined /\ UNCHANGED <<accepted, calendar>>
      BY <2>6, Zenon DEF WriteState, Respond
    <3>2. state' \in Rotation /\ earlier' \subseteq accepted' /\ told' \in [Handover -> Nat] /\ ShownOnce'
      BY <2>1, <3>1, RecordWritten, Zenon
    <3> QED BY <2>1, <3>1, <3>2, RotationIs DEF RotationTypes, Reads, calendar, RotationInv
  <2>7. CASE Fail
    <3>1. call # "idle" /\ call' = "idle" /\ previous' = Undefined /\ UNCHANGED calendar
      BY <2>7, Zenon DEF Fail, Respond
    <3>2. /\ state' \in Rotation /\ accepted' \subseteq Handover /\ earlier' \subseteq accepted'
          /\ told' \in [Handover -> Nat] /\ ShownOnce'
      <4>1. CASE UNCHANGED <<state, accepted, told, earlier>>
        BY <2>1, <4>1 DEF RotationTypes, ShownOnce
      <4>2. CASE call = "post" /\ Posted /\ UNCHANGED <<state, group, earlier>>
        BY <2>1, <4>2, MessageShown, Zenon DEF RotationTypes
      <4>3. CASE call = "write" /\ Written /\ UNCHANGED <<group, accepted>>
        BY <2>1, <4>3, RecordWritten, Zenon DEF RotationTypes
      <4> QED BY <2>7, <4>1, <4>2, <4>3 DEF Fail, outside
    <3> QED BY <2>1, <3>1, <3>2, RotationIs DEF RotationTypes, Reads, calendar, RotationInv
  <2>8. CASE Change
    <3>1. onCall' \in User \cup {Nobody} /\ UNCHANGED <<run, outside>>
      BY <2>8, Zenon DEF Change
    <3> QED BY <2>1, <3>1
              DEF RotationTypes, ShownOnce, Reads, ShouldAnnounce, SameUser, ClientMsgId, run, outside, RotationInv
  <2>9. CASE Tamper
    <3>1. state' \in {Undefined, [state EXCEPT !.slackId = FALSE]} /\ UNCHANGED <<accepted, told, earlier, run, calendar>>
      BY <2>9, Zenon DEF Tamper
    <3>2. state' \in Rotation /\ (state' # Undefined => state # Undefined /\ state'.user = state.user)
      BY <2>1, <3>1, RotationIs DEF RotationTypes
    <3>3. RotationTypes' /\ ShownOnce'
      BY <2>1, <3>1, <3>2 DEF RotationTypes, ShownOnce, run, calendar
    <3>4. Reads'
      BY <2>1, <3>1, <3>2 DEF Reads, ShouldAnnounce, SameUser, ClientMsgId, run
    <3> QED BY <3>3, <3>4 DEF RotationInv
  <2>10. CASE NextMonday
    <3>1. /\ call = "idle" /\ onCall' \in User /\ accepted' = {} /\ told' = Silent /\ earlier' = {}
          /\ UNCHANGED <<state, run>>
      BY <2>10, Zenon DEF NextMonday
    <3> QED BY <2>1, <3>1 DEF RotationTypes, ShownOnce, Reads, Silent, run, RotationInv
  <2>11. CASE UNCHANGED rotationVars
    BY <2>1, <2>11
       DEF RotationTypes, ShownOnce, Reads, ShouldAnnounce, SameUser, ClientMsgId, rotationVars, RotationInv
  <2> QED BY <2>2, <2>3, <2>4, <2>5, <2>6, <2>7, <2>8, <2>9, <2>10, <2>11 DEF RotationNext
<1> QED BY <1>1, <1>2, RotationAssumption, PTL DEF RotationSpec

\* A change of the recorded engineer has been announced, once since the last one, unless
\* Slack takes it for a handover it has shown that morning: the message precedes the
\* record, and what an invocation read is what it replaces (handleRotation).
THEOREM HandoverTold == RotationSpec => HandoverShownOnce
<1>1. RotationAssumption /\ RotationInv /\ [RotationNext]_rotationVars =>
        [Undefined \notin {state, state'} /\ state'.user # state.user
           => LET handover == <<state.user, state'.user>>
              IN  told[handover] = IF handover \in earlier THEN 0 ELSE 1]_rotationVars
  <2> SUFFICES ASSUME RotationAssumption, RotationInv, RotationNext,
                      Undefined \notin {state, state'}, state'.user # state.user
               PROVE  told[<<state.user, state'.user>>] = IF <<state.user, state'.user>> \in earlier THEN 0 ELSE 1
    BY Zenon
  <2>1. RotationTypes /\ ShownOnce /\ Reads
    BY DEF RotationInv
  <2>2. state' # state /\ state # Undefined /\ state' # Undefined
    OBVIOUS
  <2>3. call = "write" /\ state' = Recorded(current)
    <3>1. ~(FetchCurrent \/ ReadState \/ UpdateGroup \/ Post \/ Change \/ NextMonday)
      BY <2>2 DEF FetchCurrent, ReadState, UpdateGroup, Post, Change, NextMonday, outside
    <3>2. ~Tamper
      BY <2>1, <2>2, RotationIs DEF Tamper, RotationTypes
    <3>3. WriteState \/ Fail
      BY <3>1, <3>2 DEF RotationNext
    <3> QED BY <2>2, <3>3 DEF WriteState, Fail, Written, outside
  <2>4. current \in User /\ state'.user = current /\ state.user \in User
    BY <2>1, <2>2, <2>3, RotationIs DEF RotationTypes
  <2>5. previous.user = state.user /\ previous # Undefined
    BY <2>1, <2>2, <2>3 DEF Reads
  <2>6. ShouldAnnounce /\ ClientMsgId = <<state.user, state'.user>>
    BY <2>4, <2>5 DEF ShouldAnnounce, SameUser, ClientMsgId
  <2>7. <<state.user, state'.user>> \in accepted /\ <<state.user, state'.user>> \in Handover
    BY <2>1, <2>3, <2>6 DEF Reads, RotationTypes
  <2> QED BY <2>1, <2>7 DEF ShownOnce
<1> QED BY <1>1, RotationKnows, RotationAssumption, PTL DEF RotationSpec, HandoverShownOnce
=============================================================================
