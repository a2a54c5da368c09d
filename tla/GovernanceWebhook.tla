-------------------------- MODULE GovernanceWebhook --------------------------
(***************************************************************************)
(* The governance watchdog's webhook handler                               *)
(* (governance-watchdog/src/index.ts): a durable nonce per QuickNode       *)
(* delivery, a deduplication cache per instance, and one Discord and one   *)
(* Telegram notification per event.  Deliveries of one batch overlap, by   *)
(* QuickNode (a retry repeats the nonce) or by a caller with an auth token *)
(* (no nonce).  Instances start and die with their cache; storage and      *)
(* notification calls fail.  Time is counted in steps of which Window      *)
(* make the deduplication window, and only as ages up to Window + 1.       *)
(***************************************************************************)
EXTENDS Integers, Sequences, FiniteSets

CONSTANTS
  Attempt,   \* requests that carry the batch
  NonceOf,   \* the nonce of each, or NoNonce
  NoNonce,   \* an auth-token request
  Instance,  \* function instances
  Kind,      \* a sequence: what each event of the batch is
  Window,    \* DEDUPLICATION_WINDOW_MS
  CacheSize  \* MAX_CACHE_SIZE

ASSUME GovernanceAssumption ==
  /\ Window \in Nat \ {0} /\ CacheSize \in Nat
  /\ Kind \in Seq({"good", "foreign", "invalid"})

Event == 1..Len(Kind)     \* each "good", "foreign" (not the governor's) or "invalid"
Never == -1
Age   == 0..(Window + 1)

VARIABLES
  nonces,    \* reserved nonces
  malformed, \* the body is no valid QuickNode payload
  seen,      \* per instance and event: age of its cache entry, or Never
  handled,   \* age of the last time the instance let the event through, or Never
  pc, at,    \* where each attempt stands, and at which event
  host,      \* the instance that runs it
  reply,     \* the answer sent
  tried,     \* per attempt, channel: events it tried to send
  passed     \* per attempt: events it left to an earlier delivery

vars == <<nonces, malformed, seen, handled, pc, at, host, reply, tried, passed>>

Place   == {"idle", "reserve", "parse", "dedup", "handle", "discord", "telegram", "end"}
Reply   == {"none", "ok", "duplicate", "error"}
Channel == {"discord", "telegram"}

TypeOK ==
  /\ nonces \subseteq {NonceOf[a] : a \in Attempt} \ {NoNonce}
  /\ malformed \in BOOLEAN
  /\ seen \in [Instance -> [Event -> Age \cup {Never}]]
  /\ handled \in [Instance -> [Event -> Age \cup {Never}]]
  /\ pc \in [Attempt -> Place]
  /\ at \in [Attempt -> 1..(Len(Kind) + 1)]
  /\ host \in [Attempt -> Instance]
  /\ reply \in [Attempt -> Reply]
  /\ tried \in [Attempt -> [Channel -> SUBSET Event]]
  /\ passed \in [Attempt -> SUBSET Event]

Empty == [e \in Event |-> Never]

Init ==
  /\ nonces = {} /\ malformed \in BOOLEAN
  /\ seen = [i \in Instance |-> Empty] /\ handled = [i \in Instance |-> Empty]
  /\ pc = [a \in Attempt |-> "idle"] /\ at = [a \in Attempt |-> 1]
  /\ host \in [Attempt -> Instance]
  /\ reply = [a \in Attempt |-> "none"]
  /\ tried = [a \in Attempt |-> [c \in Channel |-> {}]]
  /\ passed = [a \in Attempt |-> {}]

Goto(a, place) == pc' = [pc EXCEPT ![a] = place]
Answer(a, r)   == reply' = [reply EXCEPT ![a] = r] /\ Goto(a, "end")

\* A request whose origin was accepted; a token request skips the nonce.
Receive(a) ==
  /\ pc[a] = "idle"
  /\ Goto(a, IF NonceOf[a] = NoNonce THEN "parse" ELSE "reserve")
  /\ UNCHANGED <<nonces, malformed, seen, handled, at, host, reply, tried, passed>>

\* Variant: the object is written without ifGenerationMatch.
Reserve_Overwrites(a) ==
  /\ pc[a] = "reserve"
  /\ nonces' = nonces \cup {NonceOf[a]}
  /\ Goto(a, "parse")
  /\ UNCHANGED <<malformed, seen, handled, at, host, reply, tried, passed>>

\* reserveQuickNodeNonce: 412 is a duplicate; a failure answers 500, whether or
\* not the object was written.
Reserve(a) ==
  /\ pc[a] = "reserve"
  /\ \/ /\ NonceOf[a] \notin nonces
        /\ nonces' = nonces \cup {NonceOf[a]}
        /\ Goto(a, "parse") /\ UNCHANGED reply
     \/ /\ NonceOf[a] \in nonces
        /\ Answer(a, "duplicate") /\ UNCHANGED nonces
     \/ /\ nonces' \in {nonces, nonces \cup {NonceOf[a]}}
        /\ Answer(a, "error")
  /\ UNCHANGED <<malformed, seen, handled, at, host, tried, passed>>

\* parseRequestBody throws on a malformed body.
Parse(a) ==
  /\ pc[a] = "parse"
  /\ IF malformed THEN Answer(a, "error") ELSE Goto(a, "dedup") /\ UNCHANGED reply
  /\ UNCHANGED <<nonces, malformed, seen, handled, at, host, tried, passed>>

\* Variant: the comparison the wrong way round.
Cleanup_Young(cache) == [e \in Event |-> IF cache[e] < Window THEN Never ELSE cache[e]]

\* cleanupOldEntries: entries older than the window are forgotten, when there
\* are too many.
Cleanup(cache) == [e \in Event |-> IF cache[e] > Window THEN Never ELSE cache[e]]
Trim(cache) ==
  IF Cardinality({e \in Event : cache[e] # Never}) > CacheSize THEN Cleanup(cache) ELSE cache

IsDuplicate(a) == seen[host[a]][at[a]] # Never /\ seen[host[a]][at[a]] < Window
LetThrough(a)  == handled' = [handled EXCEPT ![host[a]][at[a]] = 0]

\* isDuplicate: look up and register, in one step of the event loop.
Skip(a) ==
  /\ pc[a] = "dedup" /\ at[a] \in Event /\ IsDuplicate(a)
  /\ at' = [at EXCEPT ![a] = @ + 1]
  /\ passed' = [passed EXCEPT ![a] = @ \cup {at[a]}]
  /\ UNCHANGED <<nonces, malformed, seen, handled, pc, host, reply, tried>>

Register(a) ==
  /\ pc[a] = "dedup" /\ at[a] \in Event /\ ~IsDuplicate(a)
  /\ seen' = [seen EXCEPT ![host[a]] = Trim([@ EXCEPT ![at[a]] = 0])]
  /\ LetThrough(a)
  /\ Goto(a, "handle")
  /\ UNCHANGED <<nonces, malformed, at, host, reply, tried, passed>>

NextEvent(a) == at' = [at EXCEPT ![a] = @ + 1] /\ Goto(a, "dedup")

\* Variant: a failed assertion is caught around the batch and answered 200.
Dispatch_Swallows(a) ==
  /\ pc[a] = "handle"
  /\ CASE Kind[at[a]] = "foreign" -> NextEvent(a) /\ UNCHANGED reply
       [] Kind[at[a]] = "invalid" -> Answer(a, "ok") /\ UNCHANGED at
       [] OTHER                   -> Goto(a, "discord") /\ UNCHANGED <<at, reply>>
  /\ UNCHANGED <<nonces, malformed, seen, handled, host, tried, passed>>

\* processEvent: not from the governor; asserted invalid; or handled.
Dispatch(a) ==
  /\ pc[a] = "handle"
  /\ CASE Kind[at[a]] = "foreign" -> NextEvent(a) /\ UNCHANGED reply
       [] Kind[at[a]] = "invalid" -> Answer(a, "error") /\ UNCHANGED at
       [] OTHER                   -> Goto(a, "discord") /\ UNCHANGED <<at, reply>>
  /\ UNCHANGED <<nonces, malformed, seen, handled, host, tried, passed>>

Try(a, c) == tried' = [tried EXCEPT ![a][c] = @ \cup {at[a]}]

\* A failed send is logged and goes no further.
Discord(a) ==
  /\ pc[a] = "discord"
  /\ Try(a, "discord")
  /\ Goto(a, "telegram")
  /\ UNCHANGED <<nonces, malformed, seen, handled, at, host, reply, passed>>

Telegram(a) ==
  /\ pc[a] = "telegram"
  /\ Try(a, "telegram")
  /\ NextEvent(a)
  /\ UNCHANGED <<nonces, malformed, seen, handled, host, reply, passed>>

Finish(a) ==
  /\ pc[a] = "dedup" /\ at[a] \notin Event
  /\ Answer(a, "ok")
  /\ UNCHANGED <<nonces, malformed, seen, handled, at, host, tried, passed>>

\* An instance dies: its requests and its cache are gone.
Crash(i) ==
  /\ pc' = [a \in Attempt |-> IF host[a] = i /\ pc[a] # "idle" THEN "end" ELSE pc[a]]
  /\ seen' = [seen EXCEPT ![i] = Empty]
  /\ handled' = [handled EXCEPT ![i] = Empty]
  /\ UNCHANGED <<nonces, malformed, at, host, reply, tried, passed>>

Older(cache) == [e \in Event |-> IF cache[e] \in 0..Window THEN cache[e] + 1 ELSE cache[e]]
Tick ==
  /\ seen' = [i \in Instance |-> Older(seen[i])]
  /\ handled' = [i \in Instance |-> Older(handled[i])]
  /\ UNCHANGED <<nonces, malformed, pc, at, host, reply, tried, passed>>

Next ==
  \/ Tick \/ \E i \in Instance : Crash(i)
  \/ \E a \in Attempt :
       \/ Receive(a) \/ Reserve(a) \/ Parse(a) \/ Skip(a) \/ Register(a)
       \/ Dispatch(a) \/ Discord(a) \/ Telegram(a) \/ Finish(a)

Spec == Init /\ [][Next]_vars

-----------------------------------------------------------------------------
(* Properties.                                                             *)

Sent(a) == \E c \in Channel : tried[a][c] # {}

\* An instance never lets the same event through twice within the window, with
\* requests interleaved at every await and the cache trimmed at its limit.
OncePerWindow ==
  [][\A a \in Attempt :
       pc[a] = "dedup" /\ pc'[a] = "handle"
         => handled[host[a]][at[a]] \notin 0..(Window - 1)]_vars

\* Of the deliveries under one nonce at most one ever sends anything, whatever
\* instance each lands on and whichever of them die.
OneSenderPerNonce ==
  \A a, b \in Attempt :
    NonceOf[a] = NonceOf[b] /\ NonceOf[a] # NoNonce /\ Sent(a) /\ Sent(b) => a = b

\* A 200 for the batch: every event of the governor was sent, or tried, on both
\* channels, or left to an earlier delivery.
OkMeansTried ==
  \A a \in Attempt : reply[a] = "ok" =>
    \A e \in Event : Kind[e] = "good" =>
      e \in passed[a] \/ \A c \in Channel : e \in tried[a][c]

\* Of the comment in index.ts: the nonce is reserved "only after the payload is
\* confirmed non-empty and well-formed".
MalformedKeepsNonce == malformed => nonces = {}
=============================================================================
