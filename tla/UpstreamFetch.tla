--------------------------- MODULE UpstreamFetch ---------------------------
(***************************************************************************)
(* How server.mjs answers a question about the market: get() and getFresh() *)
(* look in the response cache, join a request that is already in flight for *)
(* the same key, or start a flight of their own, whose attempts go through  *)
(* the work queue (JobQueue) one after the other with a pause between them. *)
(*                                                                         *)
(* A flight is one run of the async function inside get(); its identity is   *)
(* not its key, so that two flights of one key could exist.  Between the     *)
(* moment a request settles and the moment the flight reacts, and again      *)
(* until its `finally' runs, other callers' continuations may come first:    *)
(* these are steps of their own.                                            *)
(***************************************************************************)
EXTENDS Naturals, FiniteSets, Sequences, SequencesExt

CONSTANTS
    Keys,        \* the cache keys: upstream addresses
    Flights,     \* identities for the flights; one is reused when it is over
    NoFlight,    \* "no entry in inflight", "waits for nothing"
    Callers,     \* the loops and routes that ask
    Loops,       \* the callers that race the answer against a deadline
    Asks,        \* who asks for what: records [caller, key, priority]
    Priorities,
    Caps,        \* the concurrency settings of the queue
    Retries,     \* S.retries
    MaxEntries   \* S.maxCacheEntries

ASSUME NoFlightAssumption == NoFlight \notin Flights
ASSUME AsksAssumption ==
    Asks \subseteq [caller : Callers, key : Keys, priority : Priorities]
ASSUME SomethingToAsk == Keys # {} /\ Priorities # {}
ASSUME LimitsAssumption == Retries \in Nat /\ MaxEntries \in Nat \ {0}
ASSUME QueueAssumption ==
    IsFiniteSet(Flights) /\ Priorities \subseteq Nat /\ Caps \subseteq Nat \ {0}

VARIABLES
    queue, running, cap, priority, ticket, phase,   \* the work queue
    inflight,   \* key -> its flight: the Map `inflight'
    keyOf,      \* the key a flight was started for
    attempt,    \* the attempt a flight is at
    stage,      \* what the flight is waiting for
    inserted,   \* the keys of the Map `cache' in its insertion order
    fresh,      \* the cached keys that are still within their time to live
    recency,    \* the cached keys, the one stored longest ago first
    waiting,    \* caller -> the flight whose promise it awaits
    wanted      \* caller -> the priority it asked with

qvars == <<queue, running, cap, priority, ticket, phase>>
fvars == <<inflight, keyOf, attempt, stage>>
cvars == <<inserted, fresh, recency>>
wvars == <<waiting, wanted>>
vars == <<qvars, fvars, cvars, wvars>>

\* A job of the queue is one attempt of a flight; the flight owns the ticket.
Q == INSTANCE JobQueue WITH Jobs <- Flights

Stages == {"free", "asked", "replied", "failed", "pausing", "over"}

Init ==
    /\ Q!Init
    /\ inflight = [k \in Keys |-> NoFlight]
    /\ keyOf = [f \in Flights |-> CHOOSE k \in Keys : TRUE]
    /\ attempt = [f \in Flights |-> 0]
    /\ stage = [f \in Flights |-> "free"]
    /\ inserted = <<>> /\ fresh = {} /\ recency = <<>>
    /\ waiting = [c \in Callers |-> NoFlight]
    /\ wanted = [c \in Callers |-> CHOOSE p \in Priorities : TRUE]

-----------------------------------------------------------------------------
\* The caller of a question that the cache cannot answer now awaits flight f.
Await(a, f) ==
    /\ waiting' = [waiting EXCEPT ![a.caller] = f]
    /\ wanted' = [wanted EXCEPT ![a.caller] = a.priority]

\* A caller asks when it awaits nothing.  A cached answer that is still fresh
\* is returned on the spot and changes nothing, so only the other cases follow.
MustFetch(a) == waiting[a.caller] = NoFlight /\ a.key \notin fresh

\* The key is in flight: share the promise and lend the flight one's hurry.
JoinWithoutBoost(a) ==
    /\ MustFetch(a)
    /\ inflight[a.key] # NoFlight
    /\ Await(a, inflight[a.key])
    /\ UNCHANGED <<qvars, fvars, cvars>>
Join(a) ==
    LET f == inflight[a.key] IN
    /\ MustFetch(a)
    /\ f # NoFlight
    /\ Await(a, f)
    /\ \/ Q!Boost(f, a.priority)
       \/ ~(a.priority < ticket[f]) /\ UNCHANGED qvars
    /\ UNCHANGED <<fvars, cvars>>

\* Nobody has asked: start a flight.  The async function runs up to its first
\* await before get() goes on, so push(), pump() and inflight.set() are one step.
Depart(a, f) ==
    /\ MustFetch(a)
    /\ inflight[a.key] = NoFlight
    /\ stage[f] = "free"
    /\ Q!Push(f, a.priority)
    /\ keyOf' = [keyOf EXCEPT ![f] = a.key]
    /\ attempt' = [attempt EXCEPT ![f] = 0]
    /\ stage' = [stage EXCEPT ![f] = "asked"]
    /\ inflight' = [inflight EXCEPT ![a.key] = f]
    /\ Await(a, f)
    /\ UNCHANGED cvars

-----------------------------------------------------------------------------
\* The queue lets an attempt through the token bucket.
Admit(f) == Q!Admit(f) /\ UNCHANGED <<fvars, cvars, wvars>>

\* The upstream answers, or fails, or the timer aborts the request.
SettleWithoutRelease(f, outcome) ==
    /\ phase[f] = "working" /\ stage[f] = "asked"
    /\ stage' = [stage EXCEPT ![f] = outcome]
    /\ UNCHANGED <<qvars, inflight, keyOf, attempt, cvars, wvars>>
Settle(f, outcome) ==
    /\ Q!Finish(f)
    /\ stage' = [stage EXCEPT ![f] = outcome]
    /\ UNCHANGED <<inflight, keyOf, attempt, cvars, wvars>>

\* What is left of a Map's keys in their order, those in S, written so that it
\* can be reasoned about.
Only(map, S) ==
    LET left[n \in 0 .. Len(map)] ==
            IF n = 0 THEN <<>>
            ELSE IF map[n] \in S THEN Append(left[n - 1], map[n]) ELSE left[n - 1]
    IN  left[Len(map)]

\* Map.set keeps the place of a key that is already there; evictOldest then
\* drops keys from the front of the Map until the limit holds.
StoredIn(map, k) == IF k \in ToSet(map) THEN map ELSE Append(map, k)
EvictedUnlimited(map) == map
Evicted(map) ==
    SubSeq(map, 1 + (IF Len(map) > MaxEntries THEN Len(map) - MaxEntries ELSE 0), Len(map))

\* A good answer goes into the cache and ends the loop of attempts.
Store(f) ==
    LET k == keyOf[f] IN
    /\ stage[f] = "replied"
    /\ inserted' = Evicted(StoredIn(inserted, k))
    /\ fresh' = (fresh \cup {k}) \cap ToSet(inserted')
    /\ recency' = Only(Append(Only(recency, Keys \ {k}), k), ToSet(inserted'))
    /\ stage' = [stage EXCEPT ![f] = "over"]
    /\ UNCHANGED <<qvars, inflight, keyOf, attempt, wvars>>

\* A failed attempt is followed by a pause while attempts are left; the last
\* failure ends the flight.  Nothing of it reaches the cache.
Fail(f) ==
    /\ stage[f] = "failed"
    /\ \/ /\ attempt[f] < Retries
          /\ attempt' = [attempt EXCEPT ![f] = @ + 1]
          /\ stage' = [stage EXCEPT ![f] = "pausing"]
       \/ /\ attempt[f] = Retries
          /\ stage' = [stage EXCEPT ![f] = "over"]
          /\ UNCHANGED attempt
    /\ UNCHANGED <<qvars, inflight, keyOf, cvars, wvars>>

\* The pause is over: the next attempt is pushed with the priority the ticket
\* has now, which a caller may have raised since the flight began.
RetryAsPushDefault(f) ==
    /\ stage[f] = "pausing"
    /\ \E p \in Priorities : /\ \A q \in Priorities : q <= p
                             /\ Q!Push(f, p)
    /\ stage' = [stage EXCEPT ![f] = "asked"]
    /\ UNCHANGED <<inflight, keyOf, attempt, cvars, wvars>>
Retry(f) ==
    /\ stage[f] = "pausing"
    /\ Q!Push(f, ticket[f])
    /\ stage' = [stage EXCEPT ![f] = "asked"]
    /\ UNCHANGED <<inflight, keyOf, attempt, cvars, wvars>>

\* finally(): the key leaves `inflight' and the promise settles for everybody
\* who awaits it, whether the flight brought an answer or an error.
LandStored(f) ==
    /\ stage[f] = "over"
    /\ stage' = [stage EXCEPT ![f] = "free"]
    /\ inflight' = [inflight EXCEPT ![keyOf[f]] =
                        IF keyOf[f] \in fresh THEN NoFlight ELSE @]
    /\ waiting' = [c \in Callers |-> IF waiting[c] = f THEN NoFlight ELSE waiting[c]]
    /\ UNCHANGED <<qvars, keyOf, attempt, cvars, wanted>>
Land(f) ==
    /\ stage[f] = "over"
    /\ stage' = [stage EXCEPT ![f] = "free"]
    /\ inflight' = [inflight EXCEPT ![keyOf[f]] = NoFlight]
    /\ waiting' = [c \in Callers |-> IF waiting[c] = f THEN NoFlight ELSE waiting[c]]
    /\ UNCHANGED <<qvars, keyOf, attempt, cvars, wanted>>

-----------------------------------------------------------------------------
\* An entry outlives the time to live of its kind; it stays in the Map.
Expire(k) ==
    /\ k \in fresh
    /\ fresh' = fresh \ {k}
    /\ UNCHANGED <<qvars, fvars, wvars, inserted, recency>>

\* cache.delete: freshBoardRows() throws a stale board away before asking again.
Discard(k) ==
    /\ k \in ToSet(inserted)
    /\ inserted' = Only(inserted, Keys \ {k})
    /\ recency' = Only(recency, Keys \ {k})
    /\ fresh' = fresh \ {k}
    /\ UNCHANGED <<qvars, fvars, wvars>>

\* DELETE /api/cache.
Clear ==
    /\ inserted # <<>>
    /\ inserted' = <<>> /\ recency' = <<>> /\ fresh' = {}
    /\ UNCHANGED <<qvars, fvars, wvars>>

\* The watch loop races get() against its own deadline: it stops waiting, and
\* the flight goes on without it.
GiveUp(c) ==
    /\ c \in Loops
    /\ waiting[c] # NoFlight
    /\ waiting' = [waiting EXCEPT ![c] = NoFlight]
    /\ UNCHANGED <<qvars, fvars, cvars, wanted>>

\* The user saves another concurrency setting.
SetCap(n) == Q!SetCap(n) /\ UNCHANGED <<fvars, cvars, wvars>>

Next ==
    \/ \E a \in Asks : Join(a)
    \/ \E a \in Asks, f \in Flights : Depart(a, f)
    \/ \E f \in Flights : Admit(f) \/ Store(f) \/ Fail(f) \/ Retry(f) \/ Land(f)
    \/ \E f \in Flights, outcome \in {"replied", "failed"} : Settle(f, outcome)
    \/ \E k \in Keys : Expire(k) \/ Discard(k)
    \/ Clear
    \/ \E c \in Callers : GiveUp(c)
    \/ \E n \in Caps : SetCap(n)

\* Timers fire, aborted or not every request settles, and continuations run.
\* Nobody has to ask, to give up or to change a setting.
Fairness ==
    \A f \in Flights :
        /\ WF_vars(Admit(f))
        /\ WF_vars(\E outcome \in {"replied", "failed"} : Settle(f, outcome))
        /\ WF_vars(Store(f) \/ Fail(f) \/ Retry(f) \/ Land(f))

Spec == Init /\ [][Next]_vars
FairSpec == Spec /\ Fairness

-----------------------------------------------------------------------------
\* The types; the two orders of the cache hold the same keys, each once.
TypeOK ==
    /\ Q!TypeOK
    /\ inflight \in [Keys -> Flights \cup {NoFlight}]
    /\ keyOf \in [Flights -> Keys]
    /\ attempt \in [Flights -> 0 .. Retries]
    /\ stage \in [Flights -> Stages]
    /\ fresh \subseteq ToSet(inserted)
    /\ ToSet(inserted) = ToSet(recency) /\ ToSet(inserted) \subseteq Keys
    /\ Len(inserted) = Cardinality(ToSet(inserted)) /\ Len(recency) = Len(inserted)
    /\ Len(inserted) <= MaxEntries
    /\ waiting \in [Callers -> Flights \cup {NoFlight}]
    /\ wanted \in [Callers -> Priorities]

\* One key costs the upstream one flight at a time, however many tabs and
\* loops ask for it and however its attempts fail: `inflight' and the flights
\* still under way are the same set.
OneFlightPerKey ==
    \A f \in Flights, k \in Keys :
        inflight[k] = f <=> stage[f] # "free" /\ keyOf[f] = k

\* The inversion that once stopped the live loop for 290 seconds: a flight is
\* at least as urgent as everybody who awaits it, in its ticket and, while an
\* attempt stands in the queue, in the queue's own order; retries included.
Inherits ==
    \A c \in Callers :
        waiting[c] # NoFlight =>
            LET f == waiting[c] IN
            /\ ticket[f] <= wanted[c]
            /\ phase[f] = "queued" => priority[f] <= wanted[c]

\* An attempt stands in the queue or is being run exactly while its flight
\* awaits it; a pause, a failure and a landing leave no job behind.
AttemptsAccounted ==
    \A f \in Flights : stage[f] = "asked" <=> phase[f] # "idle"

\* A caller of the most urgent class gets its answer or its error, even when
\* it joined the flight of a less urgent one and others of its own class never
\* stop asking.
UrgentAnswered ==
    \A c \in Callers :
        (waiting[c] # NoFlight /\ Q!MostUrgent(wanted[c])) ~> (waiting[c] = NoFlight)

\* tests/suites/024-cache.mjs:26 says that what eviction leaves is the newest:
\* no entry is evicted while one that was stored longer ago stays.
NewestStay ==
    [][\A m, n \in 1 .. Len(recency) :
          (/\ m < n
           /\ recency[n] \notin ToSet(recency')
           /\ Len(recency') = MaxEntries)
          => recency[m] \notin ToSet(recency')]_vars
=============================================================================
