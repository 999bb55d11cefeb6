------------------------ MODULE UpstreamFetchProofs ------------------------
(***************************************************************************)
(* Proofs about UpstreamFetch, for any sets of keys, flights, callers,       *)
(* priorities and caps.  The queue inside it is an instance of JobQueue, and *)
(* so the theorems about the queue are instantiated too: QP is the module    *)
(* JobQueueProofs with the flights for jobs.  Its operators are written out  *)
(* once more under the name QP, which is why SamePush and its like say that   *)
(* an action of Q is the action of QP.                                      *)
(*                                                                         *)
(* The invariant is FInv.  OneFlightPerKey needs OwnKeys: what a landing     *)
(* removes from the Map is its own entry.  Inherits needs two facts: nobody  *)
(* awaits a flight that is over (Passengers), so a new flight may take any   *)
(* priority, and an attempt in the array stands there with the priority of   *)
(* its ticket (QueuedAsTicket), so hurrying a ticket that is hurried enough  *)
(* already loses nothing.                                                   *)
(*                                                                         *)
(* The cache needs none of this: CacheInv says that the Map and the ages of  *)
(* its entries are sequences of the same keys, each once, and follows from   *)
(* what storing, evicting and deleting do to such a sequence.                *)
(***************************************************************************)
EXTENDS UpstreamFetch, FoldLemmas, SequenceTheorems, FunctionTheorems, TLAPS

\* The theorems about the queue, the attempts of the flights being its jobs.
QP == INSTANCE JobQueueProofs WITH Jobs <- Flights

\* The queue's own invariant, its jobs being the flights' attempts.
QueueInv == QP!IInv

-----------------------------------------------------------------------------
\* The assumptions of JobQueue hold of the flights.
LEMMA QueueAssumed == QP!IsFiniteSet(Flights) /\ Priorities \subseteq Nat /\ Caps \subseteq Nat \ {0}
BY QueueAssumption DEF QP!IsFiniteSet, IsFiniteSet

\* push() is the same action under both names.
LEMMA SamePush == ASSUME NEW f, NEW p, Q!Push(f, p) PROVE QP!Push(f, p)
BY DEF Q!Push, QP!Push, Q!Slots, QP!Slots, Q!Pump, QP!Pump, Q!CanStart, QP!CanStart, Q!InsertAt, QP!InsertAt

\* boost() is the same action under both names.
LEMMA SameBoost == ASSUME NEW f, NEW p, Q!Boost(f, p) PROVE QP!Boost(f, p)
BY DEF Q!Boost, QP!Boost, Q!Slots, QP!Slots, Q!InsertAt, QP!InsertAt, Q!RemoveAt, QP!RemoveAt

\* The end of a job is the same action under both names.
LEMMA SameFinish == ASSUME NEW f, Q!Finish(f) PROVE QP!Finish(f)
BY DEF Q!Finish, QP!Finish, Q!Pump, QP!Pump, Q!CanStart, QP!CanStart

\* The passage of the token bucket is the same action under both names.
LEMMA SameAdmit == ASSUME NEW f, Q!Admit(f) PROVE QP!Admit(f)
BY DEF Q!Admit, QP!Admit

\* The queue starts in its invariant.
LEMMA QueueInit == Q!Init => QueueInv
<1>1. Q!Init => QP!Init
  BY DEF Q!Init, QP!Init
<1>2. QP!Init => QP!IInv
  BY QueueAssumed, QP!InitIInv
<1>3. QED BY <1>1, <1>2 DEF QueueInv

\* What the invariant of the queue says of its variables.
LEMMA QueueTypes ==
    ASSUME QueueInv
    PROVE  /\ ticket \in [Flights -> Priorities] /\ priority \in [Flights -> Priorities]
           /\ phase \in [Flights -> {"idle", "queued", "throttled", "working"}]
BY DEF QueueInv, QP!IInv, QP!WellFormed, QP!Phases

\* push() of an attempt: it stands in the array or was started at once, and
\* pump() may have started another one.
LEMMA Pushed ==
    ASSUME QueueInv, NEW f \in Flights, NEW p \in Priorities, Q!Push(f, p)
    PROVE  /\ QueueInv'
           /\ phase[f] = "idle" /\ phase'[f] \in {"queued", "throttled"}
           /\ \A g \in Flights : g # f => phase'[g] = phase[g] \/ (phase[g] = "queued" /\ phase'[g] = "throttled")
           /\ priority' = [priority EXCEPT ![f] = p] /\ ticket' = [ticket EXCEPT ![f] = p]
<1>1. QP!Push(f, p)
  BY SamePush
<1>2. /\ QP!IInv'
      /\ phase'[f] \in {"queued", "throttled"}
      /\ \A g \in Flights : g # f => phase'[g] = phase[g] \/ (phase[g] = "queued" /\ phase'[g] = "throttled")
  BY <1>1, QueueAssumed, QP!PushStep DEF QueueInv
<1>3. QED BY <1>2 DEF QueueInv, Q!Push

\* The end of an attempt, and the one that pump() may start in its place.
LEMMA Finished ==
    ASSUME QueueInv, NEW f \in Flights, Q!Finish(f)
    PROVE  /\ QueueInv'
           /\ phase[f] = "working" /\ phase'[f] = "idle"
           /\ \A g \in Flights : g # f => phase'[g] = phase[g] \/ (phase[g] = "queued" /\ phase'[g] = "throttled")
           /\ UNCHANGED <<priority, ticket>>
<1>1. QP!Finish(f)
  BY SameFinish
<1>2. /\ QP!IInv'
      /\ phase'[f] = "idle"
      /\ \A g \in Flights : g # f => phase'[g] = phase[g] \/ (phase[g] = "queued" /\ phase'[g] = "throttled")
  BY <1>1, QueueAssumed, QP!FinishStep DEF QueueInv
<1>3. QED BY <1>2 DEF QueueInv, Q!Finish

\* boost() of a flight's ticket moves no job but in the array.
LEMMA Boosted ==
    ASSUME QueueInv, NEW f \in Flights, NEW p \in Priorities, Q!Boost(f, p)
    PROVE  /\ QueueInv'
           /\ phase' = phase /\ p < ticket[f]
           /\ ticket' = [ticket EXCEPT ![f] = p]
           /\ priority' = IF phase[f] = "queued" THEN [priority EXCEPT ![f] = p] ELSE priority
<1>1. QP!Boost(f, p)
  BY SameBoost
<1>2. QP!IInv'
  BY <1>1, QueueAssumed, QP!BoostStep DEF QueueInv
<1>3. QED BY <1>2 DEF QueueInv, Q!Boost

\* The token bucket lets one attempt through.
LEMMA Admitted ==
    ASSUME QueueInv, NEW f \in Flights, Q!Admit(f)
    PROVE  /\ QueueInv'
           /\ phase[f] = "throttled" /\ phase' = [phase EXCEPT ![f] = "working"]
           /\ UNCHANGED <<priority, ticket>>
<1>1. QP!Admit(f)
  BY SameAdmit
<1>2. QP!IInv'
  BY <1>1, QueueAssumed, QP!AdmitStep DEF QueueInv
<1>3. QED BY <1>2 DEF QueueInv, Q!Admit

\* A changed cap leaves the jobs alone.
LEMMA CapSet ==
    ASSUME QueueInv, NEW n \in Caps, Q!SetCap(n)
    PROVE  QueueInv' /\ UNCHANGED <<priority, ticket, phase>>
<1>1. UNCHANGED <<queue, running, priority, ticket, phase>> /\ cap' = n
  BY DEF Q!SetCap
<1>2. QED BY <1>1 DEF QueueInv, QP!IInv, QP!WellFormed, QP!NoStall

\* A step that is none of the queue's leaves its invariant alone.
LEMMA QueueStays == QueueInv /\ UNCHANGED qvars => QueueInv'
BY DEF qvars, QueueInv, QP!IInv, QP!WellFormed, QP!NoStall

-----------------------------------------------------------------------------
\* The variables are functions over their domains; what keyOf and wanted hold
\* matters only for flights under way and callers who wait.
FetchTypes ==
    /\ inflight \in [Keys -> Flights \cup {NoFlight}]
    /\ keyOf = [f \in Flights |-> keyOf[f]]
    /\ stage \in [Flights -> Stages]
    /\ waiting \in [Callers -> Flights \cup {NoFlight}]
    /\ wanted = [c \in Callers |-> wanted[c]]

\* A flight that is under way was started for one of the keys.
OwnKeys == \A f \in Flights : stage[f] # "free" => keyOf[f] \in Keys

\* Nobody awaits a flight that is over, so a new flight starts without callers.
Passengers ==
    \A c \in Callers :
        waiting[c] # NoFlight => wanted[c] \in Priorities /\ stage[waiting[c]] # "free"

\* An attempt in the array has the priority of its flight's ticket.
QueuedAsTicket == \A f \in Flights : phase[f] = "queued" => priority[f] = ticket[f]

FInv ==
    /\ QueueInv /\ FetchTypes /\ OwnKeys /\ OneFlightPerKey /\ AttemptsAccounted
    /\ Passengers /\ QueuedAsTicket /\ Inherits

-----------------------------------------------------------------------------
\* The server starts in the invariant.
LEMMA FetchInit == Init => FInv
<1> SUFFICES ASSUME Init PROVE FInv
  OBVIOUS
<1>1. QueueInv
  BY QueueInit DEF Init
<1>2. \A f \in Flights : phase[f] = "idle"
  BY DEF Init, Q!Init
<1>3. FetchTypes
  BY DEF Init, FetchTypes, Stages
<1>4. OneFlightPerKey
  BY NoFlightAssumption DEF Init, OneFlightPerKey
<1>5. AttemptsAccounted /\ QueuedAsTicket
  BY <1>2 DEF Init, AttemptsAccounted, QueuedAsTicket
<1>6. OwnKeys /\ Passengers /\ Inherits
  BY DEF Init, OwnKeys, Passengers, Inherits
<1>7. QED BY <1>1, <1>3, <1>4, <1>5, <1>6 DEF FInv

\* get() on a key in flight: whoever joins lends the flight its hurry, and
\* who awaited it before sees its ticket only become more urgent.
LEMMA JoinKeeps ==
    ASSUME FInv, NEW a \in Asks, Join(a)
    PROVE  FInv'
<1> DEFINE f == inflight[a.key]
           c == a.caller
<1>1. /\ c \in Callers /\ a.key \in Keys /\ a.priority \in Priorities
      /\ f \in Flights /\ waiting[c] = NoFlight
      /\ waiting' = [waiting EXCEPT ![c] = f]
      /\ wanted' = [wanted EXCEPT ![c] = a.priority]
      /\ UNCHANGED <<inflight, keyOf, attempt, stage>>
  BY AsksAssumption DEF FInv, FetchTypes, Join, MustFetch, Await, fvars
<1>2. stage[f] # "free"
  BY <1>1 DEF FInv, OneFlightPerKey
<1>3. /\ FetchTypes' /\ OwnKeys' /\ OneFlightPerKey'
  BY <1>1 DEF FInv, FetchTypes, OwnKeys, OneFlightPerKey
<1>4. Passengers'
  <2> SUFFICES ASSUME NEW d \in Callers, waiting'[d] # NoFlight
               PROVE  wanted'[d] \in Priorities /\ stage'[waiting'[d]] # "free"
    BY DEF Passengers
  <2>1. CASE d = c
    BY <1>1, <1>2, <2>1 DEF FInv, FetchTypes
  <2>2. CASE d # c
    BY <1>1, <2>2 DEF FInv, FetchTypes, Passengers
  <2>3. QED BY <2>1, <2>2
<1>5. /\ ticket \in [Flights -> Priorities] /\ priority \in [Flights -> Priorities]
      /\ Priorities \subseteq Nat
  BY QueueTypes, QueueAssumption DEF FInv
<1>6. CASE Q!Boost(f, a.priority)
  <2>1. /\ QueueInv' /\ phase' = phase /\ a.priority < ticket[f]
        /\ ticket' = [ticket EXCEPT ![f] = a.priority]
        /\ priority' = IF phase[f] = "queued" THEN [priority EXCEPT ![f] = a.priority] ELSE priority
    BY <1>1, <1>6, Boosted DEF FInv
  <2>2. AttemptsAccounted'
    BY <1>1, <2>1 DEF FInv, AttemptsAccounted
  <2>3. QueuedAsTicket'
    BY <1>1, <1>5, <2>1 DEF FInv, QueuedAsTicket
  <2>4. Inherits'
    <3> SUFFICES ASSUME NEW d \in Callers, waiting'[d] # NoFlight
                 PROVE  /\ ticket'[waiting'[d]] <= wanted'[d]
                        /\ phase'[waiting'[d]] = "queued" => priority'[waiting'[d]] <= wanted'[d]
      BY DEF Inherits
    <3>1. CASE d = c
      BY <1>1, <1>5, <2>1, <3>1 DEF FInv, FetchTypes
    <3>2. CASE d # c
      <4> DEFINE g == waiting[d]
      <4>1. /\ waiting'[d] = g /\ wanted'[d] = wanted[d]
        BY <1>1, <3>2 DEF FInv, FetchTypes
      <4>2. /\ g \in Flights /\ wanted[d] \in Nat
            /\ ticket[g] <= wanted[d]
            /\ phase[g] = "queued" => priority[g] <= wanted[d]
        BY <1>5, <4>1 DEF FInv, FetchTypes, Passengers, Inherits
      <4> HIDE DEF g
      <4>3. CASE g = f
        <5>0. a.priority \in Nat /\ ticket[f] \in Nat
          BY <1>1, <1>5
        <5>1. a.priority <= wanted[d]
          BY <2>1, <4>2, <4>3, <5>0
        <5>2. /\ ticket'[f] = a.priority
              /\ phase'[f] = "queued" => priority'[f] = a.priority
          BY <1>1, <1>5, <2>1
        <5>3. QED BY <2>1, <4>1, <4>3, <5>1, <5>2
      <4>4. CASE g # f
        BY <1>1, <1>5, <2>1, <4>1, <4>2, <4>4
      <4>5. QED BY <4>3, <4>4
    <3>3. QED BY <3>1, <3>2
  <2>5. QED BY <1>3, <1>4, <2>1, <2>2, <2>3, <2>4 DEF FInv
<1>7. CASE ~(a.priority < ticket[f]) /\ UNCHANGED qvars
  <2>1. QueueInv' /\ UNCHANGED <<phase, priority, ticket>>
    BY <1>7, QueueStays DEF FInv, qvars
  <2>2. AttemptsAccounted' /\ QueuedAsTicket'
    BY <1>1, <2>1 DEF FInv, AttemptsAccounted, QueuedAsTicket
  <2>3. Inherits'
    <3> SUFFICES ASSUME NEW d \in Callers, waiting'[d] # NoFlight
                 PROVE  /\ ticket[waiting'[d]] <= wanted'[d]
                        /\ phase[waiting'[d]] = "queued" => priority[waiting'[d]] <= wanted'[d]
      BY <2>1 DEF Inherits
    <3>1. CASE d = c
      <4>1. waiting'[d] = f /\ wanted'[d] = a.priority
        BY <1>1, <3>1 DEF FInv, FetchTypes
      <4>2. ticket[f] \in Nat /\ a.priority \in Nat /\ (phase[f] = "queued" => priority[f] = ticket[f])
        BY <1>1, <1>5 DEF FInv, QueuedAsTicket
      <4>3. QED BY <1>7, <4>1, <4>2
    <3>2. CASE d # c
      BY <1>1, <3>2 DEF FInv, FetchTypes, Inherits
    <3>3. QED BY <3>1, <3>2
  <2>4. QED BY <1>3, <1>4, <1>7, <2>1, <2>2, <2>3 DEF FInv
<1>8. QED BY <1>6, <1>7 DEF Join

\* get() on a key that is not in flight: the new flight has one caller.
LEMMA DepartKeeps ==
    ASSUME FInv, NEW a \in Asks, NEW f \in Flights, Depart(a, f)
    PROVE  FInv'
<1> DEFINE c == a.caller
<1>1. /\ c \in Callers /\ a.key \in Keys /\ a.priority \in Priorities
      /\ Q!Push(f, a.priority)
      /\ inflight[a.key] = NoFlight /\ stage[f] = "free" /\ waiting[c] = NoFlight
      /\ waiting' = [waiting EXCEPT ![c] = f]
      /\ wanted' = [wanted EXCEPT ![c] = a.priority]
      /\ inflight' = [inflight EXCEPT ![a.key] = f]
      /\ keyOf' = [keyOf EXCEPT ![f] = a.key]
      /\ stage' = [stage EXCEPT ![f] = "asked"]
  BY AsksAssumption DEF Depart, MustFetch, Await
<1>2. /\ QueueInv'
      /\ phase'[f] \in {"queued", "throttled"}
      /\ \A g \in Flights : g # f => phase'[g] = phase[g] \/ (phase[g] = "queued" /\ phase'[g] = "throttled")
      /\ priority' = [priority EXCEPT ![f] = a.priority]
      /\ ticket' = [ticket EXCEPT ![f] = a.priority]
  BY <1>1, Pushed DEF FInv
<1>3. /\ ticket \in [Flights -> Priorities] /\ priority \in [Flights -> Priorities]
      /\ Priorities \subseteq Nat
  BY QueueTypes, QueueAssumption DEF FInv
<1>4. FetchTypes'
  BY <1>1 DEF FInv, FetchTypes, Stages
<1>5. OwnKeys'
  BY <1>1 DEF FInv, FetchTypes, OwnKeys
<1>6. OneFlightPerKey'
  <2> SUFFICES ASSUME NEW g \in Flights, NEW k \in Keys
               PROVE  inflight'[k] = g <=> stage'[g] # "free" /\ keyOf'[g] = k
    BY DEF OneFlightPerKey
  <2>1. CASE g = f
    BY <1>1, <2>1 DEF FInv, FetchTypes, OneFlightPerKey
  <2>2. CASE g # f
    <3>1. stage'[g] = stage[g] /\ keyOf'[g] = keyOf[g]
      BY <1>1, <2>2 DEF FInv, FetchTypes
    <3>2. inflight[k] = g <=> stage[g] # "free" /\ keyOf[g] = k
      BY DEF FInv, OneFlightPerKey
    <3>3. inflight'[k] = IF k = a.key THEN f ELSE inflight[k]
      BY <1>1 DEF FInv, FetchTypes
    <3>4. NoFlight # g
      BY NoFlightAssumption
    <3>5. QED BY <1>1, <2>2, <3>1, <3>2, <3>3, <3>4
  <2>3. QED BY <2>1, <2>2
<1>7. AttemptsAccounted'
  BY <1>1, <1>2 DEF FInv, FetchTypes, AttemptsAccounted
<1>8. \A d \in Callers : d # c => waiting'[d] = waiting[d] /\ wanted'[d] = wanted[d] /\ waiting[d] # f
  BY <1>1, NoFlightAssumption DEF FInv, FetchTypes, Passengers
<1>9. waiting'[c] = f /\ wanted'[c] = a.priority
  BY <1>1 DEF FInv, FetchTypes
<1>10. Passengers'
  <2> SUFFICES ASSUME NEW d \in Callers, waiting'[d] # NoFlight
               PROVE  wanted'[d] \in Priorities /\ stage'[waiting'[d]] # "free"
    BY DEF Passengers
  <2>1. CASE d = c
    BY <1>1, <1>9, <2>1 DEF FInv, FetchTypes
  <2>2. CASE d # c
    BY <1>1, <1>8, <2>2 DEF FInv, FetchTypes, Passengers
  <2>3. QED BY <2>1, <2>2
<1>11. QueuedAsTicket'
  <2> SUFFICES ASSUME NEW g \in Flights, phase'[g] = "queued" PROVE priority'[g] = ticket'[g]
    BY DEF QueuedAsTicket
  <2>1. CASE g = f
    BY <1>2, <1>3, <2>1
  <2>2. CASE g # f
    <3>1. phase[g] = "queued"
      BY <1>2, <2>2
    <3>2. QED BY <1>2, <1>3, <2>2, <3>1 DEF FInv, QueuedAsTicket
  <2>3. QED BY <2>1, <2>2
<1>12. Inherits'
  <2> SUFFICES ASSUME NEW d \in Callers, waiting'[d] # NoFlight
               PROVE  /\ ticket'[waiting'[d]] <= wanted'[d]
                      /\ phase'[waiting'[d]] = "queued" => priority'[waiting'[d]] <= wanted'[d]
    BY DEF Inherits
  <2>1. CASE d = c
    <3>1. ticket'[f] = a.priority /\ priority'[f] = a.priority /\ a.priority \in Nat
      BY <1>1, <1>2, <1>3
    <3>2. QED BY <1>9, <2>1, <3>1
  <2>2. CASE d # c
    <3>1. waiting'[d] = waiting[d] /\ wanted'[d] = wanted[d] /\ waiting[d] \in Flights /\ waiting[d] # f
      BY <1>8, <2>2 DEF FInv, FetchTypes
    <3>2. /\ ticket[waiting[d]] <= wanted[d]
          /\ phase[waiting[d]] = "queued" => priority[waiting[d]] <= wanted[d]
      BY <3>1 DEF FInv, Inherits
    <3>3. /\ ticket'[waiting[d]] = ticket[waiting[d]] /\ priority'[waiting[d]] = priority[waiting[d]]
          /\ phase'[waiting[d]] = "queued" => phase[waiting[d]] = "queued"
      BY <1>2, <1>3, <3>1
    <3>4. QED BY <3>1, <3>2, <3>3
  <2>3. QED BY <2>1, <2>2
<1>13. QED BY <1>2, <1>4, <1>5, <1>6, <1>7, <1>10, <1>11, <1>12 DEF FInv

\* What the steps of a flight share: one flight moves from a stage that is not
\* free to another, its priority and ticket do not fall behind the ticket.
LEMMA FlightMoves ==
    ASSUME FInv, NEW f \in Flights, NEW s \in Stages \ {"free"},
           stage[f] # "free", stage' = [stage EXCEPT ![f] = s],
           UNCHANGED <<inflight, keyOf, waiting, wanted, ticket>>
    PROVE  FetchTypes' /\ OwnKeys' /\ OneFlightPerKey' /\ Passengers'
<1>1. FetchTypes'
  BY DEF FInv, FetchTypes
<1>2. \A g \in Flights : stage'[g] # "free" <=> stage[g] # "free"
  BY DEF FInv, FetchTypes
<1>3. OwnKeys' /\ OneFlightPerKey'
  BY <1>2 DEF FInv, OwnKeys, OneFlightPerKey
<1>4. Passengers'
  <2> SUFFICES ASSUME NEW d \in Callers, waiting[d] # NoFlight
               PROVE  wanted[d] \in Priorities /\ stage'[waiting[d]] # "free"
    BY DEF Passengers
  <2>1. waiting[d] \in Flights /\ wanted[d] \in Priorities /\ stage[waiting[d]] # "free"
    BY DEF FInv, FetchTypes, Passengers
  <2>2. QED BY <1>2, <2>1
<1>5. QED BY <1>1, <1>3, <1>4

\* A step that leaves the queue's orders alone and moves jobs only forward in
\* the queue keeps what the orders promise.
LEMMA OrdersStay ==
    ASSUME FInv, UNCHANGED <<waiting, wanted, ticket, priority>>,
           \A g \in Flights : phase'[g] = "queued" => phase[g] = "queued"
    PROVE  QueuedAsTicket' /\ Inherits'
<1>1. QueuedAsTicket'
  BY DEF FInv, QueuedAsTicket
<1>2. \A c \in Callers : waiting[c] # NoFlight => waiting[c] \in Flights
  BY DEF FInv, FetchTypes
<1>3. Inherits'
  BY <1>2 DEF FInv, Inherits
<1>4. QED BY <1>1, <1>3

\* The token bucket.
LEMMA AdmitKeeps ==
    ASSUME FInv, NEW f \in Flights, Admit(f)
    PROVE  FInv'
<1>1. /\ Q!Admit(f)
      /\ UNCHANGED <<inflight, keyOf, attempt, stage, waiting, wanted>>
  BY DEF Admit, fvars, wvars
<1>2. /\ QueueInv' /\ phase[f] = "throttled" /\ phase' = [phase EXCEPT ![f] = "working"]
      /\ UNCHANGED <<priority, ticket>>
  BY <1>1, Admitted DEF FInv
<1>3. \A g \in Flights : phase'[g] = IF g = f THEN "working" ELSE phase[g]
  BY <1>2, QueueTypes DEF FInv
<1>4. FetchTypes' /\ OwnKeys' /\ OneFlightPerKey' /\ Passengers'
  BY <1>1 DEF FInv, FetchTypes, OwnKeys, OneFlightPerKey, Passengers
<1>5. AttemptsAccounted'
  BY <1>1, <1>2, <1>3 DEF FInv, AttemptsAccounted
<1>6. QueuedAsTicket' /\ Inherits'
  BY <1>1, <1>2, <1>3, OrdersStay
<1>7. QED BY <1>2, <1>4, <1>5, <1>6 DEF FInv

\* The end of an attempt.
LEMMA SettleKeeps ==
    ASSUME FInv, NEW f \in Flights, NEW outcome \in {"replied", "failed"}, Settle(f, outcome)
    PROVE  FInv'
<1>1. /\ Q!Finish(f)
      /\ stage' = [stage EXCEPT ![f] = outcome]
      /\ UNCHANGED <<inflight, keyOf, waiting, wanted>>
  BY DEF Settle, wvars
<1>2. /\ QueueInv' /\ phase[f] = "working" /\ phase'[f] = "idle"
      /\ \A g \in Flights : g # f => phase'[g] = phase[g] \/ (phase[g] = "queued" /\ phase'[g] = "throttled")
      /\ UNCHANGED <<priority, ticket>>
  BY <1>1, Finished DEF FInv
<1>3. stage[f] = "asked"
  BY <1>2 DEF FInv, AttemptsAccounted
<1>4. FetchTypes' /\ OwnKeys' /\ OneFlightPerKey' /\ Passengers'
  <2>1. outcome \in Stages \ {"free"}
    BY DEF Stages
  <2>2. QED BY <1>1, <1>2, <1>3, <2>1, FlightMoves
<1>5. AttemptsAccounted'
  BY <1>1, <1>2 DEF FInv, FetchTypes, AttemptsAccounted
<1>6. QueuedAsTicket' /\ Inherits'
  BY <1>1, <1>2, OrdersStay
<1>7. QED BY <1>2, <1>4, <1>5, <1>6 DEF FInv

\* What the flight does with an outcome happens outside the queue.
LEMMA FailOrStoreKeeps ==
    ASSUME FInv, NEW f \in Flights, Store(f) \/ Fail(f)
    PROVE  FInv'
<1>1. /\ UNCHANGED qvars /\ UNCHANGED <<inflight, keyOf, waiting, wanted>>
      /\ stage[f] \in {"replied", "failed"}
  BY DEF Store, Fail, wvars
<1>2. PICK s \in {"pausing", "over"} : stage' = [stage EXCEPT ![f] = s]
  BY DEF Store, Fail
<1>3. QueueInv' /\ UNCHANGED <<priority, ticket, phase>>
  BY <1>1, QueueStays DEF FInv, qvars
<1>4. FetchTypes' /\ OwnKeys' /\ OneFlightPerKey' /\ Passengers'
  <2>1. s \in Stages \ {"free"}
    BY DEF Stages
  <2>2. QED BY <1>1, <1>2, <1>3, <2>1, FlightMoves
<1>5. AttemptsAccounted'
  BY <1>1, <1>2, <1>3 DEF FInv, FetchTypes, AttemptsAccounted
<1>6. QueuedAsTicket' /\ Inherits'
  BY <1>1, <1>3, OrdersStay
<1>7. QED BY <1>1, <1>3, <1>4, <1>5, <1>6 DEF FInv

\* The next attempt takes the priority of the ticket: nothing a caller lent
\* the flight is lost by a failure.
LEMMA RetryKeeps ==
    ASSUME FInv, NEW f \in Flights, Retry(f)
    PROVE  FInv'
<1>1. /\ stage[f] = "pausing" /\ Q!Push(f, ticket[f])
      /\ stage' = [stage EXCEPT ![f] = "asked"]
      /\ UNCHANGED <<inflight, keyOf, waiting, wanted>>
  BY DEF Retry, wvars
<1>2. /\ ticket \in [Flights -> Priorities] /\ priority \in [Flights -> Priorities]
      /\ ticket[f] \in Priorities
  BY QueueTypes DEF FInv
<1>3. /\ QueueInv'
      /\ phase'[f] \in {"queued", "throttled"}
      /\ \A g \in Flights : g # f => phase'[g] = phase[g] \/ (phase[g] = "queued" /\ phase'[g] = "throttled")
      /\ priority' = [priority EXCEPT ![f] = ticket[f]]
      /\ ticket' = [ticket EXCEPT ![f] = ticket[f]]
  BY <1>1, <1>2, Pushed DEF FInv
<1>4. ticket' = ticket
  BY <1>2, <1>3
<1>5. FetchTypes' /\ OwnKeys' /\ OneFlightPerKey' /\ Passengers'
  <2>1. "asked" \in Stages \ {"free"}
    BY DEF Stages
  <2>2. QED BY <1>1, <1>4, <2>1, FlightMoves
<1>6. AttemptsAccounted'
  BY <1>1, <1>3 DEF FInv, FetchTypes, AttemptsAccounted
<1>7. \A g \in Flights :
         phase'[g] = "queued" => /\ priority'[g] = ticket[g]
                                 /\ g # f => phase[g] = "queued" /\ priority'[g] = priority[g]
  <2> SUFFICES ASSUME NEW g \in Flights, phase'[g] = "queued"
               PROVE  /\ priority'[g] = ticket[g]
                      /\ g # f => phase[g] = "queued" /\ priority'[g] = priority[g]
    OBVIOUS
  <2>1. CASE g = f
    BY <1>2, <1>3, <2>1
  <2>2. CASE g # f
    BY <1>2, <1>3, <2>2 DEF FInv, QueuedAsTicket
  <2>3. QED BY <2>1, <2>2
<1>8. QueuedAsTicket'
  BY <1>4, <1>7 DEF QueuedAsTicket
<1>9. Inherits'
  <2> SUFFICES ASSUME NEW c \in Callers, waiting[c] # NoFlight
               PROVE  /\ ticket[waiting[c]] <= wanted[c]
                      /\ phase'[waiting[c]] = "queued" => priority'[waiting[c]] <= wanted[c]
    BY <1>1, <1>4 DEF Inherits
  <2>1. waiting[c] \in Flights /\ ticket[waiting[c]] <= wanted[c]
    BY DEF FInv, FetchTypes, Inherits
  <2>2. QED BY <1>7, <2>1
<1>10. QED BY <1>3, <1>5, <1>6, <1>8, <1>9 DEF FInv

\* finally(): the entry removed is the flight's own.
LEMMA LandKeeps ==
    ASSUME FInv, NEW f \in Flights, Land(f)
    PROVE  FInv'
<1>1. /\ stage[f] = "over" /\ stage' = [stage EXCEPT ![f] = "free"]
      /\ inflight' = [inflight EXCEPT ![keyOf[f]] = NoFlight]
      /\ waiting' = [c \in Callers |-> IF waiting[c] = f THEN NoFlight ELSE waiting[c]]
      /\ UNCHANGED <<keyOf, wanted>> /\ UNCHANGED qvars
  BY DEF Land
<1>2. QueueInv' /\ UNCHANGED <<priority, ticket, phase>>
  BY <1>1, QueueStays DEF FInv, qvars
<1>3. keyOf[f] \in Keys
  BY <1>1 DEF FInv, OwnKeys
<1>4. \A g \in Flights : stage'[g] = IF g = f THEN "free" ELSE stage[g]
  BY <1>1 DEF FInv, FetchTypes
<1>5. FetchTypes'
  BY <1>1 DEF FInv, FetchTypes, Stages
<1>6. OwnKeys'
  BY <1>1, <1>4 DEF FInv, OwnKeys
<1>7. OneFlightPerKey'
  <2> SUFFICES ASSUME NEW g \in Flights, NEW k \in Keys
               PROVE  inflight'[k] = g <=> stage'[g] # "free" /\ keyOf[g] = k
    BY <1>1 DEF OneFlightPerKey
  <2>1. /\ inflight[k] = g <=> stage[g] # "free" /\ keyOf[g] = k
        /\ inflight[k] = f <=> stage[f] # "free" /\ keyOf[f] = k
        /\ inflight'[k] = IF k = keyOf[f] THEN NoFlight ELSE inflight[k]
        /\ NoFlight # g
    BY <1>1, NoFlightAssumption DEF FInv, FetchTypes, OneFlightPerKey
  <2>2. QED BY <1>1, <1>4, <2>1
<1>8. AttemptsAccounted'
  BY <1>1, <1>2, <1>4 DEF FInv, AttemptsAccounted
<1>9. \A c \in Callers : waiting'[c] # NoFlight =>
         waiting'[c] = waiting[c] /\ waiting[c] \in Flights /\ waiting[c] # f
  BY <1>1 DEF FInv, FetchTypes
<1>10. Passengers'
  BY <1>1, <1>4, <1>9 DEF FInv, Passengers
<1>11. QueuedAsTicket' /\ Inherits'
  BY <1>1, <1>2, <1>9 DEF FInv, QueuedAsTicket, Inherits
<1>12. QED BY <1>1, <1>2, <1>5, <1>6, <1>7, <1>8, <1>10, <1>11 DEF FInv

\* Expiry, deletions, an abandoned wait and a stuttering step.
LEMMA QuietKeeps ==
    ASSUME FInv,
           UNCHANGED <<qvars, inflight, keyOf, stage, wanted>>,
           \/ waiting' = waiting
           \/ \E c \in Callers : waiting' = [waiting EXCEPT ![c] = NoFlight]
    PROVE  FInv'
<1>1. QueueInv' /\ UNCHANGED <<priority, ticket, phase>>
  BY QueueStays DEF FInv, qvars
<1>2. FetchTypes' /\ OwnKeys' /\ OneFlightPerKey' /\ AttemptsAccounted' /\ QueuedAsTicket'
  BY <1>1 DEF FInv, FetchTypes, OwnKeys, OneFlightPerKey, AttemptsAccounted, QueuedAsTicket
<1>3. \A c \in Callers : waiting'[c] # NoFlight => waiting'[c] = waiting[c]
  BY DEF FInv, FetchTypes
<1>4. Passengers' /\ Inherits'
  BY <1>1, <1>3 DEF FInv, Passengers, Inherits
<1>5. QED BY <1>1, <1>2, <1>4 DEF FInv

\* A changed cap.
LEMMA CapKeeps ==
    ASSUME FInv, NEW n \in Caps, SetCap(n)
    PROVE  FInv'
<1>1. Q!SetCap(n) /\ UNCHANGED <<inflight, keyOf, stage, waiting, wanted>>
  BY DEF SetCap, fvars, wvars
<1>2. QueueInv' /\ UNCHANGED <<priority, ticket, phase>>
  BY <1>1, CapSet DEF FInv
<1>3. FetchTypes' /\ OwnKeys' /\ OneFlightPerKey' /\ AttemptsAccounted' /\ QueuedAsTicket' /\ Passengers' /\ Inherits'
  BY <1>1, <1>2 DEF FInv, FetchTypes, OwnKeys, OneFlightPerKey, AttemptsAccounted, QueuedAsTicket, Passengers, Inherits
<1>4. QED BY <1>2, <1>3 DEF FInv

\* Every step keeps the invariant.
LEMMA FetchStep ==
    ASSUME FInv, [Next]_vars
    PROVE  FInv'
<1>1. ASSUME NEW a \in Asks, Join(a) PROVE FInv'
  BY <1>1, JoinKeeps
<1>2. ASSUME NEW a \in Asks, NEW f \in Flights, Depart(a, f) PROVE FInv'
  BY <1>2, DepartKeeps
<1>3. ASSUME NEW f \in Flights, Admit(f) PROVE FInv'
  BY <1>3, AdmitKeeps
<1>4. ASSUME NEW f \in Flights, Store(f) \/ Fail(f) PROVE FInv'
  BY <1>4, FailOrStoreKeeps
<1>5. ASSUME NEW f \in Flights, Retry(f) PROVE FInv'
  BY <1>5, RetryKeeps
<1>6. ASSUME NEW f \in Flights, Land(f) PROVE FInv'
  BY <1>6, LandKeeps
<1>7. ASSUME NEW f \in Flights, NEW outcome \in {"replied", "failed"}, Settle(f, outcome)
      PROVE  FInv'
  BY <1>7, SettleKeeps
<1>8. ASSUME NEW k \in Keys, Expire(k) \/ Discard(k) PROVE FInv'
  BY <1>8, QuietKeeps DEF Expire, Discard, fvars, wvars
<1>9. ASSUME Clear PROVE FInv'
  BY <1>9, QuietKeeps DEF Clear, fvars, wvars
<1>10. ASSUME NEW c \in Callers, GiveUp(c) PROVE FInv'
  BY <1>10, QuietKeeps DEF GiveUp, fvars
<1>11. ASSUME NEW n \in Caps, SetCap(n) PROVE FInv'
  BY <1>11, CapKeeps
<1>12. ASSUME UNCHANGED vars PROVE FInv'
  BY <1>12, QuietKeeps DEF vars, fvars, wvars
<1>13. QED
  BY <1>1, <1>2, <1>3, <1>4, <1>5, <1>6, <1>7, <1>8, <1>9, <1>10, <1>11, <1>12 DEF Next

-----------------------------------------------------------------------------
\* The invariant holds in every reachable state.
LEMMA FetchInvariant == Spec => []FInv
<1>1. FInv /\ [Next]_vars => FInv'
  BY FetchStep
<1>2. QED BY <1>1, FetchInit, PTL DEF Spec

\* server.mjs 318-366: a key that is in flight is never asked for again, and
\* none stays in `inflight' when its flight is over.
THEOREM FetchOneFlight == Spec => []OneFlightPerKey
<1>1. FInv => OneFlightPerKey
  BY DEF FInv
<1>2. QED BY <1>1, FetchInvariant, PTL

\* server.mjs 332-363: no attempt is lost in the queue or left behind there by
\* a failure, a pause or a landing.
THEOREM FetchAccounted == Spec => []AttemptsAccounted
<1>1. FInv => AttemptsAccounted
  BY DEF FInv
<1>2. QED BY <1>1, FetchInvariant, PTL

\* server.mjs 318-330: a flight is at least as urgent as everybody who awaits
\* it, over joins, failures and retries.
THEOREM FetchInherits == Spec => []Inherits
<1>1. FInv => Inherits
  BY DEF FInv
<1>2. QED BY <1>1, FetchInvariant, PTL

-----------------------------------------------------------------------------
\* The function by which the keys that are left are collected.
IsLeft(left, map, S, n) ==
    left = [m \in 0 .. n |->
              IF m = 0 THEN <<>>
              ELSE IF map[m] \in S THEN Append(left[m - 1], map[m]) ELSE left[m - 1]]

LEMMA IsLeftExists == ASSUME NEW map, NEW S, NEW n \in Nat PROVE \E left : IsLeft(left, map, S, n)
<1> DEFINE G == {k \in Nat : \E left : IsLeft(left, map, S, k)}
<1>1. 0 \in G
  <2> DEFINE v == [m \in 0 .. 0 |-> <<>>]
  <2>1. IsLeft(v, map, S, 0)
    <3>1. \A m \in 0 .. 0 : m = 0
      OBVIOUS
    <3>2. QED BY <3>1 DEF IsLeft
  <2>2. QED BY <2>1
<1>2. ASSUME NEW k \in Nat, k \in G PROVE k + 1 \in G
  <2>1. PICK v : IsLeft(v, map, S, k)
    BY <1>2
  <2> DEFINE last == IF map[k + 1] \in S THEN Append(v[k], map[k + 1]) ELSE v[k]
             w == [m \in 0 .. k + 1 |-> IF m = k + 1 THEN last ELSE v[m]]
  <2> HIDE DEF last
  <2>2. /\ \A m \in 0 .. k : w[m] = v[m] /\ m # k + 1
        /\ w[k + 1] = last /\ k \in 0 .. k /\ 0 \in 0 .. k
    OBVIOUS
  <2>3. \A m \in 0 .. k + 1 : m = k + 1 \/ m \in 0 .. k
    OBVIOUS
  <2>4. \A m \in 0 .. k :
          v[m] = IF m = 0 THEN <<>>
                 ELSE IF map[m] \in S THEN Append(v[m - 1], map[m]) ELSE v[m - 1]
    BY <2>1 DEF IsLeft
  <2>5. w = [m \in 0 .. k + 1 |-> w[m]]
    OBVIOUS
  <2> HIDE DEF w
  <2>6. ASSUME NEW m \in 0 .. k + 1
        PROVE  w[m] = IF m = 0 THEN <<>>
                      ELSE IF map[m] \in S THEN Append(w[m - 1], map[m]) ELSE w[m - 1]
    <3>1. CASE m = k + 1
      <4>1. m # 0 /\ m - 1 = k /\ w[k] = v[k]
        BY <2>2, <3>1
      <4>2. QED BY <2>2, <3>1, <4>1 DEF last
    <3>2. CASE m \in 0 .. k
      <4>1. m # 0 => w[m - 1] = v[m - 1]
        <5>1. m # 0 => m - 1 \in 0 .. k
          BY <3>2
        <5>2. QED BY <2>2, <5>1
      <4>2. QED BY <2>2, <2>4, <3>2, <4>1
    <3>3. QED BY <2>3, <3>1, <3>2
  <2>7. IsLeft(w, map, S, k + 1)
    BY <2>5, <2>6 DEF IsLeft
  <2>8. QED BY <2>7
<1> HIDE DEF G
<1>3. n \in G
  BY <1>1, <1>2, NatSetInduction
<1>4. QED BY <1>3 DEF G

\* A Map's keys in their order: none stands there twice.
Once(map) == \A m, n \in 1 .. Len(map) : map[m] = map[n] => m = n

\* A key that is new to a Map comes last.
LEMMA AppendOnce ==
    ASSUME NEW S, NEW map \in Seq(S), Once(map), NEW k \in S, k \notin ToSet(map)
    PROVE  /\ Append(map, k) \in Seq(S) /\ Once(Append(map, k))
           /\ ToSet(Append(map, k)) = ToSet(map) \cup {k}
           /\ Len(Append(map, k)) = Len(map) + 1
<1> DEFINE more == Append(map, k)
           n == Len(map)
<1>1. /\ more \in Seq(S) /\ n \in Nat /\ Len(more) = n + 1 /\ more[n + 1] = k
      /\ \A m \in 1 .. n : more[m] = map[m]
  OBVIOUS
<1>2. \A m \in 1 .. n + 1 : m \in 1 .. n \/ m = n + 1
  BY <1>1
<1>3. \A m \in 1 .. n : map[m] # k
  BY DEF ToSet
<1> HIDE DEF more
<1>4. Once(more)
  BY <1>1, <1>2, <1>3 DEF Once
<1>5. DOMAIN more = 1 .. n + 1 /\ DOMAIN map = 1 .. n
  BY <1>1
<1>6. ToSet(more) = ToSet(map) \cup {k}
  <2>1. ASSUME NEW x PROVE x \in ToSet(more) <=> x \in ToSet(map) \/ x = k
    <3>1. x \in ToSet(more) <=> \E m \in 1 .. n + 1 : more[m] = x
      BY <1>5 DEF ToSet
    <3>2. x \in ToSet(map) <=> \E m \in 1 .. n : map[m] = x
      BY <1>5 DEF ToSet
    <3>3. n + 1 \in 1 .. n + 1 /\ \A m \in 1 .. n : m \in 1 .. n + 1
      BY <1>1
    <3>4. QED BY <1>1, <1>2, <3>1, <3>2, <3>3
  <2>2. QED BY <2>1
<1>7. QED BY <1>1, <1>4, <1>6 DEF more

\* What is left of a Map are its keys that are in the set.
LEMMA OnlyLeft ==
    ASSUME NEW T, NEW map \in Seq(T), Once(map), NEW S
    PROVE  Only(map, S) \in Seq(T) /\ Once(Only(map, S)) /\ ToSet(Only(map, S)) = ToSet(map) \cap S
<1> DEFINE len == Len(map)
           it == CHOOSE left : IsLeft(left, map, S, len)
           before(n) == {map[m] : m \in 1 .. n}
           G == {n \in Nat : n <= len =>
                   it[n] \in Seq(T) /\ Once(it[n]) /\ ToSet(it[n]) = before(n) \cap S}
<1>1. len \in Nat /\ (\A n \in 1 .. len : map[n] \in T) /\ DOMAIN map = 1 .. len
  OBVIOUS
<1>2. IsLeft(it, map, S, len)
  <2>1. \E left : IsLeft(left, map, S, len)
    BY <1>1, IsLeftExists
  <2>2. QED BY <2>1
<1>3. Only(map, S) = it[len]
  BY DEF Only, IsLeft
<1> HIDE DEF it, len
<1>4. 0 \in G
  <2>1. 0 \in 0 .. len
    BY <1>1
  <2>2. it[0] = <<>>
    BY <1>2, <2>1 DEF IsLeft
  <2>3. <<>> \in Seq(T) /\ Once(<<>>) /\ ToSet(<<>>) = {} /\ before(0) = {}
    BY DEF Once, ToSet
  <2> HIDE DEF before
  <2>4. QED BY <2>2, <2>3
<1>5. ASSUME NEW n \in Nat, n \in G PROVE n + 1 \in G
  <2> SUFFICES ASSUME n + 1 <= len
               PROVE  it[n + 1] \in Seq(T) /\ Once(it[n + 1]) /\ ToSet(it[n + 1]) = before(n + 1) \cap S
    OBVIOUS
  <2>1. n + 1 \in 0 .. len /\ n + 1 \in 1 .. len /\ n + 1 # 0 /\ (n + 1) - 1 = n /\ n <= len
    BY <1>1
  <2>2. it[n] \in Seq(T) /\ Once(it[n]) /\ ToSet(it[n]) = before(n) \cap S
    BY <1>5, <2>1
  <2> DEFINE k == map[n + 1]
  <2>3. it[n + 1] = IF k \in S THEN Append(it[n], k) ELSE it[n]
    BY <1>2, <2>1 DEF IsLeft
  <2>4. k \in T /\ k \notin before(n)
    <3>1. \A m \in 1 .. n : m \in 1 .. len /\ m # n + 1
      BY <1>1, <2>1
    <3>2. QED BY <1>1, <2>1, <3>1 DEF Once, len
  <2>5. before(n + 1) = before(n) \cup {k}
    <3>1. \A m \in 1 .. n + 1 : m \in 1 .. n \/ m = n + 1
      OBVIOUS
    <3>2. n + 1 \in 1 .. n + 1 /\ \A m \in 1 .. n : m \in 1 .. n + 1
      OBVIOUS
    <3>3. QED BY <3>1, <3>2
  <2> HIDE DEF before, k
  <2>6. CASE k \in S
    <3>1. k \notin ToSet(it[n])
      BY <2>2, <2>4
    <3>2. /\ Append(it[n], k) \in Seq(T) /\ Once(Append(it[n], k))
          /\ ToSet(Append(it[n], k)) = ToSet(it[n]) \cup {k}
      BY <2>2, <2>4, <3>1, AppendOnce
    <3>3. QED BY <2>2, <2>3, <2>5, <2>6, <3>2
  <2>7. CASE k \notin S
    BY <2>2, <2>3, <2>5, <2>7
  <2>8. QED BY <2>6, <2>7
<1> HIDE DEF G
<1>6. len \in G
  BY <1>1, <1>4, <1>5, NatSetInduction
<1>7. before(len) = ToSet(map)
  BY <1>1 DEF ToSet
<1>8. QED BY <1>1, <1>3, <1>6, <1>7 DEF G

\* A Map has as many keys as its order is long.
LEMMA OnceCounts ==
    ASSUME NEW S, NEW map \in Seq(S), Once(map)
    PROVE  IsFiniteSet(ToSet(map)) /\ Cardinality(ToSet(map)) = Len(map)
<1> DEFINE n == Len(map)
<1>1. n \in Nat /\ DOMAIN map = 1 .. n /\ map = [m \in 1 .. n |-> map[m]]
  OBVIOUS
<1>2. map \in Bijection(1 .. n, ToSet(map))
  <2>1. map \in [1 .. n -> ToSet(map)]
    BY <1>1 DEF ToSet
  <2>2. \A a, b \in 1 .. n : map[a] = map[b] => a = b
    BY DEF Once
  <2>3. \A x \in ToSet(map) : \E a \in 1 .. n : map[a] = x
    BY <1>1 DEF ToSet
  <2>4. QED BY <2>1, <2>2, <2>3, Fun_IsBij
<1>3. IsFiniteSet(1 .. n) /\ Cardinality(1 .. n) = n
  <2>1. n \in Nat
    BY <1>1
  <2> HIDE DEF n
  <2>2. 1 \in Int /\ n \in Int /\ (IF 1 > n THEN 0 ELSE n - 1 + 1) = n
    BY <2>1
  <2>3. QED BY <2>2, FS_Interval
<1>4. QED BY <1>2, <1>3, FS_Bijection DEF ExistsBijection

\* Map.set adds the key, last if it is new.
LEMMA StoredOnce ==
    ASSUME NEW S, NEW map \in Seq(S), Once(map), NEW k \in S
    PROVE  /\ StoredIn(map, k) \in Seq(S) /\ Once(StoredIn(map, k))
           /\ ToSet(StoredIn(map, k)) = ToSet(map) \cup {k}
<1>1. CASE k \in ToSet(map)
  BY <1>1 DEF StoredIn
<1>2. CASE k \notin ToSet(map)
  BY <1>2, AppendOnce DEF StoredIn
<1>3. QED BY <1>1, <1>2

\* Eviction leaves no more keys than the limit.
LEMMA EvictedOnce ==
    ASSUME NEW S, NEW map \in Seq(S), Once(map)
    PROVE  /\ Evicted(map) \in Seq(S) /\ Once(Evicted(map))
           /\ ToSet(Evicted(map)) \subseteq ToSet(map)
           /\ Len(Evicted(map)) <= MaxEntries
<1> DEFINE n == Len(map)
           d == IF n > MaxEntries THEN n - MaxEntries ELSE 0
           rest == SubSeq(map, 1 + d, n)
<1>1. n \in Nat /\ (\A m \in 1 .. n : map[m] \in S) /\ DOMAIN map = 1 .. n
  OBVIOUS
<1>2. d \in Nat /\ d <= n /\ n - d <= MaxEntries
  BY <1>1, LimitsAssumption
<1>3. Evicted(map) = rest
  BY DEF Evicted
<1> HIDE DEF n, d
<1>4. 1 + d \in Int /\ n \in Int /\ \A m \in 1 + d .. n : map[m] \in S /\ m \in 1 .. n
  BY <1>1, <1>2
<1>5. /\ rest \in Seq(S)
      /\ Len(rest) = IF 1 + d <= n THEN n - (1 + d) + 1 ELSE 0
      /\ \A m \in 1 .. n - (1 + d) + 1 : rest[m] = map[1 + d + m - 1]
  BY <1>4, SubSeqProperties
<1> HIDE DEF rest
<1>6. Len(rest) = n - d /\ \A m \in 1 .. n - d : rest[m] = map[d + m] /\ d + m \in 1 .. n
  <2>1. n - (1 + d) + 1 = n - d
    BY <1>1, <1>2
  <2>2. \A m \in 1 .. n - d : 1 + d + m - 1 = d + m /\ d + m \in 1 .. n
    BY <1>1, <1>2
  <2>3. Len(rest) = n - d
    BY <1>1, <1>2, <1>5
  <2>4. QED BY <1>5, <2>1, <2>2, <2>3
<1>7. Once(rest)
  <2> SUFFICES ASSUME NEW a \in 1 .. n - d, NEW b \in 1 .. n - d, rest[a] = rest[b] PROVE a = b
    BY <1>6 DEF Once
  <2>1. map[d + a] = map[d + b] /\ d + a \in 1 .. n /\ d + b \in 1 .. n
    BY <1>6
  <2>2. d + a = d + b
    BY <2>1 DEF Once, n
  <2>3. QED BY <1>1, <1>2, <2>2
<1>8. ToSet(rest) \subseteq ToSet(map)
  <2>1. DOMAIN rest = 1 .. n - d
    BY <1>5, <1>6
  <2>2. QED BY <1>1, <1>6, <2>1 DEF ToSet
<1>9. QED BY <1>2, <1>3, <1>5, <1>6, <1>7, <1>8

\* The two orders of the cache hold the same keys, each once.
CacheInv ==
    /\ inserted \in Seq(Keys) /\ Once(inserted) /\ Len(inserted) <= MaxEntries
    /\ recency \in Seq(Keys) /\ Once(recency)
    /\ ToSet(recency) = ToSet(inserted)
    /\ fresh \subseteq ToSet(inserted)

\* What a flight was started for, its attempt and what callers wished.
FlightInv ==
    /\ keyOf \in [Flights -> Keys]
    /\ attempt \in [Flights -> 0 .. Retries]
    /\ wanted \in [Callers -> Priorities]

\* Without entries the cache is in order.
LEMMA CacheEmpty == inserted = <<>> /\ recency = <<>> /\ fresh = {} => CacheInv
BY LimitsAssumption DEF CacheInv, Once, ToSet

\* A good answer is stored.
LEMMA StoreCache == ASSUME CacheInv, FlightInv, NEW f \in Flights, Store(f) PROVE CacheInv'
<1> DEFINE k == keyOf[f]
           map == StoredIn(inserted, k)
           last == Append(Only(recency, Keys \ {k}), k)
<1>1. /\ k \in Keys
      /\ inserted' = Evicted(map)
      /\ fresh' = (fresh \cup {k}) \cap ToSet(inserted')
      /\ recency' = Only(last, ToSet(inserted'))
  BY DEF Store, FlightInv
<1>2. map \in Seq(Keys) /\ Once(map) /\ ToSet(map) = ToSet(inserted) \cup {k}
  BY <1>1, StoredOnce DEF CacheInv
<1> HIDE DEF map, k
<1>3. /\ inserted' \in Seq(Keys) /\ Once(inserted') /\ Len(inserted') <= MaxEntries
      /\ ToSet(inserted') \subseteq ToSet(map)
  BY <1>1, <1>2, EvictedOnce
<1>4. /\ Only(recency, Keys \ {k}) \in Seq(Keys) /\ Once(Only(recency, Keys \ {k}))
      /\ ToSet(Only(recency, Keys \ {k})) = ToSet(recency) \cap (Keys \ {k})
  BY OnlyLeft DEF CacheInv
<1>5. last \in Seq(Keys) /\ Once(last) /\ ToSet(last) = (ToSet(recency) \cap (Keys \ {k})) \cup {k}
  <2> DEFINE others == Only(recency, Keys \ {k})
  <2>1. others \in Seq(Keys) /\ Once(others) /\ k \in Keys /\ k \notin ToSet(others)
    BY <1>1, <1>4
  <2> HIDE DEF others
  <2>2. /\ Append(others, k) \in Seq(Keys) /\ Once(Append(others, k))
        /\ ToSet(Append(others, k)) = ToSet(others) \cup {k}
    BY <2>1, AppendOnce
  <2>3. QED BY <1>4, <2>2 DEF others
<1> HIDE DEF last
<1>6. recency' \in Seq(Keys) /\ Once(recency') /\ ToSet(recency') = ToSet(last) \cap ToSet(inserted')
  BY <1>1, <1>5, OnlyLeft
<1>7. ToSet(inserted) \subseteq Keys
  BY DEF CacheInv, ToSet
<1>8. ToSet(recency') = ToSet(inserted')
  BY <1>2, <1>3, <1>5, <1>6, <1>7 DEF CacheInv
<1>9. QED BY <1>1, <1>3, <1>6, <1>8 DEF CacheInv

\* A key is thrown away.
LEMMA DiscardCache == ASSUME CacheInv, NEW k \in Keys, Discard(k) PROVE CacheInv'
<1>1. /\ inserted' = Only(inserted, Keys \ {k})
      /\ recency' = Only(recency, Keys \ {k})
      /\ fresh' = fresh \ {k}
  BY DEF Discard
<1>2. inserted' \in Seq(Keys) /\ Once(inserted') /\ ToSet(inserted') = ToSet(inserted) \cap (Keys \ {k})
  BY <1>1, OnlyLeft DEF CacheInv
<1>3. recency' \in Seq(Keys) /\ Once(recency') /\ ToSet(recency') = ToSet(recency) \cap (Keys \ {k})
  BY <1>1, OnlyLeft DEF CacheInv
<1>4. ToSet(inserted) \subseteq Keys
  BY DEF CacheInv, ToSet
<1>5. Len(inserted') <= Len(inserted)
  <2>1. /\ IsFiniteSet(ToSet(inserted)) /\ Cardinality(ToSet(inserted)) = Len(inserted)
        /\ Cardinality(ToSet(inserted')) = Len(inserted')
    BY <1>2, OnceCounts DEF CacheInv
  <2>2. ToSet(inserted') \subseteq ToSet(inserted)
    BY <1>2
  <2>3. QED BY <2>1, <2>2, FS_Subset
<1>6. Len(inserted') <= MaxEntries
  BY <1>2, <1>5, LimitsAssumption DEF CacheInv
<1>7. QED BY <1>1, <1>2, <1>3, <1>4, <1>6 DEF CacheInv

\* Every step keeps the order of the cache and the types of the flights.
LEMMA FetchTypesStep == CacheInv /\ FlightInv /\ [Next]_vars => CacheInv' /\ FlightInv'
<1> SUFFICES ASSUME CacheInv, FlightInv, [Next]_vars PROVE CacheInv' /\ FlightInv'
  OBVIOUS
<1>0. UNCHANGED cvars => CacheInv'
  BY DEF cvars, CacheInv
<1>1. ASSUME NEW a \in Asks, Join(a) PROVE CacheInv' /\ FlightInv'
  <2>1. UNCHANGED <<cvars, keyOf, attempt>> /\ wanted' = [wanted EXCEPT ![a.caller] = a.priority]
    BY <1>1 DEF Join, Await, fvars
  <2>2. FlightInv'
    BY <2>1, AsksAssumption DEF FlightInv
  <2>3. QED BY <1>0, <2>1, <2>2
<1>2. ASSUME NEW a \in Asks, NEW f \in Flights, Depart(a, f) PROVE CacheInv' /\ FlightInv'
  <2>1. /\ UNCHANGED cvars /\ wanted' = [wanted EXCEPT ![a.caller] = a.priority]
        /\ keyOf' = [keyOf EXCEPT ![f] = a.key] /\ attempt' = [attempt EXCEPT ![f] = 0]
    BY <1>2 DEF Depart, Await
  <2>2. FlightInv'
    BY <2>1, AsksAssumption, LimitsAssumption DEF FlightInv
  <2>3. QED BY <1>0, <2>1, <2>2
<1>3. ASSUME UNCHANGED <<cvars, keyOf, attempt, wanted>> PROVE CacheInv' /\ FlightInv'
  BY <1>0, <1>3 DEF FlightInv
<1>4. ASSUME NEW f \in Flights, Admit(f) \/ Retry(f) \/ Land(f) PROVE CacheInv' /\ FlightInv'
  <2>1. UNCHANGED <<cvars, keyOf, attempt, wanted>>
    BY <1>4 DEF Admit, Retry, Land, fvars, wvars
  <2>2. QED BY <1>3, <2>1
<1>5. ASSUME NEW f \in Flights, Store(f) PROVE CacheInv' /\ FlightInv'
  <2>1. FlightInv'
    BY <1>5 DEF Store, wvars, FlightInv
  <2>2. QED BY <1>5, <2>1, StoreCache
<1>6. ASSUME NEW f \in Flights, Fail(f) PROVE CacheInv' /\ FlightInv'
  <2>1. /\ UNCHANGED <<cvars, keyOf, wanted>>
        /\ \/ attempt[f] < Retries /\ attempt' = [attempt EXCEPT ![f] = attempt[f] + 1]
           \/ UNCHANGED attempt
    BY <1>6 DEF Fail, wvars, FlightInv
  <2>2. attempt' \in [Flights -> 0 .. Retries]
    BY <2>1, LimitsAssumption DEF FlightInv
  <2>3. FlightInv'
    BY <2>1, <2>2 DEF FlightInv
  <2>4. QED BY <1>0, <2>1, <2>3
<1>7. ASSUME NEW f \in Flights, NEW outcome \in {"replied", "failed"}, Settle(f, outcome)
      PROVE  CacheInv' /\ FlightInv'
  <2>1. UNCHANGED <<cvars, keyOf, attempt, wanted>>
    BY <1>7 DEF Settle, wvars
  <2>2. QED BY <1>3, <2>1
<1>8. ASSUME NEW k \in Keys, Expire(k) PROVE CacheInv' /\ FlightInv'
  <2>1. UNCHANGED <<inserted, recency, keyOf, attempt, wanted>> /\ fresh' = fresh \ {k}
    BY <1>8 DEF Expire, fvars, wvars
  <2>2. QED BY <2>1 DEF CacheInv, FlightInv
<1>9. ASSUME NEW k \in Keys, Discard(k) PROVE CacheInv' /\ FlightInv'
  <2>1. UNCHANGED <<keyOf, attempt, wanted>>
    BY <1>9 DEF Discard, fvars, wvars
  <2>2. QED BY <1>9, <2>1, DiscardCache DEF FlightInv
<1>10. ASSUME Clear PROVE CacheInv' /\ FlightInv'
  <2>1. UNCHANGED <<keyOf, attempt, wanted>> /\ inserted' = <<>> /\ recency' = <<>> /\ fresh' = {}
    BY <1>10 DEF Clear, fvars, wvars
  <2>2. CacheInv'
    BY <2>1, LimitsAssumption DEF CacheInv, Once, ToSet
  <2>3. QED BY <2>1, <2>2 DEF FlightInv
<1>11. ASSUME NEW c \in Callers, GiveUp(c) PROVE CacheInv' /\ FlightInv'
  <2>1. UNCHANGED <<cvars, keyOf, attempt, wanted>>
    BY <1>11 DEF GiveUp, fvars
  <2>2. QED BY <1>3, <2>1
<1>12. ASSUME NEW n \in Caps, SetCap(n) PROVE CacheInv' /\ FlightInv'
  <2>1. UNCHANGED <<cvars, keyOf, attempt, wanted>>
    BY <1>12 DEF SetCap, fvars, wvars
  <2>2. QED BY <1>3, <2>1
<1>13. CASE UNCHANGED vars
  BY <1>3, <1>13 DEF vars, fvars, wvars
<1>14. QED
  BY <1>1, <1>2, <1>4, <1>5, <1>6, <1>7, <1>8, <1>9, <1>10, <1>11, <1>12, <1>13 DEF Next

\* What the invariants say of the types.
LEMMA FetchTyped == FInv /\ CacheInv /\ FlightInv => TypeOK
<1> SUFFICES ASSUME FInv, CacheInv, FlightInv PROVE TypeOK
  OBVIOUS
<1>1. QP!TypeOK
  BY QueueAssumed, QP!InvTyped DEF FInv, QueueInv
<1>2. Q!TypeOK
  BY <1>1 DEF Q!TypeOK, QP!TypeOK, Q!Phases, QP!Phases
<1>3. /\ Len(inserted) = Cardinality(ToSet(inserted))
      /\ Len(recency) = Cardinality(ToSet(recency))
  BY OnceCounts DEF CacheInv
<1>4. ToSet(inserted) \subseteq Keys
  BY DEF CacheInv, ToSet
<1>5. QED BY <1>2, <1>3, <1>4 DEF FInv, FetchTypes, CacheInv, FlightInv, TypeOK

\* server.mjs 300-366 and cache.mjs 8-13: the Map and the age of its entries hold
\* the same keys, each once and never more than the limit, whatever is stored
\* again, evicted, thrown away or cleared; and the rest keeps its types.
THEOREM FetchTypesKept == Spec => []TypeOK
<1>1. Init => CacheInv /\ FlightInv
  <2> SUFFICES ASSUME Init PROVE CacheInv /\ FlightInv
    OBVIOUS
  <2>1. CacheInv
    BY CacheEmpty DEF Init
  <2>2. (CHOOSE k \in Keys : TRUE) \in Keys /\ (CHOOSE p \in Priorities : TRUE) \in Priorities
    BY SomethingToAsk
  <2>3. QED BY <2>1, <2>2, LimitsAssumption DEF Init, FlightInv
<1>2. CacheInv /\ FlightInv /\ [Next]_vars => CacheInv' /\ FlightInv'
  BY FetchTypesStep
<1>3. FInv /\ CacheInv /\ FlightInv => TypeOK
  BY FetchTyped
<1>4. QED BY <1>1, <1>2, <1>3, FetchInvariant, PTL DEF Spec
=============================================================================
