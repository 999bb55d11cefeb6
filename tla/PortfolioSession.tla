-------------------------- MODULE PortfolioSession --------------------------
(***************************************************************************)
(* One time-travel mission in the browser, without saving: its capital plan,  *)
(* its clock and its ledger of events (core/portfolio-session.mjs), with the    *)
(* operations that write to them: commits (portfolio-commit.mjs), exits        *)
(* (portfolio-close.mjs), clock steps (portfolio-clock.mjs) and the end        *)
(* (portfolio-closeout.mjs).  Nothing but events is kept of what is held:      *)
(* every operation replays them.  Here the result of the replay, a fold over    *)
(* events, stands beside them in `held' and grows by one fold step per event. *)
(*                                                                         *)
(* Moments are numbers from 0, the start.  Ids are the numbers they end in.    *)
(* What the market offers at a moment is any quote of a small set: capital,     *)
(* margin and net cash per contract, all linear in the quantity as in the      *)
(* code.  Legs, executions, scores and data quality are left out.             *)
(***************************************************************************)
EXTENDS Integers, FiniteSets, Functions, Sequences, SequencesExt, TLC

CONSTANTS
    Families, Candidates,
    FamilyOf,      \* candidate -> the family of its strategy
    InitialRial, ReserveRial,
    Missions,      \* [minFree, maxMargin] in Rial
    Pcts,          \* shares of the capital a family may get
    Quotes,        \* [capital, margin, cash] per contract, on entry
    Exits,         \* net cash per contract, on exit
    None,
    End,           \* bound: the last moment of the mission
    MaxQty,        \* bound: contracts the order book holds
    MaxEvents      \* bound: events of the ledger

ASSUME FamilyAssumption == IsFiniteSet(Families) /\ FamilyOf \in [Candidates -> Families]
ASSUME CapitalAssumption ==
    InitialRial \in Nat \ {0} /\ ReserveRial \in 0 .. InitialRial
ASSUME MissionAssumption == Missions \subseteq [minFree : Nat, maxMargin : Nat]
ASSUME PctAssumption == Pcts \subseteq 1 .. 100
ASSUME QuoteAssumption ==
    Quotes \subseteq [capital : Nat, margin : Nat, cash : Int] /\ Exits \subseteq Int
ASSUME SessionBounds == End \in Nat /\ MaxQty \in Nat /\ MaxEvents \in Nat

\* What commits and exits leave with their events; other events leave nothing.
CommitData == [by : {"commit"}, candidate : Candidates, quote : Quotes]
ExitData == [by : {"exit"}, cash : Exits, realized : Int]
ASSUME NoneAssumption == None \notin CommitData \cup ExitData

VARIABLES
    state,     \* "draft", "active" or "closed"
    now,
    targets,   \* family -> target in Rial, of the draft
    mission,   \* of the draft
    locked,    \* lockedAllocations and lockedMission
    events,    \* the ledger
    counters,  \* the last id issued of each sort
    held       \* what replayPortfolioSession() makes of events

plan == <<targets, mission, locked>>
ledger == <<events, counters, held>>
vars == <<state, now, plan, ledger>>

OpenKinds == {"open", "rollIn"}
AddKinds == {"open", "increase", "rollIn"}
PartialCloseKinds == {"reduce", "rollOut"}
FullCloseKinds == {"close", "settlement", "exercise"}
ExitKinds == PartialCloseKinds \cup FullCloseKinds

-----------------------------------------------------------------------------
\* What is left of some of the lots of a position.
LeftOf(lots, ks) == SumFunctionOnSet([k \in DOMAIN lots |-> lots[k].left], ks)

\* Mutant of FifoTake: the newest lot first.
LifoTake(lots, q) ==
    [k \in DOMAIN lots |->
        LET before == LeftOf(lots, k + 1 .. Len(lots)) IN
        IF q <= before THEN 0
        ELSE IF q - before < lots[k].left THEN q - before ELSE lots[k].left]

\* How much of q each lot gives, the oldest first.
FifoTake(lots, q) ==
    [k \in DOMAIN lots |->
        LET before == LeftOf(lots, 1 .. k - 1) IN
        IF q <= before THEN 0
        ELSE IF q - before < lots[k].left THEN q - before ELSE lots[k].left]

\* consumeFifo(): the lots that are left, what was taken from those that gave
\* (looked up by the id of the lot, as its readers do), and what is missing.
ConsumeFifo(lots, q) ==
    LET take == FifoTake(lots, q)
        gave == {k \in DOMAIN lots : take[k] > 0}
    IN [lots |-> [k \in DOMAIN lots |-> [lots[k] EXCEPT !.left = @ - take[k]]],
        consumed |-> [lot \in {lots[k].id : k \in gave} |->
                         take[CHOOSE k \in gave : lots[k].id = lot]],
        left |-> q - SumFunctionOnSet(take, DOMAIN lots)]

NewLot(e) == [id |-> e.lot, event |-> e.id, left |-> e.qty]

\* The position after an event that finds it open.
Changed(p, e) ==
    IF e.kind = "increase"
    THEN [p EXCEPT !.openQty = @ + e.qty, !.lots = Append(@, NewLot(e))]
    ELSE [open |-> p.openQty # e.qty, openQty |-> p.openQty - e.qty,
          lots |-> ConsumeFifo(p.lots, e.qty).lots]

\* Whether the replay takes the event: in time, a new position or an open one,
\* no more out than there is.
Replayable(r, e) ==
    /\ e.at >= r.last
    /\ IF e.kind \in OpenKinds THEN e.position \notin DOMAIN r.positions
       ELSE /\ e.position \in DOMAIN r.positions /\ r.positions[e.position].open
            /\ e.kind \in ExitKinds =>
                  ConsumeFifo(r.positions[e.position].lots, e.qty).left = 0

ReplayEvent(r, e) ==
    IF ~r.ok \/ ~Replayable(r, e) THEN [r EXCEPT !.ok = FALSE]
    ELSE [ok |-> TRUE, last |-> e.at,
          positions |-> [p \in DOMAIN r.positions \cup {e.position} |->
              IF p # e.position THEN r.positions[p]
              ELSE IF e.kind \in OpenKinds
              THEN [open |-> TRUE, openQty |-> e.qty, lots |-> <<NewLot(e)>>]
              ELSE Changed(r.positions[p], e)]]

\* replayPortfolioSession(): the positions, from the ledger alone.
NothingHeld == [ok |-> TRUE, last |-> 0, positions |-> <<>>]
Replay(log) == FoldLeft(ReplayEvent, NothingHeld, log)

IsOpen(p) == p \in DOMAIN held.positions /\ held.positions[p].open

-----------------------------------------------------------------------------
Init ==
    /\ state = "draft" /\ now = 0
    /\ targets = None /\ mission = None /\ locked = None
    /\ events = <<>>
    /\ counters = [event |-> 0, position |-> 0, lot |-> 0]
    /\ held = NothingHeld

AllocatableRial == InitialRial - ReserveRial

SetFamilyAllocations(pct) ==
    /\ state = "draft"
    /\ DOMAIN pct # {}
    /\ SumFunctionOnSet(pct, DOMAIN pct) <= 100
    /\ targets' = [f \in DOMAIN pct |-> (AllocatableRial * pct[f]) \div 100]
    /\ UNCHANGED <<state, now, mission, locked, ledger>>

SetPortfolioMission(m) ==
    /\ state = "draft"
    /\ mission' = m
    /\ UNCHANGED <<state, now, targets, locked, ledger>>

Activate ==
    /\ state = "draft" /\ targets # None /\ mission # None
    /\ state' = "active" /\ now' = 0
    /\ locked' = [targets |-> targets, mission |-> mission]
    /\ UNCHANGED <<targets, mission, ledger>>

-----------------------------------------------------------------------------
\* Mutant of NewEvent: a full close takes what was asked for, not what is open.
NewEventAsAsked(kind, position, qty, data) ==
    LET p == IF kind \in OpenKinds THEN counters.position + 1 ELSE position
        q == IF kind \in FullCloseKinds THEN held.positions[p].openQty ELSE qty
    IN [id |-> counters.event + 1, kind |-> kind, at |-> now, position |-> p, qty |-> q,
        lot |-> IF kind \in AddKinds THEN counters.lot + 1 ELSE None,
        consumed |-> IF kind \in ExitKinds
                     THEN ConsumeFifo(held.positions[p].lots, qty).consumed ELSE <<>>,
        data |-> data]

\* The event recordPortfolioTransaction() makes of a request.
NewEvent(kind, position, qty, data) ==
    LET p == IF kind \in OpenKinds THEN counters.position + 1 ELSE position
        q == IF kind \in FullCloseKinds THEN held.positions[p].openQty ELSE qty
    IN [id |-> counters.event + 1, kind |-> kind, at |-> now, position |-> p, qty |-> q,
        lot |-> IF kind \in AddKinds THEN counters.lot + 1 ELSE None,
        consumed |-> IF kind \in ExitKinds
                     THEN ConsumeFifo(held.positions[p].lots, q).consumed ELSE <<>>,
        data |-> data]

\* Mutant of Recordable: an exit may ask for more than is open.
RecordableBeyondOpen(kind, position, qty) ==
    /\ state = "active"
    /\ now \in 0 .. End
    /\ events # <<>> => now >= Last(events).at
    /\ held.ok
    /\ kind \notin OpenKinds => IsOpen(position)
    /\ kind \notin FullCloseKinds => qty > 0

\* Its checks before the event is made.  An increase, too, is at most what is open.
Recordable(kind, position, qty) ==
    /\ state = "active"
    /\ now \in 0 .. End
    /\ events # <<>> => now >= Last(events).at
    /\ held.ok
    /\ kind \notin OpenKinds =>
          /\ IsOpen(position)
          /\ kind \in FullCloseKinds \/ qty <= held.positions[position].openQty
    /\ kind \notin FullCloseKinds => qty > 0

Record(kind, position, qty, data) ==
    /\ Recordable(kind, position, qty)
    /\ LET e == NewEvent(kind, position, qty, data) IN
       /\ ReplayEvent(held, e).ok
       /\ events' = Append(events, e)
       /\ held' = ReplayEvent(held, e)
       /\ counters' = [event |-> e.id,
                       position |-> IF kind \in OpenKinds THEN e.position ELSE counters.position,
                       lot |-> IF kind \in AddKinds THEN e.lot ELSE counters.lot]
    /\ UNCHANGED <<state, now, plan>>

-----------------------------------------------------------------------------
\* The commits of the ledger that made a lot.
Commits == {n \in DOMAIN events : events[n].data # None /\ events[n].data.by = "commit"}

\* Capital or margin of the lots that are still open, by what is left of them.
Engaged(part, commits) ==
    LET left(n) == LET lots == held.positions[events[n].position].lots IN
                   lots[CHOOSE k \in DOMAIN lots : lots[k].id = events[n].lot].left
    IN SumFunctionOnSet([n \in commits |-> events[n].data.quote[part] * left(n)], commits)
\* Mutant of FamilySpent: what positions grew by is not counted.
FamilySpentOnOpening(f) ==
    Engaged("capital", {n \in Commits : events[n].kind = "open"
                                            /\ FamilyOf[events[n].data.candidate] = f})
FamilySpent(f) == Engaged("capital", {n \in Commits : FamilyOf[events[n].data.candidate] = f})

\* Mutant of Room: the new commit alone is held against the ceiling of margin.
RoomByItself(quote, qty) ==
    /\ InitialRial - (Engaged("capital", Commits) + quote.capital * qty)
          >= locked.mission.minFree
    /\ quote.margin * qty <= locked.mission.maxMargin

\* ledgerRoomFor(): the mission's floor of free capital and ceiling of margin.
Room(quote, qty) ==
    /\ InitialRial - (Engaged("capital", Commits) + quote.capital * qty)
          >= locked.mission.minFree
    /\ Engaged("margin", Commits) + quote.margin * qty <= locked.mission.maxMargin

Affordable(c, quote, qty) ==
    /\ FamilyOf[c] \in DOMAIN locked.targets /\ locked.targets[FamilyOf[c]] > 0
    /\ quote.capital * qty <= locked.targets[FamilyOf[c]] - FamilySpent(FamilyOf[c])
    /\ Room(quote, qty)

\* Mutant of Commit: the plan is not looked for among the commits of the moment.
CommitAgain(c, quote, qty) ==
    /\ state = "active"
    /\ Affordable(c, quote, qty)
    /\ Record("open", None, qty, [by |-> "commit", candidate |-> c, quote |-> quote])

\* commitPortfolioPlan(): a ranked plan becomes a position, at most once per moment.
Commit(c, quote, qty) ==
    /\ state = "active"
    /\ ~\E n \in Commits : events[n].data.candidate = c /\ events[n].at = now
    /\ Affordable(c, quote, qty)
    /\ Record("open", None, qty, [by |-> "commit", candidate |-> c, quote |-> quote])

\* The event that opened a position.
Opening(p) == events[CHOOSE n \in DOMAIN events :
                        /\ events[n].position = p
                        /\ \A m \in DOMAIN events : events[m].position = p => n <= m]

\* The same with a position to add to: it was opened by the same plan.
Increase(p, quote, qty) ==
    /\ state = "active"
    /\ IsOpen(p)
    /\ Opening(p).data # None
    /\ LET c == Opening(p).data.candidate IN
       /\ Affordable(c, quote, qty)
       /\ Record("increase", p, qty, [by |-> "commit", candidate |-> c, quote |-> quote])

\* Mutant of EntryBasis: the whole exit is priced from the opening lot.
EntryBasisOfOpening(lots, q) == events[lots[1].event].data.quote.cash * q

\* Net cash the lots of this exit were entered with, the oldest first.
EntryBasis(lots, q) ==
    LET take == FifoTake(lots, q) IN
    SumFunctionOnSet([k \in DOMAIN lots |-> events[lots[k].event].data.quote.cash * take[k]],
                     DOMAIN lots)

\* closePortfolioPosition(): out at the prices of this moment, wholly or in part.
Exit(p, exit, qty) ==
    LET position == held.positions[p] IN
    /\ state = "active"
    /\ IsOpen(p)
    /\ Opening(p).data # None
    /\ qty \in 1 .. position.openQty
    /\ Record(IF qty = position.openQty THEN "close" ELSE "reduce", p, qty,
              [by |-> "exit", cash |-> exit,
               realized |-> exit * qty + EntryBasis(position.lots, qty)])

\* The kinds of transaction the ledger takes and no part of the program records yet.
RollIn(qty) == Record("rollIn", None, qty, None)
RollOut(p, qty) == Record("rollOut", p, qty, None)
Settle(p, kind) == kind \in {"settlement", "exercise"} /\ Record(kind, p, 0, None)

\* Mutant of Step: the end of the session is not a limit.
StepPastEnd(to) ==
    /\ state = "active"
    /\ to > now
    /\ now' = to
    /\ UNCHANGED <<state, plan, ledger>>

\* stepPortfolioSession(): to the moment the calendar gives, forward and not past the end.
Step(to) ==
    /\ state = "active"
    /\ to > now /\ to <= End
    /\ now' = to
    /\ UNCHANGED <<state, plan, ledger>>

\* closeoutPortfolioSession(): the user confirms, early or with positions open.
Closeout ==
    /\ state = "active"
    /\ held.ok
    /\ state' = "closed"
    /\ UNCHANGED <<now, plan, ledger>>

Trade ==
    /\ state = "active" /\ Len(events) < MaxEvents
    /\ \/ \E c \in Candidates, quote \in Quotes, qty \in 1 .. MaxQty : Commit(c, quote, qty)
       \/ \E qty \in 1 .. MaxQty : RollIn(qty)
       \/ \E p \in 1 .. counters.position :
             \/ \E quote \in Quotes, qty \in 1 .. MaxQty : Increase(p, quote, qty)
             \/ \E exit \in Exits, qty \in 1 .. MaxQty : Exit(p, exit, qty)
             \/ \E qty \in 1 .. MaxQty : RollOut(p, qty)
             \/ \E kind \in FullCloseKinds : Settle(p, kind)

Next ==
    \/ \E S \in SUBSET Families : \E pct \in [S -> Pcts] : SetFamilyAllocations(pct)
    \/ \E m \in Missions : SetPortfolioMission(m)
    \/ Activate
    \/ Trade
    \/ \E to \in 0 .. End + 1 : Step(to)
    \/ Closeout

Spec == Init /\ [][Next]_vars

-----------------------------------------------------------------------------
Targets == UNION {[S -> 0 .. AllocatableRial] : S \in SUBSET Families}

\* The types of the variables.
TypeOK ==
    /\ state \in {"draft", "active", "closed"}
    /\ now \in 0 .. End
    /\ targets \in Targets \cup {None}
    /\ mission \in Missions \cup {None}
    /\ locked \in (IF state = "draft" THEN {None}
                   ELSE [targets : Targets, mission : Missions])
    /\ counters \in [{"event", "position", "lot"} -> Nat]
    /\ \A n \in DOMAIN events :
          /\ events[n].kind \in AddKinds \cup ExitKinds
          /\ events[n].at \in 0 .. End
          /\ events[n].position \in 1 .. counters.position
          /\ events[n].qty \in Nat \ {0}
          /\ events[n].lot \in 1 .. counters.lot \cup {None}
          /\ events[n].data \in CommitData \cup ExitData \cup {None}

\* The ledger alone gives what is held, and it can always be replayed: the check
\* of the whole ledger with which recordPortfolioTransaction() ends never refuses
\* what its own checks let through.
LedgerReplays ==
    /\ Replay(events) = held /\ held.ok
    /\ Len(events) < MaxEvents =>
          \A kind \in AddKinds \cup ExitKinds,
             p \in 1 .. counters.position + 1, qty \in 1 .. 2 * MaxQty :
             Recordable(kind, p, qty) => ReplayEvent(held, NewEvent(kind, p, qty, None)).ok

BookOf(positions) ==
    [p \in DOMAIN positions |->
        [k \in DOMAIN positions[p].lots |-> positions[p].lots[k].left]]
Book == INSTANCE PositionBook WITH phase <- state, book <- BookOf(held.positions)

\* What is replayed from the ledger after each operation is a book of positions
\* that open, grow and shrink first in first out, one at a time, and whose
\* closed positions stay closed; clock steps and the end leave it alone.
KeepsBook == Book!Spec

\* What an event says it took from a lot.
Used(n, lot) == IF lot \in DOMAIN events[n].consumed THEN events[n].consumed[lot] ELSE 0

\* The quantity and the position status agree, and an exit event names the lots
\* that the replay takes it from, each with the quantity it gives.
RecordedExits ==
    \A n \in DOMAIN events :
        LET before == Replay(SubSeq(events, 1, n - 1)).positions
            after == Replay(SubSeq(events, 1, n)).positions
            p == events[n].position
        IN /\ after[p].openQty = LeftOf(after[p].lots, DOMAIN after[p].lots)
           /\ after[p].open <=> after[p].openQty > 0
           /\ events[n].kind \in ExitKinds =>
                 \A k \in DOMAIN before[p].lots :
                    before[p].lots[k].left - after[p].lots[k].left
                        = Used(n, before[p].lots[k].id)

-----------------------------------------------------------------------------
\* Of the quantity a commit entered, what exit events say they took from its lot.
Taken(n, exits) == SumFunctionOnSet([m \in exits |-> Used(m, events[n].lot)], exits)

AllExits == {n \in DOMAIN events : events[n].kind \in ExitKinds}
PricedExits == {n \in AllExits : events[n].data # None}

\* No money is counted twice or lost between the lots: the profit recorded with
\* the exits, the cash of what is still open and of what went other ways make up
\* exactly the cash that came in and went out.  With nothing open, the final
\* capital of the mission is its initial capital plus its cash flow.
RealizedBalances ==
    LET Cash(n) == events[n].data.quote.cash
        Kept(n) == events[n].qty - Taken(n, PricedExits)
        Sum(f) == SumFunctionOnSet(f, DOMAIN f)
    IN Sum([n \in PricedExits |-> events[n].data.realized])
         + Sum([n \in Commits |-> Cash(n) * Kept(n)])
       = Sum([n \in Commits |-> Cash(n) * events[n].qty])
         + Sum([n \in PricedExits |-> events[n].data.cash * events[n].qty])

\* Capital and margin in use, by what the events say of themselves.
InUse(part, commits) ==
    SumFunctionOnSet([n \in commits |->
        events[n].data.quote[part] * (events[n].qty - Taken(n, AllExits))], commits)

\* However positions grow, shrink and make room for others, a family never has
\* more capital in use than its locked target, and the cash reserve stays whole.
BudgetsKept ==
    locked # None =>
        /\ \A f \in Families :
              LET commits == {n \in Commits : FamilyOf[events[n].data.candidate] = f} IN
              commits # {} => InUse("capital", commits) <= locked.targets[f]
        /\ InUse("capital", Commits) <= InitialRial - ReserveRial

\* The locked risk limits of the mission hold in every state, not only when a
\* commit was checked against them.
RiskKept ==
    Commits # {} =>
        /\ InitialRial - InUse("capital", Commits) >= locked.mission.minFree
        /\ InUse("margin", Commits) <= locked.mission.maxMargin

\* The ledger is in order of time and ends no later than the clock of the
\* session, which never passes its end.
EventsInOrder ==
    /\ \A m, n \in DOMAIN events : m < n => events[m].at <= events[n].at
    /\ \A n \in DOMAIN events : events[n].at <= now
    /\ now <= End

\* No two positions and no two lots share an id: lots are looked up by it.
IdsUnique ==
    \A m, n \in DOMAIN events : m # n =>
        /\ events[m].id # events[n].id
        /\ {events[m].kind, events[n].kind} \subseteq OpenKinds
              => events[m].position # events[n].position
        /\ events[m].lot # None => events[m].lot # events[n].lot

\* One plan does not silently become two positions at one moment.
OneOpeningPerMoment ==
    \A m, n \in Commits :
        /\ m # n /\ events[m].kind = "open" /\ events[n].kind = "open"
        /\ events[m].data.candidate = events[n].data.candidate
        => events[m].at # events[n].at

\* What later reads of the ledger count on: its events are in order of time up to
\* the clock, every id names one thing, and one plan was not opened twice at one
\* moment, whatever trades, refusals and clock steps came in between.
LedgerShape == EventsInOrder /\ IdsUnique /\ OneOpeningPerMoment
=============================================================================
