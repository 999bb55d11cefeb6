----------------------- MODULE PortfolioSessionProofs -----------------------
(***************************************************************************)
(* Proofs about PortfolioSession for any families, plans, quotes and bounds:  *)
(* every property of the module, and that it implements PositionBook.         *)
(*                                                                         *)
(* Every transaction of the program goes through Record, so a step leaves the  *)
(* ledger and the counters alone, or appends one event.  Two invariants say    *)
(* what the ledger is then.  IInv: events in order of time, ids never issued    *)
(* beyond their counter, hence unique; a draft has no events, since activation  *)
(* sets the clock back to the start.  BookInv: the lots that are held are those *)
(* that events added, each with its quantity less what exits say they took      *)
(* from it.  With the plan well typed and the replay of the ledger equal to     *)
(* what is held they make SessionInv, and the rest is about sums: capital in    *)
(* use, profit and cash of the ledger before and after one more event, which    *)
(* are written as operators of a ledger, so that the one of the next state is   *)
(* the same operator of the ledger of the next state.                        *)
(***************************************************************************)
EXTENDS PortfolioSession, FoldLemmas, SequenceTheorems, TLAPS

\* Events bear moments, and no id that was issued beyond its counter.
IssuedUpTo(log, issued) ==
    /\ issued.event \in Nat /\ issued.position \in Nat /\ issued.lot \in Nat
    /\ \A n \in 1 .. Len(log) :
          /\ log[n].at \in Nat
          /\ log[n].id \in 1 .. issued.event
          /\ log[n].kind \in OpenKinds => log[n].position \in 1 .. issued.position
          /\ log[n].lot # None => log[n].lot \in 1 .. issued.lot

\* The event is stamped with the present moment and the next ids.
NextEvent(e, log, issued, next, at) ==
    /\ e.at = at
    /\ e.id = issued.event + 1 /\ next.event = issued.event + 1
    /\ IF e.kind \in OpenKinds
       THEN e.position = issued.position + 1 /\ next.position = issued.position + 1
       ELSE next.position = issued.position
    /\ IF e.lot # None
       THEN e.lot = issued.lot + 1 /\ next.lot = issued.lot + 1
       ELSE next.lot \in {issued.lot, issued.lot + 1}

IInv ==
    /\ \E S : events \in Seq(S)
    /\ now \in 0 .. End
    /\ state = "draft" => events = <<>>
    /\ IssuedUpTo(events, counters)
    /\ EventsInOrder
    /\ IdsUnique
    /\ OneOpeningPerMoment

-----------------------------------------------------------------------------
\* What Append does to a sequence, whatever its elements.
LEMMA AppendElements ==
    ASSUME NEW s, NEW e, \E S : s \in Seq(S)
    PROVE  /\ \E S : Append(s, e) \in Seq(S)
           /\ DOMAIN s = 1 .. Len(s) /\ Len(s) \in Nat
           /\ Len(Append(s, e)) = Len(s) + 1
           /\ DOMAIN Append(s, e) = 1 .. Len(s) + 1
           /\ \A n \in 1 .. Len(s) : Append(s, e)[n] = s[n]
           /\ Append(s, e)[Len(s) + 1] = e
<1>1. PICK S : s \in Seq(S)
  OBVIOUS
<1> DEFINE T == S \cup {e}
<1>2. s \in Seq(T) /\ e \in T
  BY <1>1
<1> HIDE DEF T
<1>3. Append(s, e) \in Seq(T)
  BY <1>2
<1>4. QED BY <1>2, <1>3

\* What a record of the ledger appends.
LEMMA RecordAppends ==
    ASSUME NEW kind, NEW position, NEW qty, NEW data,
           counters.lot \in Nat, Record(kind, position, qty, data)
    PROVE  \E e : /\ events' = Append(events, e)
                  /\ NextEvent(e, events, counters, counters', now)
                  /\ e.kind = kind /\ e.data = data
<1> DEFINE e == NewEvent(kind, position, qty, data)
<1>1. e.at = now /\ e.id = counters.event + 1 /\ e.kind = kind /\ e.data = data
  BY DEF NewEvent
<1>2. e.kind \in OpenKinds => e.position = counters.position + 1
  BY DEF NewEvent
<1>3. e.lot = IF kind \in AddKinds THEN counters.lot + 1 ELSE None
  BY DEF NewEvent
<1> HIDE DEF e
<1>4. /\ events' = Append(events, e)
      /\ counters'.event = e.id
      /\ counters'.position = IF kind \in OpenKinds THEN e.position ELSE counters.position
      /\ counters'.lot = IF kind \in AddKinds THEN e.lot ELSE counters.lot
  BY DEF Record, e
<1>5. NextEvent(e, events, counters, counters', now)
  BY <1>1, <1>2, <1>3, <1>4 DEF NextEvent
<1>6. QED BY <1>1, <1>4, <1>5

\* A trade appends one event; if it opens a plan's position, the plan has none yet
\* at this moment.
LEMMA TradeAppends ==
    ASSUME counters.lot \in Nat, Trade
    PROVE  /\ UNCHANGED <<state, now>> /\ state = "active" /\ now \in 0 .. End
           /\ \E e :
                 /\ events' = Append(events, e)
                 /\ NextEvent(e, events, counters, counters', now)
                 /\ e.kind = "open" =>
                       ~\E n \in Commits : /\ events[n].data.candidate = e.data.candidate
                                           /\ events[n].at = now
<1> DEFINE Goal ==
        /\ UNCHANGED <<state, now>> /\ state = "active" /\ now \in 0 .. End
        /\ \E e :
              /\ events' = Append(events, e)
              /\ NextEvent(e, events, counters, counters', now)
              /\ e.kind = "open" =>
                    ~\E n \in Commits : /\ events[n].data.candidate = e.data.candidate
                                        /\ events[n].at = now
<1>1. ASSUME NEW kind, NEW position, NEW qty, NEW data,
             Record(kind, position, qty, data), kind # "open"
      PROVE  Goal
  <2>1. UNCHANGED <<state, now>> /\ state = "active" /\ now \in 0 .. End
    BY <1>1 DEF Record, Recordable
  <2>2. QED BY <1>1, <2>1, RecordAppends
<1>2. ASSUME NEW c \in Candidates, NEW quote \in Quotes, NEW qty \in 1 .. MaxQty,
             Commit(c, quote, qty)
      PROVE  Goal
  <2> DEFINE data == [by |-> "commit", candidate |-> c, quote |-> quote]
  <2>1. Record("open", None, qty, data)
    BY <1>2 DEF Commit
  <2>2. UNCHANGED <<state, now>> /\ state = "active" /\ now \in 0 .. End
    BY <2>1 DEF Record, Recordable
  <2>3. data.candidate = c
    OBVIOUS
  <2>4. ~\E n \in Commits : events[n].data.candidate = c /\ events[n].at = now
    BY <1>2 DEF Commit
  <2> HIDE DEF data
  <2>5. PICK e : /\ events' = Append(events, e)
                 /\ NextEvent(e, events, counters, counters', now)
                 /\ e.data = data
    BY <2>1, RecordAppends
  <2>6. QED BY <2>2, <2>3, <2>4, <2>5
<1> HIDE DEF Goal
<1>3. ASSUME NEW qty \in 1 .. MaxQty, RollIn(qty)
      PROVE  Goal
  BY <1>1, <1>3 DEF RollIn
<1>4. ASSUME NEW p, NEW quote \in Quotes, NEW qty \in 1 .. MaxQty, Increase(p, quote, qty)
      PROVE  Goal
  BY <1>1, <1>4 DEF Increase
<1>5. ASSUME NEW p, NEW exit \in Exits, NEW qty \in 1 .. MaxQty, Exit(p, exit, qty)
      PROVE  Goal
  BY <1>1, <1>5 DEF Exit
<1>6. ASSUME NEW p, NEW qty \in 1 .. MaxQty, RollOut(p, qty)
      PROVE  Goal
  BY <1>1, <1>6 DEF RollOut
<1>7. ASSUME NEW p, NEW kind \in FullCloseKinds, Settle(p, kind)
      PROVE  Goal
  BY <1>1, <1>7 DEF Settle
<1>8. Goal
  BY <1>2, <1>3, <1>4, <1>5, <1>6, <1>7 DEF Trade
<1>9. QED BY <1>8 DEF Goal

-----------------------------------------------------------------------------
LEMMA InitIInv == Init => IInv
<1> SUFFICES ASSUME Init PROVE IInv
  OBVIOUS
<1>1. events = <<>> /\ now = 0 /\ events \in Seq({}) /\ Len(events) = 0 /\ DOMAIN events = {}
  BY DEF Init
<1>2. IssuedUpTo(events, counters)
  BY <1>1 DEF Init, IssuedUpTo
<1>3. EventsInOrder /\ IdsUnique /\ OneOpeningPerMoment
  BY <1>1, SessionBounds DEF EventsInOrder, IdsUnique, OneOpeningPerMoment, Commits
<1>4. QED BY <1>1, <1>2, <1>3, SessionBounds DEF IInv

\* The ledger and its counters stay: only the clock may move, forward or, in a
\* draft, to the start.
LEMMA LedgerStays ==
    ASSUME IInv, UNCHANGED ledger, now' \in 0 .. End,
           now' >= now \/ state = "draft", state' = "draft" => state = "draft"
    PROVE  IInv'
<1>1. events' = events /\ counters' = counters
  BY DEF ledger
<1>2. IssuedUpTo(events, counters)'
  BY <1>1 DEF IInv, IssuedUpTo
<1>3. EventsInOrder'
  <2>1. CASE state = "draft"
    <3>1. DOMAIN events' = {}
      BY <1>1, <2>1 DEF IInv
    <3>2. QED BY <3>1, SessionBounds DEF EventsInOrder
  <2>2. CASE now' >= now
    <3>1. ASSUME NEW n \in DOMAIN events PROVE events[n].at <= now'
      <4>1. n \in 1 .. Len(events)
        BY DEF IInv
      <4>2. events[n].at \in Nat
        BY <4>1 DEF IInv, IssuedUpTo
      <4>3. now \in Nat /\ now' \in Nat /\ events[n].at <= now
        BY SessionBounds DEF IInv, EventsInOrder
      <4>4. QED BY <2>2, <4>2, <4>3
    <3>2. \A n \in DOMAIN events' : events'[n].at <= now'
      BY <1>1, <3>1
    <3>3. \A m, n \in DOMAIN events' : m < n => events'[m].at <= events'[n].at
      BY <1>1 DEF IInv, EventsInOrder
    <3>4. now' <= End
      BY SessionBounds
    <3>5. QED BY <3>2, <3>3, <3>4 DEF EventsInOrder
  <2>3. QED BY <2>1, <2>2
<1>4. IdsUnique'
  BY <1>1 DEF IInv, IdsUnique
<1>5. OneOpeningPerMoment'
  BY <1>1 DEF IInv, OneOpeningPerMoment, Commits
<1>6. QED BY <1>1, <1>2, <1>3, <1>4, <1>5 DEF IInv

\* One more event, stamped with the present moment and the next ids.
LEMMA LedgerGrows ==
    ASSUME IInv, UNCHANGED <<state, now>>, state = "active",
           NEW e, events' = Append(events, e),
           NextEvent(e, events, counters, counters', now),
           e.kind = "open" =>
               ~\E n \in Commits : /\ events[n].data.candidate = e.data.candidate
                                   /\ events[n].at = now
    PROVE  IInv'
<1> DEFINE len == Len(events)
<1>1. /\ \E S : events' \in Seq(S)
      /\ DOMAIN events = 1 .. len /\ len \in Nat
      /\ Len(events') = len + 1 /\ DOMAIN events' = 1 .. len + 1
      /\ \A n \in 1 .. len : events'[n] = events[n]
      /\ events'[len + 1] = e
  <2>1. \E S : events \in Seq(S)
    BY DEF IInv
  <2>2. /\ \E S : Append(events, e) \in Seq(S)
        /\ DOMAIN events = 1 .. Len(events) /\ Len(events) \in Nat
        /\ Len(Append(events, e)) = Len(events) + 1
        /\ DOMAIN Append(events, e) = 1 .. Len(events) + 1
        /\ \A n \in 1 .. Len(events) : Append(events, e)[n] = events[n]
        /\ Append(events, e)[Len(events) + 1] = e
    BY <2>1, AppendElements
  <2>3. QED BY <2>2
<1> HIDE DEF len
<1>2. \A n \in 1 .. len + 1 : n \in 1 .. len \/ n = len + 1
  BY <1>1
<1>3. now \in Nat /\ now <= End /\ now' = now
  BY SessionBounds DEF IInv
<1>4. /\ counters.event \in Nat /\ counters.position \in Nat /\ counters.lot \in Nat
      /\ \A n \in 1 .. len :
            /\ events[n].at \in Nat
            /\ events[n].id \in 1 .. counters.event
            /\ events[n].kind \in OpenKinds => events[n].position \in 1 .. counters.position
            /\ events[n].lot # None => events[n].lot \in 1 .. counters.lot
  BY DEF IInv, IssuedUpTo, len
<1>5. IssuedUpTo(events, counters)'
  <2>1. /\ counters'.event \in Nat /\ counters'.position \in Nat /\ counters'.lot \in Nat
        /\ counters'.event >= counters.event /\ counters'.position >= counters.position
        /\ counters'.lot >= counters.lot
    <3>1. counters'.event \in Nat /\ counters'.event >= counters.event
      BY <1>4 DEF NextEvent
    <3>2. counters'.position \in Nat /\ counters'.position >= counters.position
      BY <1>4 DEF NextEvent
    <3>3. counters'.lot \in Nat /\ counters'.lot >= counters.lot
      BY <1>4 DEF NextEvent
    <3>4. QED BY <3>1, <3>2, <3>3
  <2>2. ASSUME NEW n \in 1 .. len + 1
        PROVE  /\ events'[n].at \in Nat
               /\ events'[n].id \in 1 .. counters'.event
               /\ events'[n].kind \in OpenKinds =>
                     events'[n].position \in 1 .. counters'.position
               /\ events'[n].lot # None => events'[n].lot \in 1 .. counters'.lot
    <3>1. CASE n \in 1 .. len
      <4>1. events'[n] = events[n]
        BY <1>1, <3>1
      <4>2. /\ events[n].at \in Nat
            /\ events[n].id \in 1 .. counters.event
            /\ events[n].kind \in OpenKinds => events[n].position \in 1 .. counters.position
            /\ events[n].lot # None => events[n].lot \in 1 .. counters.lot
        BY <1>4, <3>1
      <4>3. /\ 1 .. counters.event \subseteq 1 .. counters'.event
            /\ 1 .. counters.position \subseteq 1 .. counters'.position
            /\ 1 .. counters.lot \subseteq 1 .. counters'.lot
        BY <1>4, <2>1
      <4>4. QED BY <4>1, <4>2, <4>3
    <3>2. CASE n = len + 1
      <4>1. events'[n] = e
        BY <1>1, <3>2
      <4>2. e.at \in Nat /\ e.id \in 1 .. counters'.event
        BY <1>3, <1>4 DEF NextEvent
      <4>3. e.kind \in OpenKinds => e.position \in 1 .. counters'.position
        BY <1>4 DEF NextEvent
      <4>4. e.lot # None => e.lot \in 1 .. counters'.lot
        BY <1>4 DEF NextEvent
      <4>5. QED BY <4>1, <4>2, <4>3, <4>4
    <3>3. QED BY <1>2, <3>1, <3>2
  <2>3. QED BY <1>1, <2>1, <2>2 DEF IssuedUpTo
<1>6. EventsInOrder'
  <2>1. \A n \in 1 .. len : events[n].at <= now
    BY <1>1 DEF IInv, EventsInOrder
  <2>2. \A m, n \in 1 .. len : m < n => events[m].at <= events[n].at
    BY <1>1 DEF IInv, EventsInOrder
  <2>3. e.at = now
    BY DEF NextEvent
  <2>4. \A n \in 1 .. len + 1 : events'[n].at <= now
    BY <1>1, <1>2, <1>3, <2>1, <2>3
  <2>5. ASSUME NEW m \in 1 .. len + 1, NEW n \in 1 .. len + 1, m < n
        PROVE  events'[m].at <= events'[n].at
    <3>1. m \in 1 .. len
      BY <1>1, <2>5
    <3>2. CASE n \in 1 .. len
      BY <1>1, <2>2, <2>5, <3>1, <3>2
    <3>3. CASE n = len + 1
      BY <1>1, <2>1, <2>3, <3>1, <3>3
    <3>4. QED BY <1>2, <3>2, <3>3
  <2>6. QED BY <1>1, <1>3, <2>4, <2>5 DEF EventsInOrder
<1>7. IdsUnique'
  <2> DEFINE Apart(a, b) ==
          /\ a.id # b.id
          /\ {a.kind, b.kind} \subseteq OpenKinds => a.position # b.position
          /\ a.lot # None => a.lot # b.lot
  <2>1. \A m, n \in 1 .. len : m # n => Apart(events[m], events[n])
    BY <1>1 DEF IInv, IdsUnique
  <2>2. ASSUME NEW n \in 1 .. len
        PROVE  Apart(events[n], e) /\ Apart(e, events[n])
    <3>1. events[n].id # e.id
      BY <1>4 DEF NextEvent
    <3>2. {events[n].kind, e.kind} \subseteq OpenKinds => events[n].position # e.position
      BY <1>4 DEF NextEvent
    <3>3. events[n].lot # None \/ e.lot # None => events[n].lot # e.lot
      BY <1>4 DEF NextEvent
    <3>4. QED BY <3>1, <3>2, <3>3
  <2>3. ASSUME NEW m \in 1 .. len + 1, NEW n \in 1 .. len + 1, m # n
        PROVE  Apart(events'[m], events'[n])
    <3> HIDE DEF Apart
    <3>1. CASE m \in 1 .. len /\ n \in 1 .. len
      BY <1>1, <2>1, <2>3, <3>1
    <3>2. CASE m \in 1 .. len /\ n = len + 1
      BY <1>1, <2>2, <3>2
    <3>3. CASE m = len + 1 /\ n \in 1 .. len
      BY <1>1, <2>2, <3>3
    <3>4. QED BY <1>2, <2>3, <3>1, <3>2, <3>3
  <2>4. QED BY <1>1, <2>3 DEF IdsUnique
<1>8. OneOpeningPerMoment'
  <2>1. SUFFICES ASSUME NEW m \in Commits', NEW n \in Commits', m # n,
                        events'[m].kind = "open", events'[n].kind = "open",
                        events'[m].data.candidate = events'[n].data.candidate
                 PROVE  events'[m].at # events'[n].at
    BY DEF OneOpeningPerMoment
  <2>2. m \in 1 .. len + 1 /\ n \in 1 .. len + 1
    BY <1>1 DEF Commits
  <2>3. e.at = now
    BY DEF NextEvent
  <2>4. \A k \in 1 .. len : k \in Commits' => k \in Commits
    BY <1>1 DEF Commits
  <2>5. CASE m \in 1 .. len /\ n \in 1 .. len
    BY <1>1, <2>1, <2>4, <2>5 DEF IInv, OneOpeningPerMoment
  <2>6. CASE m \in 1 .. len /\ n = len + 1
    BY <1>1, <2>1, <2>3, <2>4, <2>6
  <2>7. CASE m = len + 1 /\ n \in 1 .. len
    BY <1>1, <2>1, <2>3, <2>4, <2>7
  <2>8. QED BY <1>2, <2>1, <2>2, <2>5, <2>6, <2>7
<1>9. now' \in 0 .. End /\ state' = "active"
  BY <1>3 DEF IInv
<1>10. QED BY <1>1, <1>5, <1>6, <1>7, <1>8, <1>9 DEF IInv

LEMMA NextIInv == IInv /\ [Next]_vars => IInv'
<1> SUFFICES ASSUME IInv, [Next]_vars PROVE IInv'
  OBVIOUS
<1>1. now \in 0 .. End /\ now \in Int /\ 0 \in 0 .. End
  BY SessionBounds DEF IInv
<1>2. ASSUME NEW S \in SUBSET Families, NEW pct \in [S -> Pcts], SetFamilyAllocations(pct)
      PROVE  IInv'
  BY <1>1, <1>2, LedgerStays DEF SetFamilyAllocations
<1>3. ASSUME NEW m \in Missions, SetPortfolioMission(m)
      PROVE  IInv'
  BY <1>1, <1>3, LedgerStays DEF SetPortfolioMission
<1>4. CASE Activate
  BY <1>1, <1>4, LedgerStays DEF Activate
<1>5. CASE Trade
  <2>1. counters.lot \in Nat
    BY DEF IInv, IssuedUpTo
  <2>2. QED BY <1>5, <2>1, TradeAppends, LedgerGrows
<1>6. ASSUME NEW to \in 0 .. End + 1, Step(to)
      PROVE  IInv'
  <2>1. now' \in 0 .. End /\ now' >= now /\ state' = state /\ UNCHANGED ledger
    BY <1>1, <1>6, SessionBounds DEF Step
  <2>2. QED BY <2>1, LedgerStays
<1>7. CASE Closeout
  BY <1>1, <1>7, LedgerStays DEF Closeout
<1>8. CASE UNCHANGED vars
  BY <1>1, <1>8, LedgerStays DEF vars
<1>9. QED BY <1>2, <1>3, <1>4, <1>5, <1>6, <1>7, <1>8 DEF Next

LEMMA SpecIInv == Spec => []IInv
<1>1. QED BY InitIInv, NextIInv, PTL DEF Spec

-----------------------------------------------------------------------------
\* The ledger is in order of time up to the clock of the session, which never
\* passes its end.
THEOREM LedgerInOrder == Spec => []EventsInOrder
<1>1. IInv => EventsInOrder
  BY DEF IInv
<1>2. QED BY <1>1, SpecIInv, PTL

\* No two events, positions or lots of a session share an id.
THEOREM LedgerIds == Spec => []IdsUnique
<1>1. IInv => IdsUnique
  BY DEF IInv
<1>2. QED BY <1>1, SpecIInv, PTL

\* A plan is opened at most once at one moment.
THEOREM LedgerOpenings == Spec => []OneOpeningPerMoment
<1>1. IInv => OneOpeningPerMoment
  BY DEF IInv
<1>2. QED BY <1>1, SpecIInv, PTL

\* The ledger of a mission keeps its shape for any plans, quotes and exits: what
\* replay, budgets and reports look events up by stays sound.
THEOREM LedgerShaped == Spec => []LedgerShape
<1>1. EventsInOrder /\ IdsUnique /\ OneOpeningPerMoment => LedgerShape
  BY DEF LedgerShape
<1>2. QED BY <1>1, LedgerInOrder, LedgerIds, LedgerOpenings, PTL

-----------------------------------------------------------------------------
\* Rows of lots: what is left of them, and what is taken of a quantity first in
\* first out.

Lot == [id : Nat, event : Nat, left : Nat]

LEMMA SeqDomain == \A S : \A s \in Seq(S) : DOMAIN s = 1 .. Len(s) /\ Len(s) \in Nat
OBVIOUS

LEMMA RangeFinite == \A n \in Nat : IsFiniteSet(1 .. n)
BY FS_Interval

LEMMA LotsOf ==
    ASSUME NEW lots \in Seq(Lot)
    PROVE  /\ Len(lots) \in Nat /\ DOMAIN lots = 1 .. Len(lots)
           /\ \A k \in 1 .. Len(lots) :
                 lots[k].id \in Nat /\ lots[k].event \in Nat /\ lots[k].left \in Nat
<1>1. Len(lots) \in Nat /\ DOMAIN lots = 1 .. Len(lots)
  OBVIOUS
<1>2. \A k \in 1 .. Len(lots) : lots[k] \in Lot
  OBVIOUS
<1> QED  BY <1>1, <1>2 DEF Lot

\* The quantities left are natural numbers, and so are their sums.
LEMMA LeftOfType ==
    ASSUME NEW lots \in Seq(Lot), NEW ks \in SUBSET DOMAIN lots
    PROVE  LeftOf(lots, ks) \in Nat
<1>1. IsFiniteSet(ks)
  BY LotsOf, RangeFinite, FS_Subset
<1>2. \A k \in ks : [i \in DOMAIN lots |-> lots[i].left][k] \in Nat
  BY LotsOf
<1> QED  BY <1>1, <1>2, SumNat DEF LeftOf

\* What is left of the first lots.
LEMMA FirstLots ==
    ASSUME NEW lots \in Seq(Lot)
    PROVE  /\ LeftOf(lots, 1 .. 0) = 0
           /\ \A j \in 1 .. Len(lots) :
                 /\ LeftOf(lots, 1 .. j) \in Nat /\ LeftOf(lots, 1 .. j - 1) \in Nat
                 /\ LeftOf(lots, 1 .. j) = LeftOf(lots, 1 .. j - 1) + lots[j].left
           /\ \A i, j \in 0 .. Len(lots) : i <= j => LeftOf(lots, 1 .. i) <= LeftOf(lots, 1 .. j)
<1> DEFINE n == Len(lots)
           f == [k \in DOMAIN lots |-> lots[k].left]
           P(j) == LeftOf(lots, 1 .. j)
<1>1. n \in Nat /\ DOMAIN lots = 1 .. n /\ \A k \in 1 .. n : f[k] \in Nat /\ f[k] = lots[k].left
  BY LotsOf
<1>2. 1 .. 0 = {}
  OBVIOUS
<1>3. P(0) = 0
  BY <1>2, SumEmpty DEF LeftOf
<1>4. \A j \in 0 .. n : P(j) \in Nat
  <2> SUFFICES ASSUME NEW j \in 0 .. n PROVE P(j) \in Nat
    OBVIOUS
  <2>1. 1 .. j \in SUBSET DOMAIN lots
    BY <1>1
  <2> QED  BY <2>1, LeftOfType
<1>5. ASSUME NEW j \in 1 .. n
      PROVE  P(j) = P(j - 1) + lots[j].left
  <2> DEFINE I == 1 .. j - 1
  <2>1. 1 .. j = I \cup {j} /\ j \notin I /\ I \subseteq 1 .. n
    BY <1>1
  <2>2. IsFiniteSet(I)
    BY <1>1, FS_Interval
  <2>3. \A k \in I \cup {j} : f[k] \in Int
    BY <1>1, <2>1
  <2> HIDE DEF I, f
  <2>4. SumFunctionOnSet(f, I \cup {j}) = SumFunctionOnSet(f, I) + f[j]
    BY <2>1, <2>2, <2>3, SumAdd
  <2>5. P(j) = SumFunctionOnSet(f, I \cup {j})
    BY <2>1, Zenon DEF LeftOf, f
  <2>6. P(j - 1) = SumFunctionOnSet(f, I)
    BY Zenon DEF LeftOf, f, I
  <2>7. f[j] = lots[j].left
    BY <1>1
  <2> QED  BY <2>4, <2>5, <2>6, <2>7
<1>6. \A j \in 1 .. n : lots[j].left \in Nat /\ j - 1 \in 0 .. n /\ j \in 0 .. n
  BY <1>1 DEF Lot
<1> HIDE DEF P
<1>7. \A i, j \in 0 .. n : i <= j => P(i) <= P(j)
  <2> DEFINE G == {j \in Nat : j <= n => \A i \in 0 .. j : P(i) <= P(j)}
  <2>1. 0 \in G
    <3>1. \A i \in 0 .. 0 : i = 0
      OBVIOUS
    <3>2. P(0) <= P(0)
      BY <1>3
    <3> QED  BY <3>1, <3>2
  <2>2. ASSUME NEW j \in Nat, j \in G PROVE j + 1 \in G
    <3> SUFFICES ASSUME j + 1 <= n, NEW i \in 0 .. j + 1 PROVE P(i) <= P(j + 1)
      OBVIOUS
    <3>1. j + 1 \in 1 .. n /\ (j + 1) - 1 = j /\ j \in 0 .. n /\ j <= n
      BY <1>1
    <3>2. P(j + 1) = P(j) + lots[j + 1].left
      BY <1>5, <3>1
    <3>3. P(j) \in Nat /\ lots[j + 1].left \in Nat /\ P(i) \in Nat
      BY <1>1, <1>4, <1>6, <3>1
    <3>4. CASE i = j + 1
      BY <3>2, <3>3, <3>4
    <3>5. CASE i # j + 1
      <4>1. i \in 0 .. j
        BY <3>5
      <4>2. P(i) <= P(j)
        BY <2>2, <3>1, <4>1
      <4> QED  BY <3>2, <3>3, <4>2
    <3> QED  BY <3>4, <3>5
  <2> HIDE DEF G
  <2>3. \A j \in Nat : j \in G
    BY <2>1, <2>2, NatSetInduction
  <2>4. ASSUME NEW i \in 0 .. n, NEW j \in 0 .. n, i <= j PROVE P(i) <= P(j)
    <3>1. j \in Nat /\ j <= n /\ i \in 0 .. j
      BY <1>1, <2>4
    <3> QED  BY <2>3, <3>1 DEF G
  <2> QED  BY <2>4
<1> QED  BY <1>3, <1>4, <1>5, <1>6, <1>7 DEF P

\* Taking a quantity from the oldest lots first: up to one of them they are used up,
\* that one gives the rest, and those after it give nothing.
LEMMA FifoSplits ==
    ASSUME NEW lots \in Seq(Lot), NEW q \in Nat \ {0}, q <= LeftOf(lots, DOMAIN lots)
    PROVE  \E k \in DOMAIN lots :
              /\ FifoTake(lots, q)[k] = q - LeftOf(lots, 1 .. k - 1)
              /\ FifoTake(lots, q)[k] \in 1 .. lots[k].left
              /\ \A i \in DOMAIN lots : i < k => FifoTake(lots, q)[i] = lots[i].left
              /\ \A i \in DOMAIN lots : i > k => FifoTake(lots, q)[i] = 0
<1> DEFINE n == Len(lots)
           P(j) == LeftOf(lots, 1 .. j)
           take == FifoTake(lots, q)
<1>1. n \in Nat /\ DOMAIN lots = 1 .. n /\ \A k \in 1 .. n : lots[k].left \in Nat
  BY LotsOf
<1>2. P(0) = 0
  BY FirstLots
<1>3. \A j \in 0 .. n : P(j) \in Nat
  BY <1>1, <1>2, FirstLots
<1>4. \A j \in 1 .. n : P(j) = P(j - 1) + lots[j].left
  BY FirstLots
<1>5. \A i, j \in 0 .. n : i <= j => P(i) <= P(j)
  BY FirstLots
<1>6. q <= P(n)
  BY <1>1
<1>7. \A k \in DOMAIN lots :
         take[k] = IF q <= P(k - 1) THEN 0
                   ELSE IF q - P(k - 1) < lots[k].left THEN q - P(k - 1) ELSE lots[k].left
  BY DEF FifoTake
<1> HIDE DEF P, take, n
<1>8. PICK k \in 1 .. n : ~(q <= P(k - 1)) /\ q <= P(k)
  <2> SUFFICES ASSUME \A k \in 1 .. n : q <= P(k) => q <= P(k - 1) PROVE FALSE
    OBVIOUS
  <2> DEFINE G == {j \in Nat : j <= n => ~(q <= P(j))}
  <2>1. 0 \in G
    BY <1>2
  <2>2. ASSUME NEW j \in Nat, j \in G PROVE j + 1 \in G
    <3> SUFFICES ASSUME j + 1 <= n PROVE ~(q <= P(j + 1))
      OBVIOUS
    <3>1. j + 1 \in 1 .. n /\ (j + 1) - 1 = j /\ j <= n
      BY <1>1
    <3> QED  BY <2>2, <3>1
  <2> HIDE DEF G
  <2>3. n \in G
    BY <1>1, <2>1, <2>2, NatSetInduction
  <2> QED  BY <1>1, <1>6, <2>3 DEF G
<1>9. k - 1 \in 0 .. n /\ k \in 0 .. n /\ k \in DOMAIN lots
  BY <1>1
<1>10. take[k] = q - P(k - 1) /\ take[k] \in 1 .. lots[k].left
  <2>1. P(k) = P(k - 1) + lots[k].left /\ P(k - 1) \in Nat /\ lots[k].left \in Nat
    BY <1>1, <1>3, <1>4, <1>9
  <2>2. take[k] = IF q - P(k - 1) < lots[k].left THEN q - P(k - 1) ELSE lots[k].left
    BY <1>7, <1>8, <1>9
  <2> QED  BY <1>8, <2>1, <2>2
<1>11. ASSUME NEW i \in DOMAIN lots, i < k PROVE take[i] = lots[i].left
  <2>1. i \in 1 .. n /\ i \in 0 .. n /\ i - 1 \in 0 .. n /\ i <= k - 1
    BY <1>1, <1>11
  <2>2. P(i) <= P(k - 1) /\ P(i) = P(i - 1) + lots[i].left
    BY <1>4, <1>5, <1>9, <2>1
  <2>3. P(i) \in Nat /\ P(i - 1) \in Nat /\ P(k - 1) \in Nat /\ lots[i].left \in Nat
    BY <1>1, <1>3, <1>9, <2>1
  <2> QED  BY <1>7, <1>8, <2>2, <2>3
<1>12. ASSUME NEW i \in DOMAIN lots, i > k PROVE take[i] = 0
  <2>1. i \in 1 .. n /\ i - 1 \in 0 .. n /\ k <= i - 1
    BY <1>1, <1>12
  <2>2. P(k) <= P(i - 1) /\ P(k) \in Nat /\ P(i - 1) \in Nat
    BY <1>3, <1>5, <1>9, <2>1
  <2> QED  BY <1>7, <1>8, <2>2
<1> QED  BY <1>9, <1>10, <1>11, <1>12 DEF P, take

\* No lot gives more than it has.
LEMMA FifoTyped ==
    ASSUME NEW lots \in Seq(Lot), NEW q \in Nat
    PROVE  /\ DOMAIN FifoTake(lots, q) = DOMAIN lots
           /\ \A k \in DOMAIN lots : FifoTake(lots, q)[k] \in 0 .. lots[k].left
<1> SUFFICES ASSUME NEW k \in DOMAIN lots
             PROVE  FifoTake(lots, q)[k] \in 0 .. lots[k].left
  BY DEF FifoTake
<1> DEFINE before == LeftOf(lots, 1 .. k - 1)
<1>1. k \in 1 .. Len(lots) /\ before \in Nat /\ lots[k].left \in Nat
  BY LotsOf, FirstLots
<1>2. FifoTake(lots, q)[k] = IF q <= before THEN 0
                             ELSE IF q - before < lots[k].left THEN q - before
                             ELSE lots[k].left
  BY DEF FifoTake
<1> HIDE DEF before
<1> QED  BY <1>1, <1>2

\* What the lots give is what was asked for, if they have it.
LEMMA FifoSum ==
    ASSUME NEW lots \in Seq(Lot), NEW q \in Nat \ {0}, q <= LeftOf(lots, DOMAIN lots)
    PROVE  SumFunctionOnSet(FifoTake(lots, q), DOMAIN lots) = q
<1> DEFINE take == FifoTake(lots, q)
           n == Len(lots)
           left == [i \in DOMAIN lots |-> lots[i].left]
<1>1. PICK k \in DOMAIN lots :
              /\ take[k] = q - LeftOf(lots, 1 .. k - 1)
              /\ take[k] \in 1 .. lots[k].left
              /\ \A i \in DOMAIN lots : i < k => take[i] = lots[i].left
              /\ \A i \in DOMAIN lots : i > k => take[i] = 0
  BY FifoSplits
<1> DEFINE I == 1 .. k - 1
<1>a. /\ n \in Nat /\ DOMAIN lots = 1 .. n /\ k \in 1 .. n
      /\ \A i \in 1 .. n : lots[i].left \in Nat
  BY LotsOf
<1>b. \A i \in 1 .. n : take[i] \in 0 .. lots[i].left /\ left[i] = lots[i].left
  BY <1>a, FifoTyped
<1>2. /\ n \in Nat /\ DOMAIN lots = 1 .. n /\ k \in 1 .. n
      /\ \A i \in 1 .. n : take[i] \in Nat /\ lots[i].left \in Nat /\ left[i] = lots[i].left
  BY <1>a, <1>b
<1> HIDE DEF take, n, left
<1>3. I \subseteq 1 .. n /\ k \notin I /\ IsFiniteSet(I) /\ IsFiniteSet(1 .. n)
  BY <1>2, FS_Interval
<1>4. \A i \in I : i < k /\ i \in DOMAIN lots
  BY <1>2
<1>5. SumFunctionOnSet(left, I) = SumFunctionOnSet(take, I)
  <2>1. \A i \in I : left[i] \in Int /\ left[i] = take[i]
    BY <1>1, <1>2, <1>3, <1>4
  <2> HIDE DEF I
  <2> QED  BY <1>3, <2>1, SumSame
<1>6. LeftOf(lots, 1 .. k - 1) = SumFunctionOnSet(left, I)
  BY Zenon DEF LeftOf, left
<1>7. LeftOf(lots, 1 .. k - 1) \in Nat
  BY <1>2, FirstLots DEF n
<1> DEFINE R == I \cup {k}
<1>8. SumFunctionOnSet(take, R) = q
  <2>1. \A i \in I \cup {k} : take[i] \in Int
    BY <1>2, <1>3
  <2>2. SumFunctionOnSet(take, R) = SumFunctionOnSet(take, I) + take[k]
    <3> HIDE DEF I
    <3> QED  BY <1>3, <2>1, SumAdd
  <2> HIDE DEF I
  <2> QED  BY <1>1, <1>2, <1>5, <1>6, <1>7, <2>2
<1>9. R \in SUBSET (1 .. n) /\ \A i \in (1 .. n) \ R : i > k
  BY <1>2
<1>10. \A i \in (1 .. n) \ R : take[i] = 0
  BY <1>1, <1>2, <1>9
<1> DEFINE S == 1 .. n
<1>11. SumFunctionOnSet(take, S) = SumFunctionOnSet(take, R)
  <2>1. IsFiniteSet(S) /\ R \in SUBSET S /\ \A i \in S \ R : take[i] = 0
    BY <1>3, <1>9, <1>10
  <2>2. \A i \in S : take[i] \in Int
    BY <1>2
  <2> HIDE DEF R, S
  <2> QED  BY <2>1, <2>2, SumPart
<1> QED  BY <1>2, <1>8, <1>11 DEF take

\* The lots after consumeFifo(): the same ones, each with what it gave taken off.
LEMMA ConsumeLots ==
    ASSUME NEW lots \in Seq(Lot), NEW q \in Nat \ {0}, q <= LeftOf(lots, DOMAIN lots),
           NEW new, new = ConsumeFifo(lots, q).lots
    PROVE  /\ ConsumeFifo(lots, q).left = 0
           /\ new \in Seq(Lot) /\ DOMAIN new = DOMAIN lots /\ Len(new) = Len(lots)
           /\ \A k \in DOMAIN lots :
                 /\ new[k].id = lots[k].id /\ new[k].event = lots[k].event
                 /\ new[k].left = lots[k].left - FifoTake(lots, q)[k]
           /\ LeftOf(new, DOMAIN new) = LeftOf(lots, DOMAIN lots) - q
<1> DEFINE take == FifoTake(lots, q)
           n == Len(lots)
<1>1. /\ n \in Nat /\ DOMAIN lots = 1 .. n
      /\ \A k \in 1 .. n : /\ lots[k].id \in Nat /\ lots[k].event \in Nat /\ lots[k].left \in Nat
                           /\ lots[k] \in Lot
      /\ \A k \in 1 .. n : take[k] \in Nat /\ take[k] <= lots[k].left
  BY LotsOf, FifoTyped
<1>2. new = [k \in DOMAIN lots |-> [lots[k] EXCEPT !.left = @ - take[k]]]
  BY DEF ConsumeFifo
<1>3. ConsumeFifo(lots, q).left = q - SumFunctionOnSet(take, DOMAIN lots)
  BY DEF ConsumeFifo
<1>4. SumFunctionOnSet(take, DOMAIN lots) = q
  BY FifoSum
<1> HIDE DEF take, n
<1>5. ASSUME NEW k \in 1 .. n
      PROVE  /\ new[k] \in Lot /\ new[k].id = lots[k].id /\ new[k].event = lots[k].event
             /\ new[k].left = lots[k].left - take[k]
  <2>1. new[k] = [lots[k] EXCEPT !.left = @ - take[k]]
    BY <1>1, <1>2
  <2>2. lots[k].left - take[k] \in Nat
    BY <1>1
  <2> QED  BY <1>1, <2>1, <2>2 DEF Lot
<1>6. new \in Seq(Lot) /\ DOMAIN new = 1 .. n /\ Len(new) = n
  <2>1. DOMAIN new = 1 .. n
    BY <1>1, <1>2
  <2>2. new = [k \in 1 .. n |-> new[k]]
    BY <1>1, <1>2
  <2>3. new \in [1 .. n -> Lot]
    BY <1>5, <2>2
  <2>4. n \in Nat
    BY <1>1
  <2>5. new \in Seq(Lot)
    BY <2>3, <2>4
  <2>6. DOMAIN new = 1 .. Len(new) /\ Len(new) \in Nat
    BY <2>5
  <2>7. Len(new) = n
    BY <2>1, <2>4, <2>6
  <2> QED  BY <2>1, <2>5, <2>7
<1> DEFINE a == [k \in DOMAIN lots |-> lots[k].left]
           b == [k \in DOMAIN new |-> new[k].left]
<1>7. LeftOf(lots, DOMAIN lots) = SumFunctionOnSet(a, 1 .. n)
  BY <1>1, Zenon DEF LeftOf
<1>8. LeftOf(new, DOMAIN new) = SumFunctionOnSet(b, 1 .. n)
  BY <1>6, Zenon DEF LeftOf
<1>9. \A k \in 1 .. n : b[k] \in Int /\ take[k] \in Int /\ a[k] = b[k] + take[k]
  BY <1>1, <1>5, <1>6
<1>10. IsFiniteSet(1 .. n)
  BY <1>1, RangeFinite
<1> HIDE DEF a, b
<1>11. SumFunctionOnSet(a, 1 .. n) = SumFunctionOnSet(b, 1 .. n) + SumFunctionOnSet(take, 1 .. n)
  <2> DEFINE S == 1 .. n
  <2>1. IsFiniteSet(S) /\ \A k \in S : b[k] \in Int /\ take[k] \in Int /\ a[k] = b[k] + take[k]
    BY <1>9, <1>10
  <2> HIDE DEF S
  <2>2. SumFunctionOnSet(a, S) = SumFunctionOnSet(b, S) + SumFunctionOnSet(take, S)
    BY <2>1, SumOfSums
  <2> QED  BY <2>2 DEF S
<1>12. SumFunctionOnSet(b, 1 .. n) \in Int /\ SumFunctionOnSet(take, 1 .. n) = q
  BY <1>1, <1>4, <1>9, <1>10, SumType
<1>13. LeftOf(new, DOMAIN new) = LeftOf(lots, DOMAIN lots) - q
  BY <1>7, <1>8, <1>11, <1>12
<1> QED  BY <1>1, <1>3, <1>4, <1>5, <1>6, <1>13 DEF take, n

DistinctIds(lots) == \A k, l \in DOMAIN lots : lots[k].id = lots[l].id => k = l

\* The lots that gave something, each with what it gave.
Names(used, lots, q) ==
    /\ \A lot \in DOMAIN used : \E k \in DOMAIN lots : lots[k].id = lot
    /\ \A lot \in DOMAIN used : used[lot] \in Nat
    /\ \A k \in DOMAIN lots :
          (IF lots[k].id \in DOMAIN used THEN used[lots[k].id] ELSE 0) = FifoTake(lots, q)[k]

\* What consumeFifo() names: the lots that gave something, each with what it gave.
LEMMA ConsumedNames ==
    ASSUME NEW lots \in Seq(Lot), NEW q \in Nat, DistinctIds(lots)
    PROVE  Names(ConsumeFifo(lots, q).consumed, lots, q)
<1> DEFINE take == FifoTake(lots, q)
           gave == {k \in DOMAIN lots : take[k] > 0}
           used == ConsumeFifo(lots, q).consumed
<1>1. used = [lot \in {lots[k].id : k \in gave} |-> take[CHOOSE k \in gave : lots[k].id = lot]]
  BY DEF ConsumeFifo
<1>2. \A k \in DOMAIN lots : take[k] \in Nat
  BY LotsOf, FifoTyped
<1>a. \A k, l \in DOMAIN lots : lots[k].id = lots[l].id => k = l
  BY DEF DistinctIds
<1> HIDE DEF take, used
<1>3. ASSUME NEW k \in gave PROVE lots[k].id \in DOMAIN used /\ used[lots[k].id] = take[k]
  <2> DEFINE c == CHOOSE l \in gave : lots[l].id = lots[k].id
  <2>1. c \in gave /\ lots[c].id = lots[k].id
    OBVIOUS
  <2>2. c = k
    BY <1>a, <2>1
  <2>3. lots[k].id \in {lots[l].id : l \in gave}
    OBVIOUS
  <2>4. used[lots[k].id] = take[c]
    BY <1>1, <2>3
  <2>5. lots[k].id \in DOMAIN used
    BY <1>1, <2>3
  <2> HIDE DEF c
  <2> QED  BY <2>2, <2>4, <2>5
<1>4. \A lot \in DOMAIN used : \E k \in gave : lots[k].id = lot
  BY <1>1
<1>5. \A k \in DOMAIN lots : k \notin gave => lots[k].id \notin DOMAIN used
  BY <1>a, <1>4
<1>6. \A lot \in DOMAIN used : used[lot] \in Nat
  BY <1>2, <1>3, <1>4
<1> QED  BY <1>2, <1>3, <1>4, <1>5, <1>6 DEF take, used, Names

-----------------------------------------------------------------------------
\* The replay of a ledger, one event at a time.

\* A nonempty set of numbers up to n has a greatest one.
LEMMA Greatest ==
    ASSUME NEW n \in Nat, NEW s \in SUBSET (1 .. n), s # {}
    PROVE  Max(s) \in s /\ \A x \in s : x <= Max(s)
<1> DEFINE G == {m \in Nat : \A t \in SUBSET (1 .. m) : t # {} => \E x \in t : \A y \in t : x >= y}
<1>1. 0 \in G
  <2>1. 1 .. 0 = {}
    OBVIOUS
  <2> QED  BY <2>1
<1>2. ASSUME NEW m \in Nat, m \in G PROVE m + 1 \in G
  <2> SUFFICES ASSUME NEW t \in SUBSET (1 .. m + 1), t # {}
               PROVE  \E x \in t : \A y \in t : x >= y
    OBVIOUS
  <2>1. CASE m + 1 \in t
    <3>1. \A y \in t : m + 1 >= y
      OBVIOUS
    <3> QED  BY <2>1, <3>1
  <2>2. CASE m + 1 \notin t
    <3>1. t \in SUBSET (1 .. m)
      <4>1. \A y \in t : y \in 1 .. m
        BY <2>2
      <4> QED  BY <4>1
    <3> QED  BY <1>2, <3>1
  <2> QED  BY <2>1, <2>2
<1> HIDE DEF G
<1>3. n \in G
  BY <1>1, <1>2, NatSetInduction
<1>4. \E x \in s : \A y \in s : x >= y
  BY <1>3 DEF G
<1>5. Max(s) \in s /\ \A y \in s : Max(s) >= y
  BY <1>4 DEF Max
<1>6. \A x \in s : x \in Int
  OBVIOUS
<1> QED  BY <1>5, <1>6

\* The recursive function by which the replay is computed.
IsReplay(it, log, S) ==
    it = [s \in SUBSET S |->
            IF s = {} THEN NothingHeld ELSE ReplayEvent(it[s \ {Max(s)}], log[Max(s)])]

LEMMA IsReplayUnique ==
    ASSUME NEW log, NEW n \in Nat, NEW a, NEW b, IsReplay(a, log, 1 .. n), IsReplay(b, log, 1 .. n)
    PROVE  a = b
<1> DEFINE S == 1 .. n
           G == {s \in SUBSET S : a[s] = b[s]}
<1>1. {} \in G
  BY DEF IsReplay
<1>2. ASSUME NEW s \in SUBSET S, s # {}
      PROVE  /\ Max(s) \in s /\ s \ {Max(s)} \in SUBSET S
             /\ a[s] = ReplayEvent(a[s \ {Max(s)}], log[Max(s)])
             /\ b[s] = ReplayEvent(b[s \ {Max(s)}], log[Max(s)])
  <2>1. Max(s) \in s
    BY <1>2, Greatest
  <2> QED  BY <1>2, <2>1 DEF IsReplay
<1>3. IsFiniteSet(S)
  BY RangeFinite
<1> DEFINE B == {s \in SUBSET S : s \notin G}
<1> HIDE DEF S
<1>4. B = {}
  <2> SUFFICES ASSUME B # {} PROVE FALSE
    OBVIOUS
  <2>1. B \subseteq SUBSET S
    OBVIOUS
  <2>2. PICK T \in B : \A U \in B : ~(U \subseteq T /\ U # T)
    <3> HIDE DEF B
    <3> QED  BY <1>3, <2>1, SmallestSubset
  <2>3. T # {} /\ T \in SUBSET S
    BY <1>1, <2>2
  <2> DEFINE x == Max(T)
  <2>4. x \in T /\ T \ {x} \in SUBSET S
    BY <1>2, <2>3
  <2>5. a[T] = ReplayEvent(a[T \ {x}], log[x]) /\ b[T] = ReplayEvent(b[T \ {x}], log[x])
    BY <1>2, <2>3
  <2> HIDE DEF x
  <2>6. T \ {x} \notin B
    BY <2>2, <2>4
  <2>7. a[T \ {x}] = b[T \ {x}]
    BY <2>4, <2>6
  <2>8. T \in G
    BY <2>3, <2>5, <2>7
  <2> QED  BY <2>2, <2>8
<1>5. \A s \in SUBSET S : a[s] = b[s]
  BY <1>4
<1>6. a = [s \in SUBSET S |-> a[s]] /\ b = [s \in SUBSET S |-> b[s]]
  BY DEF IsReplay, S
<1> QED  BY <1>5, <1>6

LEMMA IsReplayExists ==
    ASSUME NEW log, NEW n \in Nat
    PROVE  \E it : IsReplay(it, log, 1 .. n)
<1> DEFINE G == {m \in Nat : \E it : IsReplay(it, log, 1 .. m)}
<1>1. 0 \in G
  <2> DEFINE it == [s \in SUBSET (1 .. 0) |-> NothingHeld]
  <2>1. \A s \in SUBSET (1 .. 0) : s = {}
    OBVIOUS
  <2>2. it = [s \in SUBSET (1 .. 0) |->
                 IF s = {} THEN NothingHeld ELSE ReplayEvent(it[s \ {Max(s)}], log[Max(s)])]
    BY <2>1
  <2>3. IsReplay(it, log, 1 .. 0)
    BY <2>2 DEF IsReplay
  <2> QED  BY <2>3
<1>2. ASSUME NEW m \in Nat, m \in G PROVE m + 1 \in G
  <2>1. PICK it : IsReplay(it, log, 1 .. m)
    BY <1>2
  <2> DEFINE S == 1 .. m + 1
             h == [s \in SUBSET S |-> IF m + 1 \in s
                                      THEN ReplayEvent(it[s \ {m + 1}], log[m + 1]) ELSE it[s]]
  <2>2. \A s \in SUBSET S : m + 1 \notin s => s \in SUBSET (1 .. m)
    <3> SUFFICES ASSUME NEW s \in SUBSET S, m + 1 \notin s, NEW y \in s PROVE y \in 1 .. m
      OBVIOUS
    <3> QED  OBVIOUS
  <2>3. \A s \in SUBSET S : s \ {m + 1} \in SUBSET S /\ m + 1 \notin s \ {m + 1}
    OBVIOUS
  <2>4. \A s \in SUBSET S : m + 1 \in s => Max(s) = m + 1
    <3> SUFFICES ASSUME NEW s \in SUBSET S, m + 1 \in s PROVE Max(s) = m + 1
      OBVIOUS
    <3>1. m + 1 \in Nat /\ s # {}
      OBVIOUS
    <3>2. Max(s) \in s /\ \A x \in s : x <= Max(s)
      BY <3>1, Greatest
    <3>3. Max(s) \in 1 .. m + 1 /\ m + 1 <= Max(s)
      BY <3>2
    <3> QED  BY <3>3
  <2>5. ASSUME NEW s \in SUBSET S
        PROVE  h[s] = IF s = {} THEN NothingHeld
                      ELSE ReplayEvent(h[s \ {Max(s)}], log[Max(s)])
    <3>1. CASE m + 1 \in s
      <4>1. h[s] = ReplayEvent(it[s \ {m + 1}], log[m + 1])
        BY <3>1
      <4>2. h[s \ {m + 1}] = it[s \ {m + 1}]
        BY <2>3
      <4>3. s # {} /\ Max(s) = m + 1
        BY <2>4, <3>1
      <4> HIDE DEF h
      <4> QED  BY <4>1, <4>2, <4>3
    <3>2. CASE m + 1 \notin s
      <4>1. s \in SUBSET (1 .. m)
        BY <2>2, <3>2
      <4>2. h[s] = it[s]
        BY <3>2
      <4>3. h[s \ {Max(s)}] = it[s \ {Max(s)}]
        BY <3>2
      <4>4. it[s] = IF s = {} THEN NothingHeld
                    ELSE ReplayEvent(it[s \ {Max(s)}], log[Max(s)])
        BY <2>1, <4>1 DEF IsReplay
      <4> HIDE DEF h
      <4> QED  BY <4>2, <4>3, <4>4
    <3> QED  BY <3>1, <3>2
  <2>6. h = [s \in SUBSET S |-> h[s]]
    OBVIOUS
  <2> HIDE DEF h
  <2>7. IsReplay(h, log, 1 .. m + 1)
    BY <2>5, <2>6 DEF IsReplay
  <2> QED  BY <2>7
<1> HIDE DEF G
<1>3. n \in G
  BY <1>1, <1>2, NatSetInduction
<1> QED  BY <1>3 DEF G

LEMMA ReplayIs ==
    ASSUME NEW log, NEW n \in Nat, DOMAIN log = 1 .. n
    PROVE  \E it : IsReplay(it, log, 1 .. n) /\ Replay(log) = it[1 .. n]
<1> DEFINE it == CHOOSE it :
                    it = [s \in SUBSET (1 .. n) |->
                            IF s = {} THEN NothingHeld
                            ELSE ReplayEvent(it[s \ {Max(s)}], log[Max(s)])]
<1>1. \E f : IsReplay(f, log, 1 .. n)
  BY IsReplayExists
<1>2. IsReplay(it, log, 1 .. n)
  BY <1>1 DEF IsReplay
<1>3. Replay(log) = it[1 .. n]
  BY DEF Replay, FoldLeft, MapThenFoldSet
<1> QED  BY <1>2, <1>3

\* An empty ledger holds nothing.
LEMMA ReplayEmpty == Replay(<<>>) = NothingHeld
<1>1. DOMAIN <<>> = 1 .. 0 /\ 0 \in Nat /\ 1 .. 0 = {}
  OBVIOUS
<1>2. PICK it : IsReplay(it, <<>>, 1 .. 0) /\ Replay(<<>>) = it[1 .. 0]
  BY <1>1, ReplayIs
<1> QED  BY <1>1, <1>2 DEF IsReplay

\* The replay depends on nothing but the events up to it, and takes the last one last.
LEMMA ReplayLast ==
    ASSUME NEW log, NEW more, NEW n \in Nat, DOMAIN log = 1 .. n, DOMAIN more = 1 .. n + 1,
           \A i \in 1 .. n : more[i] = log[i]
    PROVE  Replay(more) = ReplayEvent(Replay(log), more[n + 1])
<1> DEFINE S == 1 .. n
           M == 1 .. n + 1
<1>1. n + 1 \in Nat
  OBVIOUS
<1>2. PICK a : IsReplay(a, more, M) /\ Replay(more) = a[M]
  BY <1>1, ReplayIs
<1>3. PICK b : IsReplay(b, log, S) /\ Replay(log) = b[S]
  BY ReplayIs
<1>4. M # {} /\ M \in SUBSET M /\ n + 1 \in M /\ M \ {n + 1} = S /\ S \in SUBSET M /\ S \in SUBSET S
  OBVIOUS
<1>5. Max(M) = n + 1
  <2>1. Max(M) \in M /\ \A x \in M : x <= Max(M)
    BY <1>1, <1>4, Greatest
  <2> QED  BY <1>4, <2>1
<1>6. a[M] = ReplayEvent(a[S], more[n + 1])
  <2> HIDE DEF M, S
  <2> QED  BY <1>2, <1>4, <1>5 DEF IsReplay
<1> DEFINE c == [s \in SUBSET S |-> a[s]]
<1>7. ASSUME NEW s \in SUBSET S
      PROVE  c[s] = IF s = {} THEN NothingHeld ELSE ReplayEvent(c[s \ {Max(s)}], log[Max(s)])
  <2>1. CASE s = {}
    BY <1>2, <2>1 DEF IsReplay
  <2>2. CASE s # {}
    <3>1. Max(s) \in s
      BY <2>2, Greatest
    <3>2. a[s] = ReplayEvent(a[s \ {Max(s)}], more[Max(s)])
      <4>1. s \in SUBSET M
        OBVIOUS
      <4> HIDE DEF M, S
      <4> QED  BY <1>2, <2>2, <4>1 DEF IsReplay
    <3>3. more[Max(s)] = log[Max(s)]
      BY <3>1
    <3>4. c[s] = a[s] /\ c[s \ {Max(s)}] = a[s \ {Max(s)}]
      OBVIOUS
    <3> HIDE DEF c
    <3> QED  BY <2>2, <3>2, <3>3, <3>4
  <2> QED  BY <2>1, <2>2
<1>8. c = [s \in SUBSET S |-> c[s]]
  OBVIOUS
<1>9. c[S] = a[S]
  BY <1>4
<1> HIDE DEF c
<1>10. IsReplay(c, log, S)
  BY <1>7, <1>8 DEF IsReplay
<1>11. c = b
  BY <1>3, <1>10, IsReplayUnique
<1> QED  BY <1>2, <1>3, <1>6, <1>9, <1>11

-----------------------------------------------------------------------------
\* What is held, and what the ledger says of it.

Position == [open : BOOLEAN, openQty : Nat, lots : Seq(Lot)]

\* The status, the open quantity and the lots of a position agree.
Sound(p) ==
    /\ p \in Position
    /\ p.openQty = LeftOf(p.lots, DOMAIN p.lots)
    /\ p.open <=> p.openQty > 0
    /\ DistinctIds(p.lots)

HeldTyped ==
    /\ held.ok
    /\ held.last \in 0 .. now
    /\ DOMAIN held.positions = 1 .. counters.position
    /\ \A p \in DOMAIN held.positions : Sound(held.positions[p])

\* What an event bears, by its kind.
WellFormed(e, issued) ==
    /\ e.kind \in AddKinds \cup ExitKinds
    /\ e.at \in 0 .. End
    /\ e.position \in 1 .. issued.position
    /\ e.qty \in Nat \ {0}
    /\ e.kind \in AddKinds => e.lot \in 1 .. issued.lot
    /\ e.kind \in ExitKinds =>
          /\ e.lot = None
          /\ DOMAIN e.consumed \subseteq 1 .. issued.lot
          /\ \A lot \in DOMAIN e.consumed : e.consumed[lot] \in Nat
    /\ e.kind \in {"open", "increase"} => e.data \in CommitData
    /\ e.kind \in {"reduce", "close"} => e.data \in ExitData
    /\ e.kind \in {"rollIn", "rollOut", "settlement", "exercise"} => e.data = None

EventsTyped ==
    /\ counters \in [{"event", "position", "lot"} -> Nat]
    /\ counters.event = Len(events)
    /\ \A n \in DOMAIN events : events[n].id = n /\ WellFormed(events[n], counters)

Adds == {n \in DOMAIN events : events[n].kind \in AddKinds}

\* Every position began with an event that opened it, and with a plan or without.
PositionsBegun ==
    /\ \A p \in DOMAIN held.positions : \E m \in DOMAIN events :
          events[m].kind \in OpenKinds /\ events[m].position = p
    /\ \A n \in DOMAIN events : \E m \in 1 .. n :
          events[m].kind \in OpenKinds /\ events[m].position = events[n].position
    /\ \A m, n \in Adds : events[m].position = events[n].position =>
          (events[m].kind = "rollIn" => events[n].kind = "rollIn")

\* The lots that are held are those that events added, less what exits took.
LotsKept ==
    /\ \A p \in DOMAIN held.positions : \A k \in DOMAIN held.positions[p].lots :
          LET lot == held.positions[p].lots[k] IN
          /\ lot.event \in Adds
          /\ events[lot.event].position = p
          /\ events[lot.event].lot = lot.id
          /\ lot.left = events[lot.event].qty - Taken(lot.event, AllExits)
    /\ \A n \in Adds : \E k \in DOMAIN held.positions[events[n].position].lots :
          held.positions[events[n].position].lots[k].event = n
    /\ \A m, n \in Adds : events[m].lot = events[n].lot => m = n

PlanTyped ==
    /\ state \in {"draft", "active", "closed"}
    /\ now \in 0 .. End
    /\ targets \in Targets \cup {None}
    /\ mission \in Missions \cup {None}
    /\ targets # None => SumFunctionOnSet(targets, DOMAIN targets) <= AllocatableRial
    /\ IF state = "draft" THEN locked = None
       ELSE /\ locked \in [targets : Targets, mission : Missions]
            /\ SumFunctionOnSet(locked.targets, DOMAIN locked.targets) <= AllocatableRial

-----------------------------------------------------------------------------
\* A new lot of a position it grows by, at the end of its row.
LEMMA Increased ==
    ASSUME NEW p, Sound(p), p.open, NEW e, e.kind = "increase",
           e.lot \in Nat, e.id \in Nat, e.qty \in Nat \ {0},
           \A k \in DOMAIN p.lots : p.lots[k].id # e.lot,
           NEW new, new = Changed(p, e)
    PROVE  /\ Sound(new)
           /\ Len(p.lots) \in Nat /\ DOMAIN p.lots = 1 .. Len(p.lots)
           /\ DOMAIN new.lots = 1 .. Len(p.lots) + 1
           /\ \A k \in DOMAIN p.lots : new.lots[k] = p.lots[k]
           /\ new.lots[Len(p.lots) + 1] = NewLot(e)
           /\ new.lots = Append(p.lots, NewLot(e))
<1> DEFINE lots == p.lots
           n == Len(lots)
           lot == NewLot(e)
<1>1. p \in Position /\ lots \in Seq(Lot) /\ p.openQty \in Nat /\ p.openQty = LeftOf(lots, DOMAIN lots)
  BY DEF Sound, Position
<1>2. n \in Nat /\ DOMAIN lots = 1 .. n /\ \A k \in 1 .. n : lots[k].left \in Nat
  BY <1>1, LotsOf
<1>3. lot \in Lot /\ lot.id = e.lot /\ lot.left = e.qty
  BY DEF NewLot, Lot
<1>4. new = [p EXCEPT !.openQty = @ + e.qty, !.lots = Append(@, lot)]
  BY DEF Changed
<1> HIDE DEF lot
<1>5. /\ new \in [open : BOOLEAN, openQty : Nat, lots : Seq(Lot)]
      /\ new.open = p.open /\ new.openQty = p.openQty + e.qty /\ new.lots = Append(lots, lot)
  <2>1. p.openQty + e.qty \in Nat /\ Append(lots, lot) \in Seq(Lot)
    BY <1>1, <1>3
  <2> QED  BY <1>1, <1>4, <2>1 DEF Position
<1> DEFINE row == Append(lots, lot)
<1>6. /\ DOMAIN row = 1 .. n + 1 /\ row[n + 1] = lot /\ \A k \in 1 .. n : row[k] = lots[k]
      /\ row \in Seq(Lot)
  BY <1>1, <1>3
<1>7. LeftOf(row, DOMAIN row) = LeftOf(lots, DOMAIN lots) + e.qty
  <2> DEFINE f == [k \in DOMAIN row |-> row[k].left]
             g == [k \in DOMAIN lots |-> lots[k].left]
             S == 1 .. n
  <2>1. /\ \A k \in S : g[k] \in Nat /\ f[k] = g[k]
        /\ f[n + 1] = e.qty
    BY <1>2, <1>3, <1>6
  <2>2. IsFiniteSet(S) /\ n + 1 \notin S /\ DOMAIN row = S \cup {n + 1} /\ DOMAIN lots = S
    BY <1>2, <1>6, RangeFinite
  <2>3. LeftOf(row, DOMAIN row) = SumFunctionOnSet(f, S \cup {n + 1})
    BY <2>2, Zenon DEF LeftOf
  <2>4. LeftOf(lots, DOMAIN lots) = SumFunctionOnSet(g, S)
    BY <2>2, Zenon DEF LeftOf
  <2> HIDE DEF f, g, S
  <2>5. \A k \in S \cup {n + 1} : f[k] \in Int
    BY <2>1
  <2>6. SumFunctionOnSet(f, S \cup {n + 1}) = SumFunctionOnSet(f, S) + f[n + 1]
    BY <2>2, <2>5, SumAdd
  <2>7. SumFunctionOnSet(g, S) = SumFunctionOnSet(f, S)
    BY <2>1, <2>2, SumSame
  <2> QED  BY <2>1, <2>3, <2>4, <2>6, <2>7
<1>8. DistinctIds(row)
  <2>1. \A k, l \in DOMAIN lots : lots[k].id = lots[l].id => k = l
    BY DEF Sound, DistinctIds
  <2>2. \A k \in 1 .. n + 1 : k \in 1 .. n \/ k = n + 1
    BY <1>2
  <2> QED  BY <1>2, <1>3, <1>6, <2>1, <2>2 DEF DistinctIds
<1>9. p.openQty + e.qty > 0
  BY <1>1
<1>10. new.open <=> new.openQty > 0
  BY <1>5, <1>9
<1>11. Sound(new)
  BY <1>1, <1>5, <1>7, <1>8, <1>10 DEF Sound, Position
<1> QED  BY <1>2, <1>5, <1>6, <1>11 DEF lot

\* A position after an exit: what the exit asks for comes off its first lots.
LEMMA Reduced ==
    ASSUME NEW p, Sound(p), NEW e, e.kind \in ExitKinds, e.qty \in 1 .. p.openQty,
           NEW new, new = Changed(p, e)
    PROVE  /\ Sound(new)
           /\ ConsumeFifo(p.lots, e.qty).left = 0
           /\ DOMAIN new.lots = DOMAIN p.lots
           /\ \A k \in DOMAIN p.lots :
                 /\ new.lots[k].id = p.lots[k].id /\ new.lots[k].event = p.lots[k].event
                 /\ new.lots[k].left = p.lots[k].left - FifoTake(p.lots, e.qty)[k]
<1> DEFINE lots == p.lots
           row == ConsumeFifo(lots, e.qty).lots
<1>1. p \in Position /\ lots \in Seq(Lot) /\ p.openQty \in Nat /\ p.openQty = LeftOf(lots, DOMAIN lots)
  BY DEF Sound, Position
<1>2. e.qty \in Nat \ {0} /\ e.qty <= LeftOf(lots, DOMAIN lots)
  BY <1>1
<1>3. /\ ConsumeFifo(lots, e.qty).left = 0
      /\ row \in Seq(Lot) /\ DOMAIN row = DOMAIN lots
      /\ \A k \in DOMAIN lots :
            /\ row[k].id = lots[k].id /\ row[k].event = lots[k].event
            /\ row[k].left = lots[k].left - FifoTake(lots, e.qty)[k]
      /\ LeftOf(row, DOMAIN row) = LeftOf(lots, DOMAIN lots) - e.qty
  BY <1>1, <1>2, ConsumeLots
<1>4. new = [open |-> p.openQty # e.qty, openQty |-> p.openQty - e.qty, lots |-> row]
  BY DEF Changed, ExitKinds, PartialCloseKinds, FullCloseKinds
<1> HIDE DEF row
<1>5. p.openQty - e.qty \in Nat /\ (p.openQty # e.qty <=> p.openQty - e.qty > 0)
  BY <1>1
<1>6. new \in Position
  BY <1>3, <1>4, <1>5 DEF Position
<1>7. DistinctIds(row)
  BY <1>3 DEF Sound, DistinctIds
<1>8. /\ new.lots = row /\ new.openQty = p.openQty - e.qty
      /\ new.open = (p.openQty # e.qty)
  BY <1>4
<1>9. new.openQty = LeftOf(row, DOMAIN row)
  BY <1>1, <1>3, <1>8
<1>10. new.open <=> new.openQty > 0
  BY <1>5, <1>8
<1>11. Sound(new)
  BY <1>6, <1>7, <1>8, <1>9, <1>10 DEF Sound
<1> QED  BY <1>3, <1>4, <1>11

\* A position as an event opens it.
LEMMA Opened ==
    ASSUME NEW e, e.lot \in Nat, e.id \in Nat, e.qty \in Nat \ {0}
    PROVE  Sound([open |-> TRUE, openQty |-> e.qty, lots |-> <<NewLot(e)>>])
<1> DEFINE lots == <<NewLot(e)>>
           f == [k \in DOMAIN lots |-> lots[k].left]
<1>1. NewLot(e) \in Lot /\ NewLot(e).left = e.qty
  BY DEF NewLot, Lot
<1>2. lots \in Seq(Lot) /\ DOMAIN lots = {1} /\ lots[1] = NewLot(e)
  BY <1>1
<1>3. LeftOf(lots, DOMAIN lots) = e.qty
  <2>1. f[1] = e.qty /\ e.qty \in Int
    BY <1>1, <1>2
  <2>2. LeftOf(lots, DOMAIN lots) = SumFunctionOnSet(f, {} \cup {1})
    BY <1>2, Zenon DEF LeftOf
  <2>3. IsFiniteSet({})
    BY FS_EmptySet
  <2>4. \A k \in {} \cup {1} : f[k] \in Int
    BY <2>1
  <2> HIDE DEF f
  <2>5. SumFunctionOnSet(f, {} \cup {1}) = SumFunctionOnSet(f, {}) + f[1]
    BY <2>3, <2>4, SumAdd
  <2> QED  BY <2>1, <2>2, <2>5, SumEmpty
<1> DEFINE p == [open |-> TRUE, openQty |-> e.qty, lots |-> lots]
<1> HIDE DEF lots
<1>4. p \in Position /\ p.open /\ p.openQty = e.qty /\ p.lots = lots /\ e.qty > 0
  BY <1>2 DEF Position
<1>5. DistinctIds(lots)
  BY <1>2 DEF DistinctIds
<1> HIDE DEF p
<1>6. Sound(p)
  BY <1>3, <1>4, <1>5 DEF Sound
<1> QED  BY <1>6 DEF p, lots

-----------------------------------------------------------------------------
\* What the replay of one more event does to the positions.
LEMMA ReplayEventTakes ==
    ASSUME NEW r, r.ok, NEW e, Replayable(r, e), NEW next, next = ReplayEvent(r, e)
    PROVE  /\ next.ok /\ next.last = e.at
           /\ DOMAIN next.positions = DOMAIN r.positions \cup {e.position}
           /\ next.positions[e.position] =
                 (IF e.kind \in OpenKinds
                  THEN [open |-> TRUE, openQty |-> e.qty, lots |-> <<NewLot(e)>>]
                  ELSE Changed(r.positions[e.position], e))
           /\ \A p \in DOMAIN r.positions :
                 p # e.position => next.positions[p] = r.positions[p]
<1>1. next = [ok |-> TRUE, last |-> e.at,
              positions |-> [p \in DOMAIN r.positions \cup {e.position} |->
                  IF p # e.position THEN r.positions[p]
                  ELSE IF e.kind \in OpenKinds
                  THEN [open |-> TRUE, openQty |-> e.qty, lots |-> <<NewLot(e)>>]
                  ELSE Changed(r.positions[p], e)]]
  BY DEF ReplayEvent
<1> QED  BY <1>1

LEMMA ReplayEventRefuses ==
    ASSUME NEW r, NEW e, ReplayEvent(r, e).ok
    PROVE  r.ok /\ Replayable(r, e)
<1> SUFFICES ASSUME ~r.ok \/ ~Replayable(r, e) PROVE FALSE
  OBVIOUS
<1>1. ReplayEvent(r, e) = [r EXCEPT !.ok = FALSE]
  BY DEF ReplayEvent
<1> QED  BY <1>1

-----------------------------------------------------------------------------
\* The invariant of the ledger and the positions, and one more event.

UsedBy(e, lot) == IF lot \in DOMAIN e.consumed THEN e.consumed[lot] ELSE 0
TakenIn(log, lot, X) == SumFunctionOnSet([m \in X |-> UsedBy(log[m], lot)], X)

LEMMA TakenByLot == \A n, X : Taken(n, X) = TakenIn(events, events[n].lot, X)
BY DEF Taken, Used, UsedBy, TakenIn

\* What exits took from a lot does not depend on later events.
LEMMA TakenInSame ==
    ASSUME NEW log, NEW more, NEW lot, NEW X, \A m \in X : more[m] = log[m]
    PROVE  TakenIn(more, lot, X) = TakenIn(log, lot, X)
<1>1. [m \in X |-> UsedBy(more[m], lot)] = [m \in X |-> UsedBy(log[m], lot)]
  OBVIOUS
<1> QED  BY <1>1 DEF TakenIn

LEMMA TakenInType ==
    ASSUME NEW log, NEW lot, NEW X, IsFiniteSet(X), \A m \in X : UsedBy(log[m], lot) \in Nat
    PROVE  TakenIn(log, lot, X) \in Nat
<1> DEFINE f == [m \in X |-> UsedBy(log[m], lot)]
<1>1. \A m \in X : f[m] \in Nat
  OBVIOUS
<1> HIDE DEF f
<1>2. SumFunctionOnSet(f, X) \in Nat
  BY <1>1, SumNat
<1> QED  BY <1>2 DEF TakenIn, f

\* One more exit takes what it names.
LEMMA TakenInMore ==
    ASSUME NEW log, NEW lot, NEW X, IsFiniteSet(X), NEW x, x \notin X,
           \A m \in X \cup {x} : UsedBy(log[m], lot) \in Nat
    PROVE  TakenIn(log, lot, X \cup {x}) = TakenIn(log, lot, X) + UsedBy(log[x], lot)
<1> DEFINE f == [m \in X \cup {x} |-> UsedBy(log[m], lot)]
           g == [m \in X |-> UsedBy(log[m], lot)]
<1>1. \A m \in X : f[m] \in Int /\ f[m] = g[m]
  OBVIOUS
<1>2. \A m \in X \cup {x} : f[m] \in Int
  OBVIOUS
<1>3. f[x] = UsedBy(log[x], lot)
  OBVIOUS
<1> HIDE DEF f, g
<1>4. SumFunctionOnSet(f, X \cup {x}) = SumFunctionOnSet(f, X) + f[x]
  BY <1>2, SumAdd
<1>5. SumFunctionOnSet(f, X) = SumFunctionOnSet(g, X)
  BY <1>1, SumSame
<1> QED  BY <1>3, <1>4, <1>5, Zenon DEF TakenIn, f, g

LEMMA TakenInNone ==
    ASSUME NEW log, NEW lot, NEW X, IsFiniteSet(X), \A m \in X : UsedBy(log[m], lot) = 0
    PROVE  TakenIn(log, lot, X) = 0
<1> DEFINE f == [m \in X |-> UsedBy(log[m], lot)]
<1>1. \A m \in X : f[m] = 0
  OBVIOUS
<1> HIDE DEF f
<1>2. SumFunctionOnSet(f, X) = 0
  BY <1>1, SumZero
<1> QED  BY <1>2 DEF TakenIn, f

-----------------------------------------------------------------------------
BookInv == HeldTyped /\ EventsTyped /\ PositionsBegun /\ LotsKept

\* A transaction that is recorded: one more event, well formed, fresh ids, and the
\* replay takes it.
Recorded(e) ==
    /\ UNCHANGED <<state, now, plan>> /\ state = "active"
    /\ events' = Append(events, e)
    /\ Len(events) \in Nat /\ DOMAIN events = 1 .. Len(events)
    /\ Len(events') = Len(events) + 1 /\ DOMAIN events' = 1 .. Len(events) + 1
    /\ \A n \in 1 .. Len(events) : events'[n] = events[n]
    /\ events'[Len(events) + 1] = e
    /\ e.id = Len(events) + 1 /\ e.at = now
    /\ counters' \in [{"event", "position", "lot"} -> Nat]
    /\ counters'.event = Len(events) + 1
    /\ counters'.position = counters.position + (IF e.kind \in OpenKinds THEN 1 ELSE 0)
    /\ counters'.lot = counters.lot + (IF e.kind \in AddKinds THEN 1 ELSE 0)
    /\ WellFormed(e, counters')
    /\ e.kind \in AddKinds => e.lot = counters.lot + 1
    /\ IF e.kind \in OpenKinds THEN e.position = counters.position + 1
       ELSE e.position \in DOMAIN held.positions /\ held.positions[e.position].open
    /\ e.kind \in ExitKinds =>
          /\ e.qty \in 1 .. held.positions[e.position].openQty
          /\ e.consumed = ConsumeFifo(held.positions[e.position].lots, e.qty).consumed
    /\ held.ok /\ Replayable(held, e) /\ held' = ReplayEvent(held, e)

\* Increases add to a position that a plan opened.
OfPlan(e) ==
    e.kind = "increase" =>
        \E n \in DOMAIN events : /\ events[n].kind = "open"
                                 /\ events[n].position = e.position

LEMMA CountersType == EventsTyped => counters.position \in Nat /\ counters.lot \in Nat /\ counters.event \in Nat
BY DEF EventsTyped

LEMMA EventsTypedGrows ==
    ASSUME BookInv, NEW e, Recorded(e)
    PROVE  EventsTyped'
<1>1. /\ counters.position \in Nat /\ counters.lot \in Nat
      /\ counters'.position \in Nat /\ counters'.lot \in Nat
      /\ counters'.position >= counters.position /\ counters'.lot >= counters.lot
  BY CountersType DEF BookInv, Recorded
<1>2. 1 .. counters.position \subseteq 1 .. counters'.position /\ 1 .. counters.lot \subseteq 1 .. counters'.lot
  BY <1>1
<1>3. ASSUME NEW n \in DOMAIN events' PROVE events'[n].id = n /\ WellFormed(events'[n], counters')
  <2>1. CASE n = Len(events) + 1
    BY <2>1 DEF Recorded
  <2>2. CASE n # Len(events) + 1
    <3>1. n \in DOMAIN events /\ events'[n] = events[n]
      BY <2>2 DEF Recorded
    <3>2. events[n].id = n /\ WellFormed(events[n], counters)
      BY <3>1 DEF BookInv, EventsTyped
    <3>3. WellFormed(events[n], counters')
      BY <1>2, <3>2 DEF WellFormed
    <3> QED  BY <3>1, <3>2, <3>3
  <2> QED  BY <2>1, <2>2
<1> QED  BY <1>3 DEF EventsTyped, Recorded

\* The positions after the event.
LEMMA HeldGrows ==
    ASSUME BookInv, NEW e, Recorded(e)
    PROVE  /\ DOMAIN held'.positions = DOMAIN held.positions \cup {e.position}
           /\ \A p \in DOMAIN held.positions : p # e.position => held'.positions[p] = held.positions[p]
           /\ held'.positions[e.position] =
                 (IF e.kind \in OpenKinds
                  THEN [open |-> TRUE, openQty |-> e.qty, lots |-> <<NewLot(e)>>]
                  ELSE Changed(held.positions[e.position], e))
           /\ held'.ok /\ held'.last = e.at
           /\ e.kind \in OpenKinds => e.position \notin DOMAIN held.positions
  BY ReplayEventTakes DEF Recorded, Replayable

LEMMA HeldTypedGrows ==
    ASSUME BookInv, NEW e, Recorded(e), now \in 0 .. End, End \in Nat
    PROVE  HeldTyped'
<1>1. /\ DOMAIN held'.positions = DOMAIN held.positions \cup {e.position}
      /\ \A p \in DOMAIN held.positions : p # e.position => held'.positions[p] = held.positions[p]
      /\ held'.ok /\ held'.last = e.at
  BY HeldGrows
<1>2. held'.last \in 0 .. now'
  BY <1>1 DEF Recorded
<1>3. DOMAIN held'.positions = 1 .. counters'.position
  <2>1. counters.position \in Nat /\ DOMAIN held.positions = 1 .. counters.position
    BY CountersType DEF BookInv, HeldTyped
  <2>2. CASE e.kind \in OpenKinds
    <3>1. e.position = counters.position + 1 /\ counters'.position = counters.position + 1
      BY <2>1, <2>2 DEF Recorded
    <3> QED  BY <1>1, <2>1, <3>1
  <2>3. CASE e.kind \notin OpenKinds
    <3>1. e.position \in DOMAIN held.positions /\ counters'.position = counters.position
      BY <2>1, <2>3 DEF Recorded
    <3> QED  BY <1>1, <2>1, <3>1
  <2> QED  BY <2>2, <2>3
<1>4. e.qty \in Nat \ {0} /\ e.kind \in AddKinds \cup ExitKinds
  BY DEF Recorded, WellFormed
<1>5. e.kind \in AddKinds => e.lot \in Nat /\ e.id \in Nat
  BY CountersType DEF Recorded, BookInv
<1>6. Sound(held'.positions[e.position])
  <2>1. CASE e.kind \in OpenKinds
    <3>1. e.kind \in AddKinds
      BY <2>1 DEF OpenKinds, AddKinds
    <3>2. Sound([open |-> TRUE, openQty |-> e.qty, lots |-> <<NewLot(e)>>])
      BY <1>4, <1>5, <3>1, Opened
    <3>3. held'.positions[e.position] = [open |-> TRUE, openQty |-> e.qty, lots |-> <<NewLot(e)>>]
      BY <2>1, HeldGrows
    <3> QED  BY <3>2, <3>3
  <2>2. CASE e.kind = "increase"
    <3>1. e.kind \in AddKinds /\ e.kind \notin OpenKinds
      BY <2>2 DEF AddKinds, OpenKinds
    <3> DEFINE p == held.positions[e.position]
    <3>2. Sound(p) /\ p.open
      BY <3>1 DEF Recorded, BookInv, HeldTyped
    <3>3. \A k \in DOMAIN p.lots : p.lots[k].id # e.lot
      <4> SUFFICES ASSUME NEW k \in DOMAIN p.lots PROVE p.lots[k].id # e.lot
        OBVIOUS
      <4> DEFINE n == p.lots[k].event
      <4>1. e.position \in DOMAIN held.positions
        BY <3>1 DEF Recorded
      <4>3. n \in Adds /\ events[n].lot = p.lots[k].id
        BY <4>1 DEF BookInv, LotsKept
      <4>2. events[n].lot \in 1 .. counters.lot
        BY <4>3 DEF Adds, BookInv, EventsTyped, WellFormed
      <4> QED  BY <3>1, <4>3, <4>2, CountersType DEF Recorded, BookInv
    <3>4. held'.positions[e.position] = Changed(p, e)
      BY <3>1, HeldGrows
    <3> HIDE DEF p
    <3> QED  BY <1>4, <1>5, <2>2, <3>1, <3>2, <3>3, <3>4, Increased
  <2>3. CASE e.kind \in ExitKinds
    <3>1. e.kind \notin OpenKinds
      BY <2>3 DEF ExitKinds, PartialCloseKinds, FullCloseKinds, OpenKinds
    <3>2. Sound(held.positions[e.position]) /\ e.qty \in 1 .. held.positions[e.position].openQty
      BY <2>3, <3>1 DEF Recorded, BookInv, HeldTyped
    <3>3. Sound(Changed(held.positions[e.position], e))
      BY <2>3, <3>2, Reduced
    <3>4. held'.positions[e.position] = Changed(held.positions[e.position], e)
      BY <3>1, HeldGrows
    <3> QED  BY <3>3, <3>4
  <2> QED  BY <1>4, <2>1, <2>2, <2>3 DEF AddKinds, OpenKinds
<1>7. \A p \in DOMAIN held'.positions : Sound(held'.positions[p])
  BY <1>1, <1>6 DEF BookInv, HeldTyped
<1> QED  BY <1>1, <1>2, <1>3, <1>7 DEF HeldTyped

LEMMA PositionsBegunGrows ==
    ASSUME BookInv, NEW e, Recorded(e), OfPlan(e)
    PROVE  PositionsBegun'
<1> DEFINE len == Len(events)
<1>0. /\ len \in Nat /\ DOMAIN events = 1 .. len /\ DOMAIN events' = 1 .. len + 1
      /\ \A n \in 1 .. len : events'[n] = events[n]
      /\ events'[len + 1] = e
      /\ \A n \in 1 .. len + 1 : n \in 1 .. len \/ n = len + 1
      /\ counters.position \in Nat /\ DOMAIN held.positions = 1 .. counters.position
  BY CountersType DEF Recorded, BookInv, HeldTyped
<1> HIDE DEF len
<1>1. ASSUME NEW n \in DOMAIN events'
      PROVE  \E m \in 1 .. n : events'[m].kind \in OpenKinds /\ events'[m].position = events'[n].position
  <2>1. CASE n \in 1 .. len
    <3>1. PICK m \in 1 .. n : events[m].kind \in OpenKinds /\ events[m].position = events[n].position
      BY <1>0, <2>1 DEF BookInv, PositionsBegun
    <3>2. m \in 1 .. len
      BY <1>0, <2>1
    <3> QED  BY <1>0, <2>1, <3>1, <3>2
  <2>2. CASE n = len + 1 /\ e.kind \in OpenKinds
    <3>1. n \in 1 .. n
      BY <1>0, <2>2
    <3> QED  BY <1>0, <2>2, <3>1
  <2>3. CASE n = len + 1 /\ e.kind \notin OpenKinds
    <3>1. e.position \in DOMAIN held.positions
      BY <2>3 DEF Recorded
    <3>2. PICK m \in DOMAIN events : events[m].kind \in OpenKinds /\ events[m].position = e.position
      BY <3>1 DEF BookInv, PositionsBegun
    <3>3. m \in 1 .. len /\ m \in 1 .. n
      BY <1>0, <2>3
    <3> QED  BY <1>0, <2>3, <3>2, <3>3
  <2> QED  BY <1>0, <2>1, <2>2, <2>3
<1>2. ASSUME NEW p \in DOMAIN held'.positions
      PROVE  \E m \in DOMAIN events' : events'[m].kind \in OpenKinds /\ events'[m].position = p
  <2>1. CASE p \in DOMAIN held.positions
    <3>1. PICK m \in DOMAIN events : events[m].kind \in OpenKinds /\ events[m].position = p
      BY <2>1 DEF BookInv, PositionsBegun
    <3> QED  BY <1>0, <3>1
  <2>2. CASE p \notin DOMAIN held.positions
    <3>1. p = e.position
      BY <2>2, HeldGrows
    <3>2. e.kind \in OpenKinds
      BY <2>2, <3>1 DEF Recorded
    <3>3. len + 1 \in DOMAIN events'
      BY <1>0
    <3> QED  BY <1>0, <3>1, <3>2, <3>3
  <2> QED  BY <2>1, <2>2
<1>3. ASSUME NEW m \in Adds', NEW n \in Adds', events'[m].position = events'[n].position,
             events'[m].kind = "rollIn"
      PROVE  events'[n].kind = "rollIn"
  <2>1. \A a \in Adds' : a \in 1 .. len + 1 /\ (a \in 1 .. len => a \in Adds /\ events'[a] = events[a])
    BY <1>0 DEF Adds
  <2>2. \A a \in Adds : a \in DOMAIN events /\ events[a].position \in 1 .. counters.position
    BY DEF Adds, BookInv, EventsTyped, WellFormed
  <2>3. CASE m \in 1 .. len /\ n \in 1 .. len
    BY <1>3, <2>1, <2>3 DEF BookInv, PositionsBegun
  <2>4. CASE m = len + 1 /\ n \in 1 .. len
    <3>1. e.kind \in OpenKinds /\ e.position = counters.position + 1
      BY <1>0, <1>3, <2>4 DEF OpenKinds, Recorded
    <3>2. events[n].position \in 1 .. counters.position
      BY <2>1, <2>2, <2>4
    <3> QED  BY <1>0, <1>3, <2>1, <2>4, <3>1, <3>2
  <2>5. CASE m \in 1 .. len /\ n = len + 1
    <3>1. e.kind = "increase"
      <4>1. e.kind \in AddKinds
        BY <1>0, <2>5 DEF Adds
      <4>2. events[m].position \in 1 .. counters.position /\ events[m].position = e.position
        BY <1>0, <1>3, <2>1, <2>2, <2>5
      <4>3. e.kind \notin OpenKinds
        BY <1>0, <4>2 DEF Recorded
      <4> QED  BY <4>1, <4>3 DEF AddKinds, OpenKinds
    <3>2. PICK a \in DOMAIN events : events[a].kind = "open" /\ events[a].position = e.position
      BY <3>1 DEF OfPlan
    <3>3. a \in Adds /\ m \in Adds /\ events[m].kind = "rollIn" /\ events[m].position = e.position
      BY <1>0, <1>3, <2>1, <2>5, <3>2 DEF Adds, AddKinds
    <3>4. events[a].kind = "rollIn"
      BY <3>2, <3>3 DEF BookInv, PositionsBegun
    <3> QED  BY <3>2, <3>4
  <2>6. CASE m = len + 1 /\ n = len + 1
    BY <1>3, <2>6
  <2> QED  BY <1>0, <2>1, <2>3, <2>4, <2>5, <2>6
<1> QED  BY <1>1, <1>2, <1>3 DEF PositionsBegun

\* What one event takes from a lot that exists, or from the next one.
LEMMA UsedTyped ==
    ASSUME EventsTyped, NEW m \in AllExits, NEW lot
    PROVE  /\ UsedBy(events[m], lot) \in Nat
           /\ lot \notin 1 .. counters.lot => UsedBy(events[m], lot) = 0
<1>1. /\ DOMAIN events[m].consumed \subseteq 1 .. counters.lot
      /\ \A l \in DOMAIN events[m].consumed : events[m].consumed[l] \in Nat
  BY DEF AllExits, EventsTyped, WellFormed
<1> QED  BY <1>1 DEF UsedBy

LEMMA ExitsFinite ==
    ASSUME Len(events) \in Nat, DOMAIN events = 1 .. Len(events), NEW X \in SUBSET AllExits
    PROVE  IsFiniteSet(X)
<1>1. X \in SUBSET (1 .. Len(events)) /\ IsFiniteSet(1 .. Len(events))
  BY RangeFinite DEF AllExits
<1> QED  BY <1>1, FS_Subset

\* After one more event, what exits took from the lot of an earlier event is what
\* it was, or more by what the event names.
LEMMA TakenGrows ==
    ASSUME BookInv, NEW e, Recorded(e), NEW n \in DOMAIN events, NEW X \in SUBSET AllExits
    PROVE  /\ TakenIn(events, events[n].lot, X) \in Nat
           /\ TakenIn(events', events'[n].lot, X) = TakenIn(events, events[n].lot, X)
           /\ e.kind \in ExitKinds =>
                 /\ UsedBy(e, events[n].lot) \in Nat
                 /\ TakenIn(events', events'[n].lot, X \cup {Len(events) + 1})
                       = TakenIn(events, events[n].lot, X) + UsedBy(e, events[n].lot)
<1> DEFINE len == Len(events)
           lot == events[n].lot
<1>1. /\ len \in Nat /\ DOMAIN events = 1 .. len /\ \A m \in 1 .. len : events'[m] = events[m]
      /\ events'[len + 1] = e
  BY DEF Recorded
<1>2. X \subseteq 1 .. len /\ len + 1 \notin X /\ events'[n].lot = lot
  BY <1>1 DEF AllExits
<1>3. IsFiniteSet(X) /\ IsFiniteSet(X \cup {len + 1})
  BY <1>1, ExitsFinite, FS_AddElement
<1>4. \A m \in X : UsedBy(events[m], lot) \in Nat /\ events'[m] = events[m]
  BY <1>1, <1>2, UsedTyped DEF BookInv
<1> HIDE DEF len, lot
<1>5. TakenIn(events, lot, X) \in Nat
  BY <1>3, <1>4, TakenInType
<1>6. TakenIn(events', lot, X) = TakenIn(events, lot, X)
  BY <1>4, TakenInSame
<1>7. ASSUME e.kind \in ExitKinds
      PROVE  /\ UsedBy(e, lot) \in Nat
             /\ TakenIn(events', lot, X \cup {len + 1}) = TakenIn(events, lot, X) + UsedBy(e, lot)
  <2>1. UsedBy(e, lot) \in Nat
    BY <1>7 DEF Recorded, WellFormed, UsedBy
  <2>2. \A m \in X \cup {len + 1} : UsedBy(events'[m], lot) \in Nat
    BY <1>1, <1>4, <2>1
  <2>3. TakenIn(events', lot, X \cup {len + 1}) = TakenIn(events', lot, X) + UsedBy(events'[len + 1], lot)
    BY <1>2, <1>3, <2>2, TakenInMore
  <2> QED  BY <1>1, <1>6, <2>1, <2>3
<1> QED  BY <1>2, <1>5, <1>6, <1>7 DEF len, lot

\* Nothing was taken yet from a lot that is added now.
LEMMA TakenNew ==
    ASSUME BookInv, NEW e, Recorded(e), e.kind \in AddKinds, NEW X \in SUBSET AllExits
    PROVE  TakenIn(events', e.lot, X) = 0
<1>1. /\ Len(events) \in Nat /\ DOMAIN events = 1 .. Len(events)
      /\ \A m \in DOMAIN events : events'[m] = events[m]
      /\ e.lot = counters.lot + 1
  BY DEF Recorded
<1>2. e.lot \notin 1 .. counters.lot
  BY <1>1, CountersType DEF BookInv
<1>3. \A m \in X : UsedBy(events'[m], e.lot) = 0
  BY <1>1, <1>2, UsedTyped DEF BookInv, AllExits
<1>4. IsFiniteSet(X)
  BY <1>1, ExitsFinite
<1> QED  BY <1>3, <1>4, TakenInNone

\* The exits of the ledger after one more event.
LEMMA ExitsGrow ==
    ASSUME NEW e, Recorded(e), e.kind \in AddKinds \cup ExitKinds
    PROVE  /\ AllExits' = AllExits \cup (IF e.kind \in ExitKinds THEN {Len(events) + 1} ELSE {})
           /\ Adds' = Adds \cup (IF e.kind \in AddKinds THEN {Len(events) + 1} ELSE {})
           /\ AddKinds \cap ExitKinds = {}
<1>1. \A n : n \in DOMAIN events' <=> n \in DOMAIN events \/ n = Len(events) + 1
  BY DEF Recorded
<1>2. events'[Len(events) + 1] = e /\ \A n \in DOMAIN events : events'[n] = events[n]
  BY DEF Recorded
<1>3. Len(events) + 1 \notin DOMAIN events
  BY DEF Recorded
<1>4. AddKinds \cap ExitKinds = {}
  BY DEF AddKinds, ExitKinds, PartialCloseKinds, FullCloseKinds
<1>5. AllExits' = AllExits \cup (IF e.kind \in ExitKinds THEN {Len(events) + 1} ELSE {})
  BY <1>1, <1>2, <1>3 DEF AllExits
<1>6. Adds' = Adds \cup (IF e.kind \in AddKinds THEN {Len(events) + 1} ELSE {})
  BY <1>1, <1>2, <1>3 DEF Adds
<1> QED  BY <1>4, <1>5, <1>6

\* Which quantity an exit names for a lot that is held: what the replay takes off it,
\* and nothing for the lots of other positions.
LEMMA ExitNames ==
    ASSUME BookInv, NEW e, Recorded(e), e.kind \in ExitKinds,
           NEW p \in DOMAIN held.positions, NEW k \in DOMAIN held.positions[p].lots
    PROVE  UsedBy(e, held.positions[p].lots[k].id) =
              IF p = e.position THEN FifoTake(held.positions[p].lots, e.qty)[k] ELSE 0
<1> DEFINE lots == held.positions[e.position].lots
<1>1. e.position \in DOMAIN held.positions
  BY DEF Recorded, ExitKinds, PartialCloseKinds, FullCloseKinds, OpenKinds
<1>2. lots \in Seq(Lot) /\ DistinctIds(lots) /\ e.qty \in Nat
  BY <1>1 DEF BookInv, HeldTyped, Sound, Position, Recorded, WellFormed
<1>3. e.consumed = ConsumeFifo(lots, e.qty).consumed
  BY DEF Recorded
<1> HIDE DEF lots
<1>4. Names(e.consumed, lots, e.qty)
  BY <1>2, <1>3, ConsumedNames
<1>5. CASE p = e.position
  BY <1>4, <1>5 DEF UsedBy, lots, Names
<1>6. CASE p # e.position
  <2> DEFINE lot == held.positions[p].lots[k]
  <2>1. lot.id \notin DOMAIN e.consumed
    <3> SUFFICES ASSUME lot.id \in DOMAIN e.consumed PROVE FALSE
      OBVIOUS
    <3>1. PICK i \in DOMAIN lots : lots[i].id = lot.id
      BY <1>4 DEF Names
    <3>2. /\ lots[i].event \in Adds /\ events[lots[i].event].position = e.position
          /\ events[lots[i].event].lot = lots[i].id
      BY <1>1 DEF BookInv, LotsKept, lots
    <3>3. /\ lot.event \in Adds /\ events[lot.event].position = p
          /\ events[lot.event].lot = lot.id
      BY DEF BookInv, LotsKept
    <3>4. lot.event = lots[i].event
      <4>1. \A m, n \in Adds : events[m].lot = events[n].lot => m = n
        BY DEF BookInv, LotsKept
      <4> HIDE DEF lot
      <4> QED  BY <3>1, <3>2, <3>3, <4>1
    <3> QED  BY <1>6, <3>2, <3>3, <3>4
  <2> QED  BY <1>6, <2>1 DEF UsedBy
<1> QED  BY <1>5, <1>6

LEMMA LotsKeptGrows ==
    ASSUME BookInv, NEW e, Recorded(e)
    PROVE  LotsKept'
<1> DEFINE len == Len(events)
           pos == held.positions
<1>1. /\ len \in Nat /\ DOMAIN events = 1 .. len /\ DOMAIN events' = 1 .. len + 1
      /\ \A n \in 1 .. len : events'[n] = events[n]
      /\ events'[len + 1] = e /\ e.id = len + 1
  BY DEF Recorded
<1>2. e.kind \in AddKinds \cup ExitKinds /\ e.qty \in Nat
  BY DEF Recorded, WellFormed
<1>3. /\ AllExits' = AllExits \cup (IF e.kind \in ExitKinds THEN {len + 1} ELSE {})
      /\ Adds' = Adds \cup (IF e.kind \in AddKinds THEN {len + 1} ELSE {})
      /\ AddKinds \cap ExitKinds = {}
  BY <1>2, ExitsGrow
<1>4. /\ DOMAIN held'.positions = DOMAIN pos \cup {e.position}
      /\ \A p \in DOMAIN pos : p # e.position => held'.positions[p] = pos[p]
      /\ held'.positions[e.position] =
            (IF e.kind \in OpenKinds
             THEN [open |-> TRUE, openQty |-> e.qty, lots |-> <<NewLot(e)>>]
             ELSE Changed(pos[e.position], e))
  BY HeldGrows
<1>5. \A n \in Adds : n \in 1 .. len /\ events'[n] = events[n] /\ n \in DOMAIN events'
  BY <1>1 DEF Adds
<1> DEFINE Good(p, lot) ==
        /\ lot.event \in Adds
        /\ events[lot.event].position = p
        /\ events[lot.event].lot = lot.id
        /\ lot.left = events[lot.event].qty - TakenIn(events, lot.id, AllExits)
           GoodNow(p, lot) ==
        /\ lot.event \in Adds'
        /\ events'[lot.event].position = p
        /\ events'[lot.event].lot = lot.id
        /\ lot.left = events'[lot.event].qty - TakenIn(events', lot.id, AllExits')
<1>6. \A p \in DOMAIN pos : \A k \in DOMAIN pos[p].lots : Good(p, pos[p].lots[k])
  BY TakenByLot DEF BookInv, LotsKept
\* What is still right about a lot from which the event takes nothing, or that much less.
<1>7. ASSUME NEW p \in DOMAIN pos, NEW lot, Good(p, lot), NEW after,
             after.event = lot.event, after.id = lot.id,
             after.left = lot.left - (IF e.kind \in ExitKinds THEN UsedBy(e, lot.id) ELSE 0)
      PROVE  GoodNow(p, after)
  <2> DEFINE n == lot.event
  <2>1. n \in Adds /\ n \in DOMAIN events /\ events'[n] = events[n] /\ events[n].lot = lot.id
    BY <1>1, <1>5, <1>7
  <2>2. events[n].qty \in Nat
    BY <2>1 DEF BookInv, EventsTyped, WellFormed
  <2>3. /\ TakenIn(events, lot.id, AllExits) \in Nat
        /\ e.kind \in ExitKinds => UsedBy(e, lot.id) \in Nat
        /\ TakenIn(events', lot.id, AllExits') = TakenIn(events, lot.id, AllExits)
                + (IF e.kind \in ExitKinds THEN UsedBy(e, lot.id) ELSE 0)
    <3>1. AllExits \in SUBSET AllExits /\ AllExits \cup {} = AllExits
      OBVIOUS
    <3> HIDE DEF n
    <3>2. /\ TakenIn(events, events[n].lot, AllExits) \in Nat
          /\ TakenIn(events', events'[n].lot, AllExits) = TakenIn(events, events[n].lot, AllExits)
          /\ e.kind \in ExitKinds =>
                /\ UsedBy(e, events[n].lot) \in Nat
                /\ TakenIn(events', events'[n].lot, AllExits \cup {len + 1})
                      = TakenIn(events, events[n].lot, AllExits) + UsedBy(e, events[n].lot)
      BY <2>1, <3>1, TakenGrows
    <3>3. CASE e.kind \in ExitKinds
      BY <1>3, <2>1, <3>2, <3>3
    <3>4. CASE e.kind \notin ExitKinds
      <4>1. AllExits' = AllExits
        BY <1>3, <3>4
      <4> QED  BY <2>1, <3>2, <3>4, <4>1
    <3> QED  BY <3>3, <3>4
  <2>4. lot.left = events[n].qty - TakenIn(events, lot.id, AllExits)
    BY <1>7
  <2>5. after.left = events'[n].qty - TakenIn(events', lot.id, AllExits')
    <3> HIDE DEF n
    <3>1. CASE e.kind \in ExitKinds
      BY <1>7, <2>1, <2>2, <2>3, <2>4, <3>1
    <3>2. CASE e.kind \notin ExitKinds
      BY <1>7, <2>1, <2>2, <2>3, <2>4, <3>2
    <3> QED  BY <3>1, <3>2
  <2>6. n \in Adds'
    BY <1>3, <2>1
  <2> QED  BY <1>7, <2>1, <2>5, <2>6
<1>8. ASSUME e.kind \in AddKinds
      PROVE  GoodNow(e.position, NewLot(e))
  <2>1. NewLot(e).event = len + 1 /\ NewLot(e).id = e.lot /\ NewLot(e).left = e.qty
    BY <1>1 DEF NewLot
  <2>2. AllExits' = AllExits /\ len + 1 \in Adds'
    BY <1>3, <1>8
  <2>3. TakenIn(events', e.lot, AllExits) = 0
    BY <1>8, TakenNew
  <2> QED  BY <1>1, <1>2, <2>1, <2>2, <2>3
<1> HIDE DEF Good, GoodNow
<1>9. ASSUME NEW p \in DOMAIN held'.positions, NEW k \in DOMAIN held'.positions[p].lots
      PROVE  GoodNow(p, held'.positions[p].lots[k])
  <2>1. CASE p # e.position
    <3>1. p \in DOMAIN pos /\ held'.positions[p] = pos[p] /\ k \in DOMAIN pos[p].lots
      BY <1>4, <2>1
    <3> DEFINE lot == pos[p].lots[k]
    <3>2. Good(p, lot)
      BY <1>6, <3>1
    <3>3. e.kind \in ExitKinds => UsedBy(e, lot.id) = 0
      BY <2>1, <3>1, ExitNames
    <3>4. lot.left \in Nat
      BY <3>1, LotsOf DEF BookInv, HeldTyped, Sound, Position
    <3> HIDE DEF lot
    <3>5. GoodNow(p, lot)
      BY <1>7, <3>1, <3>2, <3>3, <3>4
    <3> QED  BY <3>1, <3>5 DEF lot
  <2>2. CASE p = e.position /\ e.kind \in OpenKinds
    <3>1. held'.positions[p].lots = <<NewLot(e)>> /\ e.kind \in AddKinds
      BY <1>4, <2>2 DEF OpenKinds, AddKinds
    <3>2. held'.positions[p].lots[k] = NewLot(e)
      BY <3>1
    <3> QED  BY <1>8, <2>2, <3>1, <3>2
  <2>3. CASE p = e.position /\ e.kind \notin OpenKinds
    <3> DEFINE old == pos[p]
    <3>1. p \in DOMAIN pos /\ old.open /\ Sound(old) /\ held'.positions[p] = Changed(old, e)
      BY <1>4, <2>3 DEF Recorded, BookInv, HeldTyped
    <3>2. CASE e.kind = "increase"
      <4>1. e.kind \in AddKinds
        BY <3>2 DEF AddKinds
      <4>2. held'.positions[p].lots = Append(old.lots, NewLot(e))
        BY <3>1, <3>2 DEF Changed, Sound, Position
      <4>3. old.lots \in Seq(Lot) /\ NewLot(e) \in Lot
        <5>1. e.lot \in Nat /\ e.id \in Nat
          BY <4>1 DEF Recorded, WellFormed
        <5> QED  BY <1>2, <3>1, <5>1 DEF Sound, Position, NewLot, Lot
      <4> HIDE DEF old
      <4>4. CASE k \in DOMAIN old.lots
        <5> DEFINE lot == old.lots[k]
        <5>1. held'.positions[p].lots[k] = lot
          BY <4>2, <4>3, <4>4
        <5>2. Good(p, lot)
          BY <1>6, <3>1, <4>4 DEF old
        <5>3. e.kind \notin ExitKinds /\ lot.left \in Nat
          BY <1>3, <4>1, <4>3, <4>4, LotsOf
        <5> HIDE DEF lot
        <5>4. lot.left = lot.left - 0
          BY <5>3
        <5>5. GoodNow(p, lot)
          BY <1>7, <3>1, <5>2, <5>3, <5>4
        <5> QED  BY <5>1, <5>5
      <4>5. CASE k \notin DOMAIN old.lots
        <5>1. held'.positions[p].lots[k] = NewLot(e)
          BY <4>2, <4>3, <4>5
        <5> QED  BY <1>8, <2>3, <4>1, <5>1
      <4> QED  BY <4>4, <4>5
    <3>3. CASE e.kind \in ExitKinds
      <4>1. e.qty \in 1 .. old.openQty
        BY <2>3, <3>3 DEF Recorded
      <4> HIDE DEF old
      <4> DEFINE new == Changed(old, e)
      <4>2. /\ DOMAIN new.lots = DOMAIN old.lots
            /\ \A i \in DOMAIN old.lots :
                 /\ new.lots[i].id = old.lots[i].id /\ new.lots[i].event = old.lots[i].event
                 /\ new.lots[i].left = old.lots[i].left - FifoTake(old.lots, e.qty)[i]
        BY <3>1, <3>3, <4>1, Reduced
      <4> HIDE DEF new
      <4>3. k \in DOMAIN old.lots /\ held'.positions[p].lots[k] = new.lots[k]
        BY <3>1, <4>2 DEF new
      <4> DEFINE lot == old.lots[k]
                 after == new.lots[k]
      <4>4. after.id = lot.id /\ after.event = lot.event /\ after.left = lot.left - FifoTake(old.lots, e.qty)[k]
        BY <4>2, <4>3
      <4>5. UsedBy(e, lot.id) = FifoTake(old.lots, e.qty)[k]
        BY <2>3, <3>1, <3>3, <4>3, ExitNames DEF old
      <4>6. Good(p, lot)
        BY <1>6, <3>1, <4>3 DEF old
      <4> HIDE DEF lot, after
      <4>7. GoodNow(p, after)
        BY <1>7, <3>1, <3>3, <4>4, <4>5, <4>6
      <4> QED  BY <4>3, <4>7 DEF after
    <3> QED  BY <1>2, <2>3, <3>2, <3>3 DEF AddKinds, OpenKinds
  <2> QED  BY <2>1, <2>2, <2>3
<1>10. ASSUME NEW n \in Adds'
       PROVE  \E k \in DOMAIN held'.positions[events'[n].position].lots :
                 held'.positions[events'[n].position].lots[k].event = n
  <2>1. CASE n \in Adds
    <3> DEFINE p == events[n].position
    <3>1. events'[n] = events[n]
      BY <1>5, <2>1
    <3>2. p \in DOMAIN pos
      BY <2>1 DEF Adds, BookInv, EventsTyped, WellFormed, HeldTyped
    <3>3. PICK k \in DOMAIN pos[p].lots : pos[p].lots[k].event = n
      BY <2>1 DEF BookInv, LotsKept
    <3> HIDE DEF p
    <3>4. k \in DOMAIN held'.positions[p].lots /\ held'.positions[p].lots[k].event = n
      <4>1. CASE p # e.position
        BY <1>4, <3>2, <3>3, <4>1
      <4>2. CASE p = e.position
        <5> DEFINE old == pos[p]
        <5>1. e.kind \notin OpenKinds /\ Sound(old) /\ old.open
          BY <3>2, <4>2, HeldGrows DEF Recorded, BookInv, HeldTyped
        <5>2. held'.positions[p] = Changed(old, e)
          BY <1>4, <4>2, <5>1
        <5>3. CASE e.kind = "increase"
          <6>1. held'.positions[p].lots = Append(old.lots, NewLot(e)) /\ old.lots \in Seq(Lot)
            BY <5>1, <5>2, <5>3 DEF Changed, Sound, Position
          <6>2. NewLot(e) \in Lot
            <7>1. e.lot \in Nat /\ e.id \in Nat
              BY <5>3 DEF Recorded, WellFormed, AddKinds
            <7> QED  BY <1>2, <7>1 DEF NewLot, Lot
          <6> QED  BY <3>3, <6>1, <6>2
        <5>4. CASE e.kind \in ExitKinds
          <6>1. e.qty \in 1 .. old.openQty
            BY <4>2, <5>4 DEF Recorded
          <6> HIDE DEF old
          <6>2. /\ DOMAIN Changed(old, e).lots = DOMAIN old.lots
                /\ \A i \in DOMAIN old.lots : Changed(old, e).lots[i].event = old.lots[i].event
            BY <5>1, <5>4, <6>1, Reduced
          <6> QED  BY <3>3, <5>2, <6>2 DEF old
        <5> QED  BY <1>2, <5>1, <5>3, <5>4 DEF AddKinds, OpenKinds
      <4> QED  BY <4>1, <4>2
    <3> QED  BY <3>1, <3>4 DEF p
  <2>2. CASE n \notin Adds
    <3>1. n = len + 1 /\ e.kind \in AddKinds
      BY <1>3, <2>2
    <3>2. CASE e.kind \in OpenKinds
      <4>1. held'.positions[e.position].lots = <<NewLot(e)>>
        BY <1>4, <3>2
      <4>2. 1 \in DOMAIN <<NewLot(e)>> /\ <<NewLot(e)>>[1].event = e.id
        BY DEF NewLot
      <4> QED  BY <1>1, <3>1, <4>1, <4>2
    <3>3. CASE e.kind = "increase"
      <4> DEFINE old == pos[e.position]
      <4>1. e.kind \notin OpenKinds
        BY <3>3 DEF OpenKinds
      <4>2. Sound(old) /\ held'.positions[e.position] = Changed(old, e)
        BY <1>4, <4>1 DEF Recorded, BookInv, HeldTyped
      <4>3. held'.positions[e.position].lots = Append(old.lots, NewLot(e)) /\ old.lots \in Seq(Lot)
        BY <3>3, <4>2 DEF Changed, Sound, Position
      <4>4. NewLot(e) \in Lot /\ NewLot(e).event = len + 1
        <5>1. e.lot \in Nat /\ e.id \in Nat
          BY <3>1 DEF Recorded, WellFormed
        <5> QED  BY <1>1, <1>2, <5>1 DEF NewLot, Lot
      <4> HIDE DEF old
      <4> DEFINE row == Append(old.lots, NewLot(e))
      <4>5. Len(old.lots) + 1 \in DOMAIN row /\ row[Len(old.lots) + 1] = NewLot(e)
        BY <4>3, <4>4
      <4> HIDE DEF row
      <4> QED  BY <1>1, <3>1, <4>3, <4>4, <4>5 DEF row
    <3> QED  BY <3>1, <3>2, <3>3 DEF AddKinds, OpenKinds
  <2> QED  BY <2>1, <2>2
<1>11. ASSUME NEW m \in Adds', NEW n \in Adds', events'[m].lot = events'[n].lot
       PROVE  m = n
  <2>1. \A a \in Adds : events'[a].lot \in 1 .. counters.lot
    BY <1>5 DEF Adds, BookInv, EventsTyped, WellFormed
  <2>2. e.kind \in AddKinds => e.lot = counters.lot + 1 /\ counters.lot \in Nat
    BY CountersType DEF Recorded, BookInv
  <2>3. CASE m \in Adds /\ n \in Adds
    BY <1>5, <1>11, <2>3 DEF BookInv, LotsKept
  <2>4. CASE ~(m \in Adds /\ n \in Adds)
    <3>1. e.kind \in AddKinds /\ (m \in Adds \/ m = len + 1) /\ (n \in Adds \/ n = len + 1)
      BY <1>3, <2>4
    <3> QED  BY <1>1, <1>11, <2>1, <2>2, <2>4, <3>1
  <2> QED  BY <2>3, <2>4
<1>12. \A p \in DOMAIN held'.positions : \A k \in DOMAIN held'.positions[p].lots :
          LET lot == held'.positions[p].lots[k] IN
          /\ lot.event \in Adds'
          /\ events'[lot.event].position = p
          /\ events'[lot.event].lot = lot.id
          /\ lot.left = events'[lot.event].qty
                - TakenIn(events', events'[lot.event].lot, AllExits')
  BY <1>9 DEF GoodNow
<1> HIDE DEF len, pos
<1> QED  BY <1>10, <1>11, <1>12 DEF LotsKept, Taken, Used, TakenIn, UsedBy

-----------------------------------------------------------------------------
\* What Record records.

\* The data that comes with each kind of event.
DataOf(kind, data) ==
    /\ kind \in {"open", "increase"} => data \in CommitData
    /\ kind \in {"reduce", "close"} => data \in ExitData
    /\ kind \in {"rollIn", "rollOut", "settlement", "exercise"} => data = None

\* What a request of the program makes of the ledger.
LEMMA RecordRecords ==
    ASSUME BookInv, IInv, NEW kind \in AddKinds \cup ExitKinds, NEW position, NEW qty, NEW data,
           Record(kind, position, qty, data), DataOf(kind, data),
           kind \notin FullCloseKinds => qty \in Nat,
           NEW e, e = NewEvent(kind, position, qty, data)
    PROVE  /\ Recorded(e) /\ e.kind = kind /\ e.data = data
           /\ e.qty = (IF kind \in FullCloseKinds THEN held.positions[e.position].openQty ELSE qty)
           /\ kind \notin OpenKinds => e.position = position
<1> DEFINE pos == IF kind \in OpenKinds THEN counters.position + 1 ELSE position
           q == IF kind \in FullCloseKinds THEN held.positions[pos].openQty ELSE qty
           len == Len(events)
<1>1. /\ e.id = counters.event + 1 /\ e.kind = kind /\ e.at = now /\ e.position = pos /\ e.qty = q
      /\ e.lot = (IF kind \in AddKinds THEN counters.lot + 1 ELSE None)
      /\ e.consumed = (IF kind \in ExitKinds
                       THEN ConsumeFifo(held.positions[pos].lots, q).consumed ELSE <<>>)
      /\ e.data = data
  BY DEF NewEvent
<1>2. /\ ReplayEvent(held, e).ok /\ events' = Append(events, e) /\ held' = ReplayEvent(held, e)
      /\ counters' = [event |-> e.id,
                      position |-> IF kind \in OpenKinds THEN e.position ELSE counters.position,
                      lot |-> IF kind \in AddKinds THEN e.lot ELSE counters.lot]
      /\ UNCHANGED <<state, now, plan>>
  BY DEF Record
<1>3. /\ state = "active" /\ now \in 0 .. End
      /\ kind \notin OpenKinds => position \in DOMAIN held.positions /\ held.positions[position].open
      /\ kind \notin OpenKinds /\ kind \notin FullCloseKinds =>
            qty <= held.positions[position].openQty
      /\ kind \notin FullCloseKinds => qty > 0
  BY DEF Record, Recordable, IsOpen
<1>4. held.ok /\ Replayable(held, e)
  BY <1>2, ReplayEventRefuses
<1>5. /\ len \in Nat /\ DOMAIN events = 1 .. len
      /\ Len(events') = len + 1 /\ DOMAIN events' = 1 .. len + 1
      /\ \A n \in 1 .. len : events'[n] = events[n]
      /\ events'[len + 1] = e
  <2>1. \E S : events \in Seq(S)
    BY DEF IInv
  <2> QED  BY <1>2, <2>1, AppendElements
<1>6. /\ counters \in [{"event", "position", "lot"} -> Nat] /\ counters.event = len
      /\ DOMAIN held.positions = 1 .. counters.position
  BY DEF BookInv, EventsTyped, HeldTyped
<1>7. /\ kind \in OpenKinds => kind \notin FullCloseKinds /\ kind \in AddKinds
      /\ AddKinds \cap ExitKinds = {} /\ FullCloseKinds \subseteq ExitKinds
      /\ kind \in ExitKinds => kind \notin OpenKinds
  BY DEF AddKinds, ExitKinds, OpenKinds, PartialCloseKinds, FullCloseKinds
<1>8. kind \notin OpenKinds =>
         /\ pos = position /\ Sound(held.positions[position])
         /\ held.positions[position].openQty \in Nat \ {0}
  BY <1>3 DEF BookInv, HeldTyped, Sound, Position
<1>9. q \in Nat \ {0} /\ (kind \in ExitKinds => q \in 1 .. held.positions[pos].openQty)
  <2>1. CASE kind \in OpenKinds
    BY <1>3, <1>7, <2>1
  <2>2. CASE kind \notin OpenKinds /\ kind \in FullCloseKinds
    BY <1>3, <1>7, <1>8, <2>2
  <2>3. CASE kind \notin OpenKinds /\ kind \notin FullCloseKinds
    BY <1>3, <1>7, <1>8, <2>3
  <2> QED  BY <2>1, <2>2, <2>3
<1> HIDE DEF pos, q, len
<1>10. /\ counters' \in [{"event", "position", "lot"} -> Nat]
       /\ counters'.event = len + 1
       /\ counters'.position = counters.position + (IF kind \in OpenKinds THEN 1 ELSE 0)
       /\ counters'.lot = counters.lot + (IF kind \in AddKinds THEN 1 ELSE 0)
       /\ kind \in OpenKinds => e.position = counters.position + 1
  <2>1. e.id = len + 1 /\ e.id \in Nat /\ counters.position \in Nat /\ counters.lot \in Nat
    BY <1>1, <1>5, <1>6
  <2>2. kind \in OpenKinds => e.position = counters.position + 1
    BY <1>1 DEF pos
  <2>3. /\ counters'.event = e.id
        /\ counters'.position = (IF kind \in OpenKinds THEN e.position ELSE counters.position)
        /\ counters'.lot = (IF kind \in AddKinds THEN e.lot ELSE counters.lot)
    BY <1>2
  <2>4. /\ counters'.position = counters.position + (IF kind \in OpenKinds THEN 1 ELSE 0)
        /\ counters'.lot = counters.lot + (IF kind \in AddKinds THEN 1 ELSE 0)
    BY <1>1, <2>1, <2>2, <2>3
  <2>5. counters'.event \in Nat /\ counters'.position \in Nat /\ counters'.lot \in Nat
    BY <2>1, <2>3, <2>4
  <2>6. counters' \in [{"event", "position", "lot"} -> Nat]
    <3>1. counters' = [event |-> counters'.event, position |-> counters'.position, lot |-> counters'.lot]
      BY <1>2
    <3> HIDE <2>3
    <3> QED  BY <2>5, <3>1
  <2> QED  BY <2>1, <2>2, <2>3, <2>4, <2>6
<1>11. kind \in ExitKinds =>
          /\ DOMAIN e.consumed \subseteq 1 .. counters.lot
          /\ \A lot \in DOMAIN e.consumed : e.consumed[lot] \in Nat
  <2> SUFFICES ASSUME kind \in ExitKinds
               PROVE  /\ DOMAIN e.consumed \subseteq 1 .. counters.lot
                      /\ \A lot \in DOMAIN e.consumed : e.consumed[lot] \in Nat
    OBVIOUS
  <2> DEFINE lots == held.positions[pos].lots
  <2>1. pos \in DOMAIN held.positions
    BY <1>3, <1>7, <1>8
  <2>2. lots \in Seq(Lot) /\ DistinctIds(lots)
    BY <1>7, <1>8 DEF Sound, Position
  <2>3. e.consumed = ConsumeFifo(lots, q).consumed
    BY <1>1
  <2>4. \A k \in DOMAIN lots : lots[k].id \in 1 .. counters.lot
    <3> SUFFICES ASSUME NEW k \in DOMAIN lots PROVE lots[k].id \in 1 .. counters.lot
      OBVIOUS
    <3>1. lots[k].event \in Adds /\ events[lots[k].event].lot = lots[k].id
      BY <2>1 DEF BookInv, LotsKept
    <3> QED  BY <3>1 DEF Adds, BookInv, EventsTyped, WellFormed
  <2> HIDE DEF lots
  <2>5. Names(e.consumed, lots, q)
    BY <1>9, <2>2, <2>3, ConsumedNames
  <2> QED  BY <2>4, <2>5 DEF Names
<1>12. WellFormed(e, counters')
  <2>1. e.position \in 1 .. counters'.position
    BY <1>1, <1>3, <1>6, <1>8, <1>10
  <2>2. kind \in AddKinds => e.lot \in 1 .. counters'.lot
    BY <1>1, <1>6, <1>10
  <2>3. kind \in ExitKinds =>
          /\ e.lot = None
          /\ DOMAIN e.consumed \subseteq 1 .. counters'.lot
          /\ \A lot \in DOMAIN e.consumed : e.consumed[lot] \in Nat
    BY <1>1, <1>6, <1>7, <1>10, <1>11
  <2>4. /\ e.kind \in AddKinds \cup ExitKinds /\ e.at \in 0 .. End /\ e.qty \in Nat \ {0}
        /\ e.kind = kind /\ e.data = data
    BY <1>1, <1>3, <1>9
  <2> QED  BY <2>1, <2>2, <2>3, <2>4 DEF WellFormed, DataOf
<1>13. Recorded(e)
  <2>1. IF e.kind \in OpenKinds THEN e.position = counters.position + 1
        ELSE e.position \in DOMAIN held.positions /\ held.positions[e.position].open
    BY <1>1, <1>3, <1>8, <1>10
  <2>2. e.kind \in ExitKinds =>
          /\ e.qty \in 1 .. held.positions[e.position].openQty
          /\ e.consumed = ConsumeFifo(held.positions[e.position].lots, e.qty).consumed
    BY <1>1, <1>9
  <2>3. e.kind \in AddKinds => e.lot = counters.lot + 1
    BY <1>1
  <2> QED  BY <1>1, <1>2, <1>3, <1>4, <1>5, <1>6, <1>10, <1>12, <2>1, <2>2, <2>3 DEF Recorded, len
<1> QED  BY <1>1, <1>8, <1>13 DEF q

-----------------------------------------------------------------------------
\* What the operations of the program record.

\* A position that a plan opened.
Planned(p) == \E n \in DOMAIN events : events[n].kind = "open" /\ events[n].position = p

LEMMA OpeningIs ==
    ASSUME BookInv, IInv, NEW p \in DOMAIN held.positions
    PROVE  \E n \in DOMAIN events :
              events[n].kind \in OpenKinds /\ events[n].position = p /\ Opening(p) = events[n]
<1>1. PICK n \in DOMAIN events : events[n].kind \in OpenKinds /\ events[n].position = p
  BY DEF BookInv, PositionsBegun
<1> DEFINE First(c) == /\ events[c].position = p
                       /\ \A m \in DOMAIN events : events[m].position = p => c <= m
           c == CHOOSE c \in DOMAIN events : First(c)
<1>2. DOMAIN events = 1 .. Len(events) /\ Len(events) \in Nat
  BY AppendElements DEF IInv
<1>3. ASSUME NEW m \in DOMAIN events, events[m].position = p PROVE n <= m
  <2>1. PICK o \in 1 .. m : events[o].kind \in OpenKinds /\ events[o].position = p
    BY <1>3 DEF BookInv, PositionsBegun
  <2>2. o \in DOMAIN events
    BY <1>2
  <2>3. o = n
    BY <1>1, <2>1, <2>2 DEF IInv, IdsUnique
  <2> QED  BY <1>2, <2>3
<1>4. First(n)
  BY <1>1, <1>3
<1>5. c \in DOMAIN events /\ First(c)
  BY <1>4
<1>6. Opening(p) = events[c]
  BY DEF Opening
<1> HIDE DEF c
<1>7. c = n
  BY <1>1, <1>2, <1>4, <1>5
<1> QED  BY <1>1, <1>6, <1>7

LEMMA PlannedOpening ==
    ASSUME BookInv, IInv, NEW p \in DOMAIN held.positions, Opening(p).data # None
    PROVE  Planned(p) /\ Opening(p).data \in CommitData
<1>1. PICK n \in DOMAIN events :
              events[n].kind \in OpenKinds /\ events[n].position = p /\ Opening(p) = events[n]
  BY OpeningIs
<1>2. WellFormed(events[n], counters)
  BY DEF BookInv, EventsTyped
<1>3. events[n].kind = "open"
  BY <1>1, <1>2 DEF WellFormed, OpenKinds
<1> QED  BY <1>1, <1>2, <1>3 DEF WellFormed, Planned

\* Every lot of a position that a plan opened was entered by a commit.
LEMMA PlannedLots ==
    ASSUME BookInv, NEW p \in DOMAIN held.positions, Planned(p),
           NEW k \in DOMAIN held.positions[p].lots
    PROVE  /\ held.positions[p].lots[k].event \in Adds
           /\ events[held.positions[p].lots[k].event].kind \in {"open", "increase"}
           /\ events[held.positions[p].lots[k].event].data \in CommitData
<1> DEFINE n == held.positions[p].lots[k].event
<1>1. n \in Adds /\ events[n].position = p
  BY DEF BookInv, LotsKept
<1>2. PICK m \in DOMAIN events : events[m].kind = "open" /\ events[m].position = p
  BY DEF Planned
<1>3. m \in Adds
  BY <1>2 DEF Adds, AddKinds
<1>4. events[n].kind # "rollIn"
  BY <1>1, <1>2, <1>3 DEF BookInv, PositionsBegun
<1>5. events[n].kind \in {"open", "increase"}
  BY <1>1, <1>4 DEF Adds, AddKinds
<1>6. WellFormed(events[n], counters)
  BY <1>1 DEF Adds, BookInv, EventsTyped
<1> QED  BY <1>1, <1>5, <1>6 DEF WellFormed

LEMMA EntryBasisType ==
    ASSUME BookInv, NEW p \in DOMAIN held.positions, Planned(p), NEW q \in Nat
    PROVE  EntryBasis(held.positions[p].lots, q) \in Int
<1> DEFINE lots == held.positions[p].lots
           take == FifoTake(lots, q)
           f == [k \in DOMAIN lots |-> events[lots[k].event].data.quote.cash * take[k]]
<1>1. lots \in Seq(Lot)
  BY DEF BookInv, HeldTyped, Sound, Position
<1>2. IsFiniteSet(DOMAIN lots)
  BY <1>1, SeqDomain, RangeFinite
<1>3. \A k \in DOMAIN lots : f[k] \in Int
  <2> SUFFICES ASSUME NEW k \in DOMAIN lots PROVE f[k] \in Int
    OBVIOUS
  <2>1. events[lots[k].event].data.quote.cash \in Int
    BY PlannedLots, QuoteAssumption DEF CommitData
  <2>2. take[k] \in Int
    BY <1>1, FifoTyped, LotsOf
  <2>3. f[k] = events[lots[k].event].data.quote.cash * take[k]
    OBVIOUS
  <2> HIDE DEF f, take
  <2> QED  BY <2>1, <2>2, <2>3
<1>4. EntryBasis(lots, q) = SumFunctionOnSet(f, DOMAIN lots)
  BY DEF EntryBasis
<1> HIDE DEF f
<1> QED  BY <1>2, <1>3, <1>4, SumType

\* What the operations of the program add to what the ledger checks.
TradeOf(e) ==
    /\ OfPlan(e)
    /\ e.kind \in {"open", "increase"} => Affordable(e.data.candidate, e.data.quote, e.qty)
    /\ e.kind \in {"reduce", "close"} =>
          /\ Planned(e.position)
          /\ e.data.realized = e.data.cash * e.qty
                                  + EntryBasis(held.positions[e.position].lots, e.qty)

LEMMA TradeRecords ==
    ASSUME BookInv, IInv, Trade
    PROVE  \E e : Recorded(e) /\ TradeOf(e)
<1> DEFINE Goal == \E e : Recorded(e) /\ TradeOf(e)
<1>0. MaxQty \in Nat /\ \A q \in 1 .. MaxQty : q \in Nat
  BY SessionBounds
<1>1. \A p : IsOpen(p) => p \in DOMAIN held.positions /\ held.positions[p].openQty \in Nat \ {0}
  BY DEF IsOpen, BookInv, HeldTyped, Sound, Position
<1>2. ASSUME NEW c \in Candidates, NEW quote \in Quotes, NEW qty \in 1 .. MaxQty,
             Commit(c, quote, qty)
      PROVE  Goal
  <2> DEFINE data == [by |-> "commit", candidate |-> c, quote |-> quote]
             e == NewEvent("open", None, qty, data)
  <2>1. Record("open", None, qty, data) /\ Affordable(c, quote, qty)
    BY <1>2 DEF Commit
  <2>2. data \in CommitData /\ data.candidate = c /\ data.quote = quote
    BY DEF CommitData
  <2>3. "open" \in AddKinds \cup ExitKinds /\ "open" \notin FullCloseKinds
    BY DEF AddKinds, FullCloseKinds
  <2> HIDE DEF data, e
  <2>4. DataOf("open", data)
    BY <2>2 DEF DataOf
  <2>5. Recorded(e) /\ e.kind = "open" /\ e.data = data /\ e.qty = qty
    BY <1>0, <2>1, <2>3, <2>4, RecordRecords DEF e
  <2>6. TradeOf(e)
    BY <2>1, <2>2, <2>5 DEF TradeOf, OfPlan
  <2> QED  BY <2>5, <2>6
<1>3. ASSUME NEW qty \in 1 .. MaxQty, RollIn(qty)
      PROVE  Goal
  <2> DEFINE e == NewEvent("rollIn", None, qty, None)
  <2>1. Record("rollIn", None, qty, None)
    BY <1>3 DEF RollIn
  <2>2. "rollIn" \in AddKinds \cup ExitKinds /\ DataOf("rollIn", None)
    BY DEF AddKinds, DataOf
  <2> HIDE DEF e
  <2>3. Recorded(e) /\ e.kind = "rollIn"
    BY <1>0, <2>1, <2>2, RecordRecords DEF e
  <2>4. TradeOf(e)
    BY <2>3 DEF TradeOf, OfPlan
  <2> QED  BY <2>3, <2>4
<1>4. ASSUME NEW p, NEW quote \in Quotes, NEW qty \in 1 .. MaxQty, Increase(p, quote, qty)
      PROVE  Goal
  <2> DEFINE c == Opening(p).data.candidate
             data == [by |-> "commit", candidate |-> c, quote |-> quote]
             e == NewEvent("increase", p, qty, data)
  <2>1. /\ Record("increase", p, qty, data) /\ Affordable(c, quote, qty)
        /\ IsOpen(p) /\ Opening(p).data # None
    BY <1>4 DEF Increase
  <2>2. Planned(p) /\ Opening(p).data \in CommitData
    BY <1>1, <2>1, PlannedOpening
  <2>3. data \in CommitData /\ data.candidate = c /\ data.quote = quote
    BY <2>2 DEF CommitData
  <2>4. /\ "increase" \in AddKinds \cup ExitKinds /\ "increase" \notin FullCloseKinds
        /\ "increase" \notin OpenKinds
    BY DEF AddKinds, FullCloseKinds, OpenKinds
  <2> HIDE DEF data, e, c
  <2>5. DataOf("increase", data)
    BY <2>3 DEF DataOf
  <2>6. Recorded(e) /\ e.kind = "increase" /\ e.data = data /\ e.qty = qty /\ e.position = p
    BY <1>0, <2>1, <2>4, <2>5, RecordRecords DEF e
  <2>7. TradeOf(e)
    BY <2>1, <2>2, <2>3, <2>6 DEF TradeOf, OfPlan, Planned
  <2> QED  BY <2>6, <2>7
<1>5. ASSUME NEW p, NEW exit \in Exits, NEW qty \in 1 .. MaxQty, Exit(p, exit, qty)
      PROVE  Goal
  <2> DEFINE position == held.positions[p]
             kind == IF qty = position.openQty THEN "close" ELSE "reduce"
             data == [by |-> "exit", cash |-> exit,
                      realized |-> exit * qty + EntryBasis(position.lots, qty)]
             e == NewEvent(kind, p, qty, data)
  <2>1. /\ Record(kind, p, qty, data) /\ IsOpen(p) /\ Opening(p).data # None
    BY <1>5 DEF Exit
  <2>2. Planned(p) /\ p \in DOMAIN held.positions
    BY <1>1, <2>1, PlannedOpening
  <2>3. EntryBasis(position.lots, qty) \in Int /\ exit \in Int /\ qty \in Int
    BY <1>0, <2>2, EntryBasisType, QuoteAssumption
  <2>4. data \in ExitData /\ data.cash = exit
        /\ data.realized = exit * qty + EntryBasis(position.lots, qty)
    <3>1. exit * qty + EntryBasis(position.lots, qty) \in Int
      BY <2>3
    <3> QED  BY <3>1 DEF ExitData
  <2>5. /\ kind \in AddKinds \cup ExitKinds /\ kind \notin OpenKinds
        /\ kind \in FullCloseKinds <=> qty = position.openQty
        /\ kind \in {"reduce", "close"}
    BY DEF ExitKinds, PartialCloseKinds, FullCloseKinds, OpenKinds
  <2> HIDE DEF data, e, kind
  <2>6. DataOf(kind, data)
    BY <2>4, <2>5 DEF DataOf
  <2>7. /\ Recorded(e) /\ e.kind = kind /\ e.data = data /\ e.position = p
        /\ e.qty = (IF kind \in FullCloseKinds THEN held.positions[e.position].openQty ELSE qty)
    BY <1>0, <2>1, <2>5, <2>6, RecordRecords DEF e
  <2>8. e.qty = qty
    BY <2>5, <2>7
  <2>9. TradeOf(e)
    BY <2>2, <2>4, <2>5, <2>7, <2>8 DEF TradeOf, OfPlan
  <2> QED  BY <2>7, <2>9
<1>6. ASSUME NEW p, NEW qty \in 1 .. MaxQty, RollOut(p, qty)
      PROVE  Goal
  <2> DEFINE e == NewEvent("rollOut", p, qty, None)
  <2>1. Record("rollOut", p, qty, None)
    BY <1>6 DEF RollOut
  <2>2. "rollOut" \in AddKinds \cup ExitKinds /\ DataOf("rollOut", None)
    BY DEF ExitKinds, PartialCloseKinds, DataOf
  <2> HIDE DEF e
  <2>3. Recorded(e) /\ e.kind = "rollOut"
    BY <1>0, <2>1, <2>2, RecordRecords DEF e
  <2>4. TradeOf(e)
    BY <2>3 DEF TradeOf, OfPlan
  <2> QED  BY <2>3, <2>4
<1>7. ASSUME NEW p, NEW kind \in FullCloseKinds, Settle(p, kind)
      PROVE  Goal
  <2> DEFINE e == NewEvent(kind, p, 0, None)
  <2>1. Record(kind, p, 0, None) /\ kind \in {"settlement", "exercise"}
    BY <1>7 DEF Settle
  <2>2. kind \in AddKinds \cup ExitKinds /\ DataOf(kind, None)
    BY <2>1 DEF ExitKinds, FullCloseKinds, DataOf
  <2> HIDE DEF e
  <2>3. Recorded(e) /\ e.kind = kind
    BY <1>0, <2>1, <2>2, RecordRecords DEF e
  <2>4. TradeOf(e)
    BY <2>1, <2>3 DEF TradeOf, OfPlan
  <2> QED  BY <2>3, <2>4
<1> HIDE DEF Goal
<1>8. Goal
  BY <1>2, <1>3, <1>4, <1>5, <1>6, <1>7 DEF Trade
<1> QED  BY <1>8 DEF Goal

-----------------------------------------------------------------------------
\* The inductive invariant of the session.

LEMMA ProductLeq == \A a, b, c \in Nat : b <= c => a * b <= a * c
<1> SUFFICES ASSUME NEW a \in Nat, NEW b \in Nat, NEW c \in Nat, b <= c PROVE a * b <= a * c
  OBVIOUS
<1> DEFINE d == c - b
<1>1. d \in Nat /\ c = b + d
  OBVIOUS
<1> HIDE DEF d
<1>2. a * c = a * b + a * d /\ a * d \in Nat /\ a * b \in Nat
  BY <1>1
<1> QED  BY <1>2

LEMMA ProductNat == \A a, b \in Nat : a * b \in Nat
OBVIOUS

\* The targets in Rial of shares that make up at most the whole are together at
\* most what can be allocated, however they are rounded down.
LEMMA TargetsFit ==
    ASSUME NEW S \in SUBSET Families, NEW pct \in [S -> Pcts],
           SumFunctionOnSet(pct, DOMAIN pct) <= 100,
           NEW t, t = [f \in DOMAIN pct |-> (AllocatableRial * pct[f]) \div 100]
    PROVE  t \in Targets /\ SumFunctionOnSet(t, DOMAIN t) <= AllocatableRial
<1> DEFINE A == AllocatableRial
           x == [f \in S |-> A * pct[f]]
           y == [f \in S |-> 100 * t[f]]
<1>1. A \in Nat
  BY CapitalAssumption DEF AllocatableRial
<1>2. IsFiniteSet(S) /\ DOMAIN pct = S /\ DOMAIN t = S
  BY FamilyAssumption, FS_Subset
<1>3. \A f \in S : pct[f] \in Nat /\ pct[f] <= 100
  <2>1. \A f \in S : pct[f] \in Pcts
    OBVIOUS
  <2>2. \A q \in Pcts : q \in 1 .. 100
    BY PctAssumption
  <2> QED  BY <2>1, <2>2
<1> HIDE DEF A
<1>4. ASSUME NEW f \in S
      PROVE  /\ x[f] \in Nat /\ x[f] = A * pct[f] /\ t[f] \in 0 .. A
             /\ y[f] \in Nat /\ y[f] = 100 * t[f] /\ y[f] <= x[f]
  <2> DEFINE v == A * pct[f]
  <2>1. v \in Nat /\ v <= A * 100
    BY <1>1, <1>3, ProductLeq, ProductNat
  <2>2. t[f] = v \div 100 /\ x[f] = v /\ y[f] = 100 * t[f]
    BY <1>2 DEF A
  <2> HIDE DEF v, x, y
  <2>3. v \div 100 \in Nat /\ 100 * (v \div 100) <= v
    BY <2>1
  <2>4. t[f] \in Nat /\ 100 * t[f] <= A * 100
    BY <1>1, <2>1, <2>2, <2>3
  <2>5. t[f] <= A
    BY <1>1, <2>4
  <2> QED  BY <1>1, <2>1, <2>2, <2>3, <2>4, <2>5 DEF v
<1>5. t \in Targets
  <2>1. t \in [S -> 0 .. A]
    BY <1>2, <1>4
  <2> QED  BY <2>1 DEF Targets, A
<1> HIDE DEF x, y
<1>6. SumFunctionOnSet(y, S) <= SumFunctionOnSet(x, S)
  BY <1>2, <1>4, SumLeq
<1>7. SumFunctionOnSet(y, S) = 100 * SumFunctionOnSet(t, S)
  BY <1>2, <1>4, SumTimes
<1>8. SumFunctionOnSet(x, S) = A * SumFunctionOnSet(pct, S)
  BY <1>1, <1>2, <1>3, <1>4, SumTimes
<1> DEFINE T == SumFunctionOnSet(t, S)
           P == SumFunctionOnSet(pct, S)
<1>9. T \in Nat /\ P \in Nat /\ P <= 100
  BY <1>2, <1>3, <1>4, SumNat
<1>10. A * P <= A * 100
  BY <1>1, <1>9, ProductLeq
<1>11. 100 * T <= A * P
  BY <1>6, <1>7, <1>8
<1> HIDE DEF T, P
<1>12. T <= A
  <2> DEFINE w == A * P
  <2>1. w \in Nat
    BY <1>1, <1>9, ProductNat
  <2> HIDE DEF w
  <2> QED  BY <1>1, <1>9, <1>10, <1>11, <2>1 DEF w
<1> QED  BY <1>2, <1>5, <1>12 DEF T, A

SessionInv == IInv /\ BookInv /\ PlanTyped /\ Replay(events) = held

LEMMA DraftHoldsNothing ==
    ASSUME SessionInv, state = "draft"
    PROVE  held = NothingHeld /\ held.last = 0 /\ events = <<>>
BY ReplayEmpty DEF SessionInv, IInv, NothingHeld

LEMMA InitSessionInv == Init => SessionInv
<1> SUFFICES ASSUME Init PROVE SessionInv
  OBVIOUS
<1>1. /\ state = "draft" /\ now = 0 /\ targets = None /\ mission = None /\ locked = None
      /\ events = <<>> /\ held = NothingHeld
      /\ counters = [event |-> 0, position |-> 0, lot |-> 0]
  BY DEF Init
<1>2. DOMAIN events = {} /\ Len(events) = 0 /\ 1 .. 0 = {}
  BY <1>1
<1>3. held.ok /\ held.last = 0 /\ DOMAIN held.positions = {}
  BY <1>1 DEF NothingHeld
<1>4. HeldTyped
  BY <1>1, <1>2, <1>3 DEF HeldTyped
<1>5. EventsTyped
  BY <1>1, <1>2 DEF EventsTyped
<1>6. Adds = {}
  BY <1>2 DEF Adds
<1>7. PositionsBegun
  BY <1>2, <1>3, <1>6 DEF PositionsBegun
<1>8. LotsKept
  BY <1>3, <1>6 DEF LotsKept
<1>9. PlanTyped
  BY <1>1, SessionBounds DEF PlanTyped
<1> QED  BY <1>1, <1>4, <1>5, <1>7, <1>8, <1>9, InitIInv, ReplayEmpty DEF SessionInv, BookInv

\* The ledger stays, and the clock does not go back behind its last event.
LEMMA BookStays ==
    ASSUME BookInv, UNCHANGED ledger, now' \in Nat, held.last \in 0 .. now'
    PROVE  BookInv'
<1>1. events' = events /\ counters' = counters /\ held' = held
  BY DEF ledger
<1>2. HeldTyped'
  BY <1>1 DEF BookInv, HeldTyped
<1>3. EventsTyped'
  BY <1>1 DEF BookInv, EventsTyped
<1>4. PositionsBegun'
  BY <1>1 DEF BookInv, PositionsBegun, Adds
<1>5. LotsKept'
  <2>1. Adds' = Adds /\ AllExits' = AllExits
    BY <1>1 DEF Adds, AllExits
  <2>2. \A p \in DOMAIN held.positions : \A k \in DOMAIN held.positions[p].lots :
          LET lot == held.positions[p].lots[k] IN
          /\ lot.event \in Adds
          /\ events[lot.event].position = p
          /\ events[lot.event].lot = lot.id
          /\ lot.left = events[lot.event].qty
                - TakenIn(events, events[lot.event].lot, AllExits)
    BY TakenByLot DEF BookInv, LotsKept
  <2>3. \A p \in DOMAIN held'.positions : \A k \in DOMAIN held'.positions[p].lots :
          LET lot == held'.positions[p].lots[k] IN
          /\ lot.event \in Adds'
          /\ events'[lot.event].position = p
          /\ events'[lot.event].lot = lot.id
          /\ lot.left = events'[lot.event].qty
                - TakenIn(events', events'[lot.event].lot, AllExits')
    BY <1>1, <2>1, <2>2
  <2>4. \A n \in Adds' : \E k \in DOMAIN held'.positions[events'[n].position].lots :
           held'.positions[events'[n].position].lots[k].event = n
    BY <1>1, <2>1 DEF BookInv, LotsKept
  <2>5. \A m, n \in Adds' : events'[m].lot = events'[n].lot => m = n
    BY <1>1, <2>1 DEF BookInv, LotsKept
  <2> QED  BY <2>3, <2>4, <2>5 DEF LotsKept, Taken, Used, TakenIn, UsedBy
<1> QED  BY <1>2, <1>3, <1>4, <1>5 DEF BookInv

LEMMA BookGrows ==
    ASSUME BookInv, IInv, NEW e, Recorded(e), OfPlan(e)
    PROVE  BookInv'
BY HeldTypedGrows, EventsTypedGrows, PositionsBegunGrows, LotsKeptGrows, SessionBounds
   DEF BookInv, IInv

LEMMA NextSessionInv == SessionInv /\ [Next]_vars => SessionInv'
<1> SUFFICES ASSUME SessionInv, [Next]_vars PROVE SessionInv'
  OBVIOUS
<1>1. IInv'
  BY NextIInv DEF SessionInv
<1>2. /\ IInv /\ BookInv /\ PlanTyped /\ Replay(events) = held
      /\ now \in 0 .. End /\ End \in Nat /\ held.last \in 0 .. now
  BY SessionBounds DEF SessionInv, PlanTyped, BookInv, HeldTyped
<1>3. ASSUME UNCHANGED ledger PROVE Replay(events)' = held'
  BY <1>2, <1>3 DEF ledger, Replay
<1>4. ASSUME UNCHANGED ledger, now' \in Nat, held.last \in 0 .. now', PlanTyped'
      PROVE  SessionInv'
  BY <1>1, <1>2, <1>3, <1>4, BookStays DEF SessionInv
<1>5. ASSUME NEW S \in SUBSET Families, NEW pct \in [S -> Pcts], SetFamilyAllocations(pct)
      PROVE  SessionInv'
  <2>1. /\ UNCHANGED <<state, now, mission, locked, ledger>> /\ state = "draft"
        /\ SumFunctionOnSet(pct, DOMAIN pct) <= 100
        /\ targets' = [f \in DOMAIN pct |-> (AllocatableRial * pct[f]) \div 100]
    BY <1>5 DEF SetFamilyAllocations
  <2>2. targets' \in Targets /\ SumFunctionOnSet(targets', DOMAIN targets') <= AllocatableRial
    <3> DEFINE t == [f \in DOMAIN pct |-> (AllocatableRial * pct[f]) \div 100]
    <3>1. t \in Targets /\ SumFunctionOnSet(t, DOMAIN t) <= AllocatableRial
      BY <2>1, TargetsFit
    <3> QED  BY <2>1, <3>1
  <2>3. PlanTyped'
    BY <1>2, <2>1, <2>2 DEF PlanTyped, Targets, AllocatableRial
  <2> QED  BY <1>2, <1>4, <2>1, <2>3
<1>6. ASSUME NEW m \in Missions, SetPortfolioMission(m)
      PROVE  SessionInv'
  <2>1. UNCHANGED <<state, now, targets, locked, ledger>> /\ mission' = m
    BY <1>6 DEF SetPortfolioMission
  <2>2. PlanTyped'
    BY <1>2, <2>1 DEF PlanTyped, Targets, AllocatableRial
  <2> QED  BY <1>2, <1>4, <2>1, <2>2
<1>7. CASE Activate
  <2>1. /\ state = "draft" /\ targets # None /\ mission # None /\ state' = "active" /\ now' = 0
        /\ locked' = [targets |-> targets, mission |-> mission]
        /\ UNCHANGED <<targets, mission, ledger>>
    BY <1>7 DEF Activate
  <2>2. held.last = 0
    BY <2>1, DraftHoldsNothing
  <2>3. /\ targets \in Targets /\ mission \in Missions
        /\ SumFunctionOnSet(targets, DOMAIN targets) <= AllocatableRial
    BY <1>2, <2>1 DEF PlanTyped
  <2>4. locked' \in [targets : Targets, mission : Missions] /\ locked'.targets = targets
    BY <2>1, <2>3
  <2>5. PlanTyped'
    BY <1>2, <2>1, <2>3, <2>4 DEF PlanTyped, Targets, AllocatableRial
  <2> QED  BY <1>4, <2>1, <2>2, <2>5
<1>8. CASE Trade
  <2>1. PICK e : Recorded(e) /\ TradeOf(e)
    BY <1>2, <1>8, TradeRecords
  <2>2. BookInv'
    BY <1>2, <2>1, BookGrows DEF TradeOf
  <2>3. UNCHANGED <<state, now, plan>>
    BY <2>1 DEF Recorded
  <2>4. PlanTyped'
    BY <1>2, <2>3 DEF PlanTyped, plan, Targets, AllocatableRial
  <2>5. Replay(events') = held'
    <3>1. /\ Len(events) \in Nat /\ DOMAIN events = 1 .. Len(events)
          /\ DOMAIN events' = 1 .. Len(events) + 1
          /\ \A n \in 1 .. Len(events) : events'[n] = events[n]
          /\ events'[Len(events) + 1] = e /\ held' = ReplayEvent(held, e)
      BY <2>1 DEF Recorded
    <3> DEFINE more == events'
    <3> HIDE DEF more
    <3>2. Replay(more) = ReplayEvent(Replay(events), more[Len(events) + 1])
      BY <3>1, ReplayLast DEF more
    <3> QED  BY <1>2, <3>1, <3>2 DEF more
  <2>6. Replay(events)' = held'
    BY <2>5 DEF Replay
  <2> QED  BY <1>1, <2>2, <2>4, <2>6 DEF SessionInv
<1>9. ASSUME NEW to \in 0 .. End + 1, Step(to)
      PROVE  SessionInv'
  <2>1. now' \in 0 .. End /\ now' >= now /\ UNCHANGED <<state, plan, ledger>>
    BY <1>2, <1>9 DEF Step
  <2>2. PlanTyped'
    BY <1>2, <2>1 DEF PlanTyped, plan, Targets, AllocatableRial
  <2> QED  BY <1>2, <1>4, <2>1, <2>2
<1>10. CASE Closeout
  <2>1. state = "active" /\ state' = "closed" /\ UNCHANGED <<now, plan, ledger>>
    BY <1>10 DEF Closeout
  <2>2. PlanTyped'
    BY <1>2, <2>1 DEF PlanTyped, plan, Targets, AllocatableRial
  <2> QED  BY <1>2, <1>4, <2>1, <2>2
<1>11. CASE UNCHANGED vars
  <2>1. UNCHANGED <<state, now, plan, ledger>>
    BY <1>11 DEF vars
  <2>2. PlanTyped'
    BY <1>2, <2>1 DEF PlanTyped, plan, Targets, AllocatableRial
  <2> QED  BY <1>2, <1>4, <2>1, <2>2
<1> QED  BY <1>5, <1>6, <1>7, <1>8, <1>9, <1>10, <1>11 DEF Next

LEMMA SpecSessionInv == Spec => []SessionInv
BY InitSessionInv, NextSessionInv, PTL DEF Spec

-----------------------------------------------------------------------------
\* Types, replay and exits.

\* Every state of a mission is well typed: what operations leave in the plan, the
\* counters and the events of the ledger.
THEOREM SessionTypes == Spec => []TypeOK
<1>1. SessionInv => TypeOK
  <2> SUFFICES ASSUME SessionInv PROVE TypeOK
    OBVIOUS
  <2>1. PlanTyped /\ EventsTyped
    BY DEF SessionInv, BookInv
  <2>2. counters \in [{"event", "position", "lot"} -> Nat]
    BY <2>1 DEF EventsTyped
  <2>3. ASSUME NEW n \in DOMAIN events
        PROVE  /\ events[n].kind \in AddKinds \cup ExitKinds
               /\ events[n].at \in 0 .. End
               /\ events[n].position \in 1 .. counters.position
               /\ events[n].qty \in Nat \ {0}
               /\ events[n].lot \in 1 .. counters.lot \cup {None}
               /\ events[n].data \in CommitData \cup ExitData \cup {None}
    <3>1. WellFormed(events[n], counters)
      BY <2>1 DEF EventsTyped
    <3>2. AddKinds \cup ExitKinds = {"open", "increase"} \cup {"reduce", "close"}
             \cup {"rollIn", "rollOut", "settlement", "exercise"}
      BY DEF AddKinds, ExitKinds, PartialCloseKinds, FullCloseKinds
    <3> QED  BY <3>1, <3>2 DEF WellFormed
  <2>4. /\ state \in {"draft", "active", "closed"} /\ now \in 0 .. End
        /\ targets \in Targets \cup {None} /\ mission \in Missions \cup {None}
        /\ locked \in (IF state = "draft" THEN {None}
                       ELSE [targets : Targets, mission : Missions])
    BY <2>1 DEF PlanTyped
  <2> QED  BY <2>2, <2>3, <2>4 DEF TypeOK
<1> QED  BY <1>1, SpecSessionInv, PTL

-----------------------------------------------------------------------------
\* The replay takes every event that the checks before it let through.
LEMMA RecordableReplays ==
    ASSUME SessionInv, NEW kind \in AddKinds \cup ExitKinds, NEW p, NEW qty \in Nat,
           Recordable(kind, p, qty), NEW data
    PROVE  ReplayEvent(held, NewEvent(kind, p, qty, data)).ok
<1> DEFINE e == NewEvent(kind, p, qty, data)
           q == IF kind \in FullCloseKinds THEN held.positions[p].openQty ELSE qty
<1>1. /\ held.ok /\ held.last \in 0 .. now /\ now \in Nat /\ counters.position \in Nat
      /\ DOMAIN held.positions = 1 .. counters.position
      /\ \A i \in DOMAIN held.positions : Sound(held.positions[i])
  BY SessionBounds, CountersType DEF SessionInv, BookInv, HeldTyped, PlanTyped
<1>2. e.at = now /\ e.kind = kind
  BY DEF NewEvent
<1>3. Replayable(held, e)
  <2>1. CASE kind \in OpenKinds
    <3>1. e.position = counters.position + 1
      BY <2>1 DEF NewEvent
    <3> HIDE DEF e
    <3> QED  BY <1>1, <1>2, <2>1, <3>1 DEF Replayable
  <2>2. CASE kind \notin OpenKinds
    <3>1. e.position = p /\ (kind \in ExitKinds => e.qty = q)
      BY <2>2 DEF NewEvent
    <3>2. p \in DOMAIN held.positions /\ held.positions[p].open
      BY <2>2 DEF Recordable, IsOpen
    <3>3. kind \in FullCloseKinds \/ qty \in 1 .. held.positions[p].openQty
      <4>1. held.positions[p].openQty \in Nat
        BY <1>1, <3>2 DEF Sound, Position
      <4> QED  BY <2>2, <4>1 DEF Recordable
    <3>4. Sound(held.positions[p])
      BY <1>1, <3>2
    <3>5. held.positions[p].openQty \in Nat \ {0}
      BY <3>2, <3>4 DEF Sound, Position
    <3>6. q \in 1 .. held.positions[p].openQty
      BY <3>3, <3>5
    <3>7. kind \in ExitKinds => ConsumeFifo(held.positions[p].lots, e.qty).left = 0
      <4> SUFFICES ASSUME kind \in ExitKinds
                   PROVE  ConsumeFifo(held.positions[p].lots, e.qty).left = 0
        OBVIOUS
      <4> DEFINE old == held.positions[p]
      <4>1. e.qty \in 1 .. old.openQty /\ e.kind \in ExitKinds
        BY <1>2, <3>1, <3>6
      <4> HIDE DEF old, e
      <4> QED  BY <3>4, <4>1, Reduced DEF old
    <3> HIDE DEF e
    <3> QED  BY <1>1, <1>2, <2>2, <3>1, <3>2, <3>7 DEF Replayable
  <2> QED  BY <2>1, <2>2
<1> HIDE DEF e
<1>4. ReplayEvent(held, e).ok
  BY <1>1, <1>3, ReplayEventTakes
<1> QED  BY <1>4 DEF e

\* The ledger alone gives what is held, and the replay of the whole ledger with
\* which a transaction ends never refuses what its own checks let through.
THEOREM SessionReplays == Spec => []LedgerReplays
<1>1. SessionInv => LedgerReplays
  <2> SUFFICES ASSUME SessionInv PROVE LedgerReplays
    OBVIOUS
  <2>1. Replay(events) = held /\ held.ok
    BY DEF SessionInv, BookInv, HeldTyped
  <2>2. ASSUME NEW kind \in AddKinds \cup ExitKinds, NEW p \in 1 .. counters.position + 1,
               NEW qty \in 1 .. 2 * MaxQty, Recordable(kind, p, qty)
        PROVE  ReplayEvent(held, NewEvent(kind, p, qty, None)).ok
    <3>1. qty \in Nat
      BY SessionBounds
    <3> QED  BY <2>2, <3>1, RecordableReplays
  <2> QED  BY <2>1, <2>2 DEF LedgerReplays
<1> QED  BY <1>1, SpecSessionInv, PTL

-----------------------------------------------------------------------------
\* The first events of a ledger stay its first events.
LEMMA FirstEvents ==
    ASSUME NEW S, NEW log \in Seq(S), NEW e \in S
    PROVE  /\ \A n \in 0 .. Len(log) : SubSeq(Append(log, e), 1, n) = SubSeq(log, 1, n)
           /\ SubSeq(Append(log, e), 1, Len(log)) = log
           /\ SubSeq(Append(log, e), 1, Len(log) + 1) = Append(log, e)
<1> DEFINE more == Append(log, e)
           len == Len(log)
<1>1. /\ more \in Seq(S) /\ len \in Nat /\ Len(more) = len + 1
      /\ \A n \in 1 .. len : more[n] = log[n]
  OBVIOUS
<1> HIDE DEF more
<1>2. ASSUME NEW n \in 0 .. len PROVE SubSeq(more, 1, n) = SubSeq(log, 1, n)
  <2> DEFINE a == SubSeq(more, 1, n)
             b == SubSeq(log, 1, n)
  <2>1. n \in Nat /\ n <= len /\ n - 1 + 1 = n /\ 1 \in 1 .. Len(more) + 1 /\ 1 \in 1 .. Len(log) + 1
        /\ n \in 0 .. Len(more) /\ n \in 0 .. Len(log)
    BY <1>1
  <2>2. a \in Seq(S) /\ Len(a) = n /\ \A i \in 1 .. n : a[i] = more[i]
    <3>1. /\ a \in Seq(S) /\ Len(a) = (IF 1 <= n THEN n - 1 + 1 ELSE 0)
          /\ \A i \in 1 .. n - 1 + 1 : a[i] = more[1 + i - 1]
      BY <1>1, <2>1, SubSeqProperties
    <3> HIDE DEF a
    <3> QED  BY <2>1, <3>1
  <2>3. b \in Seq(S) /\ Len(b) = n /\ \A i \in 1 .. n : b[i] = log[i]
    <3>1. /\ b \in Seq(S) /\ Len(b) = (IF 1 <= n THEN n - 1 + 1 ELSE 0)
          /\ \A i \in 1 .. n - 1 + 1 : b[i] = log[1 + i - 1]
      BY <1>1, <2>1, SubSeqProperties
    <3> HIDE DEF b
    <3> QED  BY <2>1, <3>1
  <2> HIDE DEF a, b
  <2>4. \A i \in 1 .. n : a[i] = b[i]
    BY <1>1, <2>1, <2>2, <2>3
  <2>5. a = b
    BY <2>2, <2>3, <2>4
  <2> QED  BY <2>5 DEF a, b
<1>3. SubSeq(log, 1, len) = log
  BY SubSeqFull
<1>4. SubSeq(more, 1, len + 1) = more
  BY <1>1, SubSeqFull
<1>5. len \in 0 .. len
  BY <1>1
<1> QED  BY <1>2, <1>3, <1>4, <1>5 DEF more

\* What one event of the ledger must say, of what was held before and after it.
ExitTold(e, before, after) ==
    LET p == e.position IN
    /\ after[p].openQty = LeftOf(after[p].lots, DOMAIN after[p].lots)
    /\ after[p].open <=> after[p].openQty > 0
    /\ e.kind \in ExitKinds =>
          \A k \in DOMAIN before[p].lots :
             before[p].lots[k].left - after[p].lots[k].left = UsedBy(e, before[p].lots[k].id)
ExitsTold(log) ==
    \A n \in DOMAIN log :
        ExitTold(log[n], Replay(SubSeq(log, 1, n - 1)).positions,
                 Replay(SubSeq(log, 1, n)).positions)

LEMMA RecordedExitsTold == RecordedExits <=> ExitsTold(events)
BY DEF RecordedExits, ExitsTold, ExitTold, Used, UsedBy

LEMMA NewExitTold ==
    ASSUME BookInv, HeldTyped', NEW e, Recorded(e)
    PROVE  ExitTold(e, held.positions, held'.positions)
<1> DEFINE p == e.position
<1>1. p \in DOMAIN held'.positions
  BY HeldGrows
<1>2. Sound(held'.positions[p])
  BY <1>1 DEF HeldTyped
<1>3. ASSUME e.kind \in ExitKinds, NEW k \in DOMAIN held.positions[p].lots
      PROVE  held.positions[p].lots[k].left - held'.positions[p].lots[k].left
                = UsedBy(e, held.positions[p].lots[k].id)
  <2> DEFINE old == held.positions[p]
  <2>1. e.kind \notin OpenKinds
    BY <1>3 DEF ExitKinds, PartialCloseKinds, FullCloseKinds, OpenKinds
  <2>2. /\ p \in DOMAIN held.positions /\ Sound(old) /\ e.qty \in 1 .. old.openQty
        /\ held'.positions[p] = Changed(old, e)
    BY <1>3, <2>1, HeldGrows DEF Recorded, BookInv, HeldTyped
  <2>3. UsedBy(e, old.lots[k].id) = FifoTake(old.lots, e.qty)[k]
    BY <1>3, <2>2, ExitNames
  <2>4. old.lots \in Seq(Lot) /\ e.qty \in Nat /\ k \in DOMAIN old.lots
    BY <1>3, <2>2 DEF Sound, Position
  <2> HIDE DEF old
  <2>5. Changed(old, e).lots[k].left = old.lots[k].left - FifoTake(old.lots, e.qty)[k]
    BY <1>3, <2>2, <2>4, Reduced
  <2>6. FifoTake(old.lots, e.qty)[k] \in Nat /\ old.lots[k].left \in Nat
    <3> DEFINE lots == old.lots
               q == e.qty
    <3>1. lots \in Seq(Lot) /\ q \in Nat /\ k \in DOMAIN lots
      BY <2>4
    <3> HIDE DEF lots, q
    <3>2. FifoTake(lots, q)[k] \in 0 .. lots[k].left /\ lots[k].left \in Nat
      BY <3>1, FifoTyped, LotsOf
    <3> QED  BY <3>2 DEF lots, q
  <2> QED  BY <2>2, <2>3, <2>5, <2>6 DEF old
<1> QED  BY <1>2, <1>3 DEF ExitTold, Sound

LEMMA ExitsToldGrow ==
    ASSUME SessionInv, SessionInv', ExitsTold(events), NEW e, Recorded(e)
    PROVE  ExitsTold(events')
<1> DEFINE len == Len(events)
           more == events'
<1>1. PICK S : events \in Seq(S) /\ e \in S
  <2>1. PICK S : events \in Seq(S)
    BY DEF SessionInv, IInv
  <2>2. events \in Seq(S \cup {e})
    BY <2>1
  <2> QED  BY <2>2
<1>2. /\ more = Append(events, e) /\ len \in Nat
      /\ DOMAIN events = 1 .. len /\ DOMAIN more = 1 .. len + 1
      /\ (\A n \in 1 .. len : more[n] = events[n]) /\ more[len + 1] = e
  BY DEF Recorded
<1>3. Replay(events) = held /\ Replay(more) = held'
  <2>1. (Replay(events) = held)'
    BY DEF SessionInv
  <2>2. Replay(events') = held'
    BY <2>1 DEF Replay
  <2> QED  BY <2>2 DEF SessionInv
<1> HIDE DEF more
<1>4. /\ \A n \in 0 .. len : SubSeq(more, 1, n) = SubSeq(events, 1, n)
      /\ SubSeq(more, 1, len) = events /\ SubSeq(more, 1, len + 1) = more
  BY <1>1, <1>2, FirstEvents
<1>5. ASSUME NEW n \in 1 .. len
      PROVE  ExitTold(more[n], Replay(SubSeq(more, 1, n - 1)).positions,
                      Replay(SubSeq(more, 1, n)).positions)
  <2>1. n \in 0 .. len /\ n - 1 \in 0 .. len /\ more[n] = events[n] /\ n \in DOMAIN events
    BY <1>2
  <2> HIDE DEF len
  <2> QED  BY <1>4, <2>1 DEF ExitsTold
<1>6. ExitTold(more[len + 1], Replay(SubSeq(more, 1, len + 1 - 1)).positions,
               Replay(SubSeq(more, 1, len + 1)).positions)
  <2>1. len + 1 - 1 = len
    BY <1>2
  <2>2. ExitTold(e, held.positions, held'.positions)
    BY NewExitTold DEF SessionInv, BookInv
  <2> QED  BY <1>2, <1>3, <1>4, <2>1, <2>2
<1>7. \A n \in DOMAIN more : n \in 1 .. len \/ n = len + 1
  BY <1>2
<1> DEFINE Told(n) == ExitTold(more[n], Replay(SubSeq(more, 1, n - 1)).positions,
                               Replay(SubSeq(more, 1, n)).positions)
<1>8. \A n \in DOMAIN more : Told(n)
  <2>1. \A n \in 1 .. len : Told(n)
    BY <1>5
  <2>2. Told(len + 1)
    BY <1>6
  <2> HIDE DEF Told, len
  <2> QED  BY <1>7, <2>1, <2>2
<1>9. ExitsTold(more)
  BY <1>8, Zenon DEF ExitsTold
<1> QED  BY <1>9 DEF more

\* An exit event names the lots that the replay takes it from, each with the
\* quantity it gives, and the quantity and the status of a position agree.
THEOREM SessionExits == Spec => []RecordedExits
<1>1. Init => ExitsTold(events)
  <2> SUFFICES ASSUME Init PROVE DOMAIN events = {}
    BY DEF ExitsTold
  <2> QED  BY DEF Init
<1>2. SessionInv /\ SessionInv' /\ ExitsTold(events) /\ [Next]_vars => ExitsTold(events')
  <2> SUFFICES ASSUME SessionInv, SessionInv', ExitsTold(events), [Next]_vars
               PROVE  ExitsTold(events')
    OBVIOUS
  <2>1. CASE UNCHANGED events
    BY <2>1
  <2>2. CASE Trade
    <3>1. PICK e : Recorded(e)
      BY <2>2, TradeRecords DEF SessionInv
    <3> QED  BY <3>1, ExitsToldGrow
  <2> QED  BY <2>1, <2>2 DEF Next, vars, ledger, SetFamilyAllocations, SetPortfolioMission,
                             Activate, Step, Closeout
<1>3. ExitsTold(events') => ExitsTold(events)'
  BY DEF ExitsTold, ExitTold, UsedBy, Replay
<1>4. SessionInv /\ SessionInv' /\ ExitsTold(events) /\ [Next]_vars => ExitsTold(events)'
  BY <1>2, <1>3
<1>5. Spec => []ExitsTold(events)
  BY <1>1, <1>4, SpecSessionInv, PTL DEF Spec
<1> QED  BY <1>5, RecordedExitsTold, PTL

-----------------------------------------------------------------------------
\* Capital and margin in use.

CommitKinds == {"open", "increase"}
CommitsOf(log) == {n \in DOMAIN log : log[n].data # None /\ log[n].data.by = "commit"}
ExitsOf(log) == {n \in DOMAIN log : log[n].kind \in ExitKinds}

\* The commits of a ledger are the events that plans opened or grew positions by.
LEMMA CommitsAre ==
    ASSUME NEW log, NEW issued, \A n \in DOMAIN log : WellFormed(log[n], issued)
    PROVE  \A n \in DOMAIN log :
              /\ n \in CommitsOf(log) <=> log[n].kind \in CommitKinds
              /\ log[n].kind \in CommitKinds => log[n].data \in CommitData
              /\ log[n].qty \in Nat
<1> SUFFICES ASSUME NEW n \in DOMAIN log
             PROVE  /\ n \in CommitsOf(log) <=> log[n].kind \in CommitKinds
                    /\ log[n].kind \in CommitKinds => log[n].data \in CommitData
                    /\ log[n].qty \in Nat
  OBVIOUS
<1> DEFINE e == log[n]
<1>1. WellFormed(e, issued)
  OBVIOUS
<1>2. n \in CommitsOf(log) <=> e.data # None /\ e.data.by = "commit"
  BY DEF CommitsOf
<1> HIDE DEF e
<1>3. e.kind \in CommitKinds => e.data \in CommitData
  BY <1>1 DEF WellFormed, CommitKinds
<1>4. e.data \in CommitData => e.data # None /\ e.data.by = "commit"
  BY NoneAssumption DEF CommitData
<1>5. e.data \in ExitData => e.data.by # "commit"
  BY DEF ExitData
<1>6. e.kind \notin CommitKinds => e.data \in ExitData \/ e.data = None
  BY <1>1 DEF WellFormed, CommitKinds, AddKinds, ExitKinds, PartialCloseKinds, FullCloseKinds
<1>7. e.qty \in Nat
  BY <1>1 DEF WellFormed
<1> QED  BY <1>2, <1>3, <1>4, <1>5, <1>6, <1>7 DEF e

LEMMA CommitsOfNow == Commits = CommitsOf(events) /\ AllExits = ExitsOf(events)
BY DEF Commits, CommitsOf, AllExits, ExitsOf

\* The commits after one more event.
LEMMA CommitsGrow ==
    ASSUME BookInv, NEW e, Recorded(e)
    PROVE  /\ CommitsOf(events') = CommitsOf(events)
                 \cup (IF e.kind \in CommitKinds THEN {Len(events) + 1} ELSE {})
           /\ ExitsOf(events') = ExitsOf(events)
                 \cup (IF e.kind \in ExitKinds THEN {Len(events) + 1} ELSE {})
           /\ Len(events) + 1 \notin DOMAIN events
           /\ e.kind \in CommitKinds => e.kind \notin ExitKinds /\ e.kind \in AddKinds
           /\ e.qty \in Nat /\ (e.kind \in CommitKinds => e.data \in CommitData)
<1> DEFINE more == events'
           len == Len(events)
<1>1. /\ len \in Nat /\ DOMAIN events = 1 .. len /\ DOMAIN more = 1 .. len + 1
      /\ (\A n \in 1 .. len : more[n] = events[n]) /\ more[len + 1] = e
      /\ WellFormed(e, counters')
  BY DEF Recorded
<1>2. /\ \A n : n \in DOMAIN more <=> n \in DOMAIN events \/ n = len + 1
      /\ len + 1 \notin DOMAIN events
  BY <1>1
<1> HIDE DEF more, len
<1>3. e.data # None /\ e.data.by = "commit" <=> e.kind \in CommitKinds
  <2> DEFINE log == [n \in {0} |-> e]
  <2>1. \A n \in DOMAIN log : WellFormed(log[n], counters')
    BY <1>1
  <2>2. 0 \in DOMAIN log /\ log[0] = e
    OBVIOUS
  <2> HIDE DEF log
  <2>3. 0 \in CommitsOf(log) <=> e.kind \in CommitKinds
    BY <2>1, <2>2, CommitsAre
  <2> QED  BY <2>2, <2>3 DEF CommitsOf
<1>4. CommitsOf(more) = CommitsOf(events) \cup (IF e.kind \in CommitKinds THEN {len + 1} ELSE {})
  BY <1>1, <1>2, <1>3 DEF CommitsOf
<1>5. ExitsOf(more) = ExitsOf(events) \cup (IF e.kind \in ExitKinds THEN {len + 1} ELSE {})
  BY <1>1, <1>2 DEF ExitsOf
<1>6. e.kind \in CommitKinds => e.kind \notin ExitKinds /\ e.kind \in AddKinds
  BY DEF CommitKinds, ExitKinds, PartialCloseKinds, FullCloseKinds, AddKinds
<1>7. e.qty \in Nat /\ (e.kind \in CommitKinds => e.data \in CommitData)
  BY <1>1 DEF WellFormed, CommitKinds
<1> QED  BY <1>2, <1>4, <1>5, <1>6, <1>7 DEF more, len

-----------------------------------------------------------------------------
\* Capital or margin in use, of any ledger.
Part == {"capital", "margin"}
InUseOf(log, part, n, exits) ==
    log[n].data.quote[part] * (log[n].qty - TakenIn(log, log[n].lot, exits))
InUseIn(log, part, commits, exits) ==
    SumFunctionOnSet([n \in commits |-> InUseOf(log, part, n, exits)], commits)

LEMMA InUseNow == \A part, commits : InUse(part, commits) = InUseIn(events, part, commits, ExitsOf(events))
BY DEF InUse, InUseIn, InUseOf, Taken, TakenIn, Used, UsedBy, AllExits, ExitsOf

LEMMA CommitsTyped ==
    ASSUME SessionInv
    PROVE  /\ CommitsOf(events) \subseteq Adds /\ Adds \subseteq DOMAIN events
           /\ IsFiniteSet(CommitsOf(events)) /\ IsFiniteSet(DOMAIN events)
           /\ \A n \in CommitsOf(events) :
                 /\ events[n].data \in CommitData
                 /\ events[n].qty \in Nat
                 /\ \A part \in Part : events[n].data.quote[part] \in Nat
                 /\ events[n].data.quote.cash \in Int
<1>1. \A n \in DOMAIN events : WellFormed(events[n], counters)
  BY DEF SessionInv, BookInv, EventsTyped
<1>2. \A n \in DOMAIN events :
              /\ n \in CommitsOf(events) <=> events[n].kind \in CommitKinds
              /\ events[n].kind \in CommitKinds => events[n].data \in CommitData
              /\ events[n].qty \in Nat
  BY <1>1, CommitsAre
<1>3. CommitsOf(events) \subseteq DOMAIN events
  BY DEF CommitsOf
<1>4. CommitsOf(events) \subseteq Adds /\ Adds \subseteq DOMAIN events
  BY <1>2, <1>3 DEF Adds, CommitKinds, AddKinds
<1>5. IsFiniteSet(DOMAIN events) /\ IsFiniteSet(CommitsOf(events))
  <2>1. DOMAIN events = 1 .. Len(events) /\ Len(events) \in Nat
    BY AppendElements DEF SessionInv, IInv
  <2>2. IsFiniteSet(DOMAIN events)
    BY <2>1, RangeFinite
  <2> QED  BY <1>3, <2>2, FS_Subset
<1>6. ASSUME NEW n \in CommitsOf(events)
      PROVE  /\ events[n].data \in CommitData
             /\ events[n].qty \in Nat
             /\ \A part \in Part : events[n].data.quote[part] \in Nat
             /\ events[n].data.quote.cash \in Int
  <2>1. events[n].data \in CommitData /\ events[n].qty \in Nat
    BY <1>2, <1>3
  <2>2. events[n].data.quote \in Quotes
    BY <2>1 DEF CommitData
  <2>3. events[n].data.quote \in [capital : Nat, margin : Nat, cash : Int]
    BY <2>2, QuoteAssumption
  <2>4. events[n].data.quote.capital \in Nat /\ events[n].data.quote.margin \in Nat
    BY <2>3
  <2> QED  BY <2>1, <2>3, <2>4 DEF Part
<1> QED  BY <1>4, <1>5, <1>6

\* What is in use of one commit goes by what is left of its lot.
LEMMA InUseType ==
    ASSUME SessionInv, NEW n \in CommitsOf(events), NEW part \in Part
    PROVE  /\ events[n].qty - TakenIn(events, events[n].lot, ExitsOf(events)) \in Nat
           /\ InUseOf(events, part, n, ExitsOf(events)) \in Nat
<1> DEFINE p == events[n].position
<1>1. n \in Adds
  BY CommitsTyped
<1>2. PICK k \in DOMAIN held.positions[p].lots : held.positions[p].lots[k].event = n
  BY <1>1 DEF SessionInv, BookInv, LotsKept
<1>3. p \in DOMAIN held.positions
  BY <1>1 DEF Adds, SessionInv, BookInv, EventsTyped, WellFormed, HeldTyped
<1> DEFINE lot == held.positions[p].lots[k]
<1>4. lot.left = events[n].qty - TakenIn(events, events[n].lot, AllExits)
  BY <1>2, <1>3, TakenByLot DEF SessionInv, BookInv, LotsKept
<1>5. lot.left \in Nat
  BY <1>3, LotsOf DEF SessionInv, BookInv, HeldTyped, Sound, Position
<1> HIDE DEF lot
<1>6. events[n].qty - TakenIn(events, events[n].lot, ExitsOf(events)) \in Nat
  BY <1>4, <1>5, CommitsOfNow
<1>7. events[n].data.quote[part] \in Nat
  BY CommitsTyped
<1> QED  BY <1>6, <1>7, ProductNat DEF InUseOf

\* What the operations take for in use, from the lots that are held, is what the
\* events say of themselves.
LEMMA EngagedIs ==
    ASSUME SessionInv, NEW C \in SUBSET CommitsOf(events), NEW part
    PROVE  Engaged(part, C) = InUseIn(events, part, C, ExitsOf(events))
<1> DEFINE left(n) == LET lots == held.positions[events[n].position].lots IN
                      lots[CHOOSE k \in DOMAIN lots : lots[k].id = events[n].lot].left
<1>1. ASSUME NEW n \in C
      PROVE  left(n) = events[n].qty - TakenIn(events, events[n].lot, ExitsOf(events))
  <2> DEFINE p == events[n].position
             lots == held.positions[p].lots
             c == CHOOSE k \in DOMAIN lots : lots[k].id = events[n].lot
  <2>1. n \in Adds
    BY CommitsTyped
  <2>2. p \in DOMAIN held.positions
    BY <2>1 DEF Adds, SessionInv, BookInv, EventsTyped, WellFormed, HeldTyped
  <2>3. PICK k \in DOMAIN lots : lots[k].event = n
    BY <2>1 DEF SessionInv, BookInv, LotsKept
  <2>4. /\ lots[k].id = events[n].lot
        /\ lots[k].left = events[n].qty - TakenIn(events, events[n].lot, AllExits)
    BY <2>2, <2>3, TakenByLot DEF SessionInv, BookInv, LotsKept
  <2>5. DistinctIds(lots)
    BY <2>2 DEF SessionInv, BookInv, HeldTyped, Sound
  <2>6. c \in DOMAIN lots /\ lots[c].id = events[n].lot
    BY <2>4
  <2>7. left(n) = lots[c].left
    OBVIOUS
  <2> HIDE DEF c, lots, left
  <2>8. c = k
    BY <2>4, <2>5, <2>6 DEF DistinctIds
  <2> QED  BY <2>4, <2>7, <2>8, CommitsOfNow
<1> DEFINE f == [n \in C |-> events[n].data.quote[part] * left(n)]
           g == [n \in C |-> InUseOf(events, part, n, ExitsOf(events))]
<1>2. f = g
  <2> HIDE DEF left
  <2>1. \A n \in C : events[n].data.quote[part] * left(n) = InUseOf(events, part, n, ExitsOf(events))
    BY <1>1 DEF InUseOf
  <2> QED  BY <2>1
<1>3. Engaged(part, C) = SumFunctionOnSet(f, C)
  BY DEF Engaged
<1>4. InUseIn(events, part, C, ExitsOf(events)) = SumFunctionOnSet(g, C)
  BY DEF InUseIn
<1> HIDE DEF f, g
<1> QED  BY <1>2, <1>3, <1>4

LEMMA InUseInType ==
    ASSUME SessionInv, NEW C \in SUBSET CommitsOf(events), NEW part \in Part
    PROVE  InUseIn(events, part, C, ExitsOf(events)) \in Nat /\ IsFiniteSet(C)
<1> DEFINE f == [n \in C |-> InUseOf(events, part, n, ExitsOf(events))]
<1>1. IsFiniteSet(C)
  BY CommitsTyped, FS_Subset
<1>2. \A n \in C : f[n] \in Nat
  BY InUseType
<1> HIDE DEF f
<1>3. SumFunctionOnSet(f, C) \in Nat
  BY <1>1, <1>2, SumNat
<1> QED  BY <1>1, <1>3 DEF InUseIn, f

\* One more event does not make more of what is in use, but for the commit it is.
LEMMA InUseGrows ==
    ASSUME SessionInv, NEW e, Recorded(e), NEW C \in SUBSET CommitsOf(events), NEW part \in Part
    PROVE  /\ InUseIn(events', part, C, ExitsOf(events'))
                 <= InUseIn(events, part, C, ExitsOf(events))
           /\ InUseIn(events', part, C, ExitsOf(events')) \in Int
           /\ e.kind \in CommitKinds =>
                 InUseIn(events', part, C \cup {Len(events) + 1}, ExitsOf(events'))
                    = InUseIn(events, part, C, ExitsOf(events)) + e.data.quote[part] * e.qty
<1> DEFINE more == events'
           new == Len(events) + 1
           X == ExitsOf(events)
           Y == ExitsOf(more)
           f == [n \in C |-> InUseOf(more, part, n, Y)]
           g == [n \in C |-> InUseOf(events, part, n, X)]
<1>0. BookInv /\ X = AllExits /\ IsFiniteSet(C)
  BY CommitsOfNow, InUseInType DEF SessionInv
<1>1. /\ CommitsOf(more) = CommitsOf(events) \cup (IF e.kind \in CommitKinds THEN {new} ELSE {})
      /\ Y = X \cup (IF e.kind \in ExitKinds THEN {new} ELSE {})
      /\ new \notin DOMAIN events
      /\ e.kind \in CommitKinds => e.kind \notin ExitKinds /\ e.kind \in AddKinds
      /\ e.qty \in Nat /\ (e.kind \in CommitKinds => e.data \in CommitData)
  BY <1>0, CommitsGrow
<1>2. /\ \A n \in DOMAIN events : more[n] = events[n]
      /\ more[new] = e
  BY DEF Recorded
<1>3. C \subseteq DOMAIN events /\ new \notin C
  BY <1>1, CommitsTyped
<1> HIDE DEF more, new, X, Y, f, g
<1>4. ASSUME NEW n \in C
      PROVE  /\ InUseOf(more, part, n, Y) \in Int
             /\ InUseOf(events, part, n, X) \in Int
             /\ InUseOf(more, part, n, Y) <= InUseOf(events, part, n, X)
             /\ e.kind \notin ExitKinds => InUseOf(more, part, n, Y) = InUseOf(events, part, n, X)
  <2> DEFINE a == events[n].data.quote[part]
             old == TakenIn(events, events[n].lot, X)
             now1 == TakenIn(more, more[n].lot, Y)
             q == events[n].qty
  <2>1. a \in Nat /\ q \in Nat
    BY CommitsTyped
  <2>2. /\ old \in Nat /\ now1 \in Nat /\ now1 >= old
        /\ e.kind \notin ExitKinds => now1 = old
    <3>1. n \in DOMAIN events /\ X \in SUBSET AllExits /\ BookInv
      BY <1>0, <1>3
    <3>2. /\ TakenIn(events, events[n].lot, X) \in Nat
          /\ TakenIn(more, more[n].lot, X) = TakenIn(events, events[n].lot, X)
          /\ e.kind \in ExitKinds =>
                /\ UsedBy(e, events[n].lot) \in Nat
                /\ TakenIn(more, more[n].lot, X \cup {new})
                      = TakenIn(events, events[n].lot, X) + UsedBy(e, events[n].lot)
      BY <3>1, TakenGrows DEF more, new
    <3>3. CASE e.kind \in ExitKinds
      <4>1. Y = X \cup {new}
        BY <1>1, <3>3
      <4> QED  BY <3>2, <3>3, <4>1
    <3>4. CASE e.kind \notin ExitKinds
      <4>1. Y = X
        BY <1>1, <3>4
      <4> QED  BY <3>2, <3>4, <4>1
    <3> QED  BY <3>3, <3>4
  <2>3. InUseOf(more, part, n, Y) = a * (q - now1) /\ InUseOf(events, part, n, X) = a * (q - old)
    BY <1>2, <1>3 DEF InUseOf
  <2> HIDE DEF a, old, now1, q
  <2> DEFINE d == now1 - old
             u == a * (q - now1)
             v == a * (q - old)
  <2>4. d \in Nat /\ q - old = (q - now1) + d /\ q - now1 \in Int /\ q - old \in Int
    BY <2>1, <2>2
  <2>5. u \in Int /\ v \in Int /\ a * d \in Nat
    BY <2>1, <2>4, ProductNat
  <2>6. v = u + a * d
    BY <2>1, <2>4
  <2>7. u <= v
    <3> HIDE DEF u, v, d
    <3> DEFINE w == a * d
    <3>1. w \in Nat /\ v = u + w
      BY <2>5, <2>6
    <3> HIDE DEF w
    <3> QED  BY <2>5, <3>1
  <2> QED  BY <2>2, <2>3, <2>5, <2>7
<1>5. \A n \in C : f[n] \in Int /\ g[n] \in Int /\ f[n] <= g[n]
  BY <1>4 DEF f, g
<1>6. InUseIn(more, part, C, Y) = SumFunctionOnSet(f, C) /\ InUseIn(events, part, C, X) = SumFunctionOnSet(g, C)
  BY DEF InUseIn, f, g
<1>7. InUseIn(more, part, C, Y) <= InUseIn(events, part, C, X) /\ InUseIn(more, part, C, Y) \in Int
  BY <1>0, <1>5, <1>6, SumLeq, SumType
<1>8. ASSUME e.kind \in CommitKinds
      PROVE  InUseIn(more, part, C \cup {new}, Y) = InUseIn(events, part, C, X) + e.data.quote[part] * e.qty
  <2> DEFINE D == C \cup {new}
             h == [n \in D |-> InUseOf(more, part, n, Y)]
  <2>1. e.data.quote[part] \in Nat
    <3>1. e.data.quote \in [capital : Nat, margin : Nat, cash : Int]
      BY <1>1, <1>8, QuoteAssumption DEF CommitData
    <3>2. e.data.quote.capital \in Nat /\ e.data.quote.margin \in Nat
      BY <3>1
    <3> QED  BY <3>2 DEF Part
  <2>2. h[new] = e.data.quote[part] * e.qty
    <3>1. TakenIn(more, e.lot, Y) = 0
      <4>1. Y = X /\ X \in SUBSET AllExits
        BY <1>0, <1>1, <1>8
      <4> QED  BY <1>0, <1>1, <1>8, <4>1, TakenNew DEF more
    <3>2. e.qty - 0 = e.qty
      BY <1>1
    <3>3. h[new] = InUseOf(more, part, new, Y)
      OBVIOUS
    <3> HIDE DEF h
    <3> QED  BY <1>2, <3>1, <3>2, <3>3 DEF InUseOf
  <2>3. \A n \in C : h[n] = g[n] /\ h[n] \in Int
    BY <1>1, <1>4, <1>8 DEF g
  <2>4. h[new] \in Int
    BY <1>1, <2>1, <2>2, ProductNat
  <2>5. InUseIn(more, part, D, Y) = SumFunctionOnSet(h, D)
    BY DEF InUseIn
  <2> HIDE DEF h
  <2>6. \A n \in C \cup {new} : h[n] \in Int
    BY <2>3, <2>4
  <2>7. SumFunctionOnSet(h, C \cup {new}) = SumFunctionOnSet(h, C) + h[new]
    BY <1>0, <1>3, <2>6, SumAdd
  <2>8. SumFunctionOnSet(h, C) = SumFunctionOnSet(g, C)
    BY <1>0, <2>3, SumSame
  <2> QED  BY <1>6, <2>2, <2>5, <2>7, <2>8
<1> QED  BY <1>7, <1>8 DEF more, new, X, Y

-----------------------------------------------------------------------------
\* The limits of risk.

\* A step records one event of an operation of the program, or leaves the ledger
\* alone; the plan is locked while the ledger is still empty.
LEMMA SessionSteps ==
    ASSUME SessionInv, [Next]_vars
    PROVE  \/ \E e : Recorded(e) /\ TradeOf(e)
           \/ /\ UNCHANGED ledger
              /\ \/ locked' = locked
                 \/ events = <<>> /\ locked' = [targets |-> targets, mission |-> mission]
<1> DEFINE Quiet == UNCHANGED ledger /\
              \/ locked' = locked
              \/ events = <<>> /\ locked' = [targets |-> targets, mission |-> mission]
<1>1. CASE Trade
  BY <1>1, TradeRecords DEF SessionInv
<1>2. CASE Activate
  <2>1. /\ state = "draft" /\ UNCHANGED ledger
        /\ locked' = [targets |-> targets, mission |-> mission]
    BY <1>2 DEF Activate
  <2> QED  BY <2>1, DraftHoldsNothing
<1>3. ASSUME NEW pct, SetFamilyAllocations(pct) PROVE Quiet
  BY <1>3 DEF SetFamilyAllocations
<1>4. ASSUME NEW m, SetPortfolioMission(m) PROVE Quiet
  BY <1>4 DEF SetPortfolioMission
<1>5. ASSUME NEW to, Step(to) PROVE Quiet
  BY <1>5 DEF Step, plan
<1>6. CASE Closeout
  BY <1>6 DEF Closeout, plan
<1>7. CASE UNCHANGED vars
  BY <1>7 DEF vars, plan
<1> QED  BY <1>1, <1>2, <1>3, <1>4, <1>5, <1>6, <1>7 DEF Next

-----------------------------------------------------------------------------
RiskHolds(log, limits) ==
    CommitsOf(log) # {} =>
        /\ InitialRial - InUseIn(log, "capital", CommitsOf(log), ExitsOf(log))
              >= limits.mission.minFree
        /\ InUseIn(log, "margin", CommitsOf(log), ExitsOf(log)) <= limits.mission.maxMargin

LEMMA RiskIs == RiskKept <=> RiskHolds(events, locked)
BY CommitsOfNow, InUseNow DEF RiskKept, RiskHolds

LEMMA NoCommitsYet == events = <<>> => CommitsOf(events) = {}
BY DEF CommitsOf

\* The limits of an active mission.
LEMMA LockedTyped ==
    ASSUME SessionInv, state # "draft"
    PROVE  /\ locked.targets \in Targets
           /\ locked.mission.minFree \in Nat /\ locked.mission.maxMargin \in Nat
<1>1. locked \in [targets : Targets, mission : Missions]
  BY DEF SessionInv, PlanTyped
<1> QED  BY <1>1, MissionAssumption

LEMMA NextRisk == SessionInv /\ RiskKept /\ [Next]_vars => RiskKept'
<1> SUFFICES ASSUME SessionInv, RiskHolds(events, locked), [Next]_vars
             PROVE  RiskHolds(events', locked')
  <2>1. RiskKept' <=> RiskHolds(events, locked)'
    BY RiskIs, PTL
  <2>2. RiskHolds(events, locked)' <=> RiskHolds(events', locked')
    BY DEF RiskHolds, InUseIn, CommitsOf, ExitsOf, InUseOf, TakenIn, UsedBy
  <2> QED  BY <2>1, <2>2, RiskIs
<1>1. CASE UNCHANGED ledger /\ locked' = locked
  <2>1. events' = events
    BY <1>1 DEF ledger
  <2> QED  BY <1>1, <2>1
<1>2. CASE UNCHANGED ledger /\ events = <<>>
  <2>1. CommitsOf(events') = {}
    BY <1>2, NoCommitsYet DEF ledger
  <2> QED  BY <2>1 DEF RiskHolds
<1>3. ASSUME NEW e, Recorded(e), TradeOf(e) PROVE RiskHolds(events', locked')
  <2> DEFINE more == events'
             C == CommitsOf(events)
             X == ExitsOf(events)
             Y == ExitsOf(more)
             new == Len(events) + 1
             free == locked.mission.minFree
             ceiling == locked.mission.maxMargin
  <2>1. locked' = locked /\ state = "active"
    BY <1>3 DEF Recorded, plan
  <2>2. free \in Nat /\ ceiling \in Nat /\ InitialRial \in Nat
    BY <2>1, LockedTyped, CapitalAssumption
  <2>3. CommitsOf(more) = C \cup (IF e.kind \in CommitKinds THEN {new} ELSE {})
        /\ e.qty \in Nat /\ (e.kind \in CommitKinds => e.data \in CommitData)
    BY <1>3, CommitsGrow DEF SessionInv
  <2>4. ASSUME NEW part \in Part
        PROVE  /\ InUseIn(events, part, C, X) \in Nat
               /\ InUseIn(more, part, C, Y) \in Int
               /\ InUseIn(more, part, C, Y) <= InUseIn(events, part, C, X)
               /\ e.kind \in CommitKinds =>
                     /\ InUseIn(more, part, C \cup {new}, Y)
                           = InUseIn(events, part, C, X) + e.data.quote[part] * e.qty
                     /\ Engaged(part, Commits) = InUseIn(events, part, C, X)
    BY <1>3, InUseGrows, InUseInType, EngagedIs, CommitsOfNow
  <2>5. "capital" \in Part /\ "margin" \in Part
    BY DEF Part
  <2>6. CASE e.kind \notin CommitKinds
    <3>1. CommitsOf(more) = C
      BY <2>3, <2>6
    <3> HIDE DEF more, C, X, Y, free, ceiling
    <3>2. C # {} => /\ InitialRial - InUseIn(more, "capital", C, Y) >= free
                    /\ InUseIn(more, "margin", C, Y) <= ceiling
      <4>1. C # {} => /\ InitialRial - InUseIn(events, "capital", C, X) >= free
                      /\ InUseIn(events, "margin", C, X) <= ceiling
        BY DEF RiskHolds, C, X, free, ceiling
      <4> QED  BY <2>2, <2>4, <2>5, <4>1
    <3> QED  BY <2>1, <3>1, <3>2 DEF RiskHolds, more, Y, free, ceiling
  <2>7. CASE e.kind \in CommitKinds
    <3>1. CommitsOf(more) = C \cup {new}
      BY <2>3, <2>7
    <3>2. Room(e.data.quote, e.qty)
      BY <1>3, <2>7 DEF TradeOf, CommitKinds, Affordable
    <3>3. /\ InitialRial - (Engaged("capital", Commits) + e.data.quote["capital"] * e.qty) >= free
          /\ Engaged("margin", Commits) + e.data.quote["margin"] * e.qty <= ceiling
      BY <3>2 DEF Room
    <3> HIDE DEF more, C, X, Y, free, ceiling
    <3>4. /\ InitialRial - InUseIn(more, "capital", C \cup {new}, Y) >= free
          /\ InUseIn(more, "margin", C \cup {new}, Y) <= ceiling
      BY <2>4, <2>5, <2>7, <3>3
    <3> QED  BY <2>1, <3>1, <3>4 DEF RiskHolds, more, Y, free, ceiling
  <2> QED  BY <2>6, <2>7
<1> QED  BY <1>1, <1>2, <1>3, SessionSteps

LEMMA InitRisk == Init => RiskKept
BY RiskIs, NoCommitsYet DEF Init, RiskHolds

\* The locked risk limits hold in every state: ledgerRoomFor() is asked before
\* every commit, and nothing else puts more capital or margin to use.
THEOREM SessionRisk == Spec => []RiskKept
BY SpecSessionInv, InitRisk, NextRisk, PTL DEF Spec

-----------------------------------------------------------------------------
\* The budgets of the families.

FamilyCommits(log, f) == {n \in CommitsOf(log) : FamilyOf[log[n].data.candidate] = f}

FamiliesWithin(log, limits) ==
    \A f \in Families :
        FamilyCommits(log, f) # {} =>
            /\ f \in DOMAIN limits.targets
            /\ InUseIn(log, "capital", FamilyCommits(log, f), ExitsOf(log)) <= limits.targets[f]

LEMMA NextFamiliesWithin ==
    ASSUME SessionInv, FamiliesWithin(events, locked), [Next]_vars
    PROVE  FamiliesWithin(events', locked')
<1>1. CASE UNCHANGED ledger /\ locked' = locked
  <2>1. events' = events
    BY <1>1 DEF ledger
  <2> QED  BY <1>1, <2>1
<1>2. CASE UNCHANGED ledger /\ events = <<>>
  <2>1. CommitsOf(events') = {}
    BY <1>2, NoCommitsYet DEF ledger
  <2> QED  BY <2>1 DEF FamiliesWithin, FamilyCommits
<1>3. ASSUME NEW e, Recorded(e), TradeOf(e) PROVE FamiliesWithin(events', locked')
  <2> DEFINE more == events'
             X == ExitsOf(events)
             Y == ExitsOf(more)
             new == Len(events) + 1
             T == locked.targets
  <2>1. locked' = locked /\ state = "active"
    BY <1>3 DEF Recorded, plan
  <2>2. CommitsOf(more) = CommitsOf(events) \cup (IF e.kind \in CommitKinds THEN {new} ELSE {})
        /\ new \notin DOMAIN events
        /\ e.qty \in Nat /\ (e.kind \in CommitKinds => e.data \in CommitData)
    BY <1>3, CommitsGrow DEF SessionInv
  <2>3. /\ \A n \in CommitsOf(events) : more[n] = events[n]
        /\ more[new] = e
    BY <1>3, CommitsTyped DEF Recorded
  <2>4. \A f \in DOMAIN T : T[f] \in Nat
    <3>1. PICK S \in SUBSET Families : T \in [S -> 0 .. AllocatableRial]
      BY <2>1, LockedTyped DEF Targets
    <3>2. AllocatableRial \in Nat
      BY CapitalAssumption DEF AllocatableRial
    <3> QED  BY <3>1, <3>2
  <2> SUFFICES ASSUME NEW f \in Families, FamilyCommits(more, f) # {}
               PROVE  /\ f \in DOMAIN T
                      /\ InUseIn(more, "capital", FamilyCommits(more, f), Y) <= T[f]
    BY <2>1 DEF FamiliesWithin
  <2> DEFINE C == FamilyCommits(events, f)
  <2>5. C \in SUBSET CommitsOf(events) /\ "capital" \in Part
    BY DEF FamilyCommits, Part
  <2>6. /\ InUseIn(events, "capital", C, X) \in Nat
        /\ InUseIn(more, "capital", C, Y) \in Int
        /\ InUseIn(more, "capital", C, Y) <= InUseIn(events, "capital", C, X)
        /\ e.kind \in CommitKinds =>
              /\ InUseIn(more, "capital", C \cup {new}, Y)
                    = InUseIn(events, "capital", C, X) + e.data.quote["capital"] * e.qty
              /\ Engaged("capital", C) = InUseIn(events, "capital", C, X)
    BY <1>3, <2>5, InUseGrows, InUseInType, EngagedIs
  <2>7. C # {} => f \in DOMAIN T /\ InUseIn(events, "capital", C, X) <= T[f]
    BY DEF FamiliesWithin
  <2> HIDE DEF more, X, Y, new, T
  <2>8. CASE e.kind \in CommitKinds /\ FamilyOf[e.data.candidate] = f
    <3>1. FamilyCommits(more, f) = C \cup {new}
      BY <2>2, <2>3, <2>8 DEF FamilyCommits
    <3>2. Affordable(e.data.candidate, e.data.quote, e.qty)
      BY <1>3, <2>8 DEF TradeOf, CommitKinds
    <3>3. FamilySpent(f) = Engaged("capital", C)
      BY CommitsOfNow DEF FamilySpent, FamilyCommits
    <3>4. f \in DOMAIN T /\ e.data.quote["capital"] * e.qty <= T[f] - FamilySpent(f)
      BY <2>8, <3>2 DEF Affordable, T
    <3>5. e.data.quote["capital"] * e.qty \in Int
      <4>1. e.data.quote \in [capital : Nat, margin : Nat, cash : Int]
        BY <2>2, <2>8, QuoteAssumption DEF CommitData
      <4> QED  BY <2>2, <4>1, ProductNat
    <3> QED  BY <2>4, <2>6, <2>8, <3>1, <3>3, <3>4, <3>5
  <2>9. CASE ~(e.kind \in CommitKinds /\ FamilyOf[e.data.candidate] = f)
    <3>1. FamilyCommits(more, f) = C
      BY <2>2, <2>3, <2>9 DEF FamilyCommits
    <3> QED  BY <2>4, <2>6, <2>7, <3>1
  <2> QED  BY <2>8, <2>9
<1> QED  BY <1>1, <1>2, <1>3, SessionSteps

\* What every family keeps to its target is together no more than was allocated.
LEMMA FamiliesFit ==
    ASSUME SessionInv, FamiliesWithin(events, locked), state # "draft"
    PROVE  InUseIn(events, "capital", CommitsOf(events), ExitsOf(events)) <= AllocatableRial
<1> DEFINE C == CommitsOf(events)
           X == ExitsOf(events)
           T == locked.targets
           g == [n \in C |-> InUseOf(events, "capital", n, X)]
           m == [n \in C |-> FamilyOf[events[n].data.candidate]]
           of(f) == {n \in C : m[n] = f}
           spent == [f \in Families |-> SumFunctionOnSet(g, of(f))]
           may == [f \in Families |-> IF f \in DOMAIN T THEN T[f] ELSE 0]
<1>1. /\ IsFiniteSet(Families) /\ FamilyOf \in [Candidates -> Families]
      /\ AllocatableRial \in Nat
  BY FamilyAssumption, CapitalAssumption DEF AllocatableRial
<1>2. /\ DOMAIN T \in SUBSET Families
      /\ \A f \in DOMAIN T : T[f] \in Nat
      /\ SumFunctionOnSet(T, DOMAIN T) <= AllocatableRial
  <2>1. PICK S \in SUBSET Families : T \in [S -> 0 .. AllocatableRial]
    BY LockedTyped DEF Targets
  <2>2. SumFunctionOnSet(T, DOMAIN T) <= AllocatableRial
    BY DEF SessionInv, PlanTyped
  <2> QED  BY <1>1, <2>1, <2>2
<1>3. IsFiniteSet(C)
  BY CommitsTyped
<1>4. \A n \in C : g[n] \in Nat /\ m[n] \in Families
  <2> SUFFICES ASSUME NEW n \in C PROVE g[n] \in Nat /\ m[n] \in Families
    OBVIOUS
  <2>1. events[n].data \in CommitData
    BY CommitsTyped
  <2>2. m[n] \in Families
    BY <1>1, <2>1 DEF CommitData
  <2>3. g[n] \in Nat
    BY InUseType DEF Part
  <2> QED  BY <2>2, <2>3
<1>5. ASSUME NEW f \in Families
      PROVE  spent[f] \in Int /\ may[f] \in Int /\ spent[f] <= may[f]
  <2> DEFINE D == FamilyCommits(events, f)
             h == [n \in D |-> InUseOf(events, "capital", n, X)]
  <2>1. of(f) = D /\ D \in SUBSET C /\ IsFiniteSet(D)
    BY <1>3, FS_Subset DEF FamilyCommits
  <2>2. \A n \in D : g[n] \in Int /\ g[n] = h[n]
    BY <1>4, <2>1
  <2>3. InUseIn(events, "capital", D, X) = SumFunctionOnSet(h, D)
    BY DEF InUseIn
  <2>4. spent[f] = SumFunctionOnSet(g, D) /\ may[f] = (IF f \in DOMAIN T THEN T[f] ELSE 0)
    BY <2>1
  <2> HIDE DEF g, h, spent, may, of
  <2>5. SumFunctionOnSet(g, D) = SumFunctionOnSet(h, D) /\ SumFunctionOnSet(g, D) \in Int
    BY <2>1, <2>2, SumSame, SumType
  <2>6. may[f] \in Nat
    BY <1>2, <2>4
  <2>7. CASE D = {}
    BY <2>4, <2>5, <2>6, <2>7, SumEmpty
  <2>8. CASE D # {}
    <3>1. f \in DOMAIN T /\ InUseIn(events, "capital", D, X) <= T[f]
      BY <2>8 DEF FamiliesWithin
    <3> QED  BY <2>3, <2>4, <2>5, <2>6, <3>1
  <2> QED  BY <2>7, <2>8
<1>6. /\ InUseIn(events, "capital", C, X) = SumFunctionOnSet(g, C)
      /\ spent = [f \in Families |-> SumFunctionOnSet(g, {n \in C : m[n] = f})]
  BY DEF InUseIn
<1>7. /\ \A f \in Families : may[f] \in Int
      /\ \A f \in Families \ DOMAIN T : may[f] = 0
      /\ \A f \in DOMAIN T : may[f] \in Int /\ may[f] = T[f]
  BY <1>2
<1> HIDE DEF g, m, spent, may, T
<1>8. SumFunctionOnSet(g, C) = SumFunctionOnSet(spent, Families)
  BY <1>1, <1>3, <1>4, <1>6, SumByParts
<1>9. SumFunctionOnSet(spent, Families) <= SumFunctionOnSet(may, Families)
  BY <1>1, <1>5, SumLeq
<1>10. SumFunctionOnSet(may, Families) = SumFunctionOnSet(may, DOMAIN T)
  BY <1>1, <1>2, <1>7, SumPart
<1>11. SumFunctionOnSet(may, DOMAIN T) = SumFunctionOnSet(T, DOMAIN T)
  BY <1>1, <1>2, <1>7, SumSame, FS_Subset
<1>12. /\ SumFunctionOnSet(may, Families) \in Int /\ SumFunctionOnSet(spent, Families) \in Int
  BY <1>1, <1>5, SumType
<1> QED  BY <1>1, <1>2, <1>6, <1>8, <1>9, <1>10, <1>11, <1>12

LEMMA WithinBudgets == SessionInv /\ FamiliesWithin(events, locked) => BudgetsKept
<1> SUFFICES ASSUME SessionInv, FamiliesWithin(events, locked), locked # None
             PROVE  BudgetsKept
  BY DEF BudgetsKept
<1>1. state # "draft"
  BY DEF SessionInv, PlanTyped
<1>2. InUse("capital", Commits) <= InitialRial - ReserveRial
  BY <1>1, FamiliesFit, CommitsOfNow, InUseNow DEF AllocatableRial
<1>3. ASSUME NEW f \in Families, {n \in Commits : FamilyOf[events[n].data.candidate] = f} # {}
      PROVE  InUse("capital", {n \in Commits : FamilyOf[events[n].data.candidate] = f})
                <= locked.targets[f]
  <2>1. {n \in Commits : FamilyOf[events[n].data.candidate] = f} = FamilyCommits(events, f)
    BY CommitsOfNow DEF FamilyCommits
  <2> QED  BY <1>3, <2>1, InUseNow DEF FamiliesWithin
<1> QED  BY <1>2, <1>3 DEF BudgetsKept

\* However positions grow, shrink and make room for others, no family has more
\* capital in use than its locked target and the cash reserve stays whole: the
\* commit asks only what its own family has left, and nobody asks for the total.
THEOREM SessionBudgets == Spec => []BudgetsKept
<1> DEFINE Within == FamiliesWithin(events, locked)
<1>1. Init => Within
  BY NoCommitsYet DEF Init, FamiliesWithin, FamilyCommits
<1>2. SessionInv /\ Within /\ [Next]_vars => Within'
  <2> SUFFICES ASSUME SessionInv, Within, [Next]_vars PROVE Within'
    OBVIOUS
  <2>1. FamiliesWithin(events', locked')
    BY NextFamiliesWithin
  <2> QED  BY <2>1 DEF FamiliesWithin, FamilyCommits, CommitsOf, ExitsOf, InUseIn, InUseOf, TakenIn, UsedBy
<1>3. SessionInv /\ Within => BudgetsKept
  BY WithinBudgets
<1> HIDE DEF Within
<1> QED  BY SpecSessionInv, <1>1, <1>2, <1>3, PTL DEF Spec

-----------------------------------------------------------------------------
\* Profit and cash.

\* A sum over one element more.
LEMMA SumMore ==
    ASSUME NEW f, NEW g, NEW S, IsFiniteSet(S), NEW x, x \notin S, f[x] \in Int,
           \A y \in S : f[y] \in Int /\ f[y] = g[y]
    PROVE  SumFunctionOnSet(f, S \cup {x}) = SumFunctionOnSet(g, S) + f[x]
<1>1. \A y \in S \cup {x} : f[y] \in Int
  OBVIOUS
<1>2. SumFunctionOnSet(f, S \cup {x}) = SumFunctionOnSet(f, S) + f[x]
  BY <1>1, SumAdd
<1>3. SumFunctionOnSet(f, S) = SumFunctionOnSet(g, S)
  BY SumSame
<1> QED  BY <1>2, <1>3

LEMMA ProductInt == \A a, b \in Int : a * b \in Int
OBVIOUS

LEMMA ProductDiffers == \A a, b, c \in Int : a * (b - c) = a * b - a * c
OBVIOUS

-----------------------------------------------------------------------------
\* The lots of the position are those of commits, and only they give something.
LEMMA EntryBasisIs ==
    ASSUME SessionInv, NEW e, Recorded(e), e.kind \in ExitKinds, Planned(e.position)
    PROVE  EntryBasis(held.positions[e.position].lots, e.qty)
              = SumFunctionOnSet([n \in CommitsOf(events) |->
                                     events[n].data.quote.cash * UsedBy(e, events[n].lot)],
                                 CommitsOf(events))
<1> DEFINE p == e.position
           lots == held.positions[p].lots
           S == DOMAIN lots
           C == CommitsOf(events)
           take == FifoTake(lots, e.qty)
           h == [k \in S |-> events[lots[k].event].data.quote.cash * take[k]]
           g == [n \in C |-> events[n].data.quote.cash * UsedBy(e, events[n].lot)]
           m == [k \in S |-> lots[k].event]
           R == {m[k] : k \in S}
<1>1. p \in DOMAIN held.positions /\ BookInv
  BY DEF Recorded, SessionInv, ExitKinds, PartialCloseKinds, FullCloseKinds, OpenKinds
<1>2. lots \in Seq(Lot) /\ DistinctIds(lots) /\ IsFiniteSet(S)
  BY <1>1, LotsOf, RangeFinite DEF BookInv, HeldTyped, Sound, Position
<1>3. e.qty \in Nat /\ Names(e.consumed, lots, e.qty)
  BY <1>2, ConsumedNames DEF Recorded, WellFormed
<1>4. ASSUME NEW k \in S
      PROVE  /\ take[k] \in Int /\ m[k] \in C /\ m[k] = lots[k].event
             /\ events[m[k]].lot = lots[k].id
             /\ UsedBy(e, lots[k].id) = take[k]
  <2>1. take[k] \in Nat
    BY <1>2, <1>3, FifoTyped, LotsOf
  <2>2. m[k] \in Adds /\ events[m[k]].kind \in CommitKinds /\ events[m[k]].lot = lots[k].id
    BY <1>1, PlannedLots DEF CommitKinds, BookInv, LotsKept
  <2>3. m[k] \in C
    BY <1>1, <2>2, CommitsAre DEF BookInv, EventsTyped, Adds
  <2>4. UsedBy(e, lots[k].id) = take[k]
    BY <1>3 DEF Names, UsedBy
  <2>5. m[k] = lots[k].event
    OBVIOUS
  <2> HIDE DEF m, take, lots, C
  <2> QED  BY <2>1, <2>2, <2>3, <2>4, <2>5
<1>5. \A k, l \in S : m[k] = m[l] => k = l
  <2>1. \A k \in S : events[m[k]].lot = lots[k].id
    BY <1>4
  <2>2. \A k, l \in S : lots[k].id = lots[l].id => k = l
    BY <1>2 DEF DistinctIds
  <2> HIDE DEF m, lots, S
  <2> QED  BY <2>1, <2>2
<1>6. ASSUME NEW n \in C
      PROVE  /\ events[n].data.quote.cash \in Int
             /\ UsedBy(e, events[n].lot) \in Int
             /\ n \notin R => UsedBy(e, events[n].lot) = 0
  <2>1. n \in Adds
    BY CommitsTyped
  <2>2. UsedBy(e, events[n].lot) \in Nat
    BY <1>3 DEF Names, UsedBy
  <2>3. ASSUME events[n].lot \in DOMAIN e.consumed PROVE n \in R
    <3>1. PICK k \in S : lots[k].id = events[n].lot
      BY <1>3, <2>3 DEF Names
    <3>2. m[k] \in Adds /\ events[m[k]].lot = events[n].lot
      BY <1>4, <3>1, CommitsTyped
    <3>3. m[k] = n
      BY <1>1, <2>1, <3>2 DEF BookInv, LotsKept
    <3> QED  BY <3>3
  <2> QED  BY <2>2, <2>3, CommitsTyped DEF UsedBy
<1>7. IsFiniteSet(C) /\ R \in SUBSET C
  BY <1>4, CommitsTyped
<1>8. \A n \in C : g[n] \in Int
  <2> SUFFICES ASSUME NEW n \in C PROVE g[n] \in Int
    OBVIOUS
  <2>1. g[n] = events[n].data.quote.cash * UsedBy(e, events[n].lot)
    OBVIOUS
  <2> HIDE DEF g
  <2> QED  BY <1>6, <2>1, ProductInt
<1>9. \A n \in C \ R : g[n] = 0
  <2> SUFFICES ASSUME NEW n \in C, n \notin R PROVE g[n] = 0
    BY Zenon
  <2>1. g[n] = events[n].data.quote.cash * UsedBy(e, events[n].lot)
    OBVIOUS
  <2> HIDE DEF g, R
  <2> QED  BY <1>6, <2>1
<1>10. \A k \in S : h[k] \in Int /\ h[k] = g[m[k]]
  <2> SUFFICES ASSUME NEW k \in S PROVE h[k] \in Int /\ h[k] = g[m[k]]
    OBVIOUS
  <2>1. g[m[k]] = events[m[k]].data.quote.cash * UsedBy(e, events[m[k]].lot)
    BY <1>4
  <2>2. h[k] = events[m[k]].data.quote.cash * take[k]
    OBVIOUS
  <2>3. g[m[k]] \in Int
    BY <1>4, <1>8
  <2> HIDE DEF g, h, m, take
  <2> QED  BY <1>4, <2>1, <2>2, <2>3
<1>11. EntryBasis(lots, e.qty) = SumFunctionOnSet(h, S)
  BY DEF EntryBasis
<1> HIDE DEF g, h, m, S, C
<1>12. SumFunctionOnSet(h, S) = SumFunctionOnSet(g, R)
  BY <1>2, <1>5, <1>10, SumRenamed
<1>13. SumFunctionOnSet(g, C) = SumFunctionOnSet(g, R)
  BY <1>7, <1>8, <1>9, SumPart
<1>14. EntryBasis(lots, e.qty) = SumFunctionOnSet(g, C)
  BY <1>11, <1>12, <1>13
<1> QED  BY <1>14 DEF g, C

-----------------------------------------------------------------------------
Priced(log) == {n \in ExitsOf(log) : log[n].data # None}

KeptIn(log, exits, n) ==
    log[n].data.quote.cash * (log[n].qty - TakenIn(log, log[n].lot, exits))

RealizedIn(log, X) == SumFunctionOnSet([n \in X |-> log[n].data.realized], X)
PaidIn(log, X) == SumFunctionOnSet([n \in X |-> log[n].data.cash * log[n].qty], X)
HoldsIn(log, X, C) == SumFunctionOnSet([n \in C |-> KeptIn(log, X, n)], C)
EnteredIn(log, C) ==
    SumFunctionOnSet([n \in C |-> log[n].data.quote.cash * log[n].qty], C)

Balances(log) ==
    RealizedIn(log, Priced(log)) + HoldsIn(log, Priced(log), CommitsOf(log))
        = EnteredIn(log, CommitsOf(log)) + PaidIn(log, Priced(log))

LEMMA BalancesIs == RealizedBalances <=> Balances(events)
<1>1. PricedExits = Priced(events)
  BY CommitsOfNow DEF PricedExits, Priced
<1>2. \A n : Taken(n, PricedExits) = TakenIn(events, events[n].lot, Priced(events))
  BY <1>1, TakenByLot
<1> DEFINE X == Priced(events)
           C == CommitsOf(events)
           a == [n \in X |-> events[n].data.realized]
           b == [n \in C |-> events[n].data.quote.cash * (events[n].qty - Taken(n, PricedExits))]
           c == [n \in C |-> events[n].data.quote.cash * events[n].qty]
           d == [n \in X |-> events[n].data.cash * events[n].qty]
<1>3. b = [n \in C |-> KeptIn(events, X, n)]
  BY <1>2 DEF KeptIn
<1>4. RealizedBalances <=>
         SumFunctionOnSet(a, DOMAIN a) + SumFunctionOnSet(b, DOMAIN b)
            = SumFunctionOnSet(c, DOMAIN c) + SumFunctionOnSet(d, DOMAIN d)
  BY <1>1, CommitsOfNow DEF RealizedBalances
<1>5. /\ SumFunctionOnSet(a, DOMAIN a) = RealizedIn(events, X)
      /\ SumFunctionOnSet(b, DOMAIN b) = HoldsIn(events, X, C)
      /\ SumFunctionOnSet(c, DOMAIN c) = EnteredIn(events, C)
      /\ SumFunctionOnSet(d, DOMAIN d) = PaidIn(events, X)
  BY <1>3 DEF RealizedIn, HoldsIn, EnteredIn, PaidIn
<1> HIDE DEF a, b, c, d
<1> QED  BY <1>4, <1>5 DEF Balances

\* Exits at a price are the partial and full closes that the user makes.
LEMMA PricedAre ==
    ASSUME NEW log, NEW issued, NEW n \in DOMAIN log, WellFormed(log[n], issued)
    PROVE  /\ n \in Priced(log) <=> log[n].kind \in {"reduce", "close"}
           /\ n \in Priced(log) => /\ log[n].data \in ExitData /\ log[n].qty \in Nat
                                   /\ log[n].data.cash \in Int /\ log[n].data.realized \in Int
<1> DEFINE e == log[n]
<1>1. n \in Priced(log) <=> e.kind \in ExitKinds /\ e.data # None
  BY DEF Priced, ExitsOf
<1>2. WellFormed(e, issued)
  OBVIOUS
<1> HIDE DEF e
<1>3. e.kind \in {"reduce", "close"} => e.kind \in ExitKinds /\ e.data \in ExitData
  BY <1>2 DEF WellFormed, ExitKinds, PartialCloseKinds, FullCloseKinds
<1>4. e.kind \in ExitKinds /\ e.data # None => e.kind \in {"reduce", "close"}
  BY <1>2 DEF WellFormed, ExitKinds, PartialCloseKinds, FullCloseKinds
<1>5. None \notin ExitData /\ Exits \subseteq Int
  BY NoneAssumption, QuoteAssumption
<1>6. e.data \in ExitData => e.data # None /\ e.data.cash \in Int /\ e.data.realized \in Int
  BY <1>5 DEF ExitData
<1>7. e.qty \in Nat
  BY <1>2 DEF WellFormed
<1> QED  BY <1>1, <1>3, <1>4, <1>6, <1>7 DEF e

LEMMA PricedTyped ==
    ASSUME SessionInv
    PROVE  /\ Priced(events) \in SUBSET AllExits /\ IsFiniteSet(Priced(events))
           /\ \A n \in Priced(events) :
                 /\ n \in DOMAIN events /\ events[n].qty \in Nat
                 /\ events[n].data.cash \in Int /\ events[n].data.realized \in Int
<1>1. Priced(events) \in SUBSET AllExits
  BY CommitsOfNow DEF Priced
<1>2. IsFiniteSet(Priced(events))
  BY <1>1, ExitsFinite, AppendElements DEF SessionInv, IInv
<1>3. \A n \in Priced(events) : n \in DOMAIN events
  BY <1>1 DEF AllExits
<1>4. \A n \in DOMAIN events : WellFormed(events[n], counters)
  BY DEF SessionInv, BookInv, EventsTyped
<1> QED  BY <1>1, <1>2, <1>3, <1>4, PricedAre

LEMMA PricedGrow ==
    ASSUME SessionInv, NEW e, Recorded(e)
    PROVE  /\ Priced(events') = Priced(events)
                 \cup (IF e.kind \in {"reduce", "close"} THEN {Len(events) + 1} ELSE {})
           /\ e.kind \in {"reduce", "close"} =>
                 /\ e.data.cash \in Int /\ e.data.realized \in Int
                 /\ e.kind \in ExitKinds /\ e.kind \notin CommitKinds
<1> DEFINE more == events'
           len == Len(events)
<1>1. /\ len \in Nat /\ DOMAIN events = 1 .. len /\ DOMAIN more = 1 .. len + 1
      /\ (\A n \in 1 .. len : more[n] = events[n]) /\ more[len + 1] = e
      /\ WellFormed(e, counters')
  BY DEF Recorded
<1>2. ExitsOf(more) = ExitsOf(events) \cup (IF e.kind \in ExitKinds THEN {len + 1} ELSE {})
  BY CommitsGrow DEF SessionInv
<1>3. ExitsOf(events) \subseteq DOMAIN events /\ len + 1 \in DOMAIN more /\ len + 1 \notin DOMAIN events
  BY <1>1 DEF ExitsOf
<1> HIDE DEF more, len
<1>4. /\ len + 1 \in Priced(more) <=> e.kind \in {"reduce", "close"}
      /\ len + 1 \in Priced(more) => e.data.cash \in Int /\ e.data.realized \in Int
  <2>1. WellFormed(more[len + 1], counters')
    BY <1>1
  <2> QED  BY <1>1, <1>3, <2>1, PricedAre
<1>5. \A n : n # len + 1 => (n \in Priced(more) <=> n \in Priced(events))
  BY <1>1, <1>2, <1>3 DEF Priced
<1>6. len + 1 \notin Priced(events)
  BY <1>3 DEF Priced
<1>7. e.kind \in {"reduce", "close"} => e.kind \in ExitKinds /\ e.kind \notin CommitKinds
  BY DEF ExitKinds, PartialCloseKinds, FullCloseKinds, CommitKinds
<1> QED  BY <1>4, <1>5, <1>6, <1>7 DEF more, len

-----------------------------------------------------------------------------
\* The four sums of a ledger are numbers, each of numbers.
LEMMA SumsTyped ==
    ASSUME SessionInv
    PROVE  LET X == Priced(events)
               C == CommitsOf(events)
           IN /\ \A n \in C : /\ KeptIn(events, X, n) \in Int
                              /\ events[n].data.quote.cash * events[n].qty \in Int
                              /\ TakenIn(events, events[n].lot, X) \in Nat
              /\ \A n \in X : events[n].data.cash * events[n].qty \in Int
              /\ RealizedIn(events, X) \in Int /\ PaidIn(events, X) \in Int
              /\ HoldsIn(events, X, C) \in Int /\ EnteredIn(events, C) \in Int
<1> DEFINE X == Priced(events)
           C == CommitsOf(events)
           a == [n \in X |-> events[n].data.realized]
           b == [n \in C |-> KeptIn(events, X, n)]
           c == [n \in C |-> events[n].data.quote.cash * events[n].qty]
           d == [n \in X |-> events[n].data.cash * events[n].qty]
<1>1. /\ C \subseteq DOMAIN events /\ IsFiniteSet(C) /\ X \in SUBSET AllExits /\ IsFiniteSet(X)
      /\ \A n \in C : events[n].data.quote.cash \in Int /\ events[n].qty \in Int
      /\ \A n \in X : /\ events[n].data.cash \in Int /\ events[n].qty \in Int
                      /\ events[n].data.realized \in Int
  BY CommitsTyped, PricedTyped
<1>2. \A n \in C : TakenIn(events, events[n].lot, X) \in Nat
  <2> SUFFICES ASSUME NEW n \in C PROVE TakenIn(events, events[n].lot, X) \in Nat
    OBVIOUS
  <2>1. \A m \in X : UsedBy(events[m], events[n].lot) \in Nat
    BY <1>1, UsedTyped DEF SessionInv, BookInv
  <2> QED  BY <1>1, <2>1, TakenInType
<1> HIDE DEF X, C
<1>3. \A n \in C : KeptIn(events, X, n) \in Int
  <2> SUFFICES ASSUME NEW n \in C PROVE KeptIn(events, X, n) \in Int
    OBVIOUS
  <2>1. events[n].qty - TakenIn(events, events[n].lot, X) \in Int
    BY <1>1, <1>2
  <2> QED  BY <1>1, <2>1, ProductInt DEF KeptIn
<1>4. /\ \A n \in C : events[n].data.quote.cash * events[n].qty \in Int
      /\ \A n \in X : events[n].data.cash * events[n].qty \in Int
  BY <1>1, ProductInt
<1>5. /\ \A n \in X : a[n] \in Int /\ d[n] \in Int
      /\ \A n \in C : b[n] \in Int /\ c[n] \in Int
  BY <1>1, <1>3, <1>4
<1> HIDE DEF a, b, c, d
<1>6. /\ SumFunctionOnSet(a, X) \in Int /\ SumFunctionOnSet(d, X) \in Int
      /\ SumFunctionOnSet(b, C) \in Int /\ SumFunctionOnSet(c, C) \in Int
  BY <1>1, <1>5, SumType
<1>7. /\ RealizedIn(events, X) \in Int /\ PaidIn(events, X) \in Int
      /\ HoldsIn(events, X, C) \in Int /\ EnteredIn(events, C) \in Int
  BY <1>6 DEF RealizedIn, PaidIn, HoldsIn, EnteredIn, a, b, c, d
<1> QED  BY <1>2, <1>3, <1>4, <1>7 DEF X, C

\* Events that stay as they are sum up to what they did.
LEMMA SumsStay ==
    ASSUME SessionInv, NEW e, Recorded(e)
    PROVE  LET X == Priced(events)
               C == CommitsOf(events)
               more == events'
           IN /\ RealizedIn(more, X) = RealizedIn(events, X)
              /\ PaidIn(more, X) = PaidIn(events, X)
              /\ EnteredIn(more, C) = EnteredIn(events, C)
              /\ HoldsIn(more, X, C) = HoldsIn(events, X, C)
              /\ \A n \in X \cup C : more[n] = events[n]
              /\ \A n \in C : KeptIn(more, X, n) = KeptIn(events, X, n)
<1> DEFINE X == Priced(events)
           C == CommitsOf(events)
           more == events'
<1>1. \A n \in DOMAIN events : more[n] = events[n]
  BY DEF Recorded
<1>2. C \subseteq DOMAIN events /\ X \subseteq DOMAIN events /\ X \in SUBSET AllExits
  BY CommitsTyped, PricedTyped
<1>3. \A n \in C : TakenIn(more, more[n].lot, X) = TakenIn(events, events[n].lot, X)
  BY <1>2, TakenGrows DEF SessionInv
<1> HIDE DEF X, C, more
<1>4. \A n \in X \cup C : more[n] = events[n]
  BY <1>1, <1>2
<1>5. \A n \in C : KeptIn(more, X, n) = KeptIn(events, X, n)
  BY <1>3, <1>4 DEF KeptIn
<1>6. RealizedIn(more, X) = RealizedIn(events, X) /\ PaidIn(more, X) = PaidIn(events, X)
  <2>1. [n \in X |-> more[n].data.realized] = [n \in X |-> events[n].data.realized]
    BY <1>4
  <2>2. [n \in X |-> more[n].data.cash * more[n].qty] = [n \in X |-> events[n].data.cash * events[n].qty]
    BY <1>4
  <2> QED  BY <2>1, <2>2 DEF RealizedIn, PaidIn
<1>7. EnteredIn(more, C) = EnteredIn(events, C) /\ HoldsIn(more, X, C) = HoldsIn(events, X, C)
  <2>1. [n \in C |-> more[n].data.quote.cash * more[n].qty]
           = [n \in C |-> events[n].data.quote.cash * events[n].qty]
    BY <1>4
  <2>2. [n \in C |-> KeptIn(more, X, n)] = [n \in C |-> KeptIn(events, X, n)]
    BY <1>5
  <2> QED  BY <2>1, <2>2 DEF EnteredIn, HoldsIn
<1> QED  BY <1>4, <1>5, <1>6, <1>7 DEF X, C, more

\* What a commit enters, it keeps: nothing was taken from a lot that is new.
LEMMA CommitBalances ==
    ASSUME SessionInv, NEW e, Recorded(e), e.kind \in CommitKinds
    PROVE  LET X == Priced(events)
               C == CommitsOf(events)
               more == events'
               paid == e.data.quote.cash * e.qty
           IN /\ CommitsOf(more) = C \cup {Len(events) + 1}
              /\ HoldsIn(more, X, CommitsOf(more)) = HoldsIn(events, X, C) + paid
              /\ EnteredIn(more, CommitsOf(more)) = EnteredIn(events, C) + paid
              /\ paid \in Int
<1> DEFINE X == Priced(events)
           C == CommitsOf(events)
           more == events'
           new == Len(events) + 1
           paid == e.data.quote.cash * e.qty
           b == [n \in C \cup {new} |-> KeptIn(more, X, n)]
           c == [n \in C \cup {new} |-> more[n].data.quote.cash * more[n].qty]
           b0 == [n \in C |-> KeptIn(events, X, n)]
           c0 == [n \in C |-> events[n].data.quote.cash * events[n].qty]
<1>1. /\ CommitsOf(more) = C \cup {new} /\ new \notin C /\ IsFiniteSet(C)
      /\ e.kind \in AddKinds /\ e.qty \in Nat /\ e.data \in CommitData
      /\ more[new] = e /\ X \in SUBSET AllExits
  BY CommitsGrow, CommitsTyped, PricedTyped DEF SessionInv, Recorded
<1>2. paid \in Int
  <2>1. e.data.quote.cash \in Int
    BY <1>1, QuoteAssumption DEF CommitData
  <2> QED  BY <1>1, <2>1, ProductInt
<1>3. KeptIn(more, X, new) = paid
  <2>1. TakenIn(more, e.lot, X) = 0
    BY <1>1, TakenNew DEF SessionInv
  <2>2. e.qty - 0 = e.qty
    BY <1>1
  <2> QED  BY <1>1, <2>1, <2>2 DEF KeptIn
<1>4. /\ \A n \in C : more[n] = events[n] /\ KeptIn(more, X, n) = KeptIn(events, X, n)
      /\ \A n \in C : /\ KeptIn(events, X, n) \in Int
                      /\ events[n].data.quote.cash * events[n].qty \in Int
  BY SumsStay, SumsTyped
<1>5. /\ \A n \in C : b[n] \in Int /\ b[n] = b0[n] /\ c[n] \in Int /\ c[n] = c0[n]
      /\ b[new] = paid /\ c[new] = paid
  <2> HIDE DEF X, C, paid
  <2>1. c[new] = more[new].data.quote.cash * more[new].qty
    OBVIOUS
  <2>2. c[new] = paid
    BY <1>1, <2>1 DEF paid
  <2> HIDE DEF more, new
  <2> QED  BY <1>3, <1>4, <2>2
<1>6. /\ HoldsIn(more, X, CommitsOf(more)) = SumFunctionOnSet(b, C \cup {new})
      /\ EnteredIn(more, CommitsOf(more)) = SumFunctionOnSet(c, C \cup {new})
      /\ HoldsIn(events, X, C) = SumFunctionOnSet(b0, C)
      /\ EnteredIn(events, C) = SumFunctionOnSet(c0, C)
  BY <1>1 DEF HoldsIn, EnteredIn
<1> HIDE DEF b, c, b0, c0, C, X, more, new, paid
<1>7. SumFunctionOnSet(b, C \cup {new}) = SumFunctionOnSet(b0, C) + b[new]
  BY <1>1, <1>2, <1>5, SumMore
<1>8. SumFunctionOnSet(c, C \cup {new}) = SumFunctionOnSet(c0, C) + c[new]
  BY <1>1, <1>2, <1>5, SumMore
<1> QED  BY <1>1, <1>2, <1>5, <1>6, <1>7, <1>8 DEF C, X, more, new, paid

\* What an exit takes from the lots, by their entry price, is its entry basis.
LEMMA ExitHolds ==
    ASSUME SessionInv, NEW e, Recorded(e), TradeOf(e), e.kind \in {"reduce", "close"}
    PROVE  LET X == Priced(events)
               C == CommitsOf(events)
               new == Len(events) + 1
               basis == EntryBasis(held.positions[e.position].lots, e.qty)
           IN /\ HoldsIn(events, X, C) = HoldsIn(events', X \cup {new}, C) + basis
              /\ HoldsIn(events', X \cup {new}, C) \in Int /\ basis \in Int
<1> DEFINE X == Priced(events)
           C == CommitsOf(events)
           more == events'
           new == Len(events) + 1
           basis == EntryBasis(held.positions[e.position].lots, e.qty)
           cash(n) == events[n].data.quote.cash
           f == [n \in C |-> KeptIn(events, X, n)]
           g == [n \in C |-> KeptIn(more, X \cup {new}, n)]
           h == [n \in C |-> cash(n) * UsedBy(e, events[n].lot)]
<1>1. e.kind \in ExitKinds /\ Planned(e.position) /\ BookInv
  BY DEF TradeOf, ExitKinds, PartialCloseKinds, FullCloseKinds, SessionInv
<1>2. C \subseteq DOMAIN events /\ IsFiniteSet(C) /\ X \in SUBSET AllExits
  BY CommitsTyped, PricedTyped
<1>3. basis = SumFunctionOnSet(h, C)
  BY <1>1, EntryBasisIs
<1>4. ASSUME NEW n \in C
      PROVE  g[n] \in Int /\ h[n] \in Int /\ f[n] = g[n] + h[n]
  <2> DEFINE q == events[n].qty
             old == TakenIn(events, events[n].lot, X)
             u == UsedBy(e, events[n].lot)
  <2>1. /\ more[n] = events[n] /\ cash(n) \in Int /\ q \in Int
        /\ f[n] = cash(n) * (q - old)
    BY <1>2, SumsStay, CommitsTyped DEF KeptIn
  <2>2. /\ old \in Nat /\ u \in Nat
        /\ TakenIn(more, more[n].lot, X \cup {new}) = old + u
    BY <1>1, <1>2, TakenGrows
  <2>3. g[n] = cash(n) * (q - (old + u)) /\ h[n] = cash(n) * u
    <3>1. g[n] = KeptIn(more, X \cup {new}, n)
      OBVIOUS
    <3>2. h[n] = cash(n) * u
      OBVIOUS
    <3> HIDE DEF g, h
    <3> QED  BY <2>1, <2>2, <3>1, <3>2 DEF KeptIn
  <2> HIDE DEF f, g, h, cash, q, old, u
  <2>4. q - old \in Int /\ u \in Int /\ q - (old + u) = (q - old) - u /\ q - (old + u) \in Int
    BY <2>1, <2>2
  <2>5. cash(n) * ((q - old) - u) = cash(n) * (q - old) - cash(n) * u
    BY <2>1, <2>4, ProductDiffers
  <2>6. cash(n) * (q - old) \in Int /\ cash(n) * u \in Int
    BY <2>1, <2>4, ProductInt
  <2> QED  BY <2>1, <2>3, <2>4, <2>5, <2>6
<1>5. /\ HoldsIn(events, X, C) = SumFunctionOnSet(f, C)
      /\ HoldsIn(more, X \cup {new}, C) = SumFunctionOnSet(g, C)
  BY DEF HoldsIn
<1> HIDE DEF f, g, h, C, X, more, new, basis
<1>6. SumFunctionOnSet(f, C) = SumFunctionOnSet(g, C) + SumFunctionOnSet(h, C)
  BY <1>2, <1>4, SumOfSums
<1>7. SumFunctionOnSet(g, C) \in Int /\ SumFunctionOnSet(h, C) \in Int
  BY <1>2, <1>4, SumType
<1> QED  BY <1>3, <1>5, <1>6, <1>7 DEF C, X, more, new, basis

LEMMA ExitPays ==
    ASSUME SessionInv, NEW e, Recorded(e), e.kind \in {"reduce", "close"}
    PROVE  LET X == Priced(events)
               new == Len(events) + 1
           IN /\ RealizedIn(events', X \cup {new}) = RealizedIn(events, X) + e.data.realized
              /\ PaidIn(events', X \cup {new}) = PaidIn(events, X) + e.data.cash * e.qty
              /\ e.data.realized \in Int /\ e.data.cash * e.qty \in Int
<1> DEFINE X == Priced(events)
           more == events'
           new == Len(events) + 1
           a == [n \in X \cup {new} |-> more[n].data.realized]
           d == [n \in X \cup {new} |-> more[n].data.cash * more[n].qty]
           a0 == [n \in X |-> events[n].data.realized]
           d0 == [n \in X |-> events[n].data.cash * events[n].qty]
<1>1. e.data.cash \in Int /\ e.data.realized \in Int /\ e.qty \in Int /\ more[new] = e
  BY PricedGrow, CommitsGrow DEF SessionInv, Recorded
<1>2. e.data.cash * e.qty \in Int
  BY <1>1, ProductInt
<1>3. IsFiniteSet(X) /\ new \notin X
  BY PricedTyped DEF Recorded
<1>4. \A n \in X : /\ more[n] = events[n] /\ events[n].data.realized \in Int
                   /\ events[n].data.cash * events[n].qty \in Int
  BY SumsStay, SumsTyped, PricedTyped
<1>5. /\ \A n \in X : a[n] \in Int /\ a[n] = a0[n] /\ d[n] \in Int /\ d[n] = d0[n]
      /\ a[new] = e.data.realized /\ d[new] = e.data.cash * e.qty
  <2>1. a[new] = more[new].data.realized /\ d[new] = more[new].data.cash * more[new].qty
    OBVIOUS
  <2>2. a[new] = e.data.realized /\ d[new] = e.data.cash * e.qty
    BY <1>1, <2>1
  <2> HIDE DEF more, new, X
  <2> QED  BY <1>4, <2>2
<1>6. /\ RealizedIn(more, X \cup {new}) = SumFunctionOnSet(a, X \cup {new})
      /\ PaidIn(more, X \cup {new}) = SumFunctionOnSet(d, X \cup {new})
      /\ RealizedIn(events, X) = SumFunctionOnSet(a0, X)
      /\ PaidIn(events, X) = SumFunctionOnSet(d0, X)
  BY DEF RealizedIn, PaidIn
<1> HIDE DEF a, d, a0, d0, X, more, new
<1>7. SumFunctionOnSet(a, X \cup {new}) = SumFunctionOnSet(a0, X) + a[new]
  BY <1>1, <1>3, <1>5, SumMore
<1>8. SumFunctionOnSet(d, X \cup {new}) = SumFunctionOnSet(d0, X) + d[new]
  BY <1>2, <1>3, <1>5, SumMore
<1> QED  BY <1>1, <1>2, <1>5, <1>6, <1>7, <1>8 DEF X, more, new

LEMMA BalancesGrow ==
    ASSUME SessionInv, Balances(events), NEW e, Recorded(e), TradeOf(e)
    PROVE  Balances(events')
<1> DEFINE X == Priced(events)
           C == CommitsOf(events)
           more == events'
           new == Len(events) + 1
<1>1. /\ RealizedIn(events, X) + HoldsIn(events, X, C) = EnteredIn(events, C) + PaidIn(events, X)
      /\ RealizedIn(events, X) \in Int /\ HoldsIn(events, X, C) \in Int
      /\ EnteredIn(events, C) \in Int /\ PaidIn(events, X) \in Int
  BY SumsTyped DEF Balances
<1>2. /\ RealizedIn(more, X) = RealizedIn(events, X) /\ PaidIn(more, X) = PaidIn(events, X)
      /\ EnteredIn(more, C) = EnteredIn(events, C) /\ HoldsIn(more, X, C) = HoldsIn(events, X, C)
  BY SumsStay
<1>3. /\ CommitsOf(more) = C \cup (IF e.kind \in CommitKinds THEN {new} ELSE {})
      /\ Priced(more) = X \cup (IF e.kind \in {"reduce", "close"} THEN {new} ELSE {})
  BY CommitsGrow, PricedGrow DEF SessionInv
<1>4. CASE e.kind \in CommitKinds
  <2>1. Priced(more) = X
    BY <1>3, <1>4 DEF CommitKinds
  <2> DEFINE paid == e.data.quote.cash * e.qty
  <2>2. /\ HoldsIn(more, X, CommitsOf(more)) = HoldsIn(events, X, C) + paid
        /\ EnteredIn(more, CommitsOf(more)) = EnteredIn(events, C) + paid
        /\ paid \in Int
    BY <1>4, CommitBalances
  <2> HIDE DEF X, C, more, new, paid
  <2>3. RealizedIn(more, X) + HoldsIn(more, X, CommitsOf(more))
           = EnteredIn(more, CommitsOf(more)) + PaidIn(more, X)
    BY <1>1, <1>2, <2>2
  <2> QED  BY <2>1, <2>3 DEF Balances, more
<1>5. CASE e.kind \in {"reduce", "close"}
  <2>1. Priced(more) = X \cup {new} /\ CommitsOf(more) = C
    BY <1>3, <1>5 DEF CommitKinds
  <2> DEFINE basis == EntryBasis(held.positions[e.position].lots, e.qty)
             paid == e.data.cash * e.qty
             realized == e.data.realized
  <2>2. /\ HoldsIn(events, X, C) = HoldsIn(more, X \cup {new}, C) + basis
        /\ HoldsIn(more, X \cup {new}, C) \in Int /\ basis \in Int
    BY <1>5, ExitHolds
  <2>3. /\ RealizedIn(more, X \cup {new}) = RealizedIn(events, X) + realized
        /\ PaidIn(more, X \cup {new}) = PaidIn(events, X) + paid
        /\ realized \in Int /\ paid \in Int
    BY <1>5, ExitPays
  <2>4. realized = paid + basis
    BY <1>5 DEF TradeOf
  <2> HIDE DEF X, C, more, new, basis, paid, realized
  <2>5. RealizedIn(more, X \cup {new}) + HoldsIn(more, X \cup {new}, C)
           = EnteredIn(more, C) + PaidIn(more, X \cup {new})
    BY <1>1, <1>2, <2>2, <2>3, <2>4
  <2> QED  BY <2>1, <2>5 DEF Balances, more
<1>6. CASE e.kind \notin CommitKinds /\ e.kind \notin {"reduce", "close"}
  <2>1. Priced(more) = X /\ CommitsOf(more) = C
    BY <1>3, <1>6
  <2> HIDE DEF X, C, more, new
  <2> QED  BY <1>1, <1>2, <2>1 DEF Balances, more
<1> QED  BY <1>4, <1>5, <1>6

\* No money is counted twice or lost between the lots: an exit realizes what it
\* pays and what the lots it takes, first in first out, were entered with.
THEOREM SessionBalances == Spec => []RealizedBalances
<1> DEFINE B == Balances(events)
<1>1. Init => B
  <2> SUFFICES ASSUME Init PROVE B
    OBVIOUS
  <2>1. CommitsOf(events) = {} /\ Priced(events) = {}
    BY DEF Init, CommitsOf, Priced, ExitsOf
  <2> QED  BY <2>1, SumEmpty DEF Balances, RealizedIn, HoldsIn, EnteredIn, PaidIn
<1>2. SessionInv /\ B /\ [Next]_vars => B'
  <2> SUFFICES ASSUME SessionInv, B, [Next]_vars PROVE B'
    OBVIOUS
  <2>1. Balances(events')
    <3>1. CASE UNCHANGED ledger
      BY <3>1 DEF ledger
    <3>2. CASE ~UNCHANGED ledger
      BY <3>2, SessionSteps, BalancesGrow
    <3> QED  BY <3>1, <3>2
  <2> QED  BY <2>1 DEF Balances, RealizedIn, HoldsIn, EnteredIn, PaidIn, Priced, KeptIn,
                       CommitsOf, ExitsOf, TakenIn, UsedBy
<1>3. B => RealizedBalances
  BY BalancesIs
<1> HIDE DEF B
<1> QED  BY SpecSessionInv, <1>1, <1>2, <1>3, PTL DEF Spec

-----------------------------------------------------------------------------
\* The book of positions that the ledger stands for.

\* A function on the first numbers is a sequence.
LEMMA FunctionSeq ==
    ASSUME NEW n \in Nat, NEW f, f = [i \in 1 .. n |-> f[i]]
    PROVE  /\ f \in Seq({f[i] : i \in 1 .. n}) /\ Len(f) = n /\ DOMAIN f = 1 .. n
           /\ n > 0 => Last(f) = f[n]
<1> DEFINE S == {f[i] : i \in 1 .. n}
<1>1. f \in [1 .. n -> S]
  OBVIOUS
<1> HIDE DEF S
<1>2. f \in Seq(S) /\ Len(f) = n
  BY <1>1
<1> QED  BY <1>1, <1>2 DEF S, Last

\* A sequence with one element more, by its elements.
LEMMA LongerSeq ==
    ASSUME NEW n \in Nat, NEW f, f = [i \in 1 .. n |-> f[i]],
           NEW g, g = [i \in 1 .. n + 1 |-> g[i]], \A i \in 1 .. n : g[i] = f[i]
    PROVE  Len(g) = Len(f) + 1 /\ Front(g) = f /\ Last(g) = g[n + 1]
<1> DEFINE T == {g[i] : i \in 1 .. n + 1}
<1>1. g \in Seq(T) /\ Len(g) = n + 1 /\ Last(g) = g[n + 1]
  <2> DEFINE m == n + 1
  <2>1. m \in Nat /\ m > 0
    OBVIOUS
  <2> HIDE DEF m
  <2>2. g = [i \in 1 .. m |-> g[i]]
    BY DEF m
  <2>3. g \in Seq({g[i] : i \in 1 .. m}) /\ Len(g) = m /\ Last(g) = g[m]
    BY <2>1, <2>2, FunctionSeq
  <2> QED  BY <2>3 DEF m
<1>2. Len(f) = n /\ DOMAIN f = 1 .. n
  BY FunctionSeq
<1> HIDE DEF T
<1>3. /\ SubSeq(g, 1, n) \in Seq(T) /\ Len(SubSeq(g, 1, n)) = n
      /\ \A i \in 1 .. n : SubSeq(g, 1, n)[i] = g[i]
  BY <1>1
<1>4. SubSeq(g, 1, n) = [i \in 1 .. n |-> g[i]]
  BY <1>3
<1>5. SubSeq(g, 1, n) = f
  BY <1>4
<1>6. Len(g) - 1 = n
  BY <1>1
<1> QED  BY <1>1, <1>2, <1>5, <1>6, Zenon DEF Front

-----------------------------------------------------------------------------
Row(lots) == [k \in DOMAIN lots |-> lots[k].left]

LEMMA BookIsRows ==
    \A positions : BookOf(positions) = [p \in DOMAIN positions |-> Row(positions[p].lots)]
BY DEF BookOf, Row

\* Exits take from the first lots of the row.
LEMMA RowShrinks ==
    ASSUME NEW lots \in Seq(Lot), NEW q \in Nat \ {0}, q <= LeftOf(lots, DOMAIN lots),
           NEW new, DOMAIN new = DOMAIN lots,
           \A k \in DOMAIN lots : new[k].left = lots[k].left - FifoTake(lots, q)[k]
    PROVE  Book!Shrunk(Row(lots), Row(new))
<1>1. PICK k \in DOMAIN lots :
              /\ FifoTake(lots, q)[k] \in 1 .. lots[k].left
              /\ \A i \in DOMAIN lots : i < k => FifoTake(lots, q)[i] = lots[i].left
              /\ \A i \in DOMAIN lots : i > k => FifoTake(lots, q)[i] = 0
  BY FifoSplits
<1>2. \A i \in DOMAIN lots : lots[i].left \in Nat
  BY LotsOf
<1>3. /\ DOMAIN Row(lots) = DOMAIN lots /\ DOMAIN Row(new) = DOMAIN lots
      /\ \A i \in DOMAIN lots : Row(lots)[i] = lots[i].left /\ Row(new)[i] = new[i].left
  BY DEF Row
<1>4. Row(new)[k] < Row(lots)[k]
  BY <1>1, <1>2, <1>3
<1>5. \A i \in DOMAIN lots : /\ i < k => Row(new)[i] = 0
                             /\ i > k => Row(new)[i] = Row(lots)[i]
  BY <1>1, <1>2, <1>3
<1> QED  BY <1>3, <1>4, <1>5 DEF Book!Shrunk

\* A row with something left in it has a lot with something left.
LEMMA RowHolds ==
    ASSUME NEW lots \in Seq(Lot), LeftOf(lots, DOMAIN lots) > 0
    PROVE  Book!Holds(Row(lots))
<1> SUFFICES ASSUME ~Book!Holds(Row(lots)) PROVE FALSE
  OBVIOUS
<1> DEFINE f == [k \in DOMAIN lots |-> lots[k].left]
<1>1. IsFiniteSet(DOMAIN lots) /\ \A k \in DOMAIN lots : lots[k].left \in Nat
  BY LotsOf, RangeFinite
<1>2. \A k \in DOMAIN lots : f[k] = 0
  BY <1>1 DEF Book!Holds, Row
<1>3. LeftOf(lots, DOMAIN lots) = SumFunctionOnSet(f, DOMAIN lots)
  BY DEF LeftOf
<1> HIDE DEF f
<1>4. SumFunctionOnSet(f, DOMAIN lots) = 0
  BY <1>1, <1>2, SumZero
<1> QED  BY <1>3, <1>4

\* A row with one lot more at its end.
LEMMA RowGrows ==
    ASSUME NEW n \in Nat, NEW lots, DOMAIN lots = 1 .. n, NEW new, DOMAIN new = 1 .. n + 1,
           \A k \in 1 .. n : new[k] = lots[k], new[n + 1].left > 0
    PROVE  Book!Grown(Row(lots), Row(new))
<1> DEFINE f == Row(lots)
           g == Row(new)
<1>1. /\ f = [i \in 1 .. n |-> lots[i].left] /\ g = [i \in 1 .. n + 1 |-> new[i].left]
      /\ n + 1 \in 1 .. n + 1 /\ \A i \in 1 .. n : i \in 1 .. n + 1
  BY DEF Row
<1>2. /\ f = [i \in 1 .. n |-> f[i]] /\ g = [i \in 1 .. n + 1 |-> g[i]]
      /\ (\A i \in 1 .. n : g[i] = f[i]) /\ g[n + 1] > 0
  BY <1>1
<1> HIDE DEF f, g
<1>3. Len(g) = Len(f) + 1 /\ Front(g) = f /\ Last(g) = g[n + 1]
  BY <1>2, LongerSeq
<1> QED  BY <1>2, <1>3, Zenon DEF Book!Grown, Book!Front, Book!Last, Front, Last, f, g

\* A recorded event opens a position, or grows or shrinks one that holds something.
LEMMA BookTrades ==
    ASSUME SessionInv, NEW e, Recorded(e)
    PROVE  Book!Traded(BookOf(held.positions), BookOf(held'.positions))
<1> DEFINE old == held.positions
           new == held'.positions
           p == e.position
           n == counters.position
           f == BookOf(old)
           g == BookOf(new)
<1>1. /\ DOMAIN new = DOMAIN old \cup {p}
      /\ \A o \in DOMAIN old : o # p => new[o] = old[o]
      /\ new[p] = (IF e.kind \in OpenKinds
                   THEN [open |-> TRUE, openQty |-> e.qty, lots |-> <<NewLot(e)>>]
                   ELSE Changed(old[p], e))
      /\ e.kind \in OpenKinds => p \notin DOMAIN old
  BY HeldGrows DEF SessionInv
<1>2. /\ n \in Nat /\ DOMAIN old = 1 .. n
      /\ \A o \in DOMAIN old : Sound(old[o])
  BY CountersType DEF SessionInv, BookInv, HeldTyped
<1>3. /\ e.qty \in Nat \ {0} /\ e.kind \in AddKinds \cup ExitKinds
      /\ e.kind \in OpenKinds => p = n + 1
      /\ e.kind \notin OpenKinds => p \in DOMAIN old /\ old[p].open
      /\ e.kind \in ExitKinds => e.qty \in 1 .. old[p].openQty
  BY DEF Recorded, WellFormed
<1>4. /\ f = [o \in DOMAIN old |-> Row(old[o].lots)]
      /\ g = [o \in DOMAIN new |-> Row(new[o].lots)]
  BY BookIsRows
<1>5. NewLot(e).left = e.qty
  BY DEF NewLot
<1> HIDE DEF old, new, p, n, f, g
<1>6. CASE e.kind \in OpenKinds
  <2>1. p = n + 1 /\ DOMAIN new = 1 .. n + 1 /\ new[p].lots = <<NewLot(e)>>
    BY <1>1, <1>2, <1>3, <1>6
  <2>2. /\ f = [o \in 1 .. n |-> f[o]] /\ g = [o \in 1 .. n + 1 |-> g[o]]
        /\ g[n + 1] = Row(<<NewLot(e)>>)
    <3>1. n + 1 \in 1 .. n + 1
      BY <1>2
    <3>2. /\ f = [o \in 1 .. n |-> Row(old[o].lots)]
          /\ g = [o \in 1 .. n + 1 |-> Row(new[o].lots)]
      BY <1>2, <1>4, <2>1
    <3>3. f = [o \in 1 .. n |-> f[o]] /\ g = [o \in 1 .. n + 1 |-> g[o]]
      BY <3>2
    <3>4. g[n + 1] = Row(new[n + 1].lots)
      BY <3>1, <3>2
    <3> QED  BY <2>1, <3>3, <3>4
  <2>3. \A o \in 1 .. n : g[o] = f[o]
    <3>1. \A o \in 1 .. n : o \in DOMAIN new /\ o \in DOMAIN old /\ new[o] = old[o]
      BY <1>1, <1>2, <2>1
    <3> QED  BY <1>4, <3>1
  <2>4. Len(g) = Len(f) + 1 /\ Front(g) = f /\ Last(g) = g[n + 1]
    BY <1>2, <2>2, <2>3, LongerSeq
  <2>5. Book!Grown(<<>>, Row(<<NewLot(e)>>))
    <3> DEFINE none == <<>>
               one == <<NewLot(e)>>
    <3>1. 0 \in Nat /\ DOMAIN none = 1 .. 0 /\ DOMAIN one = 1 .. 0 + 1
      OBVIOUS
    <3>2. one[0 + 1].left > 0 /\ \A k \in 1 .. 0 : one[k] = none[k]
      BY <1>3, <1>5
    <3> HIDE DEF none, one
    <3>3. Book!Grown(Row(none), Row(one))
      BY <3>1, <3>2, RowGrows
    <3>4. Row(none) = <<>>
      BY DEF Row, none
    <3> QED  BY <3>3, <3>4 DEF one
  <2>6. Len(g) = Len(f) + 1 /\ Book!Front(g) = f /\ Book!Grown(<<>>, Book!Last(g))
    BY <2>2, <2>4, <2>5, Zenon DEF Book!Front, Book!Last, Front, Last
  <2> QED  BY <2>6 DEF Book!Traded, f, g, old, new
<1>7. CASE e.kind \notin OpenKinds
  <2> DEFINE lots == old[p].lots
             more == new[p].lots
  <2>1. p \in DOMAIN old /\ old[p].open /\ DOMAIN new = DOMAIN old /\ new[p] = Changed(old[p], e)
    BY <1>1, <1>3, <1>7
  <2>2. /\ Sound(old[p]) /\ lots \in Seq(Lot) /\ old[p].openQty = LeftOf(lots, DOMAIN lots)
        /\ old[p].openQty \in Nat /\ old[p].openQty > 0
    BY <1>2, <2>1 DEF Sound, Position
  <2>3. Book!Holds(Row(lots))
    BY <2>2, RowHolds
  <2>4. Book!Grown(Row(lots), Row(more)) \/ Book!Shrunk(Row(lots), Row(more))
    <3>1. CASE e.kind \in ExitKinds
      <4>1. e.qty \in 1 .. old[p].openQty
        BY <1>3, <3>1
      <4>2. /\ DOMAIN more = DOMAIN lots
            /\ \A k \in DOMAIN lots : more[k].left = lots[k].left - FifoTake(lots, e.qty)[k]
        BY <2>1, <2>2, <3>1, <4>1, Reduced
      <4>3. e.qty <= LeftOf(lots, DOMAIN lots)
        BY <2>2, <4>1
      <4> HIDE DEF lots, more
      <4>4. Book!Shrunk(Row(lots), Row(more))
        BY <1>3, <2>2, <4>2, <4>3, RowShrinks
      <4> QED  BY <4>4
    <3>2. CASE e.kind = "increase"
      <4>1. new[p] = [old[p] EXCEPT !.openQty = @ + e.qty, !.lots = Append(@, NewLot(e))]
        BY <2>1, <3>2 DEF Changed
      <4>2. old[p] \in Position
        BY <2>2 DEF Sound
      <4>3. more = Append(lots, NewLot(e))
        BY <4>1, <4>2 DEF Position
      <4> DEFINE len == Len(lots)
      <4>4. /\ len \in Nat /\ DOMAIN lots = 1 .. len /\ DOMAIN more = 1 .. len + 1
            /\ \A k \in 1 .. len : more[k] = lots[k]
            /\ more[len + 1] = NewLot(e)
        BY <2>2, <4>3, AppendElements
      <4>5. more[len + 1].left > 0
        BY <1>3, <1>5, <4>4
      <4> HIDE DEF lots, more, len
      <4>6. Book!Grown(Row(lots), Row(more))
        BY <4>4, <4>5, RowGrows
      <4> QED  BY <4>6
    <3> QED  BY <1>3, <1>7, <3>1, <3>2 DEF AddKinds, OpenKinds
  <2>5. /\ DOMAIN g = DOMAIN f /\ p \in DOMAIN f /\ f[p] = Row(lots) /\ g[p] = Row(more)
        /\ \A o \in DOMAIN f \ {p} : g[o] = f[o]
    <3>1. \A o \in DOMAIN old \ {p} : new[o] = old[o]
      BY <1>1
    <3> QED  BY <1>4, <2>1, <3>1
  <2> HIDE DEF lots, more
  <2>6. Book!Traded(f, g)
    BY <2>3, <2>4, <2>5 DEF Book!Traded
  <2> QED  BY <2>6 DEF f, g, old, new
<1> QED  BY <1>6, <1>7

\* Every step of the mission is one of the book, or leaves the book alone.
LEMMA BookSteps ==
    ASSUME SessionInv, [Next]_vars
    PROVE  [Book!Next]_<<state, BookOf(held.positions)>>
<1> DEFINE Goal == \/ Book!Start \/ Book!Finish \/ Book!Trade
                   \/ state' = state /\ held' = held
<1>1. ASSUME Trade PROVE Goal
  <2>1. PICK e : Recorded(e)
    BY <1>1, TradeRecords DEF SessionInv
  <2>2. Book!Traded(BookOf(held.positions), BookOf(held'.positions))
    BY <2>1, BookTrades
  <2>3. state = "active" /\ state' = state
    BY <2>1 DEF Recorded
  <2>4. Book!Trade
    BY <2>2, <2>3 DEF Book!Trade, BookOf
  <2> QED  BY <2>4, Zenon
<1>2. ASSUME Activate PROVE Goal
  BY <1>2 DEF Activate, Book!Start, ledger, BookOf
<1>3. ASSUME Closeout PROVE Goal
  BY <1>3 DEF Closeout, Book!Finish, ledger, BookOf
<1>4. ASSUME NEW pct, SetFamilyAllocations(pct) PROVE Goal
  BY <1>4 DEF SetFamilyAllocations, ledger
<1>5. ASSUME NEW m, SetPortfolioMission(m) PROVE Goal
  BY <1>5 DEF SetPortfolioMission, ledger
<1>6. ASSUME NEW to, Step(to) PROVE Goal
  BY <1>6 DEF Step, ledger
<1>7. ASSUME UNCHANGED vars PROVE Goal
  BY <1>7 DEF vars, ledger
<1> HIDE DEF Goal
<1>8. Goal
  BY <1>1, <1>2, <1>3, <1>4, <1>5, <1>6, <1>7 DEF Next
<1>9. ASSUME state' = state, held' = held
      PROVE  UNCHANGED <<state, BookOf(held.positions)>>
  BY <1>9 DEF BookOf
<1> QED  BY <1>8, <1>9 DEF Book!Next, Goal

LEMMA BookBegins == Init => Book!Init
<1> SUFFICES ASSUME Init PROVE Book!Init
  OBVIOUS
<1>1. state = "draft" /\ held.positions = <<>>
  BY DEF Init, NothingHeld
<1>2. BookOf(held.positions) = <<>>
  BY <1>1 DEF BookOf
<1> QED  BY <1>1, <1>2 DEF Book!Init

\* The ledger stands for a book of positions that open, grow and shrink first in
\* first out, one at a time, while the mission runs: the replay of
\* recordPortfolioTransaction() implements PositionBook.
THEOREM SessionKeepsBook == Spec => KeepsBook
<1>1. SessionInv /\ [Next]_vars => [Book!Next]_<<state, BookOf(held.positions)>>
  BY BookSteps
<1> QED  BY SpecSessionInv, BookBegins, <1>1, PTL DEF Spec, KeepsBook, Book!Spec
=============================================================================
