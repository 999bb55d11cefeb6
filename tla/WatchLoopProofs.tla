--------------------------- MODULE WatchLoopProofs ---------------------------
(***************************************************************************)
(* Proofs about the live board, for any number of contracts, browsers,     *)
(* days, rounds and restarts.                                              *)
(*                                                                         *)
(* A round reads the day and the phase before it awaits and puts them on   *)
(* the board after.  That a board is never final for a day to come needs   *)
(* to know how far the clock may have moved meanwhile (Seen) and that no   *)
(* board, file or save is of a later day than today (Timely).              *)
(*                                                                         *)
(* That the browsers follow the board rests on the rounds that will send   *)
(* only changed rows (Partial): unless one was under way when the board on *)
(* disk came in hand (crossed), none meets a board that was not sent.      *)
(*                                                                         *)
(* That an older board never replaces a newer one without the label rests  *)
(* on the reference: a verdict made from it covers both the board in hand  *)
(* and the board that is being read (Referenced).                          *)
(***************************************************************************)
EXTENDS WatchLoop, TLAPS

\* A round that has begun and not ended.
Going(r) == round[r].stage \in {"asking", "checking", "again"}

\* A round sees at most one change of the phase.
Seen(day, phase) ==
    /\ day \in 1..Days
    /\ \/ /\ day = clock.day
          /\ <<phase, clock.phase>> \in {<<"open", "open">>, <<"open", "fast">>, <<"fast", "fast">>,
                                         <<"fast", "slow">>, <<"slow", "slow">>}
       \/ day + 1 = clock.day /\ phase = "slow" /\ clock.phase = "before"

Timely ==
    /\ watch.day <= clock.day
    /\ \A s \in saves : s.day <= clock.day
    /\ disk.day <= clock.day
    /\ \A r \in Rounds : Going(r) => Seen(round[r].day, round[r].phase)

IInv == TypeOK /\ Timely /\ FinalIsOwn

-----------------------------------------------------------------------------
\* The fields of the state have their types.
LEMMA Fields ==
    ASSUME TypeOK
    PROVE  /\ clock = [day |-> clock.day, phase |-> clock.phase]
           /\ clock.day \in 1..Days /\ clock.phase \in Phases
           /\ watch.rows \in BoardRows /\ watch.day \in 0..Days /\ watch.pulls \in Nat
           /\ watch.final \in 0..Days /\ watch.stale \in BOOLEAN
           /\ watch.rowsStale \in BOOLEAN /\ watch.seeded \in BOOLEAN
           /\ \A r \in Rounds :
                 /\ round[r].stage \in {"idle", "asking", "checking", "again", "over"}
                 /\ round[r].day \in 0..Days /\ round[r].phase \in Phases
                 /\ round[r].first \in BOOLEAN /\ round[r].rows \in BoardRows
           /\ \A k \in Clients : view[k].on \in BOOLEAN /\ view[k].rows \in BoardRows
           /\ disk.day \in 0..Days /\ disk.rows \in BoardRows /\ disk.final \in BOOLEAN
BY DEF TypeOK

\* There is a first day.
LEMMA DaysNat == Days \in Nat /\ Days >= 1 /\ 0 \in 0..Days
BY WatchBounds

\* The empty board is a board.
LEMMA EmptyBoard == Empty \in BoardRows
BY DEF Empty, BoardRows

\* The exchange's session is one of the days, or 0 before the first.
LEMMA LastSessionType == TypeOK => LastSession \in 0..Days
BY Fields, DaysNat DEF LastSession

\* What the upstream answers is a board.
LEMMA AnswerRows ==
    ASSUME TypeOK, NEW rows \in Answers
    PROVE  rows \in BoardRows
<1>1. PICK s \in 1..LastSession, b \in Boards : rows = Board(s, b)
  BY DEF Answers
<1>2. s \in 0..Days
  BY LastSessionType, DaysNat
<1>3. \A c \in Contracts : b[c] \in UNION {{d[e] : e \in Contracts} : d \in Boards}
  OBVIOUS
<1>4. QED BY <1>1, <1>2, <1>3 DEF Board, BoardRows

\* A round that ended is not going.
LEMMA RestingRound ==
    ASSUME NEW r \in Rounds
    PROVE  /\ Resting.stage = "idle" /\ Ended(r).stage \in {"idle", "over"}
           /\ Resting \in [stage : {"idle", "asking", "checking", "again", "over"},
                           day : 0..Days, phase : Phases, first : BOOLEAN, rows : BoardRows]
           /\ Ended(r) \in [stage : {"idle", "asking", "checking", "again", "over"},
                            day : 0..Days, phase : Phases, first : BOOLEAN, rows : BoardRows]
BY EmptyBoard, DaysNat DEF Resting, Ended, Phases

\* A round ends: the others stay as they were.
LEMMA RoundEnds ==
    ASSUME IInv, NEW r \in Rounds, round' = [round EXCEPT ![r] = Ended(r)], clock' = clock
    PROVE  /\ round' \in [Rounds -> [stage : {"idle", "asking", "checking", "again", "over"},
                                     day : 0..Days, phase : Phases, first : BOOLEAN, rows : BoardRows]]
           /\ \A q \in Rounds : Going(q)' => Seen(round[q].day, round[q].phase)'
<1>1. round \in [Rounds -> [stage : {"idle", "asking", "checking", "again", "over"},
                            day : 0..Days, phase : Phases, first : BOOLEAN, rows : BoardRows]]
  BY DEF IInv, TypeOK
<1>2. ASSUME NEW q \in Rounds, Going(q)' PROVE Seen(round[q].day, round[q].phase)'
  <2>1. q # r /\ round'[q] = round[q]
    BY <1>1, <1>2, RestingRound DEF Going
  <2>2. Going(q) /\ Seen(round[q].day, round[q].phase)
    BY <1>2, <2>1 DEF IInv, Timely, Going
  <2>3. QED BY <2>1, <2>2 DEF Seen
<1>3. round' \in [Rounds -> [stage : {"idle", "asking", "checking", "again", "over"},
                             day : 0..Days, phase : Phases, first : BOOLEAN, rows : BoardRows]]
  BY <1>1, RestingRound
<1>4. QED BY <1>2, <1>3

-----------------------------------------------------------------------------
\* What a round that ends leaves behind: the board, the event and the save
\* (Settle) keep the invariant, if an answer taken unchecked meets no label.
LEMMA SettleKeeps ==
    ASSUME IInv, NEW r \in Rounds, Going(r), NEW rows \in BoardRows,
           NEW first \in BOOLEAN, NEW due \in BOOLEAN, NEW v,
           due \/ ~watch.stale, Settle(r, rows, first, due, v),
           UNCHANGED <<clock, disk, seeding, restarts>>,
           ref' \in 0..Days, verdict' \in {"unknown", "fresh", "stale"}
    PROVE  IInv'
<1>0. PICK stale \in BOOLEAN : stale <=> (due /\ v = "stale")
  BY Zenon
<1>B. PICK board : board = Renewed(round[r], rows, first, due, stale)
  OBVIOUS
<1>1. /\ board \in [rows : BoardRows, day : 0..Days, pulls : Nat, final : 0..Days,
                    stale : BOOLEAN, rowsStale : BOOLEAN, seeded : BOOLEAN]
      /\ board.rows = rows /\ board.day = round[r].day /\ board.seeded = FALSE
      /\ board.final <= board.day
      /\ board.final # 0 => ~board.rowsStale
  <2> DEFINE g == round[r]
  <2>0. board = Renewed(g, rows, first, due, stale)
    BY <1>B DEF g
  <2>1. /\ g.day \in 0..Days /\ g.phase \in Phases /\ g.day <= clock.day
        /\ watch.day \in 0..Days /\ watch.final \in 0..Days /\ watch.final <= watch.day
        /\ watch.pulls \in Nat /\ watch.stale \in BOOLEAN /\ clock.day \in 1..Days
    BY Fields DEF IInv, TypeOK, Timely, Seen
  <2>2. ~IsAfter(g.phase) => watch.day <= g.day
    BY <2>1 DEF IInv, Timely, Seen, IsAfter
  <2> HIDE DEF g
  <2>3. /\ board.rows = rows /\ board.day = g.day /\ board.seeded = FALSE
        /\ board.rowsStale = (IF due THEN stale ELSE watch.stale)
        /\ board.stale = (IF due THEN stale ELSE watch.stale)
        /\ board.pulls = IF stale THEN watch.pulls
                         ELSE IF IsAfter(g.phase)
                         THEN (IF watch.day = g.day THEN watch.pulls ELSE 0) + (IF g.phase = "slow" THEN 1 ELSE 0)
                         ELSE 0
        /\ board = [rows |-> board.rows, day |-> board.day, pulls |-> board.pulls, final |-> board.final,
                    stale |-> board.stale, rowsStale |-> board.rowsStale, seeded |-> board.seeded]
    BY <2>0 DEF Renewed
  <2>4. /\ stale => board.final = 0
        /\ board.final = g.day \/ board.final = 0
              \/ (board.final = watch.final /\ (~IsAfter(g.phase) \/ watch.day = g.day))
    <3> DEFINE sameDay == watch.day = g.day
               settled == sameDay /\ ~first /\ Changed(rows) = {} /\ g.phase = "slow"
    <3>1. board.final = CASE stale -> 0
                          [] ~stale /\ IsAfter(g.phase) /\ settled -> g.day
                          [] ~stale /\ IsAfter(g.phase) /\ ~settled /\ ~sameDay -> 0
                          [] OTHER -> watch.final
      BY <2>0 DEF Renewed
    <3>2. settled => sameDay
      OBVIOUS
    <3> HIDE DEF settled, sameDay
    <3>3. CASE stale
      BY <3>1, <3>3
    <3>4. CASE ~stale /\ IsAfter(g.phase) /\ settled
      BY <3>1, <3>4
    <3>5. CASE ~stale /\ IsAfter(g.phase) /\ ~settled /\ ~sameDay
      BY <3>1, <3>5
    <3>6. CASE ~stale /\ ~IsAfter(g.phase)
      BY <3>1, <3>6
    <3>7. CASE ~stale /\ IsAfter(g.phase) /\ ~settled /\ sameDay
      BY <3>1, <3>7 DEF sameDay
    <3>8. QED BY <3>3, <3>4, <3>5, <3>6, <3>7
  <2>5. board.pulls \in Nat
    <3>1. board.pulls = IF stale THEN watch.pulls
                         ELSE IF IsAfter(g.phase)
                         THEN (IF watch.day = g.day THEN watch.pulls ELSE 0) + (IF g.phase = "slow" THEN 1 ELSE 0)
                         ELSE 0
      BY <2>3
    <3>2. QED BY <2>1, <3>1
  <2>6. board.final \in 0..Days /\ board.final <= board.day
    <3>1. board.day = g.day
      BY <2>3
    <3>0. g.day \in 0..Days /\ 0 \in 0..Days /\ 0 <= g.day
      <4>1. g.day \in 0..Days
        BY <2>1
      <4>2. QED BY <4>1, DaysNat
    <3>2. CASE board.final = g.day \/ board.final = 0
      BY <3>0, <3>1, <3>2
    <3>3. CASE board.final = watch.final /\ (~IsAfter(g.phase) \/ watch.day = g.day)
      <4>1. watch.day <= g.day
        BY <2>1, <2>2, <3>3
      <4>2. QED BY <2>1, <3>1, <3>3, <4>1
    <3>4. QED BY <2>4, <3>2, <3>3
  <2>7. board.final # 0 => ~board.rowsStale
    BY <2>3, <2>4
  <2>8. board \in [rows : BoardRows, day : 0..Days, pulls : Nat, final : 0..Days,
                   stale : BOOLEAN, rowsStale : BOOLEAN, seeded : BOOLEAN]
    BY <2>1, <2>3, <2>5, <2>6
  <2>9. QED BY <2>3, <2>6, <2>7, <2>8 DEF g
<1>2. /\ round' = [round EXCEPT ![r] = Ended(r)]
      /\ \/ /\ watch' = [watch EXCEPT !.stale = TRUE]
            /\ UNCHANGED <<view, saves, savedDay>>
         \/ /\ watch' = board
            /\ view' = [k \in Clients |->
                  IF view[k].on THEN [view[k] EXCEPT !.rows = Shown(@, rows, first)] ELSE view[k]]
            /\ BeginSave(round[r], board)
  <2>1. CASE stale /\ watch.rows # Empty /\ ~watch.rowsStale
    BY <1>0, <1>B, <2>1 DEF Settle
  <2>2. CASE ~(stale /\ watch.rows # Empty /\ ~watch.rowsStale)
    BY <1>0, <1>B, <2>2 DEF Settle
  <2>3. QED BY <2>1, <2>2
<1>3. /\ round' \in [Rounds -> [stage : {"idle", "asking", "checking", "again", "over"},
                                day : 0..Days, phase : Phases, first : BOOLEAN, rows : BoardRows]]
      /\ \A q \in Rounds : Going(q)' => Seen(round[q].day, round[q].phase)'
  BY <1>2, RoundEnds
<1>4. CASE watch' = [watch EXCEPT !.stale = TRUE] /\ UNCHANGED <<view, saves, savedDay>>
  <2>1. /\ watch' \in [rows : BoardRows, day : 0..Days, pulls : Nat, final : 0..Days,
                       stale : BOOLEAN, rowsStale : BOOLEAN, seeded : BOOLEAN]
        /\ watch'.day = watch.day /\ watch'.final = watch.final /\ watch'.rowsStale = watch.rowsStale
    BY <1>4 DEF IInv, TypeOK
  <2>2. QED BY <1>3, <1>4, <2>1 DEF IInv, TypeOK, Timely, FinalIsOwn
<1>5. CASE /\ watch' = board
           /\ view' = [k \in Clients |->
                  IF view[k].on THEN [view[k] EXCEPT !.rows = Shown(@, rows, first)] ELSE view[k]]
           /\ BeginSave(round[r], board)
  <2>1. round[r].day \in 1..Days /\ round[r].day <= clock.day
    BY Fields DEF IInv, Timely, Seen, TypeOK
  <2>1a. board.rows \in BoardRows
    BY <1>1
  <2>2. /\ saves' \subseteq [day : 1..Days, rows : BoardRows]
        /\ \A s \in saves' : s.day <= clock.day
        /\ savedDay' \in 0..Days
    BY <1>5, <2>1, <2>1a DEF IInv, Timely, TypeOK, BeginSave
  <2>3. ASSUME NEW k \in Clients PROVE Shown(view[k].rows, rows, first) \in BoardRows
    BY Fields DEF IInv, Shown, BoardRows
  <2>4. view' \in [Clients -> [on : BOOLEAN, rows : BoardRows]]
    BY <1>5, <2>3 DEF IInv, TypeOK
  <2>5. QED BY <1>1, <1>3, <1>5, <2>1, <2>2, <2>4 DEF IInv, TypeOK, Timely, FinalIsOwn
<1>6. QED BY <1>2, <1>4, <1>5

-----------------------------------------------------------------------------
\* A round whose answer was checked keeps the invariant.
LEMMA Judging ==
    ASSUME IInv, NEW r \in Rounds, Going(r), NEW rows \in BoardRows,
           NEW v \in {"unknown", "fresh", "stale"}, Judged(r, rows, v)
    PROVE  IInv'
<1>1. /\ Settle(r, rows, round[r].first, TRUE, v)
      /\ UNCHANGED <<clock, disk, seeding, restarts>>
      /\ ref' \in 0..Days /\ verdict' \in {"unknown", "fresh", "stale"}
  BY LastSessionType DEF Judged, IInv, TypeOK
<1>2. round[r].first \in BOOLEAN
  BY Fields DEF IInv
<1>3. QED BY <1>1, <1>2, SettleKeeps

\* An answer that is settled unchecked comes at a moment without a label.
LEMMA Answering ==
    ASSUME IInv, NEW r \in Rounds, NEW rows \in BoardRows, Answer(r, rows)
    PROVE  IInv'
<1>1. /\ round[r].stage = "asking" /\ Going(r)
      /\ UNCHANGED <<clock, ref, verdict, disk, seeding, restarts>>
      /\ ref' \in 0..Days /\ verdict' \in {"unknown", "fresh", "stale"}
  BY DEF Answer, Going, IInv, TypeOK
<1>2. First \in BOOLEAN
  BY Fields DEF First, IInv
<1>3. CASE /\ round' = [round EXCEPT ![r].stage = "checking", ![r].first = First, ![r].rows = rows]
           /\ UNCHANGED <<watch, view, saves, savedDay>>
  <2>1. /\ round' \in [Rounds -> [stage : {"idle", "asking", "checking", "again", "over"},
                                  day : 0..Days, phase : Phases, first : BOOLEAN, rows : BoardRows]]
        /\ \A q \in Rounds : round'[q].day = round[q].day /\ round'[q].phase = round[q].phase
        /\ \A q \in Rounds : Going(q)' => Going(q)
    <3>1. round[r] \in [stage : {"idle", "asking", "checking", "again", "over"},
                        day : 0..Days, phase : Phases, first : BOOLEAN, rows : BoardRows]
      BY DEF IInv, TypeOK
    <3>2. round' = [round EXCEPT ![r] = [round[r] EXCEPT !.stage = "checking", !.first = First, !.rows = rows]]
      BY <1>3 DEF IInv, TypeOK
    <3>3. \A q \in Rounds : round'[q] = IF q = r THEN [round[r] EXCEPT !.stage = "checking", !.first = First, !.rows = rows]
                                        ELSE round[q]
      BY <3>2 DEF IInv, TypeOK
    <3>4. [round[r] EXCEPT !.stage = "checking", !.first = First, !.rows = rows]
             \in [stage : {"idle", "asking", "checking", "again", "over"},
                  day : 0..Days, phase : Phases, first : BOOLEAN, rows : BoardRows]
      BY <1>2, <3>1
    <3>5. QED BY <1>1, <3>1, <3>2, <3>3, <3>4 DEF IInv, TypeOK, Going
  <2>2. QED BY <1>1, <1>3, <2>1 DEF IInv, TypeOK, Timely, FinalIsOwn, Seen, Going
<1>4. CASE Settle(r, rows, First, TRUE, verdict)
  BY <1>1, <1>2, <1>4, SettleKeeps
<1>5. CASE Settle(r, rows, First, FALSE, verdict) /\ ~watch.stale
  BY <1>1, <1>2, <1>5, SettleKeeps
<1>6. QED
  <2>1. PICK due \in {TRUE, Forced(r, rows)} :
           IF due /\ rows # Empty
           THEN /\ round' = [round EXCEPT ![r].stage = "checking", ![r].first = First, ![r].rows = rows]
                /\ UNCHANGED <<watch, view, saves, savedDay>>
           ELSE Settle(r, rows, First, due, verdict)
    BY DEF Answer
  <2>2. Forced(r, rows) \in BOOLEAN /\ (~Forced(r, rows) => ~watch.stale)
    BY Fields DEF Forced, IInv, First
  <2>3. CASE due = TRUE
    BY <1>3, <1>4, <2>1, <2>3
  <2>4. CASE due = FALSE
    BY <1>3, <1>5, <2>1, <2>2, <2>4
  <2>5. QED BY <2>1, <2>2, <2>3, <2>4

\* Every step keeps the invariant.
LEMMA Nexts == IInv /\ [Next]_wvars => IInv'
<1> SUFFICES ASSUME IInv, [Next]_wvars PROVE IInv'
  OBVIOUS
<1>1. ASSUME NEW r \in Rounds, Start(r) PROVE IInv'
  <2> DEFINE g == [Resting EXCEPT !.stage = "asking", !.day = clock.day, !.phase = clock.phase]
  <2>1. /\ g \in [stage : {"idle", "asking", "checking", "again", "over"},
                  day : 0..Days, phase : Phases, first : BOOLEAN, rows : BoardRows]
        /\ g.day = clock.day /\ g.phase = clock.phase
    <3>1. clock.day \in 0..Days /\ clock.phase \in Phases
      BY Fields, DaysNat DEF IInv
    <3>2. Resting \in [stage : {"idle", "asking", "checking", "again", "over"},
                       day : 0..Days, phase : Phases, first : BOOLEAN, rows : BoardRows]
      BY RestingRound
    <3>3. QED BY <3>1, <3>2
  <2>2. round' = [round EXCEPT ![r] = g] /\ UNCHANGED <<clock, watch, ref, verdict, view, disk, saves, savedDay, seeding, restarts>>
    BY <1>1 DEF Start
  <2>3. clock.phase \in {"open", "fast", "slow"} /\ clock.day \in 1..Days
    BY <1>1, Fields DEF Start, IsOpen, AfterCloseDue, IsAfter, IInv
  <2> HIDE DEF g
  <2>4. Seen(g.day, g.phase)
    BY <2>1, <2>3 DEF Seen
  <2>5. /\ round' \in [Rounds -> [stage : {"idle", "asking", "checking", "again", "over"},
                                  day : 0..Days, phase : Phases, first : BOOLEAN, rows : BoardRows]]
    BY <2>1, <2>2 DEF IInv, TypeOK
  <2>6. ASSUME NEW q \in Rounds, Going(q)' PROVE Seen(round[q].day, round[q].phase)'
    <3>1. CASE q = r
      <4>1. round'[q] = g
        BY <2>2, <3>1 DEF IInv, TypeOK
      <4>2. QED BY <2>2, <2>4, <4>1 DEF Seen
    <3>2. CASE q # r
      <4>1. round'[q] = round[q]
        BY <2>2, <3>2 DEF IInv, TypeOK
      <4>2. QED BY <2>2, <2>6, <4>1 DEF Seen, Going, IInv, Timely
    <3>3. QED BY <3>1, <3>2
  <2>7. QED BY <2>2, <2>5, <2>6 DEF IInv, TypeOK, Timely, FinalIsOwn
<1>2. ASSUME NEW r \in Rounds, Fail(r) PROVE IInv'
  <2>1. /\ round' = [round EXCEPT ![r] = Ended(r)]
        /\ UNCHANGED <<clock, watch, ref, verdict, view, disk, saves, savedDay, seeding, restarts>>
    BY <1>2 DEF Fail
  <2>2. QED BY <2>1, RoundEnds DEF IInv, TypeOK, Timely, FinalIsOwn
<1>3. ASSUME NEW r \in Rounds, Check(r) PROVE IInv'
  <2>1. Going(r) /\ round[r].rows \in BoardRows
    BY <1>3, Fields DEF Check, Going, IInv
  <2>2. PICK v \in Judgements(round[r].rows) :
           \/ /\ v = "stale"
              /\ round' = [round EXCEPT ![r].stage = "again"]
              /\ UNCHANGED <<clock, watch, ref, verdict, view, disk, saves, savedDay, seeding, restarts>>
           \/ /\ v # "stale"
              /\ Judged(r, round[r].rows, v)
    BY <1>3 DEF Check
  <2>3. v \in {"unknown", "fresh", "stale"}
    BY <2>2 DEF Judgements
  <2>4. CASE Judged(r, round[r].rows, v)
    BY <2>1, <2>3, <2>4, Judging
  <2>5. CASE /\ round' = [round EXCEPT ![r].stage = "again"]
             /\ UNCHANGED <<clock, watch, ref, verdict, view, disk, saves, savedDay, seeding, restarts>>
    <3>1. ASSUME NEW q \in Rounds
          PROVE  /\ round'[q] \in [stage : {"idle", "asking", "checking", "again", "over"},
                                   day : 0..Days, phase : Phases, first : BOOLEAN, rows : BoardRows]
                 /\ round'[q].day = round[q].day /\ round'[q].phase = round[q].phase
                 /\ Going(q)' => Going(q)
      <4>1. round[q] \in [stage : {"idle", "asking", "checking", "again", "over"},
                          day : 0..Days, phase : Phases, first : BOOLEAN, rows : BoardRows]
        BY DEF IInv, TypeOK
      <4>2. round'[q] = IF q = r THEN [round[q] EXCEPT !.stage = "again"] ELSE round[q]
        BY <2>5 DEF IInv, TypeOK
      <4>3. QED BY <2>1, <4>1, <4>2 DEF Going
    <3>2. round' \in [Rounds -> [stage : {"idle", "asking", "checking", "again", "over"},
                                 day : 0..Days, phase : Phases, first : BOOLEAN, rows : BoardRows]]
      BY <2>5, <3>1 DEF IInv, TypeOK
    <3>3. QED BY <2>5, <3>1, <3>2 DEF IInv, TypeOK, Timely, FinalIsOwn, Seen
  <2>6. QED BY <2>2, <2>4, <2>5
<1>4. ASSUME NEW r \in Rounds, NEW rows \in Answers, Answer(r, rows) PROVE IInv'
  BY <1>4, Answering, AnswerRows DEF IInv
<1>5. ASSUME NEW r \in Rounds, NEW rows \in Answers, Again(r, rows) PROVE IInv'
  <2>1. Going(r) /\ round[r].rows \in BoardRows /\ rows \in BoardRows
    BY <1>5, Fields, AnswerRows DEF Again, Going, IInv
  <2>2. CASE Judged(r, round[r].rows, "stale")
    BY <2>1, <2>2, Judging
  <2>3. CASE \E v \in Judgements(rows) : Judged(r, IF v = "stale" THEN round[r].rows ELSE rows, v)
    <3>1. PICK v \in Judgements(rows) : Judged(r, IF v = "stale" THEN round[r].rows ELSE rows, v)
      BY <2>3
    <3>2. v \in {"unknown", "fresh", "stale"}
      BY DEF Judgements
    <3>3. CASE v = "stale"
      BY <2>1, <3>1, <3>3, Judging
    <3>4. CASE v # "stale"
      BY <2>1, <3>1, <3>2, <3>4, Judging
    <3>5. QED BY <3>3, <3>4
  <2>4. QED BY <1>5, <2>2, <2>3 DEF Again
<1>6. ASSUME NEW s \in saves, Land(s) PROVE IInv'
  <2>1. s \in [day : 1..Days, rows : BoardRows] /\ s.day <= clock.day
    BY <1>6 DEF IInv, TypeOK, Timely
  <2>2. disk' \in [day : 0..Days, rows : BoardRows, final : BOOLEAN] /\ disk'.day = s.day
    BY <1>6, <2>1 DEF Land
  <2>3. saves' \subseteq saves /\ UNCHANGED <<clock, watch, ref, verdict, round, view, savedDay, seeding, restarts>>
    BY <1>6 DEF Land
  <2>4. QED BY <2>1, <2>2, <2>3 DEF IInv, TypeOK, Timely, FinalIsOwn, Seen, Going
<1>7. ASSUME NEW k \in Clients, Connect(k) \/ Disconnect(k) PROVE IInv'
  <2>1. [on |-> TRUE, rows |-> watch.rows] \in [on : BOOLEAN, rows : BoardRows]
    BY Fields DEF IInv
  <2>2. Closed \in [on : BOOLEAN, rows : BoardRows]
    BY EmptyBoard DEF Closed
  <2>3. view' \in [Clients -> [on : BOOLEAN, rows : BoardRows]]
    BY <1>7, <2>1, <2>2 DEF Connect, Disconnect, IInv, TypeOK
  <2>4. UNCHANGED <<clock, watch, ref, verdict, round, disk, saves, savedDay, seeding, restarts>>
    BY <1>7 DEF Connect, Disconnect
  <2>5. QED BY <2>3, <2>4 DEF IInv, TypeOK, Timely, FinalIsOwn, Seen, Going
<1>8. ASSUME Restart PROVE IInv'
  <2>1. /\ watch' = NoBoard /\ ref' = 0 /\ verdict' = "unknown" /\ saves' = {} /\ savedDay' = 0
        /\ UNCHANGED <<clock, disk>> /\ restarts < MaxRestarts /\ restarts' = restarts + 1
        /\ seeding' \in [on : BOOLEAN, phase : Phases, crossed : BOOLEAN]
        /\ view' = [k \in Clients |-> Closed]
        /\ round' = [r \in Rounds |-> IF round[r].stage = "idle" THEN Resting ELSE Ended(r)]
    BY <1>8, Fields DEF Restart, IsOpen, IInv
  <2>2. /\ watch' \in [rows : BoardRows, day : 0..Days, pulls : Nat, final : 0..Days,
                       stale : BOOLEAN, rowsStale : BOOLEAN, seeded : BOOLEAN]
        /\ watch'.day = 0 /\ watch'.final = 0
    BY <2>1, EmptyBoard, DaysNat DEF NoBoard
  <2>3. view' \in [Clients -> [on : BOOLEAN, rows : BoardRows]]
    BY <2>1, EmptyBoard DEF Closed
  <2>4. /\ round' \in [Rounds -> [stage : {"idle", "asking", "checking", "again", "over"},
                                  day : 0..Days, phase : Phases, first : BOOLEAN, rows : BoardRows]]
        /\ \A r \in Rounds : ~Going(r)'
    BY <2>1, RestingRound DEF Going
  <2>5. restarts' \in 0..MaxRestarts
    BY <2>1, WatchBounds DEF IInv, TypeOK
  <2>6. 0 <= clock.day
    BY Fields, DaysNat DEF IInv
  <2>7. QED BY <2>1, <2>2, <2>3, <2>4, <2>5, <2>6, DaysNat DEF IInv, TypeOK, Timely, FinalIsOwn
<1>9. ASSUME Seed PROVE IInv'
  <2>1. seeding' \in [on : BOOLEAN, phase : Phases, crossed : BOOLEAN]
    <3>1. NoSeed \in [on : BOOLEAN, phase : Phases, crossed : BOOLEAN]
      BY DEF NoSeed, Phases
    <3>2. [NoSeed EXCEPT !.crossed = \E r \in Rounds : Partial(r)] \in [on : BOOLEAN, phase : Phases, crossed : BOOLEAN]
      BY DEF NoSeed, Phases
    <3>3. QED BY <1>9, <3>1, <3>2 DEF Seed
  <2>2. CASE UNCHANGED <<watch, savedDay>>
    BY <1>9, <2>1, <2>2 DEF Seed, IInv, TypeOK, Timely, FinalIsOwn, Seen, Going
  <2>3. CASE watch' # watch \/ savedDay' # savedDay
    <3>1. /\ watch' = [watch EXCEPT !.rows = disk.rows, !.day = disk.day, !.pulls = 0,
                        !.final = IF disk.final THEN disk.day ELSE 0,
                        !.stale = FALSE, !.rowsStale = FALSE, !.seeded = TRUE]
          /\ savedDay' = disk.day
      BY <1>9, <2>3 DEF Seed
    <3>2. disk.rows \in BoardRows /\ disk.day \in 0..Days /\ disk.final \in BOOLEAN /\ disk.day <= clock.day
      BY Fields DEF IInv, Timely
    <3>3. /\ watch' \in [rows : BoardRows, day : 0..Days, pulls : Nat, final : 0..Days,
                         stale : BOOLEAN, rowsStale : BOOLEAN, seeded : BOOLEAN]
          /\ watch'.day = disk.day /\ watch'.rowsStale = FALSE
          /\ watch'.final \in {disk.day, 0}
      <4>1. (IF disk.final THEN disk.day ELSE 0) \in 0..Days /\ (IF disk.final THEN disk.day ELSE 0) \in {disk.day, 0}
        BY <3>2, DaysNat
      <4>2. QED BY <3>1, <3>2, <4>1 DEF IInv, TypeOK
    <3>4. watch'.final <= watch'.day
      BY <3>2, <3>3, DaysNat
    <3>5. UNCHANGED <<clock, ref, verdict, round, view, disk, saves, restarts>>
      BY <1>9 DEF Seed
    <3>6. QED BY <2>1, <3>1, <3>2, <3>3, <3>4, <3>5 DEF IInv, TypeOK, Timely, FinalIsOwn, Seen, Going
  <2>4. QED BY <2>2, <2>3
<1>10. ASSUME Tick PROVE IInv'
  <2>1. /\ \A r \in Rounds : Going(r) => round[r].phase = clock.phase /\ round[r].day = clock.day
        /\ UNCHANGED <<watch, ref, verdict, round, view, disk, saves, savedDay, seeding, restarts>>
    BY <1>10, Fields DEF Tick, Going, IInv
  <2>2. /\ clock' \in [day : 1..Days, phase : Phases] /\ clock'.day >= clock.day
        /\ \/ clock.phase = "slow" /\ clock'.day = clock.day + 1 /\ clock'.phase = "before"
           \/ /\ clock'.day = clock.day
              /\ <<clock.phase, clock'.phase>> \in {<<"before", "open">>, <<"open", "fast">>, <<"fast", "slow">>}
    <3>1. CASE clock.phase = "slow" /\ clock.day < Days /\ clock' = [day |-> clock.day + 1, phase |-> "before"]
      BY <3>1, Fields, DaysNat DEF IInv, Phases
    <3>2. CASE \E p \in {<<"before", "open">>, <<"open", "fast">>, <<"fast", "slow">>} :
                  clock.phase = p[1] /\ clock' = [clock EXCEPT !.phase = p[2]]
      BY <3>2, Fields, DaysNat DEF IInv, TypeOK, Phases
    <3>3. QED BY <1>10, <3>1, <3>2 DEF Tick
  <2>3. \A r \in Rounds : Going(r) => Seen(round[r].day, round[r].phase)'
    BY <2>1, <2>2, Fields DEF IInv, Timely, Seen
  <2>4. watch'.day <= clock'.day /\ disk'.day <= clock'.day /\ \A s \in saves' : s.day <= clock'.day
    <3>1. clock.day \in Nat /\ clock'.day \in Nat /\ watch.day \in Nat /\ disk.day \in Nat
      BY <2>2, Fields, DaysNat DEF IInv
    <3>2. ASSUME NEW s \in saves PROVE s.day <= clock'.day
      <4>1. s.day \in Nat /\ s.day <= clock.day
        BY DaysNat DEF IInv, TypeOK, Timely
      <4>2. QED BY <2>2, <3>1, <4>1
    <3>3. QED BY <2>1, <2>2, <3>1, <3>2 DEF IInv, Timely
  <2>5. QED BY <2>1, <2>2, <2>3, <2>4 DEF IInv, TypeOK, Timely, FinalIsOwn, Going
<1>11. ASSUME UNCHANGED wvars PROVE IInv'
  BY <1>11 DEF wvars, IInv, TypeOK, Timely, FinalIsOwn, Seen, Going
<1>12. QED
  BY <1>1, <1>2, <1>3, <1>4, <1>5, <1>6, <1>7, <1>8, <1>9, <1>10, <1>11 DEF Next

-----------------------------------------------------------------------------
\* A fresh server satisfies the invariant.
LEMMA InitIInv == Init => IInv
<1> SUFFICES ASSUME Init PROVE IInv
  OBVIOUS
<1>1. clock \in [day : 1..Days, phase : Phases] /\ clock.day = 1
  BY DaysNat, WatchBounds DEF Init, Phases
<1>2. /\ watch \in [rows : BoardRows, day : 0..Days, pulls : Nat, final : 0..Days,
                    stale : BOOLEAN, rowsStale : BOOLEAN, seeded : BOOLEAN]
      /\ watch.day = 0 /\ watch.final = 0
  BY EmptyBoard, DaysNat DEF Init, NoBoard
<1>3. round \in [Rounds -> [stage : {"idle", "asking", "checking", "again", "over"},
                           day : 0..Days, phase : Phases, first : BOOLEAN, rows : BoardRows]]
  BY RestingRound DEF Init
<1>4. \A r \in Rounds : ~Going(r)
  BY RestingRound DEF Init, Going
<1>5. view \in [Clients -> [on : BOOLEAN, rows : BoardRows]]
  BY EmptyBoard DEF Init, Closed
<1>6. disk \in [day : 0..Days, rows : BoardRows, final : BOOLEAN] /\ disk.day = 0
  BY EmptyBoard, DaysNat DEF Init, NoFile
<1>7. /\ ref \in 0..Days /\ verdict = "unknown" /\ saves = {} /\ savedDay \in 0..Days
      /\ seeding \in [on : BOOLEAN, phase : Phases, crossed : BOOLEAN] /\ restarts \in 0..MaxRestarts
  BY DaysNat, WatchBounds DEF Init, NoSeed, Phases
<1>8. QED
  BY <1>1, <1>2, <1>3, <1>4, <1>5, <1>6, <1>7 DEF IInv, TypeOK, Timely, FinalIsOwn

\* The state stays well formed, and no board is final for a day to come:
\* afterCloseDue() would then skip that day's evening.
THEOREM WatchTypes == Spec => []TypeOK
<1>1. IInv => TypeOK
  BY DEF IInv
<1>2. QED BY InitIInv, Nexts, <1>1, PTL DEF Spec

\* Rows known to be old are never held to be final, whatever rounds overlap:
\* afterCloseState() sees the label that the check has put on the board.
THEOREM WatchFinal == Spec => []FinalIsOwn
<1>1. IInv => FinalIsOwn
  BY DEF IInv
<1>2. QED BY InitIInv, Nexts, <1>1, PTL DEF Spec

-----------------------------------------------------------------------------
\* No round that will send only the changed rows can meet a seeded board.
PartialSafe ==
    /\ seeding.on => ~seeding.crossed
    /\ ~seeding.crossed => \A r \in Rounds : Partial(r) => ~watch.seeded

FInv == IInv /\ PartialSafe /\ ClientsFollow

\* The event that a round sends brings each browser up to the board.
LEMMA SettleShows ==
    ASSUME IInv, ClientsFollow, ~seeding.crossed, seeding' = seeding,
           NEW r \in Rounds, NEW rows \in BoardRows, NEW first \in BOOLEAN, NEW due, NEW v,
           first \/ ~watch.seeded, Settle(r, rows, first, due, v)
    PROVE  /\ ClientsFollow'
           /\ round' = [round EXCEPT ![r] = Ended(r)]
           /\ watch'.seeded => watch.seeded
<1>0. watch \in [rows : BoardRows, day : 0..Days, pulls : Nat, final : 0..Days,
                stale : BOOLEAN, rowsStale : BOOLEAN, seeded : BOOLEAN]
  BY DEF IInv, TypeOK
<1>1. CASE watch' = [watch EXCEPT !.stale = TRUE] /\ UNCHANGED view
  <2>1. watch'.rows = watch.rows /\ watch'.seeded = watch.seeded
    BY <1>0, <1>1
  <2>2. QED BY <1>1, <2>1 DEF ClientsFollow, Settle
<1>2. CASE /\ watch'.rows = rows /\ watch'.seeded = FALSE
           /\ view' = [k \in Clients |->
                  IF view[k].on THEN [view[k] EXCEPT !.rows = Shown(@, rows, first)] ELSE view[k]]
  <2>1. ASSUME NEW k \in Clients, view'[k].on, NEW c \in Contracts, rows[c] # NoRow
        PROVE  view'[k].rows[c] = rows[c]
    <3>1. view[k] \in [on : BOOLEAN, rows : BoardRows]
      BY DEF IInv, TypeOK
    <3>2. view[k].on /\ view'[k].rows = Shown(view[k].rows, rows, first)
      BY <1>2, <2>1, <3>1
    <3>3. CASE first
      BY <3>2, <3>3 DEF Shown
    <3>4. CASE ~first
      <4>1. view'[k].rows[c] = IF rows[c] # watch.rows[c] THEN rows[c] ELSE view[k].rows[c]
        BY <2>1, <3>2, <3>4 DEF Shown, Changed
      <4>2. rows[c] = watch.rows[c] => view[k].rows[c] = watch.rows[c]
        BY <2>1, <3>2, <3>4 DEF ClientsFollow
      <4>3. QED BY <4>1, <4>2
    <3>5. QED BY <3>3, <3>4
  <2>2. QED BY <1>2, <2>1 DEF ClientsFollow, Settle
<1>3. QED
  <2> DEFINE stale == due /\ v = "stale"
             board == Renewed(round[r], rows, first, due, stale)
  <2>1. board.rows = rows /\ board.seeded = FALSE
    BY DEF Renewed
  <2>2. CASE stale /\ watch.rows # Empty /\ ~watch.rowsStale
    BY <1>1, <2>2 DEF Settle
  <2>3. CASE ~(stale /\ watch.rows # Empty /\ ~watch.rowsStale)
    <3>1. watch' = board
      BY <2>3 DEF Settle
    <3>2. view' = [k \in Clients |->
                  IF view[k].on THEN [view[k] EXCEPT !.rows = Shown(@, rows, first)] ELSE view[k]]
      BY <2>3 DEF Settle
    <3>3. QED BY <1>2, <2>1, <3>1, <3>2
  <2>4. QED BY <2>2, <2>3

\* A round that ends keeps the invariant.
LEMMA SettleFollows ==
    ASSUME FInv, NEW r \in Rounds, NEW rows \in BoardRows, NEW first \in BOOLEAN, NEW due, NEW v,
           seeding.crossed \/ first \/ ~watch.seeded,
           Settle(r, rows, first, due, v), seeding' = seeding
    PROVE  PartialSafe' /\ ClientsFollow'
<1>1. CASE seeding.crossed
  BY <1>1 DEF FInv, PartialSafe, ClientsFollow
<1>2. CASE ~seeding.crossed
  <2>1. /\ ClientsFollow'
        /\ round' = [round EXCEPT ![r] = Ended(r)]
        /\ watch'.seeded => watch.seeded
    BY <1>2, SettleShows DEF FInv
  <2>2. \A q \in Rounds : round'[q] = IF q = r THEN Ended(r) ELSE round[q]
    BY <2>1 DEF FInv, IInv, TypeOK
  <2>3. ASSUME NEW q \in Rounds, Partial(q)' PROVE ~watch'.seeded
    <3>1. q # r /\ round'[q] = round[q]
      BY <2>2, <2>3, RestingRound DEF Partial
    <3>2. Partial(q)
      BY <2>3, <3>1 DEF Partial
    <3>3. QED BY <1>2, <2>1, <3>2 DEF FInv, PartialSafe
  <2>4. QED BY <1>2, <2>1, <2>3 DEF PartialSafe, Partial
<1>3. QED BY <1>1, <1>2

\* A round after its check.
LEMMA JudgedFollows ==
    ASSUME FInv, NEW r \in Rounds, round[r].stage \in {"checking", "again"},
           NEW rows \in BoardRows, NEW v, Judged(r, rows, v)
    PROVE  PartialSafe' /\ ClientsFollow'
<1>1. round[r].first \in BOOLEAN
  BY Fields DEF FInv, IInv
<1>2. seeding.crossed \/ round[r].first \/ ~watch.seeded
  BY DEF FInv, PartialSafe, Partial
<1>3. Settle(r, rows, round[r].first, TRUE, v) /\ seeding' = seeding
  BY DEF Judged
<1>4. QED BY <1>1, <1>2, <1>3, SettleFollows

\* A round that takes its answer, to check it or as it is.
LEMMA AnswerFollows ==
    ASSUME FInv, NEW r \in Rounds, NEW rows \in BoardRows, Answer(r, rows)
    PROVE  PartialSafe' /\ ClientsFollow'
<1>1. round[r].stage = "asking" /\ seeding' = seeding
  BY DEF Answer
<1>2. First \in BOOLEAN /\ (First \/ ~watch.seeded)
  BY Fields DEF First, FInv, IInv
<1>3. CASE /\ round' = [round EXCEPT ![r].stage = "checking", ![r].first = First, ![r].rows = rows]
           /\ UNCHANGED <<watch, view>>
  <2>1. ASSUME NEW q \in Rounds
        PROVE  /\ q # r => round'[q] = round[q]
               /\ q = r => round'[q].stage = "checking" /\ round'[q].first = First
    <3>1. round \in [Rounds -> [stage : {"idle", "asking", "checking", "again", "over"},
                               day : 0..Days, phase : Phases, first : BOOLEAN, rows : BoardRows]]
      BY DEF FInv, IInv, TypeOK
    <3>2. round' = [round EXCEPT ![r] = [round[r] EXCEPT !.stage = "checking", !.first = First, !.rows = rows]]
      BY <1>3, <3>1
    <3>3. round'[r] = [round[r] EXCEPT !.stage = "checking", !.first = First, !.rows = rows]
      BY <3>1, <3>2
    <3>4. QED BY <3>1, <3>2, <3>3
  <2>2. PartialSafe'
    BY <1>1, <1>2, <1>3, <2>1 DEF FInv, PartialSafe, Partial
  <2>3. QED BY <1>1, <1>3, <2>2 DEF FInv, ClientsFollow
<1>4. ASSUME NEW due, Settle(r, rows, First, due, verdict)
      PROVE  PartialSafe' /\ ClientsFollow'
  BY <1>1, <1>2, <1>4, SettleFollows
<1>5. QED
  <2>1. PICK due \in {TRUE, Forced(r, rows)} :
           IF due /\ rows # Empty
           THEN /\ round' = [round EXCEPT ![r].stage = "checking", ![r].first = First, ![r].rows = rows]
                /\ UNCHANGED <<watch, view, saves, savedDay>>
           ELSE Settle(r, rows, First, due, verdict)
    BY DEF Answer
  <2>2. CASE due /\ rows # Empty
    BY <1>3, <2>1, <2>2
  <2>3. CASE ~(due /\ rows # Empty)
    BY <1>4, <2>1, <2>3
  <2>4. QED BY <2>2, <2>3

\* A round that moves on without an event.
LEMMA RoundStays ==
    ASSUME FInv, NEW r \in Rounds, NEW g, round' = [round EXCEPT ![r] = g],
           UNCHANGED <<watch, view, seeding>>,
           (g.stage \in {"checking", "again"} /\ ~g.first) => Partial(r)
    PROVE  PartialSafe' /\ ClientsFollow'
<1>1. \A q \in Rounds : round'[q] = IF q = r THEN g ELSE round[q]
  BY DEF FInv, IInv, TypeOK
<1>2. PartialSafe'
  BY <1>1 DEF FInv, PartialSafe, Partial
<1>3. QED BY <1>2 DEF FInv, ClientsFollow

\* Every step keeps what the browsers show.
LEMMA FollowsNext == FInv /\ [Next]_wvars => PartialSafe' /\ ClientsFollow'
<1> SUFFICES ASSUME FInv, [Next]_wvars PROVE PartialSafe' /\ ClientsFollow'
  OBVIOUS
<1>1. ASSUME NEW r \in Rounds, Start(r) PROVE PartialSafe' /\ ClientsFollow'
  <2> DEFINE g == [Resting EXCEPT !.stage = "asking", !.day = clock.day, !.phase = clock.phase]
  <2>1. g.stage = "asking"
    BY DEF Resting
  <2> HIDE DEF g
  <2>2. /\ round' = [round EXCEPT ![r] = g]
        /\ UNCHANGED <<watch, view, seeding>>
    BY <1>1 DEF Start, g
  <2>3. QED BY <2>1, <2>2, RoundStays
<1>2. ASSUME NEW r \in Rounds, Fail(r) PROVE PartialSafe' /\ ClientsFollow'
  <2>1. /\ round' = [round EXCEPT ![r] = Ended(r)]
        /\ UNCHANGED <<watch, view, seeding>>
    BY <1>2 DEF Fail
  <2>2. Ended(r).stage \in {"idle", "over"}
    BY RestingRound DEF Ended
  <2>3. QED BY <2>1, <2>2, RoundStays
<1>3. ASSUME NEW r \in Rounds, Check(r) PROVE PartialSafe' /\ ClientsFollow'
  <2>1. round[r].stage = "checking" /\ round[r].rows \in BoardRows
    BY <1>3, Fields DEF Check, FInv, IInv
  <2>2. CASE /\ round' = [round EXCEPT ![r].stage = "again"]
             /\ UNCHANGED <<clock, watch, ref, verdict, view, disk, saves, savedDay, seeding, restarts>>
    <3> DEFINE g == [round[r] EXCEPT !.stage = "again"]
    <3>1. round[r] \in [stage : {"idle", "asking", "checking", "again", "over"},
                        day : 0..Days, phase : Phases, first : BOOLEAN, rows : BoardRows]
      BY DEF FInv, IInv, TypeOK
    <3>2. g.stage = "again" /\ g.first = round[r].first
      BY <3>1
    <3>3. round' = [round EXCEPT ![r] = g]
      BY <2>2 DEF FInv, IInv, TypeOK
    <3> HIDE DEF g
    <3>4. QED BY <2>1, <2>2, <3>2, <3>3, RoundStays DEF Partial
  <2>3. CASE \E v \in Judgements(round[r].rows) : Judged(r, round[r].rows, v)
    BY <2>1, <2>3, JudgedFollows
  <2>4. QED BY <1>3, <2>2, <2>3 DEF Check
<1>4. ASSUME NEW r \in Rounds, NEW rows \in Answers, Answer(r, rows)
      PROVE  PartialSafe' /\ ClientsFollow'
  BY <1>4, AnswerFollows, AnswerRows DEF FInv, IInv
<1>5. ASSUME NEW r \in Rounds, NEW rows \in Answers, Again(r, rows)
      PROVE  PartialSafe' /\ ClientsFollow'
  <2>1. round[r].stage = "again" /\ round[r].rows \in BoardRows /\ rows \in BoardRows
    BY <1>5, Fields, AnswerRows DEF Again, FInv, IInv
  <2>2. CASE Judged(r, round[r].rows, "stale")
    BY <2>1, <2>2, JudgedFollows
  <2>3. CASE \E v \in Judgements(rows) : Judged(r, IF v = "stale" THEN round[r].rows ELSE rows, v)
    <3>1. PICK v \in Judgements(rows) : Judged(r, IF v = "stale" THEN round[r].rows ELSE rows, v)
      BY <2>3
    <3>2. CASE v = "stale"
      BY <2>1, <3>1, <3>2, JudgedFollows
    <3>3. CASE v # "stale"
      BY <2>1, <3>1, <3>3, JudgedFollows
    <3>4. QED BY <3>2, <3>3
  <2>4. QED BY <1>5, <2>2, <2>3 DEF Again
<1>6. ASSUME NEW k \in Clients, Connect(k) PROVE PartialSafe' /\ ClientsFollow'
  <2>1. UNCHANGED <<watch, round, seeding>> /\ view' = [view EXCEPT ![k] = [on |-> TRUE, rows |-> watch.rows]]
    BY <1>6 DEF Connect
  <2>2. \A l \in Clients : view'[l] = IF l = k THEN [on |-> TRUE, rows |-> watch.rows] ELSE view[l]
    BY <2>1 DEF FInv, IInv, TypeOK
  <2>3. ClientsFollow'
    BY <2>1, <2>2 DEF FInv, ClientsFollow
  <2>4. QED BY <2>1, <2>3 DEF FInv, PartialSafe, Partial
<1>7. ASSUME NEW k \in Clients, Disconnect(k) PROVE PartialSafe' /\ ClientsFollow'
  <2>1. UNCHANGED <<watch, round, seeding>> /\ view' = [view EXCEPT ![k] = Closed]
    BY <1>7 DEF Disconnect
  <2>2. \A l \in Clients : view'[l] = IF l = k THEN Closed ELSE view[l]
    BY <2>1 DEF FInv, IInv, TypeOK
  <2>3. ClientsFollow'
    BY <2>1, <2>2 DEF FInv, ClientsFollow, Closed
  <2>4. QED BY <2>1, <2>3 DEF FInv, PartialSafe, Partial
<1>8. ASSUME Restart PROVE PartialSafe' /\ ClientsFollow'
  <2>1. \A r \in Rounds : ~Partial(r)'
    BY <1>8, RestingRound DEF Restart, Partial
  <2>2. \A k \in Clients : ~view'[k].on
    BY <1>8 DEF Restart, Closed
  <2>3. ~seeding'.crossed
    BY <1>8 DEF Restart
  <2>4. QED BY <2>1, <2>2, <2>3 DEF PartialSafe, ClientsFollow
<1>9. ASSUME Seed PROVE PartialSafe' /\ ClientsFollow'
  <2>1. UNCHANGED <<round, view>> /\ ~seeding'.on /\ ~seeding.crossed
    BY <1>9 DEF Seed, NoSeed, FInv, PartialSafe
  <2>2. CASE watch' = watch
    BY <2>1, <2>2 DEF FInv, PartialSafe, Partial, ClientsFollow
  <2>3. CASE watch'.seeded /\ (seeding'.crossed <=> \E r \in Rounds : Partial(r))
    <3>1. ~seeding'.crossed => \A r \in Rounds : ~Partial(r)'
      BY <2>1, <2>3 DEF Partial
    <3>2. QED BY <2>1, <2>3, <3>1 DEF PartialSafe, ClientsFollow
  <2>4. QED
    <3>1. watch \in [rows : BoardRows, day : 0..Days, pulls : Nat, final : 0..Days,
                    stale : BOOLEAN, rowsStale : BOOLEAN, seeded : BOOLEAN]
      BY DEF FInv, IInv, TypeOK
    <3>2. QED BY <1>9, <2>2, <2>3, <3>1 DEF Seed, NoSeed
<1>10. ASSUME (\E s \in saves : Land(s)) \/ Tick \/ UNCHANGED wvars
       PROVE  PartialSafe' /\ ClientsFollow'
  <2>1. UNCHANGED <<watch, round, view, seeding>>
    BY <1>10 DEF Land, Tick, wvars
  <2>2. QED BY <2>1 DEF FInv, PartialSafe, Partial, ClientsFollow
<1>11. QED
  BY <1>1, <1>2, <1>3, <1>4, <1>5, <1>6, <1>7, <1>8, <1>9, <1>10 DEF Next

\* Every browser on the stream shows the board as the server holds it, although
\* most events carry only the rows that differ, with any number of requests:
\* it takes the file coming in hand under a round that awaits its check.
THEOREM WatchFollows == Spec => []ClientsFollow
<1>1. Init => FInv
  <2> SUFFICES ASSUME Init PROVE FInv
    OBVIOUS
  <2>1. IInv
    BY InitIInv
  <2>2. ~seeding.on /\ (\A k \in Clients : ~view[k].on) /\ (\A r \in Rounds : ~Partial(r))
    BY RestingRound DEF Init, NoSeed, Closed, Partial
  <2>3. QED BY <2>1, <2>2 DEF FInv, PartialSafe, ClientsFollow
<1>2. FInv /\ [Next]_wvars => FInv'
  BY Nexts, FollowsNext DEF FInv
<1>3. FInv => ClientsFollow
  BY DEF FInv
<1>4. QED BY <1>1, <1>2, <1>3, PTL DEF Spec

-----------------------------------------------------------------------------
\* No board is of a session that the exchange has not opened.
Past ==
    /\ Session(watch.rows) <= LastSession
    /\ Session(disk.rows) <= LastSession
    /\ \A s \in saves : Session(s.rows) <= LastSession
    /\ \A r \in Rounds : Session(round[r].rows) <= LastSession

\* Requests come in the last life, and while the file is read nothing saves.
Quiet ==
    /\ \A q \in Requests : Going(q) => restarts = MaxRestarts
    /\ seeding.on => round["loop"].stage = "idle" /\ saves = {}

\* Unless the last check was in vain, the reference values are of a session at
\* least as late as the board in hand and the board that is being read.
Referenced ==
    verdict # "unknown" =>
        /\ ref # 0
        /\ Session(watch.rows) <= ref
        /\ seeding.on => Session(disk.rows) <= ref

RInv == IInv /\ Past /\ Quiet /\ Referenced

\* A board's session is a day, that of the empty board 0.
LEMMA SessionType == \A rows \in BoardRows : Session(rows) \in 0..Days
<1> SUFFICES ASSUME NEW rows \in BoardRows PROVE Session(rows) \in 0..Days
  OBVIOUS
<1>1. CASE rows = Empty
  BY <1>1, DaysNat DEF Session
<1>2. CASE rows # Empty
  <2> DEFINE c == CHOOSE d \in Contracts : rows[d] # NoRow
  <2>1. \E d \in Contracts : rows[d] # NoRow
    BY <1>2 DEF Empty, BoardRows
  <2>2. c \in Contracts /\ rows[c] # NoRow
    BY <2>1
  <2> HIDE DEF c
  <2>3. rows[c] \in (0..Days) \X UNION {{b[d] : d \in Contracts} : b \in Boards}
    BY <2>2 DEF BoardRows
  <2>4. rows[c][1] \in 0..Days
    BY <2>3
  <2>5. Session(rows) = rows[c][1]
    BY <1>2 DEF Session, c
  <2>6. QED BY <2>4, <2>5
<1>3. QED BY <1>1, <1>2

LEMMA SessionOfEmpty == Session(Empty) = 0
BY DEF Session

\* An answer is of the session it was given in.
LEMMA SessionOfAnswer ==
    ASSUME TypeOK, NEW rows \in Answers
    PROVE  Session(rows) <= LastSession
<1>1. PICK s \in 1..LastSession, b \in Boards : rows = Board(s, b)
  BY DEF Answers
<1>0. LastSession \in Nat
  BY LastSessionType, DaysNat
<1>2. CASE rows = Empty
  BY <1>0, <1>2, SessionOfEmpty
<1>3. CASE rows # Empty
  <2> DEFINE c == CHOOSE d \in Contracts : rows[d] # NoRow
  <2>1. \E d \in Contracts : rows[d] # NoRow
    BY <1>1, <1>3 DEF Empty, Board
  <2>2. c \in Contracts /\ rows[c] # NoRow
    BY <2>1
  <2>3. Session(rows) = rows[c][1]
    BY <1>3 DEF Session
  <2> HIDE DEF c
  <2>4. rows[c] = <<s, b[c]>>
    BY <1>1, <2>2 DEF Board
  <2>5. QED BY <1>0, <1>1, <2>3, <2>4
<1>4. QED BY <1>2, <1>3

\* A round under way has seen the exchange open.
LEMMA GoingOpened ==
    ASSUME IInv, NEW r \in Rounds, Going(r)
    PROVE  LastSession \in 0..Days /\ LastSession # 0
<1>1. Seen(round[r].day, round[r].phase) /\ clock.day \in 1..Days
  BY Fields DEF IInv, Timely
<1>2. QED BY <1>1, LastSessionType, DaysNat DEF Seen, LastSession, IInv

\* What a round that ends does to the rows and to the saves.
LEMMA SettleRows ==
    ASSUME IInv, NEW r \in Rounds, NEW rows, NEW first, NEW due, NEW v,
           Settle(r, rows, first, due, v)
    PROVE  /\ round' = [round EXCEPT ![r] = Ended(r)]
           /\ \/ watch'.rows = watch.rows
              \/ watch'.rows = rows /\ ((due /\ v = "stale") => watch'.rowsStale)
           /\ \/ saves' = saves
              \/ restarts < MaxRestarts /\ \E d : saves' = saves \cup {[day |-> d, rows |-> rows]}
<1> DEFINE stale == due /\ v = "stale"
           board == Renewed(round[r], rows, first, due, stale)
<1>1. board.rows = rows /\ (stale => board.rowsStale)
  BY DEF Renewed
<1>2. round' = [round EXCEPT ![r] = Ended(r)]
  BY DEF Settle
<1>3. CASE stale /\ watch.rows # Empty /\ ~watch.rowsStale
  <2>1. watch' = [watch EXCEPT !.stale = TRUE] /\ saves' = saves
    BY <1>3 DEF Settle
  <2>2. watch'.rows = watch.rows
    BY <2>1 DEF IInv, TypeOK
  <2>3. QED BY <1>2, <2>1, <2>2
<1>4. CASE ~(stale /\ watch.rows # Empty /\ ~watch.rowsStale)
  <2>1. watch' = board /\ BeginSave(round[r], board)
    BY <1>4 DEF Settle
  <2> HIDE DEF board
  <2>2. \/ saves' = saves
        \/ restarts < MaxRestarts /\ saves' = saves \cup {[day |-> round[r].day, rows |-> rows]}
    BY <1>1, <2>1 DEF BeginSave
  <2>3. QED BY <1>1, <1>2, <2>1, <2>2
<1>5. QED BY <1>3, <1>4

\* A round that ends with rows of an opened session keeps the boards so.
LEMMA SettlePast ==
    ASSUME RInv, NEW r \in Rounds, Going(r), NEW rows \in BoardRows, Session(rows) <= LastSession,
           NEW first, NEW due, NEW v, Settle(r, rows, first, due, v),
           UNCHANGED <<clock, disk, seeding, restarts>>
    PROVE  Past' /\ Quiet' /\ Session(watch'.rows) <= LastSession
<1>1. /\ round' = [round EXCEPT ![r] = Ended(r)]
      /\ watch'.rows \in {watch.rows, rows}
      /\ \/ saves' = saves
         \/ restarts < MaxRestarts /\ \E d : saves' = saves \cup {[day |-> d, rows |-> rows]}
  BY SettleRows DEF RInv
<1>2. LastSession' = LastSession /\ LastSession \in Nat
  BY LastSessionType, DaysNat DEF LastSession, RInv, IInv
<1>3. \A q \in Rounds : round'[q] = IF q = r THEN Ended(r) ELSE round[q]
  BY <1>1 DEF RInv, IInv, TypeOK
<1>4. Session(watch'.rows) <= LastSession
  BY <1>1 DEF RInv, Past
<1>5. \A s \in saves' : Session(s.rows) <= LastSession
  BY <1>1 DEF RInv, Past
<1>6. ASSUME NEW q \in Rounds PROVE Session(round'[q].rows) <= LastSession
  <2>1. Ended(r).rows = Empty
    BY DEF Ended, Resting
  <2>2. QED BY <1>2, <1>3, <2>1, SessionOfEmpty DEF RInv, Past
<1>7. Past'
  BY <1>2, <1>4, <1>5, <1>6 DEF Past, RInv
<1>8. Quiet'
  <2>1. \A q \in Requests : Going(q)' => restarts' = MaxRestarts
    BY <1>3, RestingRound DEF Going, RInv, Quiet, Rounds
  <2>2. ASSUME seeding.on PROVE round'["loop"].stage = "idle" /\ saves' = {}
    <3>1. r \in Requests /\ r # "loop" /\ restarts = MaxRestarts
      BY <2>2, WatchBounds DEF RInv, Quiet, Going, Rounds
    <3>2. saves' = saves
      BY <1>1, <3>1, WatchBounds
    <3>3. QED BY <1>3, <2>2, <3>1, <3>2 DEF RInv, Quiet, Rounds
  <2>3. QED BY <2>1, <2>2 DEF Quiet
<1>9. QED BY <1>4, <1>7, <1>8

\* The board in hand is not replaced by an older one without a word.
Kept ==
    (watch'.rows # Empty /\ Session(watch'.rows) < Session(watch.rows))
        => (watch'.rowsStale \/ verdict' = "unknown")

\* A round after its check: rows held to be fresh are of the last session.
LEMMA JudgedKeeps ==
    ASSUME RInv, NEW r \in Rounds, Going(r), NEW rows \in BoardRows, Session(rows) <= LastSession,
           NEW v, v \in {"unknown", "stale"} \/ (v = "fresh" /\ Session(rows) = LastSession),
           Judged(r, rows, v)
    PROVE  Past' /\ Quiet' /\ Referenced' /\ Kept
<1>1. /\ Settle(r, rows, round[r].first, TRUE, v) /\ UNCHANGED <<clock, disk, seeding, restarts>>
      /\ verdict' = v /\ (v # "unknown" => ref' = LastSession)
  BY DEF Judged
<1>2. Past' /\ Quiet' /\ Session(watch'.rows) <= LastSession
  BY <1>1, SettlePast
<1>3. LastSession \in 0..Days /\ LastSession # 0
  BY GoingOpened DEF RInv
<1>4. Referenced'
  BY <1>1, <1>2, <1>3 DEF Referenced, RInv, Past
<1>5. \/ watch'.rows = watch.rows
      \/ watch'.rows = rows /\ (v = "stale" => watch'.rowsStale)
  BY <1>1, SettleRows DEF RInv
<1>6. Session(watch.rows) \in Nat /\ Session(rows) \in Nat /\ Session(watch.rows) <= LastSession
  BY SessionType, Fields, DaysNat DEF RInv, IInv, Past
<1>7. Kept
  <2>1. CASE watch'.rows = watch.rows
    BY <1>6, <2>1 DEF Kept
  <2>2. CASE watch'.rows = rows /\ (v = "stale" => watch'.rowsStale)
    BY <1>1, <1>3, <1>6, <2>2, DaysNat DEF Kept
  <2>3. QED BY <1>5, <2>1, <2>2
<1>8. QED BY <1>2, <1>4, <1>7

\* A round that takes its answer: what is not checked is of the session of the
\* reference values, so it is not older than the board in hand.
LEMMA AnswerKeeps ==
    ASSUME RInv, NEW r \in Rounds, NEW rows \in BoardRows, Session(rows) <= LastSession,
           Answer(r, rows)
    PROVE  Past' /\ Quiet' /\ Referenced' /\ Kept
<1>1. /\ round[r].stage = "asking" /\ Going(r)
      /\ UNCHANGED <<clock, ref, verdict, disk, seeding, restarts>>
  BY DEF Answer, Going
<1>2. /\ Session(watch.rows) \in Nat /\ Session(rows) \in Nat /\ Session(disk.rows) \in Nat
      /\ ref \in Nat /\ LastSession \in Nat
  BY SessionType, Fields, LastSessionType, DaysNat DEF RInv, IInv, TypeOK
<1>3. CASE /\ round' = [round EXCEPT ![r].stage = "checking", ![r].first = First, ![r].rows = rows]
           /\ UNCHANGED <<watch, view, saves, savedDay>>
  <2>1. ASSUME NEW q \in Rounds
        PROVE  /\ q # r => round'[q] = round[q]
               /\ q = r => round'[q].stage = "checking" /\ round'[q].rows = rows
    <3>1. round \in [Rounds -> [stage : {"idle", "asking", "checking", "again", "over"},
                               day : 0..Days, phase : Phases, first : BOOLEAN, rows : BoardRows]]
      BY DEF RInv, IInv, TypeOK
    <3>2. round' = [round EXCEPT ![r] = [round[r] EXCEPT !.stage = "checking", !.first = First, !.rows = rows]]
      BY <1>3, <3>1
    <3>3. round'[r] = [round[r] EXCEPT !.stage = "checking", !.first = First, !.rows = rows]
      BY <3>1, <3>2
    <3>4. QED BY <3>1, <3>2, <3>3
  <2>2. LastSession' = LastSession
    BY <1>1 DEF LastSession
  <2>3. Past'
    BY <1>1, <1>3, <2>1, <2>2 DEF RInv, Past
  <2>4. Quiet'
    BY <1>1, <1>3, <2>1, WatchBounds DEF RInv, Quiet, Going, Rounds
  <2>5. QED BY <1>1, <1>2, <1>3, <2>3, <2>4 DEF RInv, Referenced, Kept
<1>4. ASSUME NEW due, Settle(r, rows, First, due, verdict),
             rows = Empty \/ verdict = "unknown" \/ ref = 0 \/ Session(rows) = ref
      PROVE  Past' /\ Quiet' /\ Referenced' /\ Kept
  <2>1. Past' /\ Quiet'
    BY <1>1, <1>4, SettlePast
  <2>2. watch'.rows = watch.rows \/ watch'.rows = rows
    BY <1>4, SettleRows DEF RInv
  <2>3. verdict # "unknown" => ref # 0 /\ Session(watch.rows) <= ref
    BY DEF RInv, Referenced
  <2>4. verdict # "unknown" => Session(watch'.rows) <= ref
    BY <1>2, <1>4, <2>2, <2>3, SessionOfEmpty
  <2>5. Referenced'
    BY <1>1, <2>3, <2>4 DEF RInv, Referenced
  <2>6. Kept
    BY <1>1, <1>2, <1>4, <2>2, <2>3 DEF Kept
  <2>7. QED BY <2>1, <2>5, <2>6
<1>5. QED
  <2>1. PICK due \in {TRUE, Forced(r, rows)} :
           IF due /\ rows # Empty
           THEN /\ round' = [round EXCEPT ![r].stage = "checking", ![r].first = First, ![r].rows = rows]
                /\ UNCHANGED <<watch, view, saves, savedDay>>
           ELSE Settle(r, rows, First, due, verdict)
    BY DEF Answer
  <2>2. CASE due /\ rows # Empty
    BY <1>3, <2>1, <2>2
  <2>3. CASE ~(due /\ rows # Empty)
    <3>1. rows = Empty \/ ref = 0 \/ Session(rows) = ref
      BY <2>1, <2>3 DEF Forced
    <3>2. QED BY <1>4, <2>1, <2>3, <3>1
  <2>4. QED BY <2>2, <2>3

\* A round that moves on, or ends, without touching the board.
LEMMA RoundRests ==
    ASSUME RInv, NEW r \in Rounds, NEW g, round' = [round EXCEPT ![r] = g],
           UNCHANGED <<clock, watch, ref, verdict, disk, saves, seeding, restarts>>,
           r = "loop" => (g.stage = "idle" \/ ~seeding.on),
           g.stage \in {"asking", "checking", "again"} => (Going(r) \/ r = "loop" \/ restarts = MaxRestarts),
           g.rows \in {round[r].rows, Empty}
    PROVE  Past' /\ Quiet' /\ Referenced' /\ Kept
<1>1. \A q \in Rounds : round'[q] = IF q = r THEN g ELSE round[q]
  BY DEF RInv, IInv, TypeOK
<1>2. LastSession' = LastSession /\ LastSession \in Nat
  BY LastSessionType, DaysNat DEF LastSession, RInv, IInv
<1>3. Past'
  <2>1. \A q \in Rounds : Session(round'[q].rows) <= LastSession
    BY <1>1, <1>2, SessionOfEmpty DEF RInv, Past
  <2>2. QED BY <1>2, <2>1 DEF RInv, Past
<1>4. Quiet'
  <2>1. \A q \in Requests : Going(q)' => restarts = MaxRestarts
    BY <1>1, WatchBounds DEF RInv, Quiet, Going, Rounds
  <2>2. seeding.on => round'["loop"].stage = "idle"
    BY <1>1 DEF RInv, Quiet, Rounds
  <2>3. QED BY <2>1, <2>2 DEF RInv, Quiet
<1>5. Session(watch.rows) \in Nat
  BY SessionType, Fields, DaysNat DEF RInv, IInv
<1>6. QED BY <1>3, <1>4, <1>5 DEF RInv, Referenced, Kept

\* Every step keeps what is known of the sessions, and the board in hand.
LEMMA RefsNext == RInv /\ [Next]_wvars => Past' /\ Quiet' /\ Referenced' /\ Kept
<1> SUFFICES ASSUME RInv, [Next]_wvars PROVE Past' /\ Quiet' /\ Referenced' /\ Kept
  OBVIOUS
<1>0. /\ Session(watch.rows) \in Nat /\ Session(disk.rows) \in Nat /\ LastSession \in Nat
      /\ ref \in Nat /\ clock.day \in Nat
  BY SessionType, Fields, LastSessionType, DaysNat DEF RInv, IInv, TypeOK
<1>1. ASSUME NEW r \in Rounds, Start(r) PROVE Past' /\ Quiet' /\ Referenced' /\ Kept
  <2> DEFINE g == [Resting EXCEPT !.stage = "asking", !.day = clock.day, !.phase = clock.phase]
  <2>1. g.stage = "asking" /\ g.rows = Empty
    BY DEF Resting
  <2> HIDE DEF g
  <2>2. /\ r = "loop" => ~seeding.on
        /\ r # "loop" => restarts = MaxRestarts
        /\ round' = [round EXCEPT ![r] = g]
        /\ UNCHANGED <<clock, watch, ref, verdict, disk, saves, seeding, restarts>>
    BY <1>1 DEF Start, g
  <2>3. QED BY <2>1, <2>2, RoundRests
<1>2. ASSUME NEW r \in Rounds, Fail(r) PROVE Past' /\ Quiet' /\ Referenced' /\ Kept
  <2>1. /\ round' = [round EXCEPT ![r] = Ended(r)]
        /\ UNCHANGED <<clock, watch, ref, verdict, disk, saves, seeding, restarts>>
    BY <1>2 DEF Fail
  <2>2. Ended(r).stage \in {"idle", "over"} /\ (r = "loop" => Ended(r).stage = "idle") /\ Ended(r).rows = Empty
    BY RestingRound DEF Ended, Resting
  <2>3. QED BY <2>1, <2>2, RoundRests
<1>3. ASSUME NEW r \in Rounds, Check(r) PROVE Past' /\ Quiet' /\ Referenced' /\ Kept
  <2>1. round[r].stage = "checking" /\ Going(r) /\ round[r].rows \in BoardRows
        /\ Session(round[r].rows) <= LastSession
    BY <1>3, Fields DEF Check, Going, RInv, IInv, Past
  <2>2. CASE /\ round' = [round EXCEPT ![r].stage = "again"]
             /\ UNCHANGED <<clock, watch, ref, verdict, view, disk, saves, savedDay, seeding, restarts>>
    <3> DEFINE g == [round[r] EXCEPT !.stage = "again"]
    <3>1. round[r] \in [stage : {"idle", "asking", "checking", "again", "over"},
                        day : 0..Days, phase : Phases, first : BOOLEAN, rows : BoardRows]
      BY DEF RInv, IInv, TypeOK
    <3>2. g.stage = "again" /\ g.rows = round[r].rows
      BY <3>1
    <3>3. round' = [round EXCEPT ![r] = g]
      BY <2>2 DEF RInv, IInv, TypeOK
    <3>4. r = "loop" => ~seeding.on
      BY <2>1 DEF RInv, Quiet
    <3> HIDE DEF g
    <3>5. QED BY <2>1, <2>2, <3>2, <3>3, <3>4, RoundRests
  <2>3. CASE \E v \in Judgements(round[r].rows) : v # "stale" /\ Judged(r, round[r].rows, v)
    <3>1. PICK v \in Judgements(round[r].rows) : v # "stale" /\ Judged(r, round[r].rows, v)
      BY <2>3
    <3>2. v \in {"unknown", "stale"} \/ (v = "fresh" /\ Session(round[r].rows) = LastSession)
      BY <3>1 DEF Judgements
    <3>3. QED BY <2>1, <3>1, <3>2, JudgedKeeps
  <2>4. QED BY <1>3, <2>2, <2>3 DEF Check
<1>4. ASSUME NEW r \in Rounds, NEW rows \in Answers, Answer(r, rows)
      PROVE  Past' /\ Quiet' /\ Referenced' /\ Kept
  BY <1>4, AnswerKeeps, AnswerRows, SessionOfAnswer DEF RInv, IInv
<1>5. ASSUME NEW r \in Rounds, NEW rows \in Answers, Again(r, rows)
      PROVE  Past' /\ Quiet' /\ Referenced' /\ Kept
  <2>1. /\ Going(r) /\ round[r].rows \in BoardRows /\ rows \in BoardRows
        /\ Session(round[r].rows) <= LastSession /\ Session(rows) <= LastSession
    BY <1>5, Fields, AnswerRows, SessionOfAnswer DEF Again, Going, RInv, IInv, Past
  <2>2. CASE Judged(r, round[r].rows, "stale")
    BY <2>1, <2>2, JudgedKeeps
  <2>3. CASE \E v \in Judgements(rows) : Judged(r, IF v = "stale" THEN round[r].rows ELSE rows, v)
    <3>1. PICK v \in Judgements(rows) : Judged(r, IF v = "stale" THEN round[r].rows ELSE rows, v)
      BY <2>3
    <3>2. CASE v = "stale"
      BY <2>1, <3>1, <3>2, JudgedKeeps
    <3>3. CASE v # "stale"
      <4>1. v \in {"unknown", "stale"} \/ (v = "fresh" /\ Session(rows) = LastSession)
        BY <3>1, <3>3 DEF Judgements
      <4>2. QED BY <2>1, <3>1, <3>3, <4>1, JudgedKeeps
    <3>4. QED BY <3>2, <3>3
  <2>4. QED BY <1>5, <2>2, <2>3 DEF Again
<1>6. ASSUME NEW s \in saves, Land(s) PROVE Past' /\ Quiet' /\ Referenced' /\ Kept
  <2>1. /\ disk'.rows = s.rows /\ saves' \subseteq saves
        /\ UNCHANGED <<clock, watch, ref, verdict, round, seeding, restarts>>
    BY <1>6 DEF Land
  <2>2. ~seeding.on
    BY <1>6 DEF RInv, Quiet
  <2>3. LastSession' = LastSession
    BY <2>1 DEF LastSession
  <2>4. QED BY <1>0, <2>1, <2>2, <2>3 DEF RInv, Past, Quiet, Referenced, Kept, Going
<1>7. ASSUME NEW k \in Clients, Connect(k) \/ Disconnect(k) PROVE Past' /\ Quiet' /\ Referenced' /\ Kept
  <2>1. UNCHANGED <<clock, watch, ref, verdict, round, disk, saves, seeding, restarts>>
    BY <1>7 DEF Connect, Disconnect
  <2>2. QED BY <1>0, <2>1 DEF RInv, Past, Quiet, Referenced, Kept, Going, LastSession
<1>8. ASSUME Restart PROVE Past' /\ Quiet' /\ Referenced' /\ Kept
  <2>1. /\ watch'.rows = Empty /\ verdict' = "unknown" /\ saves' = {} /\ UNCHANGED <<clock, disk>>
        /\ \A r \in Rounds : round'[r].rows = Empty /\ round'[r].stage \in {"idle", "over"}
        /\ round'["loop"].stage = "idle"
    BY <1>8 DEF Restart, NoBoard, Ended, Resting, Rounds
  <2>2. LastSession' = LastSession
    BY <2>1 DEF LastSession
  <2>3. Past'
    BY <1>0, <2>1, <2>2, SessionOfEmpty DEF RInv, Past
  <2>4. Quiet'
    BY <2>1 DEF Quiet, Going, Rounds
  <2>5. QED BY <2>1, <2>3, <2>4 DEF Referenced, Kept
<1>9. ASSUME Seed PROVE Past' /\ Quiet' /\ Referenced' /\ Kept
  <2>1. /\ seeding.on /\ ~seeding'.on
        /\ UNCHANGED <<clock, ref, verdict, round, disk, saves, restarts>>
        /\ \/ watch' = watch
           \/ /\ watch.rows = Empty
              /\ watch' = [watch EXCEPT !.rows = disk.rows, !.day = disk.day, !.pulls = 0,
                             !.final = IF disk.final THEN disk.day ELSE 0,
                             !.stale = FALSE, !.rowsStale = FALSE, !.seeded = TRUE]
    BY <1>9 DEF Seed, NoSeed
  <2>2. watch'.rows = watch.rows \/ (watch.rows = Empty /\ watch'.rows = disk.rows)
    BY <2>1 DEF RInv, IInv, TypeOK
  <2>3. LastSession' = LastSession
    BY <2>1 DEF LastSession
  <2>4. Past' /\ Quiet'
    BY <2>1, <2>2, <2>3 DEF RInv, Past, Quiet, Going
  <2>5. Referenced'
    BY <2>1, <2>2 DEF RInv, Referenced
  <2>6. Kept
    BY <1>0, <2>2, SessionOfEmpty DEF Kept
  <2>7. QED BY <2>4, <2>5, <2>6
<1>10. ASSUME Tick PROVE Past' /\ Quiet' /\ Referenced' /\ Kept
  <2>1. UNCHANGED <<watch, ref, verdict, round, disk, saves, seeding, restarts>>
    BY <1>10 DEF Tick
  <2>2. LastSession <= LastSession' /\ LastSession' \in Nat
    <3>1. CASE clock.phase = "slow" /\ clock' = [day |-> clock.day + 1, phase |-> "before"]
      BY <1>0, <3>1 DEF LastSession
    <3>2. CASE \E p \in {<<"before", "open">>, <<"open", "fast">>, <<"fast", "slow">>} :
                  clock.phase = p[1] /\ clock' = [clock EXCEPT !.phase = p[2]]
      <4>1. clock'.day = clock.day /\ clock'.phase \in {"open", "fast", "slow"}
        BY <3>2 DEF RInv, IInv, TypeOK
      <4>2. QED BY <1>0, <4>1 DEF LastSession
    <3>3. QED BY <1>10, <3>1, <3>2 DEF Tick
  <2>3. ASSUME NEW rows \in BoardRows, Session(rows) <= LastSession
        PROVE  Session(rows) <= LastSession'
    BY <1>0, <2>2, <2>3, SessionType, DaysNat
  <2>4. /\ watch.rows \in BoardRows /\ disk.rows \in BoardRows
        /\ \A s \in saves : s.rows \in BoardRows
        /\ \A r \in Rounds : round[r].rows \in BoardRows
    BY Fields DEF RInv, IInv, TypeOK
  <2>5. Past'
    BY <2>1, <2>3, <2>4 DEF RInv, Past
  <2>6. QED BY <1>0, <2>1, <2>5 DEF RInv, Quiet, Going, Referenced, Kept
<1>11. ASSUME UNCHANGED wvars PROVE Past' /\ Quiet' /\ Referenced' /\ Kept
  BY <1>0, <1>11 DEF wvars, RInv, Past, Quiet, Referenced, Kept, Going, LastSession
<1>12. QED
  BY <1>1, <1>2, <1>3, <1>4, <1>5, <1>6, <1>7, <1>8, <1>9, <1>10, <1>11 DEF Next

\* The board in hand gives way to one of an older session only under a label, or
\* when the last check had no reference: between two checks the drift from the
\* reference values tells, for these are never of an older session than the board.
THEOREM WatchKeepsNewest == Spec => StaleNeverReplaces
<1>1. Init => RInv
  <2> SUFFICES ASSUME Init PROVE RInv
    OBVIOUS
  <2>1. IInv
    BY InitIInv
  <2>2. LastSession \in Nat
    BY <2>1, LastSessionType, DaysNat DEF IInv
  <2>3. Past
    BY <2>2, SessionOfEmpty DEF Init, NoBoard, NoFile, Resting, Past
  <2>4. Quiet /\ Referenced
    BY RestingRound DEF Init, NoSeed, Quiet, Referenced, Going, Rounds
  <2>5. QED BY <2>1, <2>3, <2>4 DEF RInv
<1>2. RInv /\ [Next]_wvars => RInv' /\ Kept
  BY Nexts, RefsNext DEF RInv
<1>3. QED
  <2>1. Kept => [(watch'.rows # Empty /\ Session(watch'.rows) < Session(watch.rows))
                   => (watch'.rowsStale \/ verdict' = "unknown")]_wvars
    BY DEF Kept
  <2>2. QED BY <1>1, <1>2, <2>1, PTL DEF Spec, StaleNeverReplaces
=============================================================================
