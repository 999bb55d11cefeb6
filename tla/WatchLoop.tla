------------------------------ MODULE WatchLoop ------------------------------
(***************************************************************************)
(* The live board of the server: the rounds of watchTick() (the loop's own *)
(* and those of requests that found an empty board), the check of a board  *)
(* against the reference of each symbol, the event stream to the browsers, *)
(* and the board of the session on disk from which a restart seeds.        *)
(*                                                                         *)
(* A row of a board is <<session, content>>: yesterday's price, by which   *)
(* the code tells an old board, is one of the compared columns, so a row   *)
(* of another session is another row.                                      *)
(***************************************************************************)
EXTENDS Naturals, FiniteSets

CONSTANTS
    Contracts,    \* keys of the rows (a pair of call and put)
    NoRow,        \* a contract the board does not list
    Boards,       \* what an answer may hold: functions from Contracts
    Clients,      \* browsers on the event stream
    Requests,     \* requests of /api/watch that may have a round of their own, once
    Days,         \* bound: the number of trading days
    StartsIn,     \* the phase of the first day in which the server starts
    MaxPulls,     \* S.afterCloseMaxPulls
    MaxSaves,     \* bound: saves that may be under way when a round starts
    MaxRestarts   \* bound: restarts of the server; what its last life saves is
                  \* never read and not kept, and requests come in the last life

ASSUME WatchBounds ==
    /\ Days \in Nat \ {0}
    /\ MaxPulls \in Nat /\ MaxSaves \in Nat /\ MaxRestarts \in Nat
    /\ StartsIn \in {"before", "open", "fast", "slow"}
    /\ "loop" \notin Requests

VARIABLES
    clock,     \* the day and the phase of the market
    watch,     \* the board in hand
    ref,       \* boardCheck.ref: the session of the last reference values, 0 if none
    verdict,   \* boardCheck.verdict
    round,     \* the rounds under way
    view,      \* what each browser shows
    disk,      \* the newest session-board/<day>.json; older ones are never read, since
               \* today's file is there only if this day's board was in hand
    saves,     \* saves of that file under way
    savedDay,  \* sessionBoardAt.day
    seeding,   \* seedWatchFromDisk() with the phase it saw, before the loop starts; whether
               \* the file came in hand while a round was to send what differs (history)
    restarts   \* how many so far

wvars == <<clock, watch, ref, verdict, round, view, disk, saves, savedDay,
           seeding, restarts>>

Rounds == {"loop"} \cup Requests
Empty == [c \in Contracts |-> NoRow]
Board(s, b) == [c \in Contracts |-> IF b[c] = NoRow THEN NoRow ELSE <<s, b[c]>>]

\* The session whose prices the exchange gives: yesterday's until it opens.
LastSession == IF clock.phase = "before" THEN clock.day - 1 ELSE clock.day

\* An answer of the upstream is a board of this session or of an older one.
Answers == {Board(s, b) : s \in 1..LastSession, b \in Boards}

\* The session a board belongs to.
Session(rows) ==
    IF rows = Empty THEN 0 ELSE rows[CHOOSE c \in Contracts : rows[c] # NoRow][1]

\* The first minutes after the close ("fast") and the rest of the evening are
\* one phase of marketOpen(); the difference is afterCloseSettleMin.
IsOpen(phase) == phase = "open"
IsAfter(phase) == phase \in {"fast", "slow"}

NoBoard == [rows |-> Empty, day |-> 0, pulls |-> 0, final |-> 0,
            stale |-> FALSE, rowsStale |-> FALSE, seeded |-> FALSE]
Resting == [stage |-> "idle", day |-> 0, phase |-> "before", first |-> FALSE, rows |-> Empty]

\* The loop rests until its next round, a request has been answered.
Ended(r) == IF r = "loop" THEN Resting ELSE [Resting EXCEPT !.stage = "over"]
Closed == [on |-> FALSE, rows |-> Empty]
NoFile == [day |-> 0, rows |-> Empty, final |-> FALSE]
NoSeed == [on |-> FALSE, phase |-> "before", crossed |-> FALSE]

Init ==
    /\ clock = [day |-> 1, phase |-> StartsIn]
    /\ watch = NoBoard
    /\ ref = 0 /\ verdict = "unknown"
    /\ round = [r \in Rounds |-> Resting]
    /\ view = [k \in Clients |-> Closed]
    /\ disk = NoFile
    /\ saves = {} /\ savedDay = 0
    /\ seeding = NoSeed
    /\ restarts = 0

-----------------------------------------------------------------------------
\* afterCloseDue(), the time that must pass between two pulls left open.
AfterCloseDue ==
    /\ IsAfter(clock.phase)
    /\ watch.day = clock.day =>
          /\ watch.final # clock.day
          /\ clock.phase = "slow" => watch.pulls < MaxPulls

\* watchTick() up to its first await. The loop starts once the seeding is
\* over; a request has a round of its own only if the board is empty.
Start(r) ==
    /\ round[r].stage = "idle"
    /\ r = "loop" => ~seeding.on
    /\ r # "loop" => (watch.rows = Empty /\ restarts = MaxRestarts)
    /\ IsOpen(clock.phase) \/ AfterCloseDue
    /\ Cardinality(saves) <= MaxSaves
    /\ round' = [round EXCEPT ![r] =
          [Resting EXCEPT !.stage = "asking", !.day = clock.day, !.phase = clock.phase]]
    /\ UNCHANGED <<clock, watch, ref, verdict, view, disk, saves, savedDay, seeding, restarts>>

\* The deadline of the round or an error of the upstream.
Fail(r) ==
    /\ round[r].stage \in {"asking", "again"}
    /\ round' = [round EXCEPT ![r] = Ended(r)]
    /\ UNCHANGED <<clock, watch, ref, verdict, view, disk, saves, savedDay, seeding, restarts>>

\* diffWatchRows(): the rows that are new or differ from the board in hand.
Changed(rows) == {c \in Contracts : rows[c] # NoRow /\ rows[c] # watch.rows[c]}

\* Wrong: a repeated answer is final, be it old or not.
RenewedFinalStale(g, rows, first, due, stale) ==
    [rows |-> rows, day |-> g.day,
     pulls |-> IF g.phase = "slow" /\ watch.day = g.day THEN watch.pulls + 1 ELSE 0,
     final |-> IF g.phase = "slow" /\ watch.day = g.day /\ ~first /\ Changed(rows) = {}
               THEN g.day ELSE IF watch.day = g.day THEN watch.final ELSE 0,
     stale |-> stale, rowsStale |-> stale, seeded |-> FALSE]

\* The board that a round puts in hand, with afterCloseState().
Renewed(g, rows, first, due, stale) ==
    LET sameDay == watch.day = g.day
        pulls == (IF sameDay THEN watch.pulls ELSE 0) + (IF g.phase = "slow" THEN 1 ELSE 0)
        settled == sameDay /\ ~first /\ Changed(rows) = {} /\ g.phase = "slow"
        label == IF due THEN stale ELSE watch.stale
    IN  [rows |-> rows, day |-> g.day,
         pulls |-> IF stale THEN watch.pulls ELSE IF IsAfter(g.phase) THEN pulls ELSE 0,
         final |-> CASE stale -> 0
                     [] ~stale /\ IsAfter(g.phase) /\ settled -> g.day
                     [] ~stale /\ IsAfter(g.phase) /\ ~settled /\ ~sameDay -> 0
                     [] OTHER -> watch.final,
         stale |-> label, rowsStale |-> label, seeded |-> FALSE]

\* What a browser shows after the event: all rows, or the changed ones on top.
Shown(old, rows, first) ==
    IF first THEN rows
    ELSE [c \in Contracts |-> IF c \in Changed(rows) THEN rows[c] ELSE old[c]]

\* saveSessionBoard() up to its first await, with the rows of the round: never
\* an empty board or one known to be old; within the session a file of today is
\* renewed every five minutes, after the close by each round.
BeginSave(g, board) ==
    LET due == /\ restarts < MaxRestarts
               /\ board.rows # Empty /\ ~board.rowsStale
    IN  \/ /\ due
           /\ saves' = saves \cup {[day |-> g.day, rows |-> board.rows]}
           /\ savedDay' = g.day
        \/ /\ due => (savedDay = g.day /\ IsOpen(g.phase))
           /\ UNCHANGED <<saves, savedDay>>

\* A round ends with a verdict on its rows: an old answer is dropped if the
\* board in hand is better, or else shown under a label; then the event goes
\* out and the board is saved. Nothing in here awaits before the save does.
Settle(r, rows, first, due, v) ==
    LET g == round[r]
        stale == due /\ v = "stale"
        board == Renewed(g, rows, first, due, stale)
    IN  /\ round' = [round EXCEPT ![r] = Ended(r)]
        /\ IF stale /\ watch.rows # Empty /\ ~watch.rowsStale
           THEN /\ watch' = [watch EXCEPT !.stale = TRUE]
                /\ UNCHANGED <<view, saves, savedDay>>
           ELSE /\ watch' = board
                /\ view' = [k \in Clients |->
                      IF view[k].on THEN [view[k] EXCEPT !.rows = Shown(@, rows, first)] ELSE view[k]]
                /\ BeginSave(g, board)

\* Wrong: a seeded board is taken for one that the browsers have been sent.
FirstUnseeded == watch.rows = Empty

\* The event must carry all rows: nothing was sent since the server started.
First == watch.rows = Empty \/ watch.seeded

\* Wrong: between two checks an answer is taken as it is.
ForcedWithoutDrift(r, rows) == First \/ watch.stale \/ IsAfter(round[r].phase)

\* The answer must be checked: also when it differs from the reference values
\* of the last check.
Forced(r, rows) ==
    LET drift == rows # Empty /\ ref # 0 /\ Session(rows) # ref
    IN  First \/ drift \/ watch.stale \/ IsAfter(round[r].phase)

\* The board arrived. Whether the round is the first and whether the answer is
\* checked is decided now, before the check is awaited; a minute since the last
\* check may have passed or not.
Answer(r, rows) ==
    /\ round[r].stage = "asking"
    /\ \E due \in {TRUE, Forced(r, rows)} :
          IF due /\ rows # Empty
          THEN /\ round' = [round EXCEPT ![r].stage = "checking", ![r].first = First, ![r].rows = rows]
               /\ UNCHANGED <<watch, view, saves, savedDay>>
          ELSE Settle(r, rows, First, due, verdict)
    /\ UNCHANGED <<clock, ref, verdict, disk, seeding, restarts>>

\* What the reference says of a board, if it answers.
Judgements(rows) == {"unknown", IF Session(rows) = LastSession THEN "fresh" ELSE "stale"}

\* freshBoardRows() ends: the verdict is remembered, with the reference values
\* if there were any.
Judged(r, rows, v) ==
    /\ verdict' = v
    /\ ref' = IF v = "unknown" THEN ref ELSE LastSession
    /\ Settle(r, rows, round[r].first, TRUE, v)
    /\ UNCHANGED <<clock, disk, seeding, restarts>>

\* checkBoard() of the first answer; an old one is thrown out of the cache and
\* the board asked again.
Check(r) ==
    /\ round[r].stage = "checking"
    /\ \E v \in Judgements(round[r].rows) :
          \/ /\ v = "stale"
             /\ round' = [round EXCEPT ![r].stage = "again"]
             /\ UNCHANGED <<clock, watch, ref, verdict, view, disk, saves, savedDay, seeding, restarts>>
          \/ /\ v # "stale"
             /\ Judged(r, round[r].rows, v)

\* The second answer, checked as well.
Again(r, rows) ==
    /\ round[r].stage = "again"
    /\ \/ rows = Empty /\ Judged(r, round[r].rows, "stale")
       \/ /\ rows # Empty
          /\ \E v \in Judgements(rows) :
                Judged(r, IF v = "stale" THEN round[r].rows ELSE rows, v)

-----------------------------------------------------------------------------
\* After mkdir the record is made and replaces the file of its day: its rows are
\* those of the round, whether it is final is read from the board in hand now.
\* A crash in between leaves the file as a crash before mkdir does.
Land(s) ==
    /\ s \in saves
    /\ saves' = saves \ {s}
    /\ disk' = [day |-> s.day, rows |-> s.rows, final |-> watch.final = s.day]
    /\ UNCHANGED <<clock, watch, ref, verdict, round, view, savedDay, seeding, restarts>>

\* The server stops at any moment and starts anew: what it knew is gone, and
\* outside the session the last board is looked for on disk.
Restart ==
    /\ restarts < MaxRestarts
    /\ restarts' = restarts + 1
    /\ watch' = NoBoard
    /\ ref' = 0 /\ verdict' = "unknown"
    /\ round' = [r \in Rounds |-> IF round[r].stage = "idle" THEN Resting ELSE Ended(r)]
    /\ view' = [k \in Clients |-> Closed]
    /\ saves' = {} /\ savedDay' = 0
    /\ seeding' = [on |-> ~IsOpen(clock.phase), phase |-> clock.phase, crossed |-> FALSE]
    /\ UNCHANGED <<clock, disk>>

\* seedDay(): a file before today, or of today if the market had closed when
\* the server started.
SeedDay ==
    /\ disk.day # 0
    /\ disk.day < clock.day \/ (IsAfter(seeding.phase) /\ disk.day = clock.day)

\* Wrong: the seeded board is final for today instead of for its own day.
SeedFinalToday ==
    /\ seeding.on
    /\ seeding' = NoSeed
    /\ SeedDay /\ watch.rows = Empty
    /\ watch' = [watch EXCEPT !.rows = disk.rows, !.day = disk.day, !.seeded = TRUE,
           !.final = IF disk.final THEN clock.day ELSE 0]
    /\ savedDay' = disk.day
    /\ UNCHANGED <<clock, ref, verdict, round, view, disk, saves, restarts>>

\* A round that awaits the check and will send only the changed rows.
Partial(r) == round[r].stage \in {"checking", "again"} /\ ~round[r].first

\* The file was read; requests may have filled the board meanwhile.
Seed ==
    /\ seeding.on
    /\ IF ~SeedDay \/ watch.rows # Empty
       THEN UNCHANGED <<watch, savedDay>> /\ seeding' = NoSeed
       ELSE /\ watch' = [watch EXCEPT !.rows = disk.rows, !.day = disk.day, !.pulls = 0,
                   !.final = IF disk.final THEN disk.day ELSE 0,
                   !.stale = FALSE, !.rowsStale = FALSE, !.seeded = TRUE]
            /\ savedDay' = disk.day
            /\ seeding' = [NoSeed EXCEPT !.crossed = \E r \in Rounds : Partial(r)]
    /\ UNCHANGED <<clock, ref, verdict, round, view, disk, saves, restarts>>

\* A browser connects and gets the board if there is one; it keeps what it
\* shows when the connection breaks.
Connect(k) ==
    /\ ~view[k].on
    /\ view' = [view EXCEPT ![k] = [on |-> TRUE, rows |-> watch.rows]]
    /\ UNCHANGED <<clock, watch, ref, verdict, round, disk, saves, savedDay, seeding, restarts>>

Disconnect(k) ==
    /\ view[k].on
    /\ view' = [view EXCEPT ![k] = Closed]
    /\ UNCHANGED <<clock, watch, ref, verdict, round, disk, saves, savedDay, seeding, restarts>>

\* The day goes on. A round ends within minutes (its deadline, the timeouts of
\* get()), so it sees at most one change of the phase.
Tick ==
    /\ \A r \in Rounds : round[r].stage \notin {"idle", "over"} =>
          round[r].phase = clock.phase /\ round[r].day = clock.day
    /\ \/ /\ clock.phase = "slow" /\ clock.day < Days
          /\ clock' = [day |-> clock.day + 1, phase |-> "before"]
       \/ \E p \in {<<"before", "open">>, <<"open", "fast">>, <<"fast", "slow">>} :
             /\ clock.phase = p[1]
             /\ clock' = [clock EXCEPT !.phase = p[2]]
    /\ UNCHANGED <<watch, ref, verdict, round, view, disk, saves, savedDay, seeding, restarts>>

Next ==
    \/ \E r \in Rounds : Start(r) \/ Fail(r) \/ Check(r)
    \/ \E r \in Rounds, rows \in Answers : Answer(r, rows) \/ Again(r, rows)
    \/ \E s \in saves : Land(s)
    \/ \E k \in Clients : Connect(k) \/ Disconnect(k)
    \/ Restart \/ Seed \/ Tick

Spec == Init /\ [][Next]_wvars

-----------------------------------------------------------------------------
BoardRows == [Contracts -> {NoRow} \cup ((0..Days) \X UNION {{b[c] : c \in Contracts} : b \in Boards})]
Phases == {"before", "open", "fast", "slow"}

\* The state is well formed; a board is final on the day it is of or on an
\* earlier one whose end was kept, never on a day that is still to come (which
\* would keep the loop from asking for that day's board).
TypeOK ==
    /\ clock \in [day : 1..Days, phase : Phases]
    /\ watch \in [rows : BoardRows, day : 0..Days, pulls : Nat, final : 0..Days,
                  stale : BOOLEAN, rowsStale : BOOLEAN, seeded : BOOLEAN]
    /\ watch.final <= watch.day
    /\ ref \in 0..Days
    /\ verdict \in {"unknown", "fresh", "stale"}
    /\ round \in [Rounds -> [stage : {"idle", "asking", "checking", "again", "over"},
                             day : 0..Days, phase : Phases, first : BOOLEAN, rows : BoardRows]]
    /\ view \in [Clients -> [on : BOOLEAN, rows : BoardRows]]
    /\ disk \in [day : 0..Days, rows : BoardRows, final : BOOLEAN]
    /\ saves \subseteq [day : 1..Days, rows : BoardRows]
    /\ savedDay \in 0..Days
    /\ seeding \in [on : BOOLEAN, phase : Phases, crossed : BOOLEAN]
    /\ restarts \in 0..MaxRestarts

\* Every connected browser shows each row of the board as the server holds it,
\* although most events carry only the rows that differ from the board in hand
\* and whether an event is full was decided before the check was awaited. A
\* board seeded from the disk is not sent to those already connected. The one
\* way to fail takes three requests while a restart still reads the disk: the
\* first fills the board, the second takes its answer for a change of it and
\* awaits the check, the third empties the board, and then the file comes in
\* hand, which is what seeding.crossed remembers until the next restart.
ClientsFollow ==
    ~seeding.crossed =>
        \A k \in Clients : (view[k].on /\ ~watch.seeded) =>
            \A c \in Contracts : watch.rows[c] # NoRow => view[k].rows[c] = watch.rows[c]

\* The rows that are held to be final, after which the source is asked no more
\* that day, are not rows known to be old: a repeated old answer must not end
\* the evening.
FinalIsOwn == watch.final # 0 => ~watch.rowsStale

\* The board in hand gives way to one of an older session only under a label,
\* or when the reference did not answer: not between two checks, not by a round
\* that ends late, and not by the seeding when a request was faster.
StaleNeverReplaces ==
    [][(watch'.rows # Empty /\ Session(watch'.rows) < Session(watch.rows))
        => (watch'.rowsStale \/ verdict' = "unknown")]_wvars

\* A board becomes final when the answer after the close is the board in hand
\* once more. Does not hold: an answer that only lacks rows differs in no row.
FinalRepeats ==
    [][(watch'.final # watch.final /\ watch'.final # 0 /\ ~watch'.seeded)
        => watch'.rows = watch.rows]_wvars

=============================================================================
