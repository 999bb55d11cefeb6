# Options Radar Pro: specifications

TLA+ models of the parts of this program in which order, concurrency, lost
messages and crashes matter, the TLC configurations that check them on small
instances, and TLAPS proofs, for every value of the constants, of properties of
the work queue, the upstream requests, the live board, the saved mission and its
ledger, and the server's files. Paths below are relative to the repository
(`src/` in the source columns of `PROJECT.json`).

Run `tlc -config <X>.cfg <MC module>.tla` for a run of the table below and
`tlapm <X>Proofs.tla` for the proofs of module `<X>`.

## 1. Inventory

The program is a local Node server (`server/`, one process, 127.0.0.1:8787), a
calculation core without I/O (`core/`, `strategies/`), a browser interface
(`ui/`, `worker/`) and scripts (`tools/`). The server is the only one that
talks to the exchange's site; browser tabs talk to the server by HTTP and
listen to one event stream.

JavaScript runs every synchronous stretch to its end. The interleavings are
those of awaits, timers, several tabs, several loops of the server, and the
outside world: the upstream, the disk, the network, the clock, the user.

| Component | State | Operations | Talks to | Hard behaviour | What makes it correct |
|---|---|---|---|---|---|
| Work queue `server/job-queue.mjs` | `queue`, `running`, the cap it reads anew | `push`, `pump`, `boost`, end of a job | called by `schedule`; calls `beforeRun` and the job | priorities change while jobs wait; jobs reject; cap moves | no slot or job leaks, order, no overtaking, no stall, no starvation of the urgent |
| Rate lane `server/rate-lanes.mjs`, `beforeRun` in `server/server.mjs:223` | `tokens`, `last`; sleeping slots | `take`, `clamp` | the queue | slots sleep for the same token | the rate promised to the user |
| Requests and cache `server/server.mjs` `get`, `getFresh`; `server/cache.mjs` | `cache`, `inflight`, tickets | ask, join, retry, land, expire, evict, clear | queue, upstream, every route and loop | joining a slow flight, retries, aborted waits | one flight per key, inherited priority, every caller answered |
| Saved mission `server/portfolio-mission-store.mjs` | one file per mission, `pendingWrite` | load, save (check, write, rename) | `/api/portfolio/session` | several tabs, lost answers, crashes, clock set back | locked plan, append-only events, no overwriting of what was not seen |
| Time-travel tab `ui/tabs/portfolio-time.mjs` | `draft`, `proposalSession`, `persistQueue`, `lastSavedAt`, `resuming` | save a step, activate, decide, step the clock, resume | saved mission | state read before an await | shows as done only what is saved |
| Session ledger `core/portfolio-session.mjs`, `-commit`, `-close`, `-clock` | an immutable session with events | activate, record, replay | the tab | FIFO lots over long sequences | replay equals the live book; quantities conserved |
| Closeout, dossiers `core/portfolio-closeout.mjs`, `server/portfolio-dossier-store.mjs` | one file per closed mission | exclusive create, list | the tab | crash between create and write | a dossier is written once and whole |
| Watch loop `server/server.mjs:849`, `core/watch-snapshot.mjs`, `core/board-freshness.mjs`, `server/recorder.mjs` | `watch`, `boardCheck`, `clients`, `session-board/<day>.json` | round, freshness check, broadcast, seed | requests, recordings, event stream | two rounds at once, deadlines, stale boards | clients see the latest board, no stale board is final |
| Roster `server/server.mjs:1480-1760` | `rosterBuild`, `rosterCache`, file | start, checkpoint, finish | requests | check, await, set; checkpoints nobody awaits | the days covered are never fewer |
| Settings `core/settings.mjs`, `/api/settings` | `S`, file | load, save | everything | memory changes before disk | limits, memory equals disk |
| Atomic files `server/atomic-json.mjs` | temporary files | write, rename with retries | settings, journal, positions, recordings | concurrent writers | a file is always whole |
| Journal, positions `server/server.mjs:3042` | one file each | append, replace | tabs | read-modify-write by concurrent requests | append only |
| Data log `server/datalog.mjs` | ring, `pending`, day files | push, flush, restore | requests, shutdown | a flush racing the exit | no row lost or doubled |
| Refill `core/throttle-watch.mjs`, `core/refill-queue.mjs` | run of empty answers, attempts | note, queue, mark | trades routes | empty answers that mean throttling | bounded attempts |
| Recordings `server/server.mjs:928`, `:1013`, `core/iv-record.mjs` | `ivRec`, `pictureRec`, one file per day | record a frame or a sample, read the day back | live loop, requests for the day | frames told apart from one that never reached the file, broken lines, two readers of one file | read back, the day shows what was recorded |
| Range analysis `ui/tabs/backtest.mjs`, `ui/range-replay.mjs` | days of the range, `tradesCache`, `batchThrottled` | load days, fill gaps | trades routes, refill | loads beside the user's clicks | the days shown belong to the composition shown |
| Guards, error log, bereket sessions, pricing, scanners, backtests, views, workers, tools | | | | stateless, numeric, or without interleaving | covered by the suites under `tests/` |

`PROJECT.json` lists the same components with their status, and every hazard
met while reading, at its line.

## 2. Modules

| Module | Models | Composition |
|---|---|---|
| `JobQueue` | the work queue | parameter of `UpstreamFetch` |
| `RateLane` | the token bucket under the queue's slots | |
| `UpstreamFetch` | `get`/`getFresh`, `inflight`, the cache | `Q == INSTANCE JobQueue WITH Jobs <- Flights`; its steps are steps of `Q` |
| `WatchLoop` | the live board: rounds, freshness check, event stream, session board on disk, seeding | |
| `MissionLedger` | the promise: what one saved mission may go through | abstract |
| `MissionSave` | tabs, network, server and disk | implements `MissionLedger` |
| `PositionBook` | the promise: the book an event ledger stands for | abstract |
| `PortfolioSession` | one mission in the browser: capital plan, ledger, commits, exits, clock, end | implements `PositionBook` |
| `Disk`, `AtomicJson` | what a path may hold; the writers of one JSON file | instantiated by `Journal`, `Settings`, `Roster` |
| `Journal`, `Settings`, `Roster`, `DataLog`, `DossierFile`, `IvRecord`, `Picture` | one store of the server each | |
| `ServerFiles` | the seven stores in one process | extends them; the end of the process is one action of all |
| `JobQueueProofs`, `RateLaneProofs`, `UpstreamFetchProofs`, `WatchLoopProofs`, `MissionSaveProofs`, `PortfolioSessionProofs`, `ServerFilesProofs` | theorems | extend their module; `UpstreamFetchProofs` uses `JobQueueProofs` for its queue |
| `FoldLemmas` | sums over finite sets, and induction over sets and numbers | used by `PortfolioSessionProofs`, `ServerFilesProofs`, `UpstreamFetchProofs` |
| `MC*` | values of the constants for TLC | |

**JobQueue.** `push()` with the `pump()` it calls is one action, and so is the
`finally` of a job with its `pump()`: nothing can run between them. A started
job is first `throttled` (it awaits `beforeRun`) and then `working` (it awaits
its own function). `sort()` is stable, so an appended job lands behind every job
at least as urgent: `Slots`. A job resolves or rejects alike as far as the queue
is concerned, so both are `Finish`. A job identity is reused once it is over.

**RateLane.** Time is counted in ticks; a token is `Period` ticks of credit, so
fractional tokens become whole numbers. `Ask` is the synchronous start of
`beforeRun`; `Wake` is what follows the sleep, with the second `take()` whose
answer the code ignores. Saving the settings takes two steps, as in the handler:
`SetBurst` is `saveSettings()` up to its first await, where the burst comes in force,
`Clamp` the cut of the credit after the write (`server/server.mjs:2031`), and
`SaveFails` the write that fails, after which nothing is cut. Several saves may be
under way, and in between the lane goes on with more credit counted than the bucket
holds. The bucket may also have been made under another burst than the one in the
file (`Init`). `elapsed`, `granted` and `peak` observe a window that `Observe`
restarts at any moment; they do not influence the lane. One rate is modelled
(the two lanes do not share state); a rate changed by the user in mid-sleep is
left out.

**UpstreamFetch.** A flight is one run of the async function in `get()`. Its
attempts are jobs of the queue, its ticket is the queue's ticket. A flight is
`asked` while an attempt is in the queue, `replied`/`failed` between the
settling of the attempt and its own continuation, `pausing` between attempts,
`over` until its `finally`. Other callers may act in each of those gaps. The
cache is the insertion order of the JavaScript Map (`inserted`), which entries
are within their time to live (`fresh`), and, for the properties only, the
order in which the entries were last stored (`recency`). `getFresh` has the
same shape with its own keys, so its calls are calls with other keys. `GiveUp`
is the watch loop's `Promise.race` against its deadline. Contents of answers,
the different times to live, the statistics and the logs are abstracted; so are
the two lanes (one queue stands for the lane of the keys in question), and
`retries` does not change while a flight is under way.

**MissionLedger / MissionSave.** A document is a draft with a plan or an active
session with a locked plan, its events and its clock. The transition check of
the store is `Continues`; snapshots and money are part of the plan, the events
and the clock. A save goes through `Persist` (chained in the tab), `Send`
(leaves with the version known then, is stamped and chained by the server),
`Check`, `Write` (the rename) and `Receive`. The time on the way is not a state
of its own: a request that has not arrived is still at the head of the tab's
chain. The differences to the synchronous ideal are all there: `Disconnect`
loses a request or an answer while the server goes on, `WriteFails`, `Restart`
drops the server's chain, `SetClock` moves the clock either way. Resuming has
the three stages of the code: record read, version taken over (saves are
ignored from here on), document taken over or not. A clock step is computed
before an await and saved after it. `by` in the file says who wrote it, for
the properties only. One mission is modelled; beginning a next one from a
dossier changes the tab's mission id and is left out.

**WatchLoop.** A round is a run of `watchTick()`: the loop's, or that of a
`/api/watch` request that found an empty board. It goes `asking` (the board is
asked), `checking` (its reference values are asked), `again` (an old board was
thrown out of the cache and is asked once more), and all that follows the last
await is one step: the choice between old and new board, `afterCloseState()`,
the diff, the broadcast and the start of the save. Whether an event carries all
rows is decided when the answer arrives and used after the check, as in the
code. A row is `<<session, content>>`, because yesterday's price, by which the
code tells an old board, is one of the compared columns; the reference check
answers rightly or not at all. The day has the phases before, open, and after
the close its first minutes ("fast") and the rest ("slow"); a round sees one
change of phase at most, since its deadline is shorter than any phase. The file of the session is
written by saves of its own (`saves`), `Restart` forgets all but that file and
seeds from it, and requests come while it does. A browser applies an event to
what it shows. Left out: the length of the pauses, health messages, the
recordings written in the same round (two of them have modules of their own), and hours that are not gated.

**Disk / AtomicJson.** `writeJsonAtomic()` has a temporary file of its own per
call: `Begin`, `Fill`, `Replace` (the rename after any number of tries, so that
writers of one file may land in any order), `GiveUp` (an error at any of these
points), `Abandon` (the process ends). A store instantiates it with its file.

**Journal / Settings / Roster / DataLog / DossierFile.** Each action is what one
handler does between two awaits. The journal is read, extended and written back
by each request; `crowded` marks rows whose request met another. `PUT
/api/settings` changes memory first. The roster has the one-build test before an
await and the flag after it, the copy in memory that is valid while the time of
the file is the noted one, checkpoints nobody awaits, and builds that end with
a failed day, a failed catalogue or a failed write. The data log has its batches,
the size that is looked up once, the cap with the note that goes out in a batch's
place, the flush on a signal, and the numbers a restart goes on from if it can read
the file (`Restore`); a row is `<<life, number>>`. An append that fails may have
written some whole lines and a piece of the next (`Fails`), and the first line of the
next append goes on in that line (`Appended`): `tail` says how the file ends, `junk`
which rows are in lines that cannot be read. A kill in the middle of an append is such
a failure followed by `LogCrash`. One write per batch is assumed, though Node cuts
batches above 512 KiB; a restart is taken to read the whole file, of which the code
reads the last 40 MiB. A dossier is created
exclusively, written, and removed if the write fails. Contents are abstracted
to what the properties tell apart: rows by their time, settings by a value, the
roster by the days it covers. `crowded`, `blind`, `doubt`, `met`, `unread`,
`numbered`, `refused`, `cutOff` and `blindLives` are there for the properties only; they
say which overlaps or errors a behaviour has had.

**IvRecord.** `recordIv()` makes a frame from a board: a whole one at first, every
half hour and after a failed append, else the quotes that changed, the cards of
contracts not met before and the contracts gone (`RecordFrame`). The state of the
next frame moves on before the line is written (`Record`); the append ends later,
with the line, without it, or with a piece that joins the next line
(`Recorded`, `RecordFails`). Nothing makes the next frame wait for it. `taken` is the
history of the day: each frame with the board it was made of, what became of
its line, and whether it was made while the line before was being written.
`RecordMoments` is the reader, a recursive function over the frames, and `Shown`
its step. Boards are contracts with a quote or none; the bases travel
the same way and are left out, as are the times of the last trade.

**Picture.** One sample per minute for the course of the day. The samples are
kept in memory; who finds none there, a round or a request, reads the file
(`AskSamples`, `ReadSamples`, `TakeSamples`) and puts what it has read in place of
what is there. A round has taken its second before it reads. `misread` says that
two read at once or that a read failed.

**ServerFiles.** The stores share no file, only the process: `End` stops it (with
the log's flush) or kills it, and cuts off every request and write at once.

**PositionBook / PortfolioSession.** The session object is immutable in the code:
each operation returns a new one or refuses. An operation is one action, with
every check, the record of the event and the replay of the whole ledger that
ends `recordPortfolioTransaction()`. The program keeps no book of positions
beside the ledger; it replays the events whenever it needs one. The variable
`held` is that replay, extended by `ReplayEvent` with each event, and
`LedgerReplays` states that it is the fold of the whole ledger from the start.
Moments are numbers; what the market offers (`Quotes`, `Exits`: capital, margin
and net cash per contract, fees included) is any member of a small set, linear
in the quantity as in the code. Percentages of the mission's risk limits are
Rial amounts of the initial capital. Families have whole percentages. Ranking,
scores, the legs of a plan, executions, data quality and `operationId` (which
refuses a request repeated with the same id and never admits another one) are left
out; the depth of the order book is not reduced by trades of the same moment, in
the model as in the code. `at` is always the moment of the session, as all
callers in `ui/` leave it out. The ledger takes four more kinds of transaction
(`rollIn`, `rollOut`, `settlement`, `exercise`) that only the tests record; they
are in the model (`RollIn`, `RollOut`, `Settle`) because budgets, profits and
replay must survive them. The guard for exits also holds an increase to the
open quantity (`core/portfolio-session.mjs:411`), and so does `Recordable`.

## 3. Runs

| Run | Shows | Bounds |
|---|---|---|
| `queue` | counter and array always agree (`Accounting`); the array is `Sorted`; a waiting job always has a running one to wake it (`NoStall`); whoever becomes started, by a push or by the finish that hands its slot on, is within the cap then in force, also a lowered one (`CapHeld`), and overtakes nobody more urgent (`NoOvertake`); only raising the cap can leave a free slot beside a waiting job (`KeepsFull`); the most urgent are not starved (`UrgentServed`), the bug the module was written for | 4 jobs, priorities {1, 4, 6}, caps {1, 2}, under fairness. Three waiting jobs and one running reach every relative order |
| `lane_bound` | per accrued token at most one start per slot, and one full burst of those in force in the window (`RateHeldPerSlot`), although credit counted under a greater burst stays until the file is written, or for good if that fails; the credit never exceeds the greatest bucket | 3 slots, a token each 2 ticks, bursts {1, 8}, 2 saves at once, windows of 6 ticks |
| `lane_cap` | **violated:** `RateHeld`, see below | 2 slots, bursts {1, 2}, 1 save at once |
| `fetch_safety` | one flight per key whatever fails (`OneFlightPerKey`); a flight is as urgent as everybody who awaits it, in retries too (`Inherits`); no job is left behind (`AttemptsAccounted`) | 3 callers, 2 keys, 3 flights, 1 retry, a cache of one entry, caps {1, 2} |
| `fetch_liveness` | the live loop is answered though it joined a slow flight and two other callers can keep the only slot busy (`UrgentAnswered`) | 4 callers, 3 keys, 1 slot, no retry |
| `fetch_eviction` | **violated:** `NewestStay`, see below | 1 caller, 3 keys, cache of 2 |
| `mission_safety` | the file goes through the life of one mission (`KeepsLedger`, refinement of `MissionLedger`); what a tab shows as saved is on disk (`ConfirmedKept`); the version never goes back (`SavedAtMonotone`); a tab has one save under way and answers match it (`OneSaveAtATime`) | 2 tabs, 5 saves, 1 resume, 2 faults, 2 clock readings, 1 clock step, 1 event of two kinds |
| `mission_overwrite` | **violated:** `NoSilentOverwrite`, see below | the same |
| `session_book` | the ledger alone gives the book, and the last check of the whole ledger never refuses what the checks before it let through (`LedgerReplays`); the book lives the life of `PositionBook` (`KeepsBook`, a refinement); exits name the lots they are taken from (`RecordedExits`); recorded profit, open lots and cash flow add up (`RealizedBalances`); budgets, reserve and risk limits hold in every state (`BudgetsKept`, `RiskKept`); order, ids and openings (`LedgerShape`) | 2 plans of 2 families, 4 events, quantities up to 2, 2 moments, 2 entry quotes, 1 exit price |
| `watch_loop` | browsers show each row of the board the server holds, though most events carry only changed rows (`ClientsFollow`); a board known to be old never ends the evening (`FinalIsOwn`) nor replaces a newer one without a label (`StaleNeverReplaces`) | 2 contracts, 3 boards (empty, one row, both), 1 browser, 1 request round, 2 days from the first evening on, 1 slow pull, 1 restart |
| `watch_final` | **violated:** `FinalRepeats`, see below | the same boards, from the open market on, no request, no restart |
| `server_files` | acknowledged journal rows are there unless their own request met another (`JournalKept`); settings in memory are those on disk once writes rest (`SettingsKept`); every row of the log is on its way, readable or lost for a reason the code has, none is written twice, and numbers repeat only across a life that could not read the file (`LogKept`); an acknowledged dossier stays whole (`DossierStays`); the roster covers no fewer days (`CoverageKept`); read back, the recording shows at every recorded second the quotes of that second, and a lost line does harm only up to the next whole frame (`RecordReplays`); the course of the day has one sample per step and memory lacks none of the file (`PictureKept`); each says under which overlaps or errors it may fail | traffic in the journal, or settings and dossier, or the log, or roster, or one of the recordings; 2 requests each, 4 journal rows with a cap of 2, 3 saves of settings, 2 builds over 1 or 2 days, 3 log rows a life with a cap of 3, 4 frames of 3 boards over 2 contracts with a whole frame after 2, 5 seconds with steps of 2 for 2 rounds and a request, 1 end of the process |

Four events are enough for a position of two lots to be left in two exits, the
first across no lot or across both, and for a budget to be spent, freed and spent
again. The capital is 10 with 2 in reserve, half of the rest for each family;
the floor of free capital binds before both budgets are used up and the
ceiling of margin before a third contract with margin. A session at its bound,
or closed, stops, so deadlock is not checked.

In `watch_loop` one row that differs and one that is missing are all a diff can
tell apart; two days give an old board, a board of today and the
night between them; a request round beside the loop's own gives every overlap
of two. `server_files` lets one or two stores have traffic at a time, since they share
nothing but the process; a cap of two rows is reached with four, and a third
save meets a failed one and one under way; four frames are a whole one, one told
apart from it, the next whole one and one after that, which is where a lost card
bites; three rows are a batch cut off in the middle beside another, and two lives of
them reach the cap; bursts of one and eight are farther apart than the window can accrue, so that
credit left from the greater would show; five seconds are two samples with a restart between. Rounds and requests are bounded
(days, restarts, rows), so both systems stop: deadlock is not checked.

In the mission runs `Limit` bounds how many saves, resumes and faults happen, so
the system stops when they are used up: deadlock is not checked there. Users may
stop asking at any time in the real system too. Five saves are enough for one
tab to create and activate a mission, for a decision and a clock step to
compete, and for a retry after a loss; two faults combine, say, a lost answer
with a clock set back.

**Fairness.** The queue's liveness assumes that a token wait ends (a timer)
and that a started job settles (every upstream request is aborted after
`timeoutMs`); the flights' liveness, that their continuations run. Nobody has to
ask, boost or change a setting. Weak fairness suffices because none of these
steps, once enabled, is disabled by somebody else.

**What the violations say.**

- `RateHeld`: slots that sleep for the same token all start when it accrues,
  since the answer of the second `take()` is ignored (`server/server.mjs:225`).
  The settings call the number a cap on the rate (`core/settings.mjs:96`) and
  the help page says the server enforces it (`ui/help-texts/tools.mjs:21`).
  `RateHeldPerSlot` is what holds instead.
- `NewestStay`: `Map.set` keeps the place of a key that is already there
  (`server/server.mjs:342`), so an entry that was just refreshed is evicted
  before older ones; `tests/suites/024-cache.mjs:26` says the newest stay.
- `NoSilentOverwrite`: a tab that never heard the answer of its first save has
  no version to send, the server then skips the check
  (`server/portfolio-mission-store.mjs:371`), and the tab's next save replaces a
  draft that another tab has saved meanwhile; `ui/portfolio-mission-data.mjs:73`
  says the server refuses in this case. An active mission is still protected by
  the transition check, which is why `KeepsLedger` holds.
- `FinalRepeats`: after the close a board is final if no row changed
  (`core/watch-snapshot.mjs:109`), and the diff looks only at the rows of the
  new answer (`:54`): an answer that lacks rows, even an empty one, changes none and
  is declared final, so the shorter board stays for the evening. The comment
  (`:69`) speaks of a board that comes out exactly like the one before, and so
  does `tests/suites/303-trade-value.mjs:123`.

**Seen while modelling, without a run.**

- Live board: three request rounds while a restart still seeds can leave a
  connected browser with rows it was never sent (comment before
  `ClientsFollow`, which excepts it by `seeding.crossed`). If a round ends without a verdict, the label of an old board is taken off
  though the comment at `server/server.mjs:892` says it stays. A row that
  leaves the board stays in browsers. The record of the session board reads
  `watch.finalDay` after an await. A browser connected before the seeding gets the seeded
  board from no event.
- Roster: checkpoints are not awaited, so an older one may be renamed last and
  the file covers fewer days than before, which the comment at
  `server/server.mjs:1495` excludes; the copy in memory may be noted with the
  time of a later write. A file that cannot be read counts as no file. The forced
  checkpoint of `finish()` writes in the branch that is said to leave the file.
- A crash between the create and the write of a dossier leaves a partial file
  that no later request replaces. A journal that cannot be read is written
  anew with one row. A log that was capped goes on after a restart. A restart that
  cannot read the log's file numbers from one again, into the same file, which
  the comment at `server/datalog.mjs:89` means to exclude. Rows of a batch under
  way at an exit are in neither the buffer nor, it may be, the file.
- Settings: if the file cannot be written the settings stay in force, but the credit of the
  lanes is not cut (`server/server.mjs:2031`).
- Recording: the comment at `server/server.mjs:921` says that the file is not
  damaged when the server goes off and on, since the first frame is a whole one. A line cut off
  in the middle has no end, so that very frame joins it and both are lost: up to the next
  whole frame the reader shows quotes of before the stop as if confirmed.
  A whole frame made on time carries only the cards of contracts it shows,
  while the writer counts all cards it ever sent as known: a contract whose card was
  lost and which comes back later stays out of the replay (second case of
  `RecordReplays`). A step shorter than an append has the first effect too.
- Course of the day: the comment at `server/server.mjs:1002` says one sample a minute. A
  request that reads the file while the first round does, and ends later, takes the
  round's sample out of memory, and the next round records a second one in the
  same minute (`misread` in `PictureKept`).
- Range analysis: days of the composition shown before may land in the cache of
  the new one (`ui/tabs/backtest.mjs:1518`), and a load that begins resets the
  quota flag of another (`batchThrottled`).

Every property of a passing run has a mutant in `PROJECT.json`: a version of one
definition with a plausible mistake, under which TLC finds the property
violated. The mutated forms stand beside the definitions (`FinishWithoutPump`,
`AcceptsWithoutTime`, ...) and are used nowhere else.

## 4. Proofs

All are for any value of the constants under the assumptions named in the
modules. None of the properties is inductive alone; each module states the
strengthening (`IInv`, `FInv`, `SessionInv`, one per store for the files).

| Module | Theorem | Property |
|---|---|---|
| `JobQueueProofs` | `QueueTypes` | `TypeOK` |
| | `QueueAccounting` | `Accounting` |
| | `QueueSorted` | `Sorted` |
| | `QueueNeverStalls` | `NoStall` |
| | `QueueCapHeld` | `CapHeld` |
| | `QueueNoOvertake` | `NoOvertake` |
| | `QueueKeepsFull` | `KeepsFull` |
| `RateLaneProofs` | `RateTypes` | `TypeOK` |
| | `RateSafe` | `RateHeldPerSlot` |
| `UpstreamFetchProofs` | `FetchOneFlight` | `OneFlightPerKey` |
| | `FetchAccounted` | `AttemptsAccounted` |
| | `FetchInherits` | `Inherits` |
| | `FetchTypesKept` | `TypeOK` |
| `WatchLoopProofs` | `WatchTypes` | `TypeOK` |
| | `WatchFinal` | `FinalIsOwn` |
| | `WatchFollows` | `ClientsFollow` |
| | `WatchKeepsNewest` | `StaleNeverReplaces` |
| `MissionSaveProofs` | `MissionTypes` | `TypeOK` |
| | `MissionConfirmed` | `ConfirmedKept` |
| | `MissionOneSave` | `OneSaveAtATime` |
| | `MissionVersions` | `SavedAtMonotone` |
| | `MissionKeepsLedger` | `KeepsLedger` (refinement) |
| `PortfolioSessionProofs` | `LedgerShaped` (from `LedgerInOrder`, `LedgerIds`, `LedgerOpenings`) | `LedgerShape` |
| | `SessionTypes` | `TypeOK` |
| | `SessionReplays` | `LedgerReplays` |
| | `SessionExits` | `RecordedExits` |
| | `SessionBalances` | `RealizedBalances` |
| | `SessionBudgets` | `BudgetsKept` |
| | `SessionRisk` | `RiskKept` |
| | `SessionKeepsBook` | `KeepsBook` (refinement) |
| `ServerFilesProofs` | `DossierSafe` | `DossierStays` |
| | `SettingsSafe` | `SettingsKept` |
| | `RosterGrows` | `CoverageKept` |
| | `LogSafe` | `LogKept` |
| | `PictureSafe` | `PictureKept` |
| | `JournalSafe` | `JournalKept` |
| | `RecordSafe` | `RecordReplays` |

**JobQueue.** Assumptions: `JobsAssumption` (jobs are finitely many),
`CapsAssumption` (caps are positive, which `core/settings.mjs` guarantees by
`min: 1`) and `PrioritiesAssumption`. `NoStall` needs `Accounting` (a finish
frees exactly one slot) and positive caps (an idle queue with a waiting job would
start it); `NoOvertake` needs `Sorted` and that the array holds exactly the
waiting jobs; `Sorted` under a boost needs that no job stands in the array twice.
`IInv` is their conjunction, stated over the array, the counter and the phases
as parameters (`WellFormed`) so that one lemma, `PumpWellFormed`, serves every
action that ends in `pump()`. Under it lie four lemmas about arrays. `KeepsFull`
is a step property: pushes, boosts and finishes are the cases, and a push that
starts a job found the array empty or the slots full.

**RateLane.** Assumptions: slots and burst settings are finitely many and the
bursts, the period and the two bounds are numbers (`WorkersAssumption`,
`PeriodAssumption`, `BurstsAssumption`, `BoundsAssumption`). `RateHeldPerSlot`
counts the starts of a window and says nothing of the starts to come: two sleepers may
wait for one token, and the second will start without one. The invariant
`Ledger` therefore counts such `Uncovered` sleepers as started, and compares with
`Room`, the most that may have started when the lane holds its present credit at
the present time of the window: every token but the last of the
bucket makes room for one start, the last for one of each slot. Each step keeps it:
a spent token moves the count and the room alike, a spent last token may uncover
every sleeper, and time moves the room with the credit it adds. The burst moves
while credit counted under another is still there, so the ledger is kept for every
setting not below the highest of the window at once (`LedgerOf`): credit beyond such a
bucket counts as the full bucket that `take()` will make of it.

**UpstreamFetch.** Assumptions: `AsksAssumption`, `NoFlightAssumption`,
`QueueAssumption` (what the queue assumes of its parameters). `FInv` takes the
queue's own invariant through the instance (`QP == INSTANCE JobQueueProofs`) and
adds: a flight under way is one of a key (`OwnKeys`), nobody awaits a flight that
is over (`Passengers`), a queued attempt is as urgent as its flight's ticket
(`QueuedAsTicket`). `Inherits` needs the last two: a join may lower the ticket of a
flight that is pausing, and the next attempt must be pushed with it. The types rest
on `SomethingToAsk` (there is a key and a priority to begin with) and on `CacheInv`:
the order of insertion and the order of use hold the same keys, each once, and no
more than the limit, though a store drops from the front of the one and the other
follows. `Only`, which takes keys out of an order, is a recursive function because
the prover cannot expand `SelectSeq`; that it keeps the rest, each once, is proved
from the existence of that function (`IsLeftExists`, `OnlyLeft`).

**WatchLoop.** Assumption: `WatchBounds`; any number of requests may have a round. That
no board is final for a day to come needs to know how far the clock may have moved
since a round began (`Seen`) and that nothing in hand or on disk is of tomorrow
(`Timely`). `ClientsFollow` rests on the rounds that will send only changed rows
(`PartialSafe`): if none was under way when the board on disk came in hand, none
meets a board that the browsers were not sent, since later ones see that it was
seeded. `StaleNeverReplaces` adds that nothing is of a session that has not
begun (`Past`), that no save is under way while the file is read and requests come
in the last life only (`Quiet`), and that the reference a verdict was made from is
at least as late as the board in hand and the one being read (`Referenced`).

**MissionSave.** Assumptions: the bounds and that the marks for "nothing" are no
documents, times or answers. `IInv` is `Types`, `Serialised` (only the first save of
the server's chain has passed its checks, and it still would), `OneEach` (a tab
awaits one save, the head of its chain) and `AllKept` (the file is, or has grown
out of, each active mission that a tab shows, is opening or is told is saved). `GoesOn` is transitive, which is what carries `ConfirmedKept` over
another tab's write. The refinement follows from the write alone: all other
steps leave the file as it is.

**PortfolioSession.** Assumptions: `FamilyAssumption` (families are finitely many and
every candidate has one), `CapitalAssumption`, `MissionAssumption`, `PctAssumption`,
`QuoteAssumption` (Rial amounts and shares are what their checks let through),
`SessionBounds` and `NoneAssumption` (the mark for "no data" is no data). Every trade
goes through `Record`; `TradeRecords` says what it appends (`Recorded`) and what the
operations of the program have checked besides (`TradeOf`: the budget and the risk
limits before a commit, the entry basis of an exit). The invariant `SessionInv` has
four parts. `IInv`: order in time, ids, and that a draft has no events, since
activation sets the clock back to the start, which an event would not survive.
`PlanTyped`: the plan, with targets that fit in what can be allocated. The replay of
the ledger is what is held. `BookInv` is the heart: a position's status, open quantity
and lots agree (`Sound`), each began with an event that opened it, by a plan or
without (`PositionsBegun`), and the lots held are exactly those that events added,
each with the quantity of its event less what all exits *say* they took from it
(`LotsKept`). That last part joins the two ways in which the program counts,
replaying lots and reading `consumed` from events, and is kept because
first-in-first-out takes exactly what is asked (`FifoSum`, `FifoSplits`) and ids
of lots are distinct.

The theorems then compare the ledger before and after one event. `SessionBudgets`
holds though a commit asks for its own family only: targets are rounded down
(`TargetsFit`), the sum of what is in use is split by families (`SumByParts`), and
what exits give back is never less than nothing (`InUseGrows`). `SessionBalances`
needs that the lots an exit names are those of commits (`PlannedLots`), so that the
entry basis it was priced from is the sum over commits of what it took
(`EntryBasisIs`). `SessionKeepsBook` maps a position to the row of what is left of
its lots (`Row`).

**FoldLemmas** holds what those proofs need of sums over finite sets
(`SumFunctionOnSet` of the community modules) and of induction. The induction
theorems of the library take an operator as a parameter, which the provers cannot
instantiate. They are replaced by induction over a *set* of subsets or of numbers
(`SubsetInduction`, `NatSetInduction`), from the well-foundedness of strict subsets
and of the numbers (`WFMin`), and the fold is unfolded by proving that the recursive
function it chooses exists and is unique (`IsSumExists`, `IsSumUnique`, `SumStep`).
The replay, a fold over a sequence, is treated in the same way (`IsReplay...`,
`ReplayLast`), and so are what is left of an order of the cache and what the reader of
a recording shows. A choice among numbers is settled by the smallest counterexample
(`SmallestSubset`).

**ServerFiles.** Assumptions: `SaversNamed`, `RosterValues`, `DiskValues` (a value
is not one of the two marks), `PictureStepAssumption`, `JournalValues` (nor is a set of
rows), `JournalCapAssumption`, `MaxRowsAssumption` and `LogAssumption` (numbers). Each theorem has an invariant of its own over one store;
`End` and the steps of the other stores leave it. The roster's says that
without `met` and `unread` all writes under way hold the same days, and they, the
copy in memory and the scan cover what the file covers; the log's (`LogInv`), that
numbers of this life lie above its base, and those of each earlier row in the file below it
unless a life since then could not read the file; that of the samples, that who reads is
alone and nothing is under way, so what was read is still the file when it
is taken over.

The journal's (`JournalInv`) says that requests under way at one time count as
having met, that each has one write of its own, and that, while every read
succeeded, the file and every write under way keep each acknowledged row that met
nobody. That a write keeps it is about the cap: what a request writes are the
newest rows of what it read and its own, and a row stays among the newest when only
newer rows than the cap leaves room for could push it out (`NewestFill`,
`NewestKeep`, `OneMore`).

The recording's (`IvInv`) is about one entry and those before it (`Fits`): a frame is
whole, or is what changed since the frame before, whose line was then `Sent`, and so
was every card of a contract that the frame leaves out. `Sent` means written,
broken off, or not waited for: the two ways in which a loss goes unnoticed. The
reader is followed from the last whole frame onward (`LastWhole`): with no line
amiss since, it shows the board (`ShownTrue`); otherwise some line was lost
without notice, which is the exception that the property names (`SentMisleads`).

Only model-checked are the liveness properties `UrgentServed` and `UrgentAnswered`:
liveness under fairness and `ENABLED` are beyond the prover. The four runs that
end in a violation state no theorem. No module uses a recursive operator; the
recursive functions are handled as said above.

## 5. What is left

Next, in this order:

1. `RangeAnalysis` (`ui/tabs/backtest.mjs`): which composition the cached days belong
   to, one automatic fill at a time, the quota flag shared by loads, with the
   bounded attempts of `core/refill-queue.mjs`.
2. A second mission in `MissionSave`, begun from a dossier while a save of the
   first is still chained (`ui/tabs/portfolio-time.mjs:1973`), with the capital
   carried over.
3. `fetchHistoricalTape()` with the throttle watch beside `UpstreamFetch`, with two lanes.

Not modelled: formulas over real numbers, pricing, statistics, scanners and drawing
(out of TLC's reach or without interleaving, and the bulk of the source);
scripts that run once; the guards of the server (one request each, no state);
the error log; the choice between two historical tapes; bereket sessions, whose
log has the shape of the mission's without its versions; hours that are not
gated, holidays and the pauses between rounds of the live loop; liveness of the
tabs, whose users owe nothing.
