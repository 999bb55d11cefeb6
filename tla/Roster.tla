------------------------------- MODULE Roster -------------------------------
(***************************************************************************)
(* The roster of contracts: buildRoster() asks for the days that the file  *)
(* lacks and writes the file at checkpoints that nobody awaits and at the  *)
(* end. A copy in memory is taken for the file as long as the time of the  *)
(* file is the one that was noted with it.                                 *)
(***************************************************************************)
EXTENDS Naturals, FiniteSets, Disk

CONSTANTS
    Builds,        \* requests that may ask for a build, each once
    Ranges,        \* the trading days a request may ask for
    MaxSlow        \* bound: writes still under way when the next one begins

ASSUME RosterValues == \A days \in SUBSET UNION Ranges : days \notin {Missing, Torn}

VARIABLES
    roster,         \* the file: the days that were scanned
    rosterWrites,   \* writes of it under way
    noting,         \* writes that have landed and now look up the time of the file
    mtime,          \* that time: how often the file was replaced
    cache,          \* rosterCache
    running,        \* rosterBuild.running
    build,          \* the stage of each build, the days it wants and those it has
    met,            \* builds, or writes of different days, were under way at once
    unread          \* a read of the file failed

rvars == <<roster, rosterWrites, noting, mtime, cache, running, build, met, unread>>

RosterFile == INSTANCE AtomicJson WITH content <- roster, writes <- rosterWrites

NoCache == [mtime |-> 0, days |-> {}]
NoBuild == [stage |-> "idle", want |-> {}, days |-> {}]
Over == [stage |-> "over", want |-> {}, days |-> {}]
Busy == {b \in Builds : build[b].stage \in {"seeding", "scanning", "saving"}}

Write(who, days) == [by |-> who, value |-> days, whole |-> FALSE]
UnderWay == rosterWrites \cup noting
Meets(days) == \E w \in UnderWay : w.value # days

RosterInit ==
    /\ roster = Missing /\ rosterWrites = {} /\ noting = {} /\ mtime = 0
    /\ cache = NoCache /\ running = FALSE
    /\ build = [b \in Builds |-> NoBuild]
    /\ met = FALSE /\ unread = FALSE

\* buildRoster() up to the read of the file.
AskBuild(b, range) ==
    /\ build[b].stage = "idle" /\ ~running
    /\ build' = [build EXCEPT ![b] = [stage |-> "reading", want |-> range, days |-> {}]]
    /\ UNCHANGED <<roster, rosterWrites, noting, mtime, cache, running, met, unread>>

\* readRoster(): the copy in memory, if the file has its time; a file that
\* cannot be read is taken for an empty one.
ReadRoster(readable) ==
    IF roster = Missing THEN NoCache
    ELSE IF cache.mtime = mtime THEN cache
    ELSE IF readable /\ roster # Torn THEN [mtime |-> mtime, days |-> roster]
    ELSE NoCache

\* The read is over: the build begins, though another may have begun meanwhile,
\* unless no day is missing and the catalogue is complete.
BeginBuild(b, readable) ==
    LET want == build[b].want \ cache'.days
    IN  /\ build[b].stage = "reading"
        /\ readable \/ (roster # Missing /\ cache.mtime # mtime)
        /\ cache' = ReadRoster(readable)
        /\ unread' = (unread \/ ~readable)
        /\ \/ /\ running' = TRUE
              /\ build' = [build EXCEPT ![b] = [@ EXCEPT !.stage = "seeding", !.want = want]]
              /\ met' = (met \/ Busy # {} \/ UnderWay # {})
           \/ /\ want = {} /\ cache'.days # {}
              /\ build' = [build EXCEPT ![b] = Over]
              /\ UNCHANGED <<running, met>>
        /\ UNCHANGED <<roster, rosterWrites, noting, mtime>>

\* Wrong: the scan counts its own days only.
SeedAnew(b) ==
    /\ build[b].stage = "seeding"
    /\ build' = [build EXCEPT ![b].stage = "scanning"]
    /\ UNCHANGED <<roster, rosterWrites, noting, mtime, cache, running, met, unread>>

\* The board for the names is there: the scan goes on from the days in memory.
SeedBuild(b) ==
    /\ build[b].stage = "seeding"
    /\ build' = [build EXCEPT ![b].stage = "scanning", ![b].days = cache.days]
    /\ UNCHANGED <<roster, rosterWrites, noting, mtime, cache, running, met, unread>>

\* The answer of a day, or its failure; every so many days a checkpoint.
ScanDay(b, d, got) ==
    LET days == build[b].days \cup IF got THEN {d} ELSE {}
    IN  /\ build[b].stage = "scanning" /\ d \in build[b].want
        /\ build' = [build EXCEPT ![b].want = @ \ {d}, ![b].days = days]
        /\ \/ UNCHANGED <<roster, rosterWrites, met>>
           \/ /\ Cardinality(UnderWay) <= MaxSlow
              /\ RosterFile!Begin(<<b, "checkpoint">>, days)
              /\ met' = (met \/ Meets(days))
        /\ UNCHANGED <<noting, mtime, cache, running, unread>>

\* All days were asked: the last checkpoint is written, and beside it the result,
\* which is left out if every search of the catalogue failed.
FinishBuild(b) ==
    LET days == build[b].days
    IN  /\ build[b].stage = "scanning" /\ build[b].want = {}
        /\ Cardinality(UnderWay) <= MaxSlow
        /\ met' = (met \/ Meets(days))
        /\ \/ /\ rosterWrites' = rosterWrites \cup
                     {Write(<<b, "checkpoint">>, days), Write(<<b, "result">>, days)}
              /\ build' = [build EXCEPT ![b].stage = "saving"]
              /\ UNCHANGED running
           \/ /\ cache.days # {}
              /\ rosterWrites' = rosterWrites \cup {Write(<<b, "checkpoint">>, days)}
              /\ build' = [build EXCEPT ![b] = Over]
              /\ running' = FALSE
        /\ UNCHANGED <<roster, noting, mtime, cache, unread>>

\* The result is written or has failed.
Ended(w) ==
    IF w.by[2] = "result"
    THEN running' = FALSE /\ build' = [build EXCEPT ![w.by[1]] = Over]
    ELSE UNCHANGED <<running, build>>

StoreRoster(w) ==
    /\ \/ RosterFile!Fill(w) /\ UNCHANGED <<noting, mtime, running, build>>
       \/ /\ RosterFile!Replace(w)
          /\ mtime' = mtime + 1
          /\ noting' = noting \cup {w}
          /\ UNCHANGED <<running, build>>
       \/ RosterFile!GiveUp(w) /\ Ended(w) /\ UNCHANGED <<noting, mtime>>
    /\ UNCHANGED <<cache, met, unread>>

\* The days of this write become the copy in memory, with the time the file has
\* now, be it of this write or of a later one.
NoteRoster(w) ==
    /\ w \in noting
    /\ noting' = noting \ {w}
    /\ cache' = [mtime |-> mtime, days |-> w.value]
    /\ Ended(w)
    /\ UNCHANGED <<roster, rosterWrites, mtime, met, unread>>

RosterNext ==
    \/ \E b \in Builds, range \in Ranges : AskBuild(b, range)
    \/ \E b \in Builds : \/ BeginBuild(b, TRUE) \/ BeginBuild(b, FALSE)
                         \/ SeedBuild(b) \/ FinishBuild(b)
    \/ \E b \in Builds : \E d \in build[b].want : ScanDay(b, d, TRUE) \/ ScanDay(b, d, FALSE)
    \/ \E w \in rosterWrites : StoreRoster(w)
    \/ \E w \in noting : NoteRoster(w)

RosterRestart ==
    /\ RosterFile!Abandon
    /\ noting' = {} /\ cache' = NoCache /\ running' = FALSE
    /\ build' = [b \in Builds |-> IF build[b].stage = "idle" THEN NoBuild ELSE Over]
    /\ UNCHANGED <<mtime, met, unread>>

\* The days that the roster covers are never fewer: a build that fails on every
\* day, ends early or is cut off by a restart takes none away. This needs that
\* no two builds ran at once, that no write was still under way when a build
\* began or more days were written, and that the file could be read.
CoverageKept ==
    [][(roster # Missing /\ ~met /\ ~unread) => roster \subseteq roster']_rvars
=============================================================================
