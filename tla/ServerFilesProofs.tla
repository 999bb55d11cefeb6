-------------------------- MODULE ServerFilesProofs --------------------------
(***************************************************************************)
(* Proofs about the files of the server, for any number of requests,       *)
(* writes, rows and ends of the process.  Each store has an invariant of   *)
(* its own; a step of another store leaves it alone (Steps).               *)
(*                                                                         *)
(* The journal: requests that meet are known to, each has one write at     *)
(* most, and a row that is kept stays so when newer rows join it.          *)
(* A dossier: whoever is between open and close holds the file, so nobody  *)
(* else finds it missing or removes it.                                    *)
(* The settings: a save that met no other is the only write under way and  *)
(* writes what is in memory; any other leaves doubt until such a one lands. *)
(* The roster, as long as builds and writes of different days did not      *)
(* meet: all writes under way carry the same days, those of the file among *)
(* them, and the one build that scans has all of these.                    *)
(* The data log: rows of this life have numbers beyond its base, rows of   *)
(* lives before it none beyond, or a life since could not read the file.   *)
(* The samples of the day, as long as nobody else read the file meanwhile: *)
(* who reads it is alone, and no sample is under way then, so that what was  *)
(* read is what the file holds when it is taken over.                      *)
(* The recording of the day: each frame is whole, or tells what changed     *)
(* since the one before, whose line was sent; what a frame leaves out as    *)
(* known was sent before it.  Sent means that it reached the file or that   *)
(* the next frame did not wait, so that a line that is not there misleads.  *)
(***************************************************************************)
EXTENDS ServerFiles, FoldLemmas, TLAPS

\* A step is one of each store, or leaves the store alone.
LEMMA Steps ==
    ASSUME [Next]_vars
    PROVE  /\ JournalNext \/ JournalRestart \/ UNCHANGED jvars
           /\ SettingsNext \/ SettingsRestart \/ UNCHANGED svars
           /\ RosterNext \/ RosterRestart \/ UNCHANGED rvars
           /\ LogNext \/ LogStop \/ LogCrash \/ UNCHANGED lvars
           /\ DossierNext \/ DossierRestart \/ UNCHANGED dvars
           /\ IvNext \/ IvRestart \/ UNCHANGED ivars
           /\ PictureNext \/ PictureRestart \/ UNCHANGED pvars
<1>1. CASE Step
  BY <1>1 DEF Step
<1>2. CASE End
  BY <1>2 DEF End
<1>3. CASE UNCHANGED vars
  BY <1>3 DEF vars
<1>4. QED BY <1>1, <1>2, <1>3 DEF Next

-----------------------------------------------------------------------------
\* The file that a request has created and not yet written.
Partly(s) == [by |-> s, whole |-> FALSE]

Owned ==
    /\ saver \in [Savers -> {"idle", "open", "saved", "failed", "error", "conflict", "cut off"}]
    /\ \A s \in Savers : saver[s] \in {"open", "failed"} => dossier = Partly(s)

DossierInv == Owned /\ DossierStays

\* Every step of the dossier keeps its invariant.
LEMMA DossierSteps == DossierInv /\ (DossierNext \/ DossierRestart \/ UNCHANGED dvars) => DossierInv'
<1> SUFFICES ASSUME DossierInv, DossierNext \/ DossierRestart \/ UNCHANGED dvars PROVE DossierInv'
  OBVIOUS
<1>1. ASSUME NEW s \in Savers, OpenNew(s) PROVE DossierInv'
  <2>1. CASE dossier = NoDossier
    <3>1. \A t \in Savers : saver[t] \notin {"open", "failed", "saved"}
      BY <2>1, SaversNamed DEF DossierInv, Owned, DossierStays, Partly, NoDossier
    <3>2. QED BY <1>1, <2>1, <3>1 DEF OpenNew, DossierInv, Owned, DossierStays, Partly
  <2>2. CASE dossier # NoDossier
    BY <1>1, <2>2 DEF OpenNew, DossierInv, Owned, DossierStays
  <2>3. QED BY <2>1, <2>2
<1>2. ASSUME NEW s \in Savers, WriteDossier(s) PROVE DossierInv'
  <2>1. dossier = Partly(s)
    BY <1>2 DEF WriteDossier, DossierInv, Owned
  <2>2. CASE dossier' = [dossier EXCEPT !.whole = TRUE] /\ saver' = [saver EXCEPT ![s] = "saved"]
    <3>1. dossier' = [by |-> s, whole |-> TRUE]
      BY <2>1, <2>2 DEF Partly
    <3>2. \A t \in Savers : t # s => saver[t] \notin {"open", "failed", "saved"}
      BY <2>1 DEF DossierInv, Owned, DossierStays, Partly
    <3>3. QED BY <2>2, <3>1, <3>2 DEF DossierInv, Owned, DossierStays
  <2>3. CASE saver' = [saver EXCEPT ![s] = "failed"] /\ UNCHANGED dossier
    BY <2>1, <2>3 DEF DossierInv, Owned, DossierStays
  <2>4. QED BY <1>2, <2>2, <2>3 DEF WriteDossier
<1>3. ASSUME NEW s \in Savers, RemoveDossier(s) PROVE DossierInv'
  <2>1. dossier = Partly(s)
    BY <1>3 DEF RemoveDossier, DossierInv, Owned
  <2>2. \A t \in Savers : t # s => saver[t] \notin {"open", "failed", "saved"}
    BY <2>1 DEF DossierInv, Owned, DossierStays, Partly
  <2>3. QED BY <1>3, <2>2 DEF RemoveDossier, DossierInv, Owned, DossierStays
<1>4. CASE DossierRestart
  BY <1>4 DEF DossierRestart, DossierInv, Owned, DossierStays
<1>5. CASE UNCHANGED dvars
  BY <1>5 DEF dvars, DossierInv, Owned, DossierStays
<1>6. QED BY <1>1, <1>2, <1>3, <1>4, <1>5 DEF DossierNext

\* savePortfolioDossier() answers "saved" to one request at most, and its dossier
\* stays, whoever else saves and wherever others fail or the process ends.
THEOREM DossierSafe == Spec => []DossierStays
<1>1. Init => DossierInv
  BY DEF Init, DossierInit, DossierInv, Owned, DossierStays
<1>2. DossierInv /\ [Next]_vars => DossierInv'
  BY Steps, DossierSteps
<1>3. DossierInv => DossierStays
  BY DEF DossierInv
<1>4. QED BY <1>1, <1>2, <1>3, PTL DEF Spec

-----------------------------------------------------------------------------
\* The only write under way writes what is in memory.
Single ==
    \A w \in settingsWrites : w.value = settings /\ (\A x \in settingsWrites : x = w)

SettingsInv ==
    /\ alone \in BOOLEAN /\ doubt \in BOOLEAN
    /\ ~alone => doubt
    /\ alone => Single
    /\ SettingsKept

\* A single write of what is in memory.
LEMMA OneWrite ==
    ASSUME NEW who, NEW value,
           NEW W, W = {[by |-> who, value |-> value, whole |-> FALSE]}
    PROVE  \A w \in W : w.value = value /\ (\A x \in W : x = w)
<1>1. ASSUME NEW w \in W PROVE w = [by |-> who, value |-> value, whole |-> FALSE]
  OBVIOUS
<1>2. ASSUME NEW w \in W PROVE w.value = value
  BY <1>1
<1>3. QED BY <1>1, <1>2

\* Every step of the settings keeps their invariant.
LEMMA SettingsSteps ==
    SettingsInv /\ (SettingsNext \/ SettingsRestart \/ UNCHANGED svars) => SettingsInv'
<1> SUFFICES ASSUME SettingsInv, SettingsNext \/ SettingsRestart \/ UNCHANGED svars PROVE SettingsInv'
  OBVIOUS
<1>1. ASSUME NEW r \in Puts, NEW value \in SettingsValues, Put(r, value) PROVE SettingsInv'
  <2>1. /\ settings' = value
        /\ settingsWrites' = settingsWrites \cup {[by |-> r, value |-> value, whole |-> FALSE]}
        /\ alone' = (settingsWrites = {})
        /\ doubt' = (doubt \/ settingsWrites # {})
    BY <1>1 DEF Put, SettingsFile!Begin
  <2>2. CASE settingsWrites = {}
    <3>1. alone' = TRUE /\ doubt' = doubt
      BY <2>1, <2>2 DEF SettingsInv
    <3>2. settingsWrites' = {[by |-> r, value |-> value, whole |-> FALSE]}
      BY <2>1, <2>2
    <3>3. Single'
      BY <2>1, <3>2, OneWrite DEF Single
    <3>4. settingsWrites' # {}
      BY <3>2
    <3>5. alone' \in BOOLEAN /\ doubt' \in BOOLEAN
      BY <3>1 DEF SettingsInv
    <3>6. SettingsKept' /\ alone'
      BY <3>1, <3>4 DEF SettingsKept
    <3>7. QED BY <3>3, <3>5, <3>6 DEF SettingsInv
  <2>3. CASE settingsWrites # {}
    <3>1. alone' = FALSE /\ doubt' = TRUE
      BY <2>1, <2>3 DEF SettingsInv
    <3>2. QED BY <3>1 DEF SettingsInv, SettingsKept
  <2>4. QED BY <2>2, <2>3
<1>2. ASSUME NEW w \in settingsWrites, UNCHANGED <<settings, puts, alone>>,
             SettingsFile!Fill(w) /\ UNCHANGED doubt
      PROVE  SettingsInv'
  <2>1. /\ settingsWrites' = (settingsWrites \ {w}) \cup {[w EXCEPT !.whole = TRUE]}
        /\ UNCHANGED <<settingsFile, doubt, settings, alone>>
    BY <1>2 DEF SettingsFile!Fill
  <2>2. [w EXCEPT !.whole = TRUE].value = w.value
    OBVIOUS
  <2>3. alone => settingsWrites \ {w} = {} /\ w.value = settings
    BY DEF SettingsInv, Single
  <2>4. QED BY <2>1, <2>2, <2>3 DEF SettingsInv, SettingsKept, Single
<1>3. ASSUME NEW w \in settingsWrites, UNCHANGED <<settings, puts, alone>>,
             SettingsFile!Replace(w), doubt' = (doubt /\ ~alone)
      PROVE  SettingsInv'
  <2>1. settingsWrites' = settingsWrites \ {w} /\ settingsFile' = w.value
    BY <1>3 DEF SettingsFile!Replace
  <2>2. CASE alone
    <3>1. settingsWrites' = {} /\ w.value = settings
      BY <2>1, <2>2 DEF SettingsInv, Single
    <3>2. doubt' = FALSE /\ alone'
      BY <1>3, <2>2 DEF SettingsInv
    <3>3. QED BY <1>3, <2>1, <3>1, <3>2 DEF SettingsInv, SettingsKept, Single
  <2>3. CASE ~alone
    <3>1. doubt' = TRUE /\ alone' = FALSE
      BY <1>3, <2>3 DEF SettingsInv
    <3>2. QED BY <3>1 DEF SettingsInv, SettingsKept
  <2>4. QED BY <2>2, <2>3
<1>4. ASSUME NEW w \in settingsWrites, UNCHANGED <<settings, puts, alone>>,
             SettingsFile!GiveUp(w), doubt' = TRUE
      PROVE  SettingsInv'
  <2>1. settingsWrites' = settingsWrites \ {w}
    BY <1>4 DEF SettingsFile!GiveUp
  <2>2. QED BY <1>4, <2>1 DEF SettingsInv, SettingsKept, Single
<1>5. CASE SettingsRestart
  <2>1. /\ settings' = Loaded /\ settingsFile' = settingsFile /\ alone' = TRUE /\ doubt' = FALSE
        /\ settingsWrites' = IF settingsFile \in {Missing, Torn}
                             THEN {[by |-> "start", value |-> Defaults, whole |-> FALSE]} ELSE {}
    BY <1>5 DEF SettingsRestart
  <2>2. Single'
    <3>1. CASE settingsFile \in {Missing, Torn}
      <4>1. settings' = Defaults /\ settingsWrites' = {[by |-> "start", value |-> Defaults, whole |-> FALSE]}
        BY <2>1, <3>1 DEF Loaded
      <4>2. QED BY <4>1, OneWrite DEF Single
    <3>2. CASE settingsFile \notin {Missing, Torn}
      BY <2>1, <3>2 DEF Single
    <3>3. QED BY <3>1, <3>2
  <2>3. SettingsKept'
    <3>1. CASE settingsFile \in {Missing, Torn}
      BY <2>1, <3>1 DEF SettingsKept
    <3>2. CASE settingsFile \notin {Missing, Torn}
      BY <2>1, <3>2 DEF SettingsKept, Loaded
    <3>3. QED BY <3>1, <3>2
  <2>4. QED BY <2>1, <2>2, <2>3 DEF SettingsInv
<1>6. CASE UNCHANGED svars
  BY <1>6 DEF svars, SettingsInv, SettingsKept, Single
<1>7. CASE StoreSettings
  BY <1>2, <1>3, <1>4, <1>7 DEF StoreSettings
<1>8. CASE SettingsNext
  BY <1>1, <1>7, <1>8 DEF SettingsNext
<1>9. QED BY <1>5, <1>6, <1>8

\* saveSettings() and loadSettings() agree: with no write under way and none
\* that failed or met another, a start would read what the server works with.
THEOREM SettingsSafe == Spec => []SettingsKept
<1>1. Init => SettingsInv
  <2> SUFFICES ASSUME Init PROVE SettingsInv
    OBVIOUS
  <2>1. /\ settings = Defaults /\ alone = TRUE /\ doubt = FALSE
        /\ settingsWrites = {[by |-> "start", value |-> Defaults, whole |-> FALSE]}
    BY DEF Init, SettingsInit
  <2>2. Single
    BY <2>1, OneWrite DEF Single
  <2>3. SettingsKept
    BY <2>1 DEF SettingsKept
  <2>4. QED BY <2>1, <2>2, <2>3 DEF SettingsInv
<1>2. SettingsInv /\ [Next]_vars => SettingsInv'
  BY Steps, SettingsSteps
<1>3. SettingsInv => SettingsKept
  BY DEF SettingsInv
<1>4. QED BY <1>1, <1>2, <1>3, PTL DEF Spec

-----------------------------------------------------------------------------
AllDays == UNION Ranges
BuildType == [stage : {"idle", "reading", "seeding", "scanning", "saving", "over"},
              want : SUBSET AllDays, days : SUBSET AllDays]

RosterTypes ==
    /\ mtime \in Nat
    /\ cache \in [mtime : Nat, days : SUBSET AllDays] /\ cache.mtime <= mtime
    /\ roster = Missing \/ (roster \in SUBSET AllDays /\ mtime > 0)
    /\ \A w \in UnderWay : w.value \in SUBSET AllDays
    /\ build \in [Builds -> BuildType]

\* While nothing met: the writes under way agree, and have the days of the file;
\* so has the copy in memory that has its time, and the one build there is.
OneValue == \A v, w \in UnderWay : v.value = w.value
Landed == \A w \in noting : roster = w.value
Noted == (roster # Missing /\ cache.mtime = mtime) => cache.days = roster
Growing == \A w \in rosterWrites : roster # Missing => roster \subseteq w.value
OneBuild == \A a, b \in Busy : a = b
SeedingFrom ==
    \A b \in Builds : build[b].stage = "seeding" =>
        UnderWay = {} /\ (roster # Missing => roster \subseteq cache.days)
ScanningFrom ==
    \A b \in Builds : build[b].stage = "scanning" =>
        /\ \A w \in rosterWrites : w.value \subseteq build[b].days
        /\ roster # Missing => roster \subseteq build[b].days

Calm == ~met /\ ~unread
Covering == OneValue /\ Landed /\ Noted /\ Growing /\ OneBuild /\ SeedingFrom /\ ScanningFrom
RosterInv == RosterTypes /\ (Calm => Covering)

\* A set of days is neither a missing file nor a torn one.
LEMMA MissingIsNoDays == \A days \in SUBSET AllDays : days # Missing /\ days # Torn
BY RosterValues DEF AllDays

\* A build ends, or stays as it is.
LEMMA EndsOrStays ==
    ASSUME RosterTypes, NEW w, Ended(w)
    PROVE  /\ build' \in [Builds -> BuildType]
           /\ \A b \in Builds : build'[b] = build[b] \/ build'[b].stage = "over"
<1>1. Over \in BuildType /\ Over.stage = "over"
  BY DEF Over, BuildType
<1>2. QED BY <1>1 DEF Ended, RosterTypes

\* A request asks for a build.
LEMMA RosterAsk ==
    ASSUME RosterInv, NEW b \in Builds, NEW range \in Ranges, AskBuild(b, range)
    PROVE  RosterInv'
<1> DEFINE g == [stage |-> "reading", want |-> range, days |-> {}]
<1>1. g \in BuildType /\ g.stage = "reading"
  BY DEF BuildType, AllDays
<1> HIDE DEF g
<1>2. /\ build' = [build EXCEPT ![b] = g]
      /\ UNCHANGED <<roster, rosterWrites, noting, mtime, cache, running, met, unread>>
  BY DEF AskBuild, g
<1>3. build' \in [Builds -> BuildType] /\ \A a \in Builds : build'[a] = IF a = b THEN g ELSE build[a]
  BY <1>1, <1>2 DEF RosterInv, RosterTypes
<1>4. RosterTypes'
  BY <1>2, <1>3 DEF RosterInv, RosterTypes, UnderWay
<1>5. ASSUME Calm' PROVE Covering'
  <2>1. Covering
    BY <1>2, <1>5 DEF RosterInv, Calm
  <2>2. OneBuild' /\ SeedingFrom' /\ ScanningFrom'
    BY <1>1, <1>2, <1>3, <2>1 DEF Covering, OneBuild, Busy, SeedingFrom, ScanningFrom, UnderWay
  <2>3. QED BY <1>2, <2>1, <2>2 DEF Covering, OneValue, Landed, Noted, Growing, UnderWay
<1>6. QED BY <1>4, <1>5 DEF RosterInv

\* A build begins with the days that the file has, or finds nothing to do.
LEMMA RosterBegin ==
    ASSUME RosterInv, NEW b \in Builds, NEW readable \in BOOLEAN, BeginBuild(b, readable)
    PROVE  RosterInv'
<1>1. /\ build[b].stage = "reading" /\ cache' = ReadRoster(readable)
      /\ unread' = (unread \/ ~readable)
      /\ UNCHANGED <<roster, rosterWrites, noting, mtime>>
  BY DEF BeginBuild
<1>2. /\ cache' \in [mtime : Nat, days : SUBSET AllDays] /\ cache'.mtime <= mtime
      /\ readable /\ roster # Missing /\ Noted => cache'.days = roster
      /\ roster # Missing /\ cache'.mtime = mtime /\ Noted => cache'.days = roster
  <2>1. NoCache \in [mtime : Nat, days : SUBSET AllDays] /\ NoCache.mtime = 0 /\ NoCache.days = {}
    BY DEF NoCache
  <2>2. CASE roster = Missing
    BY <1>1, <2>1, <2>2 DEF ReadRoster, RosterInv, RosterTypes
  <2>3. CASE roster # Missing /\ cache.mtime = mtime
    BY <1>1, <2>3 DEF ReadRoster, RosterInv, RosterTypes, Noted
  <2>4. CASE roster # Missing /\ cache.mtime # mtime /\ readable
    <3>1. roster \in SUBSET AllDays /\ roster # Torn
      BY <2>4, MissingIsNoDays DEF RosterInv, RosterTypes
    <3>2. cache' = [mtime |-> mtime, days |-> roster]
      BY <1>1, <2>4, <3>1 DEF ReadRoster
    <3>3. QED BY <3>1, <3>2 DEF RosterInv, RosterTypes
  <2>5. CASE roster # Missing /\ cache.mtime # mtime /\ ~readable
    BY <1>1, <2>1, <2>5 DEF ReadRoster, RosterInv, RosterTypes
  <2>6. QED BY <2>2, <2>3, <2>4, <2>5
<1>3. RosterTypes /\ build[b].want \ cache'.days \in SUBSET AllDays
  BY DEF RosterInv, RosterTypes, BuildType
<1>4. CASE /\ build' = [build EXCEPT ![b] = [@ EXCEPT !.stage = "seeding", !.want = build[b].want \ cache'.days]]
           /\ met' = (met \/ Busy # {} \/ UnderWay # {})
  <2> DEFINE want == build[b].want \ cache'.days
             g == [build[b] EXCEPT !.stage = "seeding", !.want = want]
  <2>1. g \in BuildType /\ g.stage = "seeding"
    <3>1. want \in SUBSET AllDays /\ build[b] \in BuildType
      BY <1>3 DEF RosterTypes
    <3> HIDE DEF want
    <3>2. QED BY <3>1 DEF BuildType
  <2>2. build' \in [Builds -> BuildType] /\ \A a \in Builds : build'[a] = IF a = b THEN g ELSE build[a]
    BY <1>3, <1>4, <2>1 DEF RosterTypes
  <2> HIDE DEF g
  <2>3. RosterTypes'
    BY <1>1, <1>2, <1>3, <2>2 DEF RosterTypes, UnderWay
  <2>4. ASSUME Calm' PROVE Covering'
    <3>1. Calm /\ Covering /\ readable /\ Busy = {} /\ UnderWay = {}
      BY <1>1, <1>4, <2>4 DEF RosterInv, Calm
    <3>2. OneBuild' /\ ScanningFrom'
      BY <1>1, <2>1, <2>2, <3>1 DEF Covering, OneBuild, Busy, ScanningFrom
    <3>3. SeedingFrom'
      BY <1>1, <1>2, <2>1, <2>2, <3>1 DEF Covering, SeedingFrom, Busy, UnderWay
    <3>4. Noted'
      BY <1>1, <1>2, <3>1 DEF Covering, Noted
    <3>5. QED BY <1>1, <3>1, <3>2, <3>3, <3>4 DEF Covering, OneValue, Landed, Growing, UnderWay
  <2>5. QED BY <2>3, <2>4 DEF RosterInv
<1>5. CASE build' = [build EXCEPT ![b] = Over] /\ UNCHANGED <<running, met>>
  <2>1. Over \in BuildType /\ Over.stage = "over"
    BY DEF Over, BuildType
  <2>2. build' \in [Builds -> BuildType] /\ \A a \in Builds : build'[a] = IF a = b THEN Over ELSE build[a]
    BY <1>3, <1>5, <2>1 DEF RosterTypes
  <2>3. RosterTypes'
    BY <1>1, <1>2, <1>3, <2>2 DEF RosterTypes, UnderWay
  <2>4. ASSUME Calm' PROVE Covering'
    <3>1. Calm /\ Covering /\ readable
      BY <1>1, <1>5, <2>4 DEF RosterInv, Calm
    <3>2. OneBuild' /\ ScanningFrom'
      BY <1>1, <2>1, <2>2, <3>1 DEF Covering, OneBuild, Busy, ScanningFrom
    <3>3. SeedingFrom'
      BY <1>1, <1>2, <2>1, <2>2, <3>1 DEF Covering, SeedingFrom, UnderWay
    <3>4. Noted'
      BY <1>1, <1>2, <3>1 DEF Covering, Noted
    <3>5. QED BY <1>1, <3>1, <3>2, <3>3, <3>4 DEF Covering, OneValue, Landed, Growing, UnderWay
  <2>5. QED BY <2>3, <2>4 DEF RosterInv
<1>6. QED BY <1>4, <1>5 DEF BeginBuild

\* The scan goes on from the copy in memory.
LEMMA RosterSeed ==
    ASSUME RosterInv, NEW b \in Builds, SeedBuild(b)
    PROVE  RosterInv'
<1>1. /\ build[b].stage = "seeding"
      /\ UNCHANGED <<roster, rosterWrites, noting, mtime, cache, running, met, unread>>
  BY DEF SeedBuild
<1>2. /\ build' \in [Builds -> BuildType]
      /\ \A a \in Builds : a # b => build'[a] = build[a]
      /\ build'[b].stage = "scanning" /\ build'[b].days = cache.days
  <2>1. build \in [Builds -> BuildType] /\ cache.days \in SUBSET AllDays
    BY DEF RosterInv, RosterTypes
  <2>2. build' = [build EXCEPT ![b] = [build[b] EXCEPT !.stage = "scanning", !.days = cache.days]]
    BY <2>1 DEF SeedBuild
  <2>3. [build[b] EXCEPT !.stage = "scanning", !.days = cache.days] \in BuildType
    BY <2>1 DEF BuildType
  <2>4. build'[b] = [build[b] EXCEPT !.stage = "scanning", !.days = cache.days]
    BY <2>1, <2>2
  <2>5. build'[b].stage = "scanning" /\ build'[b].days = cache.days
    BY <2>1, <2>4 DEF BuildType
  <2>6. QED BY <2>1, <2>2, <2>3, <2>5
<1>3. RosterTypes'
  BY <1>1, <1>2 DEF RosterInv, RosterTypes, UnderWay
<1>4. ASSUME Calm' PROVE Covering'
  <2>1. Covering
    BY <1>1, <1>4 DEF RosterInv, Calm
  <2>2. UnderWay = {} /\ (roster # Missing => roster \subseteq cache.days)
    BY <1>1, <2>1 DEF Covering, SeedingFrom
  <2>3. OneBuild'
    BY <1>1, <1>2, <2>1 DEF Covering, OneBuild, Busy
  <2>4. SeedingFrom'
    BY <1>1, <1>2, <2>1 DEF Covering, SeedingFrom, UnderWay
  <2>5. ScanningFrom'
    BY <1>1, <1>2, <2>1, <2>2 DEF Covering, ScanningFrom, UnderWay
  <2>6. QED BY <1>1, <2>1, <2>3, <2>4, <2>5 DEF Covering, OneValue, Landed, Noted, Growing, UnderWay
<1>5. QED BY <1>3, <1>4 DEF RosterInv

\* New writes of the days a build has, with that build going on or done.
LEMMA RosterWrite ==
    ASSUME RosterInv, NEW b \in Builds, build[b].stage = "scanning",
           NEW days \in SUBSET AllDays, build[b].days \subseteq days,
           NEW new, \A w \in new : w.value = days,
           rosterWrites' = rosterWrites \cup new, new # {} => met' = (met \/ Meets(days)),
           new = {} => met' = met,
           build' \in [Builds -> BuildType], \A a \in Builds : a # b => build'[a] = build[a],
           build'[b].stage = "scanning" => build'[b].days = days,
           build'[b].stage \in {"scanning", "saving", "over"},
           UNCHANGED <<roster, noting, mtime, cache, unread>>
    PROVE  RosterInv'
<1>1. RosterTypes'
  BY DEF RosterInv, RosterTypes, UnderWay
<1>2. ASSUME Calm' PROVE Covering'
  <2>1. Covering
    BY <1>2 DEF RosterInv, Calm
  <2>2. new # {} => \A w \in UnderWay : w.value = days
    BY <1>2 DEF Calm, Meets
  <2>3. OneValue'
    BY <2>1, <2>2 DEF Covering, OneValue, UnderWay
  <2>4. Landed' /\ Noted'
    BY <2>1 DEF Covering, Landed, Noted
  <2>5. roster # Missing => roster \subseteq days
    BY <2>1 DEF Covering, ScanningFrom
  <2>6. Growing'
    BY <2>1, <2>5 DEF Covering, Growing
  <2>7. b \in Busy /\ Busy' \subseteq Busy
    BY DEF Busy
  <2>8. OneBuild'
    BY <2>1, <2>7 DEF Covering, OneBuild
  <2>9. SeedingFrom'
    <3>1. \A a \in Builds : build[a].stage # "seeding"
      BY <2>1, <2>7 DEF Covering, OneBuild, Busy
    <3>2. QED BY <3>1 DEF SeedingFrom
  <2>10. ScanningFrom'
    <3>1. \A a \in Builds : build'[a].stage = "scanning" => a = b
      BY <2>1, <2>7 DEF Covering, OneBuild, Busy
    <3>2. \A w \in rosterWrites : w.value \subseteq days
      BY <2>1 DEF Covering, ScanningFrom
    <3>3. QED BY <2>5, <3>1, <3>2 DEF ScanningFrom
  <2>11. QED BY <2>3, <2>4, <2>6, <2>8, <2>9, <2>10 DEF Covering
<1>3. QED BY <1>1, <1>2 DEF RosterInv

\* A day was asked, and perhaps a checkpoint begun.
LEMMA RosterScan ==
    ASSUME RosterInv, NEW b \in Builds, NEW d \in build[b].want, NEW got \in BOOLEAN, ScanDay(b, d, got)
    PROVE  RosterInv'
<1> DEFINE days == build[b].days \cup IF got THEN {d} ELSE {}
<1>1. build \in [Builds -> BuildType]
  BY DEF RosterInv, RosterTypes
<1>2. days \in SUBSET AllDays /\ build[b].days \subseteq days
  BY <1>1 DEF BuildType
<1>3. build[b].stage = "scanning" /\ UNCHANGED <<roster, noting, mtime, cache, unread>>
  BY DEF ScanDay, RosterFile!Begin
<1>4. /\ build' \in [Builds -> BuildType] /\ \A a \in Builds : a # b => build'[a] = build[a]
      /\ build'[b].stage = "scanning" /\ build'[b].days = days
  <2>1. build' = [build EXCEPT ![b] = [build[b] EXCEPT !.want = build[b].want \ {d}, !.days = days]]
    BY <1>1 DEF ScanDay
  <2>2. [build[b] EXCEPT !.want = build[b].want \ {d}, !.days = days] \in BuildType
    BY <1>1, <1>2 DEF BuildType
  <2>3. build'[b] = [build[b] EXCEPT !.want = build[b].want \ {d}, !.days = days]
    BY <1>1, <2>1
  <2>4. build'[b].stage = "scanning" /\ build'[b].days = days
    BY <1>1, <1>3, <2>3 DEF BuildType
  <2>5. QED BY <1>1, <2>1, <2>2, <2>4
<1> HIDE DEF days
<1>5. CASE UNCHANGED <<roster, rosterWrites, met>>
  <2> DEFINE new == {}
  <2>1. rosterWrites' = rosterWrites \cup new /\ met' = met /\ new = {}
    BY <1>5
  <2>2. \A w \in new : w.value = days
    OBVIOUS
  <2> HIDE DEF new
  <2>3. QED BY <1>2, <1>3, <1>4, <2>1, <2>2, RosterWrite
<1>6. CASE RosterFile!Begin(<<b, "checkpoint">>, days) /\ met' = (met \/ Meets(days))
  <2> DEFINE new == {[by |-> <<b, "checkpoint">>, value |-> days, whole |-> FALSE]}
  <2>1. rosterWrites' = rosterWrites \cup new /\ (\A w \in new : w.value = days) /\ new # {}
    BY <1>6 DEF RosterFile!Begin
  <2> HIDE DEF new
  <2>2. QED BY <1>2, <1>3, <1>4, <1>6, <2>1, RosterWrite
<1>7. QED BY <1>5, <1>6 DEF ScanDay, days

\* The last checkpoint and the result are begun.
LEMMA RosterFinish ==
    ASSUME RosterInv, NEW b \in Builds, FinishBuild(b)
    PROVE  RosterInv'
<1> DEFINE days == build[b].days
<1>1. build \in [Builds -> BuildType]
  BY DEF RosterInv, RosterTypes
<1>2. days \in SUBSET AllDays /\ build[b].days \subseteq days
  BY <1>1 DEF BuildType
<1>3. /\ build[b].stage = "scanning" /\ UNCHANGED <<roster, noting, mtime, cache, unread>>
      /\ met' = (met \/ Meets(days))
  BY DEF FinishBuild
<1>4. PICK new :
        /\ rosterWrites' = rosterWrites \cup new /\ new # {}
        /\ \A w \in new : w.value = days
        /\ \/ build' = [build EXCEPT ![b].stage = "saving"]
           \/ build' = [build EXCEPT ![b] = Over]
  <2>1. CASE /\ rosterWrites' = rosterWrites \cup
                     {Write(<<b, "checkpoint">>, days), Write(<<b, "result">>, days)}
             /\ build' = [build EXCEPT ![b].stage = "saving"]
    <3> DEFINE W == {Write(<<b, "checkpoint">>, days), Write(<<b, "result">>, days)}
    <3>1. W # {} /\ \A w \in W : w.value = days
      BY DEF Write
    <3>2. QED BY <2>1, <3>1
  <2>2. CASE /\ rosterWrites' = rosterWrites \cup {Write(<<b, "checkpoint">>, days)}
             /\ build' = [build EXCEPT ![b] = Over]
    <3> DEFINE W == {Write(<<b, "checkpoint">>, days)}
    <3>1. W # {} /\ \A w \in W : w.value = days
      BY DEF Write
    <3>2. QED BY <2>2, <3>1
  <2>3. QED BY <2>1, <2>2 DEF FinishBuild
<1>5. /\ build' \in [Builds -> BuildType] /\ \A a \in Builds : a # b => build'[a] = build[a]
      /\ build'[b].stage \in {"saving", "over"}
  <2>1. Over \in BuildType /\ Over.stage = "over"
    BY DEF Over, BuildType
  <2>2. CASE build' = [build EXCEPT ![b] = Over]
    BY <1>1, <2>1, <2>2
  <2>3. CASE build' = [build EXCEPT ![b].stage = "saving"]
    <3>1. build' = [build EXCEPT ![b] = [build[b] EXCEPT !.stage = "saving"]]
      BY <1>1, <2>3
    <3>2. [build[b] EXCEPT !.stage = "saving"] \in BuildType /\ [build[b] EXCEPT !.stage = "saving"].stage = "saving"
      BY <1>1 DEF BuildType
    <3>3. QED BY <1>1, <3>1, <3>2
  <2>4. QED BY <1>4, <2>2, <2>3
<1>6. QED
  <2> HIDE DEF days
  <2>1. build[b].days \subseteq days
    BY <1>2
  <2>2. QED BY <1>2, <1>3, <1>4, <1>5, <2>1, RosterWrite

\* A write goes on, lands or fails: the file keeps its days.
LEMMA RosterStore ==
    ASSUME RosterInv, NEW w \in rosterWrites, StoreRoster(w)
    PROVE  RosterInv' /\ ((roster # Missing /\ Calm) => roster \subseteq roster')
<1>1. RosterTypes /\ w \in UnderWay /\ w.value \in SUBSET AllDays /\ UNCHANGED <<cache, met, unread>>
  BY DEF RosterInv, RosterTypes, UnderWay, StoreRoster
<1>2. CASE RosterFile!Fill(w) /\ UNCHANGED <<noting, mtime, running, build>>
  <2> DEFINE x == [w EXCEPT !.whole = TRUE]
  <2>1. /\ rosterWrites' = (rosterWrites \ {w}) \cup {x} /\ roster' = roster
        /\ x.value = w.value
    BY <1>2 DEF RosterFile!Fill
  <2> HIDE DEF x
  <2>2. RosterTypes'
    BY <1>1, <1>2, <2>1 DEF RosterTypes, UnderWay
  <2>3. ASSUME Calm PROVE Covering'
    <3>1. Covering
      BY <2>3 DEF RosterInv
    <3>2. OneValue'
      BY <1>1, <1>2, <2>1, <3>1 DEF Covering, OneValue, UnderWay
    <3>3. Growing' /\ ScanningFrom'
      BY <1>1, <1>2, <2>1, <3>1 DEF Covering, Growing, ScanningFrom
    <3>4. SeedingFrom'
      BY <1>1, <1>2, <2>1, <3>1 DEF Covering, SeedingFrom, UnderWay
    <3>5. QED
      BY <1>1, <1>2, <2>1, <3>1, <3>2, <3>3, <3>4 DEF Covering, Landed, Noted, OneBuild, Busy
  <2>4. QED BY <1>1, <2>1, <2>2, <2>3 DEF RosterInv, Calm
<1>3. CASE RosterFile!Replace(w) /\ mtime' = mtime + 1 /\ noting' = noting \cup {w} /\ UNCHANGED <<running, build>>
  <2>1. rosterWrites' = rosterWrites \ {w} /\ roster' = w.value
    BY <1>3 DEF RosterFile!Replace
  <2>2. UnderWay' = UnderWay
    BY <1>3, <2>1 DEF UnderWay
  <2>3. RosterTypes'
    <3>1. mtime' \in Nat /\ mtime' > 0 /\ cache'.mtime <= mtime'
      BY <1>1, <1>3 DEF RosterTypes
    <3>2. QED BY <1>1, <1>3, <2>1, <2>2, <3>1 DEF RosterTypes
  <2>4. ASSUME Calm PROVE Covering' /\ (roster # Missing => roster \subseteq roster')
    <3>1. Covering
      BY <2>4 DEF RosterInv
    <3>2. \A v \in UnderWay : v.value = w.value
      BY <1>1, <3>1 DEF Covering, OneValue
    <3>3. Landed' /\ Growing'
      BY <1>3, <2>1, <3>2 DEF Landed, Growing, UnderWay
    <3>4. Noted'
      <4>1. cache'.mtime # mtime'
        BY <1>1, <1>3 DEF RosterTypes
      <4>2. QED BY <4>1 DEF Noted
    <3>5. SeedingFrom'
      BY <1>1, <1>3, <2>2, <3>1 DEF Covering, SeedingFrom
    <3>6. ScanningFrom'
      BY <1>3, <2>1, <3>1 DEF Covering, ScanningFrom
    <3>7. roster # Missing => roster \subseteq roster'
      BY <2>1, <3>1 DEF Covering, Growing
    <3>8. QED
      BY <1>3, <2>2, <3>1, <3>3, <3>4, <3>5, <3>6, <3>7 DEF Covering, OneValue, OneBuild, Busy
  <2>5. QED BY <1>1, <2>3, <2>4 DEF RosterInv, Calm
<1>4. CASE RosterFile!GiveUp(w) /\ Ended(w) /\ UNCHANGED <<noting, mtime>>
  <2>1. rosterWrites' = rosterWrites \ {w} /\ roster' = roster
    BY <1>4 DEF RosterFile!GiveUp
  <2>2. build' \in [Builds -> BuildType] /\ \A b \in Builds : build'[b] = build[b] \/ build'[b].stage = "over"
    BY <1>1, <1>4, EndsOrStays
  <2>3. RosterTypes'
    BY <1>1, <1>4, <2>1, <2>2 DEF RosterTypes, UnderWay
  <2>4. ASSUME Calm PROVE Covering'
    <3>1. Covering
      BY <2>4 DEF RosterInv
    <3>2. OneBuild' /\ ScanningFrom'
      BY <2>1, <2>2, <3>1 DEF Covering, OneBuild, Busy, ScanningFrom
    <3>3. SeedingFrom'
      BY <1>1, <1>4, <2>1, <2>2, <3>1 DEF Covering, SeedingFrom, UnderWay
    <3>4. QED
      BY <1>1, <1>4, <2>1, <3>1, <3>2, <3>3 DEF Covering, OneValue, Landed, Noted, Growing, UnderWay
  <2>5. QED BY <1>1, <2>1, <2>3, <2>4 DEF RosterInv, Calm
<1>5. QED BY <1>2, <1>3, <1>4 DEF StoreRoster

\* A write that landed becomes the copy in memory.
LEMMA RosterNote ==
    ASSUME RosterInv, NEW w \in noting, NoteRoster(w)
    PROVE  RosterInv'
<1>1. /\ RosterTypes /\ w \in UnderWay /\ w.value \in SUBSET AllDays
      /\ UNCHANGED <<roster, rosterWrites, mtime, met, unread>>
      /\ noting' = noting \ {w}
      /\ cache' = [mtime |-> mtime, days |-> w.value]
  BY DEF RosterInv, RosterTypes, UnderWay, NoteRoster
<1>2. build' \in [Builds -> BuildType] /\ \A b \in Builds : build'[b] = build[b] \/ build'[b].stage = "over"
  BY <1>1, EndsOrStays DEF NoteRoster
<1>3. RosterTypes'
  BY <1>1, <1>2 DEF RosterTypes, UnderWay
<1>4. ASSUME Calm PROVE Covering'
  <2>1. Covering /\ roster = w.value
    BY <1>4 DEF RosterInv, Covering, Landed
  <2>2. Noted'
    BY <1>1, <2>1 DEF Noted
  <2>3. OneBuild' /\ ScanningFrom'
    BY <1>1, <1>2, <2>1 DEF Covering, OneBuild, Busy, ScanningFrom
  <2>4. SeedingFrom'
    BY <1>1, <1>2, <2>1 DEF Covering, SeedingFrom, UnderWay
  <2>5. QED
    BY <1>1, <2>1, <2>2, <2>3, <2>4 DEF Covering, OneValue, Landed, Growing, UnderWay
<1>5. QED BY <1>1, <1>3, <1>4 DEF RosterInv, Calm

\* Every step of the roster keeps its invariant and the days of the file.
LEMMA RosterSteps ==
    RosterInv /\ (RosterNext \/ RosterRestart \/ UNCHANGED rvars)
        => RosterInv' /\ ((roster # Missing /\ ~met /\ ~unread) => roster \subseteq roster')
<1> SUFFICES ASSUME RosterInv, RosterNext \/ RosterRestart \/ UNCHANGED rvars
             PROVE  RosterInv' /\ ((roster # Missing /\ Calm) => roster \subseteq roster')
  BY DEF Calm
<1>1. ASSUME NEW b \in Builds, NEW range \in Ranges, AskBuild(b, range)
      PROVE  RosterInv' /\ roster' = roster
  BY <1>1, RosterAsk DEF AskBuild
<1>2. ASSUME NEW b \in Builds, BeginBuild(b, TRUE) \/ BeginBuild(b, FALSE)
      PROVE  RosterInv' /\ roster' = roster
  <2>1. TRUE \in BOOLEAN /\ FALSE \in BOOLEAN
    OBVIOUS
  <2>2. roster' = roster
    BY <1>2 DEF BeginBuild
  <2>3. CASE BeginBuild(b, TRUE)
    BY <2>1, <2>2, <2>3, RosterBegin
  <2>4. CASE BeginBuild(b, FALSE)
    BY <2>1, <2>2, <2>4, RosterBegin
  <2>5. QED BY <1>2, <2>3, <2>4
<1>3. ASSUME NEW b \in Builds, SeedBuild(b) PROVE RosterInv' /\ roster' = roster
  BY <1>3, RosterSeed DEF SeedBuild
<1>4. ASSUME NEW b \in Builds, FinishBuild(b) PROVE RosterInv' /\ roster' = roster
  BY <1>4, RosterFinish DEF FinishBuild
<1>5. ASSUME NEW b \in Builds, NEW d \in build[b].want, ScanDay(b, d, TRUE) \/ ScanDay(b, d, FALSE)
      PROVE  RosterInv' /\ roster' = roster
  <2>1. TRUE \in BOOLEAN /\ FALSE \in BOOLEAN
    OBVIOUS
  <2>2. roster' = roster
    BY <1>5 DEF ScanDay, RosterFile!Begin
  <2>3. CASE ScanDay(b, d, TRUE)
    BY <2>1, <2>2, <2>3, RosterScan
  <2>4. CASE ScanDay(b, d, FALSE)
    BY <2>1, <2>2, <2>4, RosterScan
  <2>5. QED BY <1>5, <2>3, <2>4
<1>6. ASSUME NEW w \in noting, NoteRoster(w) PROVE RosterInv' /\ roster' = roster
  BY <1>6, RosterNote DEF NoteRoster
<1>7. CASE RosterRestart
  <2>1. /\ rosterWrites' = {} /\ noting' = {} /\ cache' = NoCache
        /\ UNCHANGED <<roster, mtime, met, unread>>
        /\ build' = [b \in Builds |-> IF build[b].stage = "idle" THEN NoBuild ELSE Over]
    BY <1>7 DEF RosterRestart, RosterFile!Abandon
  <2>2. /\ NoBuild \in BuildType /\ NoBuild.stage = "idle" /\ Over \in BuildType /\ Over.stage = "over"
        /\ NoCache \in [mtime : Nat, days : SUBSET AllDays] /\ NoCache.mtime = 0
    BY DEF NoBuild, Over, BuildType, NoCache
  <2>3. build' \in [Builds -> BuildType] /\ \A b \in Builds : build'[b].stage \in {"idle", "over"}
    BY <2>1, <2>2
  <2>4. RosterTypes'
    BY <2>1, <2>2, <2>3 DEF RosterInv, RosterTypes, UnderWay
  <2>5. Covering'
    BY <2>1, <2>2, <2>3 DEF RosterInv, RosterTypes, Covering, OneValue, Landed, Noted, Growing,
                            OneBuild, Busy, SeedingFrom, ScanningFrom, UnderWay
  <2>6. QED BY <2>1, <2>4, <2>5 DEF RosterInv
<1>8. CASE UNCHANGED rvars
  <2>1. RosterTypes' /\ (Calm' => Calm)
    BY <1>8 DEF rvars, RosterInv, RosterTypes, UnderWay, Calm
  <2>2. Covering => Covering'
    BY <1>8 DEF rvars, Covering, OneValue, Landed, Noted, Growing, OneBuild, Busy,
                SeedingFrom, ScanningFrom, UnderWay
  <2>3. QED BY <1>8, <2>1, <2>2 DEF RosterInv, rvars
<1>9. QED
  <2>1. CASE RosterNext
    BY <1>1, <1>2, <1>3, <1>4, <1>5, <1>6, <2>1, RosterStore DEF RosterNext
  <2>2. QED BY <1>7, <1>8, <2>1 DEF RosterRestart, RosterFile!Abandon, rvars

\* The file that buildRoster() writes at checkpoints and at the end never covers
\* fewer days, unless builds or writes of different days met or a read failed.
THEOREM RosterGrows == Spec => CoverageKept
<1>1. Init => RosterInv
  <2> SUFFICES ASSUME Init PROVE RosterInv
    OBVIOUS
  <2>1. /\ NoBuild \in BuildType /\ NoBuild.stage = "idle"
        /\ NoCache \in [mtime : Nat, days : SUBSET AllDays] /\ NoCache.mtime = 0
    BY DEF NoBuild, BuildType, NoCache
  <2>2. RosterTypes
    BY <2>1 DEF Init, RosterInit, RosterTypes, UnderWay
  <2>3. Covering
    BY <2>1 DEF Init, RosterInit, Covering, OneValue, Landed, Noted, Growing, OneBuild, Busy,
                SeedingFrom, ScanningFrom, UnderWay
  <2>4. QED BY <2>2, <2>3 DEF RosterInv
<1>2. RosterInv /\ [Next]_vars => RosterInv'
  BY Steps, RosterSteps
<1>3. RosterInv /\ [Next]_vars => [(roster # Missing /\ ~met /\ ~unread) => roster \subseteq roster']_rvars
  BY Steps, RosterSteps
<1>4. QED BY <1>1, <1>2, <1>3, PTL DEF Spec, CoverageKept

-----------------------------------------------------------------------------
\* A bounded set of numbers has a greatest one.
LEMMA Greatest ==
    ASSUME NEW S \in SUBSET Nat, S # {}, NEW top \in Nat, \A n \in S : n <= top
    PROVE  \E m \in S : \A n \in S : n <= m
<1> DEFINE T == {top - n : n \in S}
<1>1. T \subseteq Nat /\ T # {}
  <2>1. ASSUME NEW n \in S PROVE top - n \in Nat
    <3>1. n \in Nat /\ n <= top
      OBVIOUS
    <3>2. QED BY <3>1
  <2>2. QED BY <2>1
<1> HIDE DEF T
<1>2. PICK x \in T : \A y \in T : ~(<<y, x>> \in OpToRel(<, Nat))
  BY <1>1, NatLessThanWellFounded, WFMin
<1>3. ASSUME NEW y \in T PROVE ~(y < x)
  BY <1>1, <1>2, <1>3 DEF OpToRel
<1>4. PICK m \in S : x = top - m
  BY DEF T
<1>5. ASSUME NEW n \in S PROVE n <= m
  <2>1. top - n \in T
    BY DEF T
  <2>2. ~(top - n < x)
    BY <1>3, <2>1
  <2>3. n \in Nat /\ m \in Nat /\ top \in Nat
    OBVIOUS
  <2>4. QED BY <1>4, <2>2, <2>3
<1>6. QED BY <1>5

\* A row of this life, and one that an earlier life has left in the file: its
\* number is behind this life's, or some life since then could not read the file.
Fresh(r) == r \in Nat \X Nat /\ r[1] = life /\ base < r[2] /\ r[2] <= seq
Old(r) ==
    /\ r \in Nat \X Nat /\ r[1] < life
    /\ r[2] <= base \/ \E l \in blindLives : r[1] < l /\ l <= life

LogTypes ==
    /\ life \in Nat /\ base \in Nat /\ seq \in Nat /\ base <= seq
    /\ flush = [f \in Flushers |-> flush[f]]
    /\ \A f \in Flushers :
          /\ flush[f] = [stage |-> flush[f].stage, batch |-> flush[f].batch, seen |-> flush[f].seen]
          /\ flush[f].stage = "idle" => flush[f].batch = {}
          /\ \A r \in flush[f].batch : Fresh(r)
    /\ \A r \in pending : Fresh(r)
    /\ \A r \in logFile : Fresh(r) \/ Old(r)
    /\ Part \notin logFile
    /\ \E top \in Nat : \A r \in logFile : r[2] <= top

LogInv == LogTypes /\ LogKept

\* A new row has a number that no row of this life has.
LEMMA LogPush == LogInv /\ Push => LogInv'
<1> SUFFICES ASSUME LogInv, Push PROVE LogInv'
  OBVIOUS
<1> DEFINE x == <<life, seq + 1>>
<1>1. /\ seq' = seq + 1 /\ pending' = pending \cup {x} /\ numbered' = numbered \cup {x}
      /\ UNCHANGED <<life, base, flush, logFile, junk, refused, cutOff, blindLives>>
  BY DEF Push
<1>2. x \in Nat \X Nat /\ x[1] = life /\ x[2] = seq + 1 /\ seq \in Nat /\ base \in Nat /\ base <= seq
      /\ life \in Nat
  BY DEF LogInv, LogTypes
<1>3. \A r : (Fresh(r) => Fresh(r)' /\ r # x) /\ (Old(r) => Old(r)' /\ r # x)
  BY <1>1, <1>2 DEF Fresh, Old
<1>4. \A r : r = x => Fresh(r)'
  BY <1>1, <1>2 DEF Fresh
<1>5. LogTypes'
  <2>1. \A r \in pending' : Fresh(r)'
    BY <1>1, <1>3, <1>4 DEF LogInv, LogTypes
  <2>2. (\A r \in logFile' : Fresh(r)' \/ Old(r)') /\ (Part \notin logFile)'
    BY <1>1, <1>3 DEF LogInv, LogTypes, Part
  <2>3. \A h \in Flushers : \A r \in flush[h].batch : Fresh(r)'
    BY <1>3 DEF LogInv, LogTypes
  <2>4. (\E top \in Nat : \A r \in logFile : r[2] <= top)'
    BY <1>1 DEF LogInv, LogTypes
  <2>5. QED BY <1>1, <1>2, <2>1, <2>2, <2>3, <2>4 DEF LogInv, LogTypes
<1>6. Batched' = Batched
  BY <1>1 DEF Batched
<1>7. x \notin Batched /\ x \notin logFile
  BY <1>3 DEF Batched, LogInv, LogTypes
<1> HIDE DEF x
<1>8. Accounted'
  BY <1>1, <1>6 DEF LogInv, LogKept, Accounted
<1>9. NeverTwice'
  BY <1>1, <1>6, <1>7 DEF LogInv, LogKept, NeverTwice
<1>10. NumbersUnique'
  BY <1>1 DEF LogInv, LogKept, NumbersUnique
<1>11. QED BY <1>5, <1>8, <1>9, <1>10 DEF LogInv, LogKept

\* A file to which rows of this life were added shares numbers only as allowed.
LEMMA LogNumbers ==
    ASSUME LogInv, NEW file, \A r \in file : Fresh(r) \/ r \in logFile,
           NEW r \in file, NEW q \in file, r[2] = q[2], r[1] < q[1]
    PROVE  \E l \in blindLives : r[1] < l /\ l <= q[1]
<1>1. (Fresh(r) \/ (Old(r) /\ r \in logFile)) /\ (Fresh(q) \/ (Old(q) /\ q \in logFile))
  BY DEF LogInv, LogTypes
<1>2. life \in Nat /\ base \in Nat
  BY DEF LogInv, LogTypes
<1>3. CASE r \in logFile /\ q \in logFile
  BY <1>3 DEF LogInv, LogKept, NumbersUnique
<1>4. CASE Fresh(r)
  BY <1>1, <1>2, <1>4 DEF Fresh, Old
<1>5. CASE Old(r) /\ Fresh(q)
  BY <1>2, <1>5 DEF Fresh, Old
<1>6. QED BY <1>1, <1>3, <1>4, <1>5

\* Its numbers are bounded, too.
LEMMA LogBounded ==
    ASSUME LogInv, NEW file, \A r \in file : Fresh(r) \/ r \in logFile
    PROVE  \E top \in Nat : \A r \in file : r[2] <= top
<1>1. PICK top \in Nat : \A r \in logFile : r[2] <= top
  BY DEF LogInv, LogTypes
<1>2. seq \in Nat /\ \A r \in logFile : r[2] \in Nat
  BY DEF LogInv, LogTypes, Fresh, Old
<1>3. \A r \in file : r[2] \in Nat /\ (r[2] <= seq \/ r[2] <= top)
  BY <1>1, <1>2 DEF Fresh
<1>4. seq + top \in Nat /\ \A r \in file : r[2] <= seq + top
  BY <1>2, <1>3
<1>5. QED BY <1>4

\* An append puts rows of its batch into the file; every other row stays in it,
\* readable or not.
LEMMA LogAppends ==
    ASSUME LogInv, NEW batch, \A r \in batch : Fresh(r),
           NEW rows \in SUBSET batch, NEW end \in Ends(batch),
           Appended(rows, end) \/ (rows = {} /\ end = {} /\ UNCHANGED <<logFile, junk>>)
    PROVE  /\ logFile' \subseteq logFile \cup batch
           /\ Part \notin logFile'
           /\ logFile \cup junk \cup rows \cup (end \ {Part}) \subseteq logFile' \cup junk'
<1>1. Part \notin logFile /\ Part \notin batch
  <2>1. Part[2] = 0 /\ base \in Nat
    BY DEF Part, LogInv, LogTypes
  <2>2. \A r : Fresh(r) => r # Part
    BY <2>1 DEF Fresh
  <2>3. QED BY <2>2 DEF LogInv, LogTypes
<1>2. end \ {Part} \subseteq batch
  BY DEF Ends
<1>3. CASE Appended(rows, end)
  <2>1. PICK joined : /\ logFile' = (logFile \cup rows \cup end) \ (joined \cup {Part})
                      /\ junk' = junk \cup (joined \ {Part})
    BY <1>3 DEF Appended
  <2>2. QED BY <1>1, <1>2, <2>1
<1>4. CASE rows = {} /\ end = {} /\ UNCHANGED <<logFile, junk>>
  BY <1>1, <1>4
<1>5. QED BY <1>3, <1>4

\* An append that fails refuses the rest of its batch.
LEMMA LogFails ==
    ASSUME LogInv, NEW batch, \A r \in batch : Fresh(r),
           NEW rows \in SUBSET batch, NEW end \in Ends(batch), Fails(batch, rows, end)
    PROVE  /\ logFile' \subseteq logFile \cup batch
           /\ Part \notin logFile'
           /\ logFile \cup junk \cup refused \cup batch \subseteq logFile' \cup junk' \cup refused'
<1>1. Appended(rows, end) \/ (rows = {} /\ end = {} /\ UNCHANGED <<logFile, junk>>)
  BY DEF Fails
<1>2. /\ logFile' \subseteq logFile \cup batch
      /\ Part \notin logFile'
      /\ logFile \cup junk \cup rows \cup (end \ {Part}) \subseteq logFile' \cup junk'
  BY <1>1, LogAppends
<1>3. refused' = refused \cup (batch \ (rows \cup end))
  BY DEF Fails
<1>4. Part \notin batch
  BY DEF Part, Fresh, LogInv, LogTypes
<1>5. QED BY <1>2, <1>3, <1>4

\* The same for an append that gets through.
LEMMA LogWhole ==
    ASSUME LogInv, NEW batch, \A r \in batch : Fresh(r), Appended(batch, {}), UNCHANGED refused
    PROVE  /\ logFile' \subseteq logFile \cup batch
           /\ Part \notin logFile'
           /\ logFile \cup junk \cup refused \cup batch \subseteq logFile' \cup junk' \cup refused'
<1>1. {} \in Ends(batch) /\ batch \in SUBSET batch
  BY DEF Ends
<1>2. /\ logFile' \subseteq logFile \cup batch
      /\ Part \notin logFile'
      /\ logFile \cup junk \cup batch \subseteq logFile' \cup junk'
  BY <1>1, LogAppends
<1>3. QED BY <1>2

\* A flush goes on: its rows stay with it, or reach the file or are refused.
LEMMA LogFlushes ==
    ASSUME LogInv, NEW f \in Flushers, NEW g,
           flush' = [h \in Flushers |-> IF h = f THEN g ELSE flush[h]],
           g = [stage |-> g.stage, batch |-> g.batch, seen |-> g.seen],
           g.stage = "idle" => g.batch = {},
           UNCHANGED <<life, seq, base, numbered, cutOff, blindLives>>,
           \/ g.batch = flush[f].batch /\ UNCHANGED <<pending, logFile, junk, refused>>
           \/ /\ g.batch = {} /\ pending' = pending
              /\ logFile' \subseteq logFile \cup flush[f].batch
              /\ Part \notin logFile'
              /\ logFile \cup junk \cup refused \cup flush[f].batch \subseteq logFile' \cup junk' \cup refused'
           \/ /\ flush[f].stage = "idle" /\ g.batch = pending /\ pending' = {}
              /\ UNCHANGED <<logFile, junk, refused>>
    PROVE  LogInv'
<1>1. \A h \in Flushers : flush'[h] = IF h = f THEN g ELSE flush[h]
  OBVIOUS
<1>2. \A r : (Fresh(r) <=> Fresh(r)') /\ (Old(r) <=> Old(r)')
  BY DEF Fresh, Old
<1>3. \A r \in logFile' : r \in logFile \cup flush[f].batch
  OBVIOUS
<1>4. LogTypes'
  <2>1. flush' = [h \in Flushers |-> flush'[h]]
    OBVIOUS
  <2>2. ASSUME NEW h \in Flushers
        PROVE  /\ flush'[h] = [stage |-> flush'[h].stage, batch |-> flush'[h].batch, seen |-> flush'[h].seen]
               /\ flush'[h].stage = "idle" => flush'[h].batch = {}
               /\ \A r \in flush'[h].batch : Fresh(r)'
    BY <1>1, <1>2 DEF LogInv, LogTypes
  <2>3. \A r \in pending' : Fresh(r)'
    BY <1>2 DEF LogInv, LogTypes
  <2>4. \A r \in logFile' : Fresh(r)' \/ Old(r)'
    BY <1>2, <1>3 DEF LogInv, LogTypes
  <2>5. (Part \notin logFile)'
    BY DEF LogInv, LogTypes, Part
  <2>6. (\E top \in Nat : \A r \in logFile : r[2] <= top)'
    <3>1. \A r \in logFile' : Fresh(r) \/ r \in logFile
      BY <1>3 DEF LogInv, LogTypes
    <3>2. QED BY <3>1, LogBounded
  <2>7. QED BY <2>1, <2>2, <2>3, <2>4, <2>5, <2>6 DEF LogInv, LogTypes
<1>5. \A r : r \in Batched' <=> (r \in g.batch \/ \E h \in Flushers : h # f /\ r \in flush[h].batch)
  BY <1>1 DEF Batched
<1>6. \A r : r \in Batched <=> (r \in flush[f].batch \/ \E h \in Flushers : h # f /\ r \in flush[h].batch)
  BY DEF Batched
<1>7. flush[f].stage = "idle" => flush[f].batch = {}
  BY DEF LogInv, LogTypes
<1>8. \A r : r \in pending \cup Batched \cup logFile \cup junk \cup refused
                 => r \in pending' \cup Batched' \cup logFile' \cup junk' \cup refused'
  BY <1>5, <1>6, <1>7
<1>9. Accounted'
  BY <1>8 DEF LogInv, LogKept, Accounted
<1>10. NeverTwice'
  <2>1. ASSUME NEW h \in Flushers, NEW k \in Flushers, h # k
        PROVE  flush'[h].batch \cap flush'[k].batch = {}
    <3>1. flush[h].batch \cap flush[k].batch = {} /\ pending \cap Batched = {}
      BY <2>1 DEF LogInv, LogKept, NeverTwice
    <3>2. pending \cap flush[h].batch = {} /\ pending \cap flush[k].batch = {}
      BY <3>1 DEF Batched
    <3>3. QED BY <1>1, <2>1, <3>1, <3>2
  <2>2. \A h \in Flushers : h # f => flush[f].batch \cap flush[h].batch = {}
    BY DEF LogInv, LogKept, NeverTwice
  <2>3. pending \cap Batched = {} /\ pending \cap logFile = {} /\ Batched \cap logFile = {}
    BY DEF LogInv, LogKept, NeverTwice
  <2>4. pending' \cap Batched' = {} /\ pending' \cap logFile' = {} /\ Batched' \cap logFile' = {}
    BY <1>3, <1>5, <1>6, <2>2, <2>3
  <2>5. QED BY <2>1, <2>4 DEF NeverTwice
<1>11. NumbersUnique'
  <2>1. \A r \in logFile' : Fresh(r) \/ r \in logFile
    BY <1>3 DEF LogInv, LogTypes
  <2>2. \A r, q \in logFile' : r[2] = q[2] /\ r[1] < q[1]
                                  => \E l \in blindLives : r[1] < l /\ l <= q[1]
    BY <2>1, LogNumbers
  <2>3. QED BY <2>2 DEF NumbersUnique
<1>12. QED BY <1>4, <1>9, <1>10, <1>11 DEF LogInv, LogKept

\* A new life goes on from the greatest number in the file, or has not read it.
LEMMA LogLives ==
    ASSUME LogInv, NewLife, logFile' \subseteq logFile \cup pending, Part \notin logFile',
           numbered \subseteq logFile' \cup junk' \cup refused' \cup cutOff'
    PROVE  LogInv'
<1>1. /\ life' = life + 1 /\ base' = seq' /\ Restore /\ numbered' = numbered
      /\ pending' = {} /\ flush' = [f \in Flushers |-> NoFlush]
  BY DEF NewLife
<1>2. \A r \in logFile' : Fresh(r) \/ r \in logFile
  BY DEF LogInv, LogTypes
<1>3. life \in Nat /\ seq \in Nat /\ base \in Nat /\ base <= seq
  BY DEF LogInv, LogTypes
<1>4. \A r \in logFile' : r \in Nat \X Nat /\ r[1] <= life /\ r[2] \in Nat
  <2>1. \A r \in logFile' : Fresh(r) \/ Old(r)
    BY <1>2 DEF LogInv, LogTypes
  <2>2. QED BY <1>3, <2>1 DEF Fresh, Old
<1>5. Restored(logFile') \in Nat /\ \A r \in logFile' : r[2] <= Restored(logFile')
  <2>1. CASE logFile' = {}
    BY <2>1 DEF Restored
  <2>2. CASE logFile' # {}
    <3> DEFINE S == {r[2] : r \in logFile'}
    <3>1. S \in SUBSET Nat /\ S # {}
      BY <1>4, <2>2
    <3>2. PICK m \in S : \A n \in S : n <= m
      <4>1. PICK top \in Nat : \A n \in S : n <= top
        BY <1>2, LogBounded
      <4> HIDE DEF S
      <4>2. QED BY <3>1, <4>1, Greatest
    <3>3. \A r \in logFile' : r[2] <= m
      BY <3>2
    <3>4. Restored(logFile') = CHOOSE n \in S : \A r \in logFile' : r[2] <= n
      BY <2>2 DEF Restored
    <3> HIDE DEF S
    <3>5. Restored(logFile') \in S /\ \A r \in logFile' : r[2] <= Restored(logFile')
      BY <3>2, <3>3, <3>4
    <3>6. QED BY <3>1, <3>5
  <2>3. QED BY <2>1, <2>2
<1>6. /\ seq' \in Nat /\ blindLives \subseteq blindLives'
      /\ \/ \A r \in logFile' : r[2] <= seq'
         \/ life' \in blindLives'
  BY <1>1, <1>5 DEF Restore
<1>7. \A r \in logFile' : Old(r)'
  <2>1. ASSUME NEW r \in logFile' PROVE r \in Nat \X Nat /\ r[1] < life' /\ r[1] < life + 1 /\ life' <= life'
    BY <1>1, <1>3, <1>4
  <2>2. QED BY <1>1, <1>6, <2>1 DEF Old
<1>8. LogTypes'
  <2>1. (Part \notin logFile)'
    BY DEF Part
  <2>2. (\E top \in Nat : \A r \in logFile : r[2] <= top)'
    BY <1>5
  <2>3. QED BY <1>1, <1>3, <1>6, <1>7, <2>1, <2>2 DEF LogTypes, NoFlush
<1>9. Batched' = {}
  BY <1>1 DEF Batched, NoFlush
<1>10. Accounted'
  BY <1>1 DEF Accounted
<1>11. NeverTwice'
  BY <1>1, <1>9 DEF NeverTwice, NoFlush
<1>12. NumbersUnique'
  <2>1. \A r, q \in logFile' : r[2] = q[2] /\ r[1] < q[1]
                                  => \E l \in blindLives : r[1] < l /\ l <= q[1]
    BY <1>2, LogNumbers
  <2>2. QED BY <1>6, <2>1 DEF NumbersUnique
<1>13. QED BY <1>8, <1>10, <1>11, <1>12 DEF LogInv, LogKept

\* A record with two fields changed.
LEMMA StageBatch ==
    ASSUME NEW h, h = [stage |-> h.stage, batch |-> h.batch, seen |-> h.seen],
           NEW stage, NEW batch, NEW g, g = [h EXCEPT !.stage = stage, !.batch = batch]
    PROVE  g = [stage |-> stage, batch |-> batch, seen |-> h.seen]
<1>1. PICK k : k = [h EXCEPT !.stage = stage]
  OBVIOUS
<1>2. k = [stage |-> stage, batch |-> h.batch, seen |-> h.seen] /\ g = [k EXCEPT !.batch = batch]
  BY <1>1
<1>3. QED BY <1>2

\* The same for another field.
LEMMA StageSeen ==
    ASSUME NEW h, h = [stage |-> h.stage, batch |-> h.batch, seen |-> h.seen],
           NEW stage, NEW seen, NEW g, g = [h EXCEPT !.stage = stage, !.seen = seen]
    PROVE  g = [stage |-> stage, batch |-> h.batch, seen |-> seen]
<1>1. PICK k : k = [h EXCEPT !.stage = stage]
  OBVIOUS
<1>2. k = [stage |-> stage, batch |-> h.batch, seen |-> h.seen] /\ g = [k EXCEPT !.seen = seen]
  BY <1>1
<1>3. QED BY <1>2

\* Every step of the data log keeps its invariant.
LEMMA LogSteps == LogInv /\ (LogNext \/ LogStop \/ LogCrash \/ UNCHANGED lvars) => LogInv'
<1> SUFFICES ASSUME LogInv, LogNext \/ LogStop \/ LogCrash \/ UNCHANGED lvars PROVE LogInv'
  OBVIOUS
<1>1. NoFlush = [stage |-> NoFlush.stage, batch |-> NoFlush.batch, seen |-> NoFlush.seen]
      /\ NoFlush.batch = {} /\ NoFlush.stage = "idle"
  BY DEF NoFlush
<1>2. flush = [f \in Flushers |-> flush[f]]
      /\ \A f \in Flushers :
            /\ flush[f] = [stage |-> flush[f].stage, batch |-> flush[f].batch, seen |-> flush[f].seen]
            /\ \A r \in flush[f].batch : Fresh(r)
  BY DEF LogInv, LogTypes
<1>3. ASSUME NEW f \in Flushers, NEW g, flush' = [flush EXCEPT ![f] = g]
      PROVE  flush' = [h \in Flushers |-> IF h = f THEN g ELSE flush[h]]
  BY <1>2, <1>3
<1>4. ASSUME NEW f \in Flushers, FlushBegin(f) PROVE LogInv'
  <2> DEFINE g == [NoFlush EXCEPT !.stage = "mkdir", !.batch = pending]
  <2>1. g = [stage |-> "mkdir", batch |-> pending, seen |-> NoFlush.seen]
    <3>1. g = [NoFlush EXCEPT !.stage = "mkdir", !.batch = pending]
      OBVIOUS
    <3>2. NoFlush = [stage |-> NoFlush.stage, batch |-> NoFlush.batch, seen |-> NoFlush.seen]
      BY <1>1
    <3> HIDE DEF g
    <3>3. QED BY <3>1, <3>2, StageBatch
  <2>2. /\ flush' = [flush EXCEPT ![f] = g] /\ flush[f].stage = "idle" /\ pending' = {}
        /\ UNCHANGED <<life, seq, base, logFile, junk, refused, numbered, cutOff, blindLives>>
    BY <1>4 DEF FlushBegin
  <2> HIDE DEF g
  <2>3. g = [stage |-> g.stage, batch |-> g.batch, seen |-> g.seen] /\ g.batch = pending /\ g.stage = "mkdir"
    BY <2>1
  <2>4. flush' = [h \in Flushers |-> IF h = f THEN g ELSE flush[h]]
    BY <1>3, <2>2
  <2>5. QED BY <2>2, <2>3, <2>4, LogFlushes
<1>5. ASSUME NEW f \in Flushers, FlushDrop(f) PROVE LogInv'
  <2>1. /\ flush' = [flush EXCEPT ![f] = NoFlush] /\ refused' = refused \cup flush[f].batch
        /\ UNCHANGED <<life, seq, base, pending, logFile, junk, numbered, cutOff, blindLives>>
    BY <1>5 DEF FlushDrop
  <2>2. Part \notin logFile'
    BY <2>1 DEF LogInv, LogTypes
  <2>3. flush' = [h \in Flushers |-> IF h = f THEN NoFlush ELSE flush[h]]
    BY <1>3, <2>1
  <2>4. QED BY <1>1, <2>1, <2>2, <2>3, LogFlushes
<1>6. ASSUME NEW f \in Flushers, NEW known, Decide(f, known) PROVE LogInv'
  <2> DEFINE fits == known + Cardinality(flush[f].batch) <= FileCap
             g == [stage |-> "appending", batch |-> IF fits THEN flush[f].batch ELSE {}, seen |-> flush[f].seen]
  <2>1. flush' = [h \in Flushers |-> IF h = f THEN g ELSE flush[h]]
    <3> DEFINE k == [flush[f] EXCEPT !.stage = "appending", !.batch = IF fits THEN flush[f].batch ELSE {}]
    <3>1. flush' = [flush EXCEPT ![f] = k]
      BY <1>2, <1>6 DEF Decide
    <3>2. k = [flush[f] EXCEPT !.stage = "appending", !.batch = IF fits THEN flush[f].batch ELSE {}]
      OBVIOUS
    <3>3. flush[f] = [stage |-> flush[f].stage, batch |-> flush[f].batch, seen |-> flush[f].seen]
      BY <1>2
    <3> HIDE DEF k
    <3>4. k = g
      BY <3>2, <3>3, StageBatch
    <3> HIDE DEF g
    <3>5. QED BY <1>3, <3>1, <3>4
  <2>2. /\ refused' = IF fits THEN refused ELSE refused \cup flush[f].batch
        /\ UNCHANGED <<life, seq, base, pending, logFile, junk, numbered, cutOff, blindLives>>
    BY <1>6 DEF Decide
  <2>3. g = [stage |-> g.stage, batch |-> g.batch, seen |-> g.seen] /\ g.stage = "appending"
        /\ g.batch = IF fits THEN flush[f].batch ELSE {}
    OBVIOUS
  <2>4. Part \notin logFile'
    BY <2>2 DEF LogInv, LogTypes
  <2> HIDE DEF g
  <2>5. CASE fits
    BY <2>1, <2>2, <2>3, <2>5, LogFlushes
  <2>6. CASE ~fits
    <3>1. refused' = refused \cup flush[f].batch /\ g.batch = {}
      BY <2>2, <2>3, <2>6
    <3> HIDE DEF fits
    <3>2. QED BY <2>1, <2>2, <2>3, <2>4, <3>1, LogFlushes
  <2>7. QED BY <2>5, <2>6
<1>7. ASSUME NEW f \in Flushers, FlushSized(f) PROVE LogInv'
  <2>1. CASE Decide(f, size)
    BY <1>6, <2>1
  <2>2. CASE /\ \E seen \in {0, Cardinality(Lines)} :
                    flush' = [flush EXCEPT ![f] = [@ EXCEPT !.stage = "stat", !.seen = seen]]
             /\ UNCHANGED <<life, seq, base, pending, logFile, junk, tail, size, capped,
                            numbered, refused, cutOff, blindLives>>
    <3>1. PICK seen \in {0, Cardinality(Lines)} : flush' = [flush EXCEPT ![f] = [@ EXCEPT !.stage = "stat", !.seen = seen]]
      BY <2>2
    <3> DEFINE g == [stage |-> "stat", batch |-> flush[f].batch, seen |-> seen]
    <3>2. flush' = [h \in Flushers |-> IF h = f THEN g ELSE flush[h]]
      <4> DEFINE k == [flush[f] EXCEPT !.stage = "stat", !.seen = seen]
      <4>1. flush' = [flush EXCEPT ![f] = k]
        BY <1>2, <3>1
      <4>2. k = [flush[f] EXCEPT !.stage = "stat", !.seen = seen]
        OBVIOUS
      <4>3. flush[f] = [stage |-> flush[f].stage, batch |-> flush[f].batch, seen |-> flush[f].seen]
        BY <1>2
      <4> HIDE DEF k
      <4>4. k = g
        BY <4>2, <4>3, StageSeen
      <4> HIDE DEF g
      <4>5. QED BY <1>3, <4>1, <4>4
    <3>3. g = [stage |-> g.stage, batch |-> g.batch, seen |-> g.seen]
          /\ g.stage = "stat" /\ g.batch = flush[f].batch
      OBVIOUS
    <3> HIDE DEF g
    <3>4. QED BY <2>2, <3>2, <3>3, LogFlushes
  <2>3. QED BY <1>7, <2>1, <2>2 DEF FlushSized
<1>8. ASSUME NEW f \in Flushers, FlushStat(f) PROVE LogInv'
  BY <1>6, <1>8 DEF FlushStat
<1>9. ASSUME NEW f \in Flushers, FlushEnd(f) PROVE LogInv'
  <2>1. /\ flush' = [flush EXCEPT ![f] = NoFlush]
        /\ UNCHANGED <<life, seq, base, pending, numbered, cutOff, blindLives>>
    BY <1>9 DEF FlushEnd
  <2>2. /\ logFile' \subseteq logFile \cup flush[f].batch
        /\ Part \notin logFile'
        /\ logFile \cup junk \cup refused \cup flush[f].batch \subseteq logFile' \cup junk' \cup refused'
    <3>1. CASE Appended(flush[f].batch, {}) /\ UNCHANGED refused
      BY <1>2, <3>1, LogWhole
    <3>2. CASE \E rows \in SUBSET flush[f].batch, end \in Ends(flush[f].batch) : Fails(flush[f].batch, rows, end)
      BY <1>2, <3>2, LogFails
    <3>3. QED BY <1>9, <3>1, <3>2 DEF FlushEnd
  <2>3. flush' = [h \in Flushers |-> IF h = f THEN NoFlush ELSE flush[h]]
    BY <1>3, <2>1
  <2>4. QED BY <1>1, <2>1, <2>2, <2>3, LogFlushes
<1>10. CASE LogCrash
  <2>1. /\ cutOff' = cutOff \cup Batched \cup pending /\ NewLife
        /\ UNCHANGED <<logFile, junk, refused>>
    BY <1>10 DEF LogCrash
  <2>2. Part \notin logFile'
    BY <2>1 DEF LogInv, LogTypes
  <2>3. numbered \subseteq logFile' \cup junk' \cup refused' \cup cutOff'
    BY <2>1 DEF LogInv, LogKept, Accounted
  <2>4. QED BY <2>1, <2>2, <2>3, LogLives
<1>11. CASE LogStop
  <2>1. cutOff' = cutOff \cup Batched /\ NewLife /\ FlushSync
    BY <1>11 DEF LogStop
  <2>2. \A r \in pending : Fresh(r)
    BY DEF LogInv, LogTypes
  <2>3. /\ logFile' \subseteq logFile \cup pending
        /\ Part \notin logFile'
        /\ logFile \cup junk \cup refused \cup pending \subseteq logFile' \cup junk' \cup refused'
    <3>1. CASE Appended(pending, {}) /\ UNCHANGED refused
      BY <2>2, <3>1, LogWhole
    <3>2. CASE \E rows \in SUBSET pending, end \in Ends(pending) : Fails(pending, rows, end)
      BY <2>2, <3>2, LogFails
    <3>3. QED BY <2>1, <3>1, <3>2 DEF FlushSync
  <2>4. numbered \subseteq logFile' \cup junk' \cup refused' \cup cutOff'
    BY <2>1, <2>3 DEF LogInv, LogKept, Accounted
  <2>5. QED BY <2>1, <2>3, <2>4, LogLives
<1>12. CASE UNCHANGED lvars
  BY <1>12 DEF lvars, LogInv, LogTypes, LogKept, Accounted, NeverTwice, NumbersUnique, Batched, Fresh, Old, Part
<1>13. CASE LogNext
  BY <1>4, <1>5, <1>7, <1>8, <1>9, <1>13, LogPush DEF LogNext
<1>14. QED BY <1>10, <1>11, <1>12, <1>13

\* No row of any life is forgotten, except for the reasons the property names,
\* or written twice, though flushes overlap, appends are cut off and lives end;
\* and numbers repeat in the file only across a life that could not read it.
THEOREM LogSafe == Spec => []LogKept
<1>1. Init => LogInv
  <2> SUFFICES ASSUME Init PROVE LogInv
    OBVIOUS
  <2>1. /\ life = 1 /\ seq = 0 /\ base = 0 /\ pending = {} /\ logFile = {} /\ numbered = {}
        /\ flush = [f \in Flushers |-> NoFlush]
    BY DEF Init, LogInit
  <2>2. LogTypes
    BY <2>1 DEF LogTypes, NoFlush
  <2>3. LogKept
    BY <2>1 DEF LogKept, Accounted, NeverTwice, NumbersUnique, Batched, NoFlush
  <2>4. QED BY <2>2, <2>3 DEF LogInv
<1>2. LogInv /\ [Next]_vars => LogInv'
  BY Steps, LogSteps
<1>3. LogInv => LogKept
  BY DEF LogInv
<1>4. QED BY <1>1, <1>2, <1>3, PTL DEF Spec

-----------------------------------------------------------------------------
Known == samples # NoSamples

\* Samples of the file and those on their way to it lie a step apart.
Spaced == \A s, t \in picFile \cup under : s < t => t - s >= PictureStep

\* Of the samples in memory none is missing and none is later than the last.
Remembered ==
    /\ lastAt \in Nat
    /\ \A s \in samples : s \in Nat \ {0} /\ s <= lastAt
    /\ picFile \cup under \subseteq samples

\* One reads at most, while nothing is in memory, and what it has read is the file.
OneReads ==
    \A a \in Askers :
        /\ asker[a] # Idle => /\ asker[a].at \in 1..now
                              /\ ~Known
                              /\ \A b \in Askers : asker[b] # Idle => a = b
        /\ asker[a].stage = "read" => asker[a].text = picFile

PictureGood ==
    /\ now \in Nat /\ PictureStep <= now
    /\ asker = [a \in Askers |-> asker[a]]
    /\ picFile \cup under \subseteq 1..now
    /\ OneReads
    /\ Spaced
    /\ IF Known THEN Remembered ELSE under = {}

PictureInv == misread \/ PictureGood

\* A sample joins those known when a step has gone by since the last of them.
LEMMA Sampled ==
    ASSUME now \in Nat, NEW known, NEW last \in Nat, NEW second \in 1..now,
           \A s \in known : s \in Nat \ {0} /\ s <= last,
           picFile \cup under \subseteq known, Spaced,
           picFile \cup under \subseteq 1..now,
           Sample(known, last, second), UNCHANGED <<now, picFile>>
    PROVE  /\ Known' /\ Remembered' /\ Spaced'
           /\ picFile' \cup under' \subseteq 1..now'
<1>1. CASE second - last >= PictureStep
  <2>1. samples' = known \cup {second} /\ lastAt' = second /\ under' = under \cup {second}
    BY <1>1 DEF Sample
  <2>2. second \in Nat \ {0} /\ last <= second
    BY <1>1, PictureStepAssumption
  <2>3. \A s \in known : s \in Nat /\ s # 0 /\ s <= second /\ second - s >= PictureStep
    BY <1>1, <2>2, PictureStepAssumption
  <2>4. Known'
    BY <2>1, <2>2 DEF Known, NoSamples
  <2>5. Remembered'
    BY <2>1, <2>2, <2>3 DEF Remembered
  <2>6. Spaced'
    <3> SUFFICES ASSUME NEW s \in picFile \cup under \cup {second},
                        NEW t \in picFile \cup under \cup {second}, s < t
                 PROVE  t - s >= PictureStep
      BY <2>1 DEF Spaced
    <3>1. CASE s \in picFile \cup under /\ t \in picFile \cup under
      BY <3>1 DEF Spaced
    <3>2. CASE t = second /\ s \in known
      BY <2>3, <3>2
    <3>3. CASE s = second
      <4>1. t \in Nat /\ t <= second
        BY <2>2, <2>3
      <4>2. QED BY <3>3, <4>1
    <3>4. QED BY <3>1, <3>2, <3>3
  <2>7. QED BY <2>1, <2>2, <2>4, <2>5, <2>6
<1>2. CASE ~(second - last >= PictureStep)
  <2>1. samples' = known /\ lastAt' = last /\ under' = under
    BY <1>2 DEF Sample
  <2>2. Known'
    BY <2>1 DEF Known, NoSamples
  <2>3. QED BY <2>1, <2>2 DEF Remembered, Spaced
<1>3. QED BY <1>1, <1>2

\* The last of the samples read is the greatest of them.
LEMMA LastIsGreatest ==
    ASSUME NEW text, NEW top \in Nat, text \subseteq 1..top
    PROVE  LastOf(text) \in Nat /\ \A s \in text : s \in Nat \ {0} /\ s <= LastOf(text)
<1>1. CASE text = {}
  BY <1>1 DEF LastOf
<1>2. CASE text # {}
  <2>1. text \in SUBSET Nat /\ (\A n \in text : n \in Nat \ {0} /\ n <= top)
    OBVIOUS
  <2>2. \E m \in text : \A n \in text : n <= m
    BY <1>2, <2>1, Greatest
  <2>3. LastOf(text) = CHOOSE s \in text : \A t \in text : t <= s
    BY <1>2 DEF LastOf
  <2>4. LastOf(text) \in text /\ \A t \in text : t <= LastOf(text)
    BY <2>2, <2>3
  <2>5. QED BY <2>1, <2>4
<1>3. QED BY <1>1, <1>2

\* Every step of the samples keeps their invariant.
LEMMA PictureSteps ==
    PictureInv /\ (PictureNext \/ PictureRestart \/ UNCHANGED pvars) => PictureInv'
<1> SUFFICES ASSUME PictureInv, PictureNext \/ PictureRestart \/ UNCHANGED pvars PROVE PictureInv'
  OBVIOUS
<1>0. CASE misread
  BY <1>0 DEF PictureInv, PictureNext, PictureRestart, pvars, Tick, SampleKnown, AskSamples,
              ReadSamples, TakeSamples, AppendSample
<1> SUFFICES ASSUME ~misread, PictureGood PROVE PictureInv'
  BY <1>0 DEF PictureInv
<1>1. CASE Tick
  <2>1. now' = now + 1 /\ UNCHANGED <<samples, lastAt, asker, under, picFile>>
    BY <1>1 DEF Tick
  <2>2. now' \in Nat /\ PictureStep <= now' /\ (\A s \in 1..now : s \in 1..now')
    BY <2>1, PictureStepAssumption DEF PictureGood
  <2>3. (picFile \cup under \subseteq 1..now)'
    BY <2>1, <2>2 DEF PictureGood
  <2>4. QED BY <2>1, <2>2, <2>3 DEF PictureInv, PictureGood, OneReads, Spaced, Known, Remembered
<1>2. ASSUME NEW a \in Askers, SampleKnown(a) PROVE PictureInv'
  <2>1. Known /\ Sample(samples, lastAt, now) /\ UNCHANGED <<now, asker, picFile, misread>>
    BY <1>2 DEF SampleKnown, Known
  <2>2. Remembered /\ now \in 1..now
    BY <2>1, PictureStepAssumption DEF PictureGood
  <2>3. Known' /\ Remembered' /\ Spaced' /\ picFile' \cup under' \subseteq 1..now'
    BY <2>1, <2>2, Sampled DEF PictureGood, Remembered
  <2>4. OneReads'
    BY <2>1 DEF PictureGood, OneReads
  <2>5. QED BY <2>1, <2>3, <2>4 DEF PictureInv, PictureGood
<1>3. ASSUME NEW a \in Askers, AskSamples(a) PROVE PictureInv'
  <2>1. /\ ~Known /\ asker[a] = Idle
        /\ asker' = [asker EXCEPT ![a] = [stage |-> "reading", at |-> now, text |-> {}]]
        /\ misread' = (\E b \in Askers : asker[b] # Idle)
        /\ UNCHANGED <<now, samples, lastAt, under, picFile>>
    BY <1>3 DEF AskSamples, Known
  <2>2. CASE misread'
    BY <2>2 DEF PictureInv
  <2>3. CASE ~misread'
    <3>1. \A b \in Askers : b # a => asker'[b] = Idle
      BY <2>1, <2>3 DEF PictureGood
    <3>2. asker'[a].stage = "reading" /\ asker'[a].at = now /\ now \in 1..now
      BY <2>1, PictureStepAssumption DEF PictureGood
    <3>3. OneReads'
      BY <2>1, <3>1, <3>2 DEF OneReads, Known, Idle
    <3>4. QED BY <2>1, <3>3 DEF PictureInv, PictureGood, Spaced, Known, Remembered
  <2>4. QED BY <2>2, <2>3
<1>4. ASSUME NEW a \in Askers, NEW readable \in BOOLEAN, ReadSamples(a, readable) PROVE PictureInv'
  <2>1. CASE readable
    <3>1. /\ asker[a].stage = "reading"
          /\ asker' = [asker EXCEPT ![a] = [stage |-> "read", at |-> asker[a].at, text |-> picFile]]
          /\ UNCHANGED <<now, samples, lastAt, under, picFile>>
      BY <1>4, <2>1 DEF ReadSamples
    <3>2. asker[a] # Idle
      BY <3>1 DEF Idle
    <3>3. \A b \in Askers : b # a => asker[b] = Idle /\ asker'[b] = Idle
      BY <3>1, <3>2 DEF PictureGood, OneReads
    <3>4. ~Known' /\ asker'[a].text = picFile' /\ asker'[a].at \in 1..now'
      BY <3>1, <3>2 DEF PictureGood, OneReads, Known
    <3>5. OneReads'
      BY <3>3, <3>4 DEF OneReads, Idle
    <3>6. QED BY <3>1, <3>5 DEF PictureInv, PictureGood, Spaced, Known, Remembered
  <2>2. CASE ~readable
    BY <1>4, <2>2 DEF ReadSamples, PictureInv
  <2>3. QED BY <2>1, <2>2
<1>5. ASSUME NEW a \in Askers, TakeSamples(a) PROVE PictureInv'
  <2> DEFINE text == asker[a].text
  <2>1. /\ asker[a].stage = "read"
        /\ asker' = [asker EXCEPT ![a] = Idle]
        /\ UNCHANGED <<now, picFile, misread>>
    BY <1>5 DEF TakeSamples
  <2>2. asker[a] # Idle
    BY <2>1 DEF Idle
  <2>3. text = picFile /\ under = {} /\ ~Known /\ asker[a].at \in 1..now
    BY <2>1, <2>2 DEF PictureGood, OneReads
  <2>4. LastOf(text) \in Nat /\ \A s \in text : s \in Nat \ {0} /\ s <= LastOf(text)
    BY <2>3, LastIsGreatest DEF PictureGood
  <2>5. Known' /\ Remembered' /\ Spaced' /\ picFile' \cup under' \subseteq 1..now'
    <3>1. CASE a \in Rounds
      <4>1. Sample(text, LastOf(text), asker[a].at)
        BY <1>5, <3>1 DEF TakeSamples
      <4>2. QED BY <2>1, <2>3, <2>4, <4>1, Sampled DEF PictureGood
    <3>2. CASE a \notin Rounds
      <4>1. samples' = text /\ lastAt' = LastOf(text) /\ under' = under
        BY <1>5, <3>2 DEF TakeSamples
      <4>2. Known'
        BY <2>4, <4>1 DEF Known, NoSamples
      <4>3. QED BY <2>1, <2>3, <2>4, <4>1, <4>2 DEF PictureGood, Remembered, Spaced
    <3>3. QED BY <3>1, <3>2
  <2>6. \A b \in Askers : asker'[b] = Idle
    BY <2>1, <2>2 DEF PictureGood, OneReads
  <2>7. OneReads'
    BY <2>6 DEF OneReads, Idle
  <2>8. (asker = [b \in Askers |-> asker[b]])'
    BY <2>1 DEF PictureGood
  <2>9. QED BY <2>1, <2>5, <2>7, <2>8 DEF PictureInv, PictureGood
<1>6. ASSUME NEW s \in under, AppendSample(s) PROVE PictureInv'
  <2>1. /\ under' = under \ {s} /\ picFile' \in {picFile, picFile \cup {s}}
        /\ UNCHANGED <<now, samples, lastAt, asker>>
    BY <1>6 DEF AppendSample
  <2>2. Known
    BY DEF PictureGood
  <2>3. picFile' \cup under' \subseteq picFile \cup under
    BY <2>1
  <2>4. \A a \in Askers : asker[a] = Idle
    BY <2>2 DEF PictureGood, OneReads
  <2>5. OneReads'
    BY <2>1, <2>4 DEF OneReads, Idle
  <2>6. QED BY <2>1, <2>2, <2>3, <2>5 DEF PictureInv, PictureGood, Spaced, Known, Remembered
<1>7. CASE PictureRestart
  <2>1. /\ samples' = NoSamples /\ under' = {} /\ asker' = [a \in Askers |-> Idle]
        /\ UNCHANGED <<now, picFile, misread>>
    BY <1>7 DEF PictureRestart
  <2>2. OneReads'
    BY <2>1 DEF OneReads, Idle
  <2>3. QED BY <2>1, <2>2 DEF PictureInv, PictureGood, Spaced, Known
<1>8. CASE UNCHANGED pvars
  BY <1>8 DEF pvars, PictureInv, PictureGood, OneReads, Spaced, Known, Remembered
<1>9. CASE PictureNext
  <2>1. ASSUME NEW a \in Askers, ReadSamples(a, TRUE) \/ ReadSamples(a, FALSE) PROVE PictureInv'
    BY <1>4, <2>1
  <2>2. QED BY <1>1, <1>2, <1>3, <1>5, <1>6, <1>9, <2>1 DEF PictureNext
<1>10. QED BY <1>7, <1>8, <1>9

\* Samples of the day are a step apart in the file and none of it is missing in
\* memory, for any rounds, requests, failed appends and ends of the process,
\* unless two of them read the file at once or it could not be read.
THEOREM PictureSafe == Spec => []PictureKept
<1>1. Init => PictureInv
  <2> SUFFICES ASSUME Init PROVE PictureInv
    OBVIOUS
  <2>1. /\ now = PictureStep /\ samples = NoSamples /\ asker = [a \in Askers |-> Idle]
        /\ under = {} /\ picFile = {}
    BY DEF Init, PictureInit
  <2>2. OneReads
    BY <2>1 DEF OneReads, Idle
  <2>3. QED BY <2>1, <2>2, PictureStepAssumption DEF PictureInv, PictureGood, Spaced, Known
<1>2. PictureInv /\ [Next]_vars => PictureInv'
  BY Steps, PictureSteps
<1>3. PictureInv => PictureKept
  BY DEF PictureInv, PictureGood, PictureKept, Spaced, Known, Remembered
<1>4. QED BY <1>1, <1>2, <1>3, PTL DEF Spec

-----------------------------------------------------------------------------
\* The rows of a set that are newer than a row.
Newer(rows, r) == {q \in rows : q > r}

\* There are as many newest rows as the journal may hold, when it may not hold all.
LEMMA NewestFill ==
    ASSUME NEW S, S \subseteq Nat, IsFiniteSet(S), JournalCap <= Cardinality(S)
    PROVE  Cardinality(NewestRows(S)) = JournalCap
<1> DEFINE B == {T \in SUBSET S : JournalCap <= Cardinality(T) /\ Cardinality(NewestRows(T)) # JournalCap}
<1> SUFFICES ASSUME B # {} PROVE FALSE
  OBVIOUS
<1>1. PICK T \in B : \A U \in B : ~(U \subseteq T /\ U # T)
  <2>1. B \subseteq SUBSET S
    OBVIOUS
  <2> HIDE DEF B
  <2>2. IsFiniteSet(S) /\ B # {}
    OBVIOUS
  <2>3. QED BY ONLY <2>1, <2>2, SmallestSubset
<1>2. /\ T \in SUBSET S /\ T \in SUBSET Nat
      /\ JournalCap <= Cardinality(T) /\ Cardinality(NewestRows(T)) # JournalCap
  OBVIOUS
<1>3. \A U \in SUBSET T : U # T => (JournalCap <= Cardinality(U) => Cardinality(NewestRows(U)) = JournalCap)
  BY <1>1
<1> HIDE DEF B
<1>4. IsFiniteSet(T) /\ Cardinality(T) \in Nat /\ \A U \in SUBSET T : IsFiniteSet(U) /\ Cardinality(U) \in Nat
  BY <1>2, FS_Subset, FS_CardinalityType
<1>5. CASE Cardinality(T) = JournalCap
  <2>1. ASSUME NEW r \in T PROVE Cardinality(Newer(T, r)) < JournalCap
    <3>1. Newer(T, r) \in SUBSET T /\ r \notin Newer(T, r)
      BY <1>2 DEF Newer
    <3>2. /\ Cardinality(Newer(T, r)) <= Cardinality(T)
          /\ Cardinality(Newer(T, r)) # Cardinality(T)
      BY <1>4, <3>1, FS_Subset
    <3>3. QED BY <1>4, <1>5, <3>1, <3>2
  <2>2. NewestRows(T) = T
    BY <2>1 DEF NewestRows, Newer
  <2>3. QED BY <1>2, <1>5, <2>2
<1>6. CASE Cardinality(T) # JournalCap
  <2>1. JournalCap < Cardinality(T)
    BY <1>2, <1>4, <1>6, JournalCapAssumption
  <2>2. T # {}
    BY <1>4, <2>1, FS_EmptySet, JournalCapAssumption
  <2>3. PICK m \in T : \A q \in T : ~(<<q, m>> \in OpToRel(<, Nat))
    BY <1>2, <2>2, NatLessThanWellFounded, WFMin
  <2>4. ASSUME NEW q \in T PROVE m <= q
    <3>1. q \in Nat /\ m \in Nat /\ ~(q < m)
      BY <1>2, <2>3 DEF OpToRel
    <3>2. QED BY <3>1
  <2> DEFINE V == T \ {m}
  <2>5. V \in SUBSET T /\ V # T /\ Cardinality(V) = Cardinality(T) - 1
    BY <1>4, FS_RemoveElement
  <2>6. JournalCap <= Cardinality(V)
    BY <1>4, <2>1, <2>5, JournalCapAssumption
  <2>7. Cardinality(NewestRows(V)) = JournalCap
    BY <1>3, <2>5, <2>6
  <2>8. Newer(T, m) = V
    <3>1. ASSUME NEW q \in T PROVE q > m <=> q # m
      BY <1>2, <2>4
    <3>2. QED BY <3>1 DEF Newer
  <2>9. ASSUME NEW r \in V PROVE Newer(T, r) = Newer(V, r)
    <3>1. ~(m > r)
      BY <1>2, <2>4
    <3>2. QED BY <3>1 DEF Newer
  <2>10. m \notin NewestRows(T)
    BY <1>4, <2>5, <2>6, <2>8, JournalCapAssumption DEF NewestRows, Newer
  <2>11. \A r \in V : r \in NewestRows(T) <=> r \in NewestRows(V)
    BY <2>9 DEF NewestRows, Newer
  <2>12. NewestRows(T) \subseteq T /\ NewestRows(V) \subseteq V
    BY DEF NewestRows
  <2>13. NewestRows(T) = NewestRows(V)
    BY <2>10, <2>11, <2>12
  <2>14. QED BY <1>2, <2>7, <2>13
<1>7. QED BY <1>5, <1>6

\* The row is there, or newer ones fill the journal.
Keeps(rows, r) == r \in rows \/ Cardinality(Newer(rows, r)) = JournalCap

\* The newest rows keep what the rows have kept, and each of the rows.
LEMMA NewestKeep ==
    ASSUME NEW S \in SUBSET Nat, IsFiniteSet(S), NEW r \in Nat,
           r \in S \/ JournalCap <= Cardinality(Newer(S, r))
    PROVE  Keeps(NewestRows(S), r)
<1> DEFINE U == Newer(S, r)
<1>1. U \in SUBSET Nat /\ U \in SUBSET S
  BY DEF Newer
<1>2. IsFiniteSet(U) /\ Cardinality(U) \in Nat
  BY <1>1, FS_Subset, FS_CardinalityType
<1>3. CASE JournalCap <= Cardinality(U)
  <2>1. ASSUME NEW q \in U PROVE Newer(U, q) = Newer(S, q)
    <3>1. q \in Nat /\ q > r
      BY <1>1 DEF Newer
    <3>2. \A s \in S : s > q => s > r
      BY <3>1
    <3>3. QED BY <3>2 DEF Newer
  <2>2. \A q \in U : q \in S /\ q > r
    BY DEF Newer
  <2> DEFINE N == NewestRows(S)
  <2>3. \A q : q \in N <=> q \in S /\ Cardinality(Newer(S, q)) < JournalCap
    BY DEF NewestRows, Newer
  <2>4. \A q : q \in NewestRows(U) <=> q \in U /\ Cardinality(Newer(U, q)) < JournalCap
    BY DEF NewestRows, Newer
  <2> HIDE DEF N
  <2>5. \A q : q \in Newer(N, r) <=> q \in N /\ q \in U
    BY <2>3 DEF Newer
  <2>6. Newer(N, r) = NewestRows(U)
    BY <2>1, <2>2, <2>3, <2>4, <2>5
  <2>7. Cardinality(NewestRows(U)) = JournalCap
    BY <1>1, <1>2, <1>3, NewestFill
  <2>8. QED BY <2>6, <2>7 DEF Keeps, N
<1>4. CASE ~(JournalCap <= Cardinality(U))
  <2>1. r \in S /\ Cardinality(U) < JournalCap
    BY <1>2, <1>4, JournalCapAssumption
  <2>2. r \in NewestRows(S)
    BY <2>1 DEF NewestRows, Newer
  <2>3. QED BY <2>2 DEF Keeps
<1>5. QED BY <1>3, <1>4

\* Rows that were kept are kept with one more.
LEMMA OneMore ==
    ASSUME NEW S \in SUBSET Nat, IsFiniteSet(S), NEW r \in Nat, NEW x \in Nat, Keeps(S, r)
    PROVE  Keeps(NewestRows(S \cup {x}), r)
<1> DEFINE T == S \cup {x}
<1>1. T \in SUBSET Nat /\ IsFiniteSet(T)
  BY FS_AddElement
<1>2. Newer(S, r) \subseteq Newer(T, r) /\ Newer(T, r) \subseteq T
  BY DEF Newer
<1>3. Cardinality(Newer(S, r)) <= Cardinality(Newer(T, r))
  BY <1>1, <1>2, FS_Subset
<1>4. r \in T \/ JournalCap <= Cardinality(Newer(T, r))
  BY <1>3 DEF Keeps
<1> HIDE DEF T
<1>5. Keeps(NewestRows(T), r)
  BY <1>1, <1>4, NewestKeep
<1>6. QED BY <1>5 DEF T

JournalTypes ==
    /\ made \in 0 .. MaxRows
    /\ journal = Missing \/ journal \in SUBSET (1 .. made)
    /\ acked \subseteq 1 .. made
    /\ acked # {} => journal # Missing
    /\ post \in [Posts -> [stage : {"idle", "reading", "writing"}, row : Nat]]
    /\ \A p \in Posting : post[p].row \in 1 .. made
    /\ \A w \in journalWrites :
          w.by \in Posts /\ post[w.by].stage = "writing" /\ w.value \in SUBSET (1 .. made)

\* Requests that meet are known to, and each has one write of its own.
Meetings ==
    /\ \A p, q \in Posting : p # q => post[p].row \in crowded
    /\ \A v, w \in journalWrites : v.by = w.by => v = w

\* Each write brings the row of its request; and as long as every request could
\* read the file, the file and the writes keep what was acknowledged.
Keeping ==
    /\ \A w \in journalWrites : Keeps(w.value, post[w.by].row)
    /\ ~blind => \A r \in acked \ crowded :
                    Keeps(journal, r) /\ \A w \in journalWrites : Keeps(w.value, r)

JournalInv == JournalTypes /\ Meetings /\ Keeping

\* A set of rows is neither a missing file nor a torn one.
LEMMA RowsAreNoFile ==
    ASSUME made \in 0 .. MaxRows, NEW rows \in SUBSET (1 .. made)
    PROVE  rows # Missing /\ rows # Torn /\ IsFiniteSet(rows) /\ rows \in SUBSET Nat
<1>1. made \in Nat /\ made <= MaxRows
  BY MaxRowsAssumption
<1>2. rows \in SUBSET (1 .. MaxRows)
  BY <1>1, MaxRowsAssumption
<1>3. IsFiniteSet(1 .. made)
  BY <1>1, FS_Interval
<1>4. IsFiniteSet(rows)
  BY <1>3, FS_Subset
<1>5. rows # Missing /\ rows # Torn
  BY <1>2, JournalValues
<1>6. QED BY <1>1, <1>4, <1>5

\* A row is made for a request.
LEMMA JournalPost == ASSUME JournalInv, NEW p \in Posts, Post(p) PROVE JournalInv'
<1>1. /\ post[p].stage = "idle" /\ made < MaxRows /\ made' = made + 1
      /\ post' = [post EXCEPT ![p] = [stage |-> "reading", row |-> made + 1]]
      /\ crowded' = IF Posting = {} THEN crowded
                    ELSE crowded \cup {made + 1} \cup {post[q].row : q \in Posting}
      /\ UNCHANGED <<journal, journalWrites, acked, blind>>
  BY DEF Post
<1>2. /\ made \in Nat /\ made' \in 0 .. MaxRows /\ (1 .. made) \subseteq 1 .. made'
      /\ made' \in 1 .. made'
  BY <1>1, MaxRowsAssumption DEF JournalInv, JournalTypes
<1>3. /\ post' \in [Posts -> [stage : {"idle", "reading", "writing"}, row : Nat]]
      /\ post'[p].row = made' /\ post'[p].stage = "reading"
      /\ \A q \in Posts : q # p => post'[q] = post[q]
  BY <1>1 DEF JournalInv, JournalTypes
<1>4. p \notin Posting /\ Posting' = Posting \cup {p}
  BY <1>1, <1>3 DEF Posting
<1>5. JournalTypes'
  <2>1. \A q \in Posting' : post'[q].row \in 1 .. made'
    BY <1>2, <1>3, <1>4 DEF JournalInv, JournalTypes, Posting
  <2>2. \A w \in journalWrites : w.by # p
    BY <1>1 DEF JournalInv, JournalTypes
  <2>3. \A w \in journalWrites' :
          w.by \in Posts /\ post'[w.by].stage = "writing" /\ w.value \in SUBSET (1 .. made')
    BY <1>1, <1>2, <1>3, <2>2 DEF JournalInv, JournalTypes
  <2>4. QED BY <1>1, <1>2, <1>3, <2>1, <2>3 DEF JournalInv, JournalTypes
<1>6. Meetings'
  <2>1. ASSUME NEW a \in Posting', NEW b \in Posting', a # b PROVE post'[a].row \in crowded'
    <3>1. Posting # {}
      BY <1>4, <2>1
    <3>2. crowded' = crowded \cup {made + 1} \cup {post[q].row : q \in Posting}
      BY <1>1, <3>1
    <3>3. CASE a = p
      BY <1>1, <1>3, <3>2, <3>3
    <3>4. CASE a # p
      BY <1>3, <1>4, <3>2, <3>4 DEF Posting
    <3>5. QED BY <3>3, <3>4
  <2>2. QED BY <1>1, <2>1 DEF JournalInv, Meetings
<1>7. Keeping'
  <2>1. \A w \in journalWrites : w.by # p /\ w.by \in Posts
    BY <1>1 DEF JournalInv, JournalTypes
  <2>2. acked' \ crowded' \subseteq acked \ crowded
    BY <1>1
  <2>3. QED BY <1>1, <1>3, <2>1, <2>2 DEF JournalInv, Keeping
<1>8. QED BY <1>5, <1>6, <1>7 DEF JournalInv

\* A request has read the file and begins to write.
LEMMA JournalExtend ==
    ASSUME JournalInv, NEW p \in Posts, NEW readable \in BOOLEAN, Extend(p, readable)
    PROVE  JournalInv'
<1> DEFINE list == IF readable /\ journal \notin {Missing, Torn} THEN journal ELSE {}
           row == post[p].row
           new == [by |-> p, value |-> NewestRows(list \cup {row}), whole |-> FALSE]
<1>1. /\ post[p].stage = "reading"
      /\ journalWrites' = journalWrites \cup {new}
      /\ post' = [post EXCEPT ![p].stage = "writing"]
      /\ blind' = (blind \/ ~readable)
      /\ UNCHANGED <<journal, made, acked, crowded>>
  BY DEF Extend, JournalFile!Begin
<1>2. new.by = p /\ new.value = NewestRows(list \cup {row})
  OBVIOUS
<1>3. made \in 0 .. MaxRows /\ row \in 1 .. made /\ made \in Nat
  BY <1>1, MaxRowsAssumption DEF JournalInv, JournalTypes, Posting
<1>4. list \in SUBSET (1 .. made)
  BY DEF JournalInv, JournalTypes
<1>5. (readable /\ journal # Missing) => list = journal
  BY <1>3, RowsAreNoFile DEF JournalInv, JournalTypes
<1>6. /\ post' \in [Posts -> [stage : {"idle", "reading", "writing"}, row : Nat]]
      /\ post'[p].stage = "writing"
      /\ \A q \in Posts : post'[q].row = post[q].row /\ (q # p => post'[q] = post[q])
  BY <1>1 DEF JournalInv, JournalTypes
<1> HIDE DEF list, new
<1>7. Posting' = Posting /\ p \in Posting
  BY <1>1, <1>6 DEF Posting
<1>8. list \cup {row} \in SUBSET (1 .. made) /\ list \cup {row} \in SUBSET Nat /\ IsFiniteSet(list \cup {row})
  <2>1. list \cup {row} \in SUBSET (1 .. made)
    BY <1>3, <1>4
  <2>2. QED BY <1>3, <2>1, RowsAreNoFile
<1>9. new.value \in SUBSET (1 .. made)
  BY <1>2, <1>8 DEF NewestRows
<1>10. \A w \in journalWrites : w.by \in Posts /\ w.by # p
  BY <1>1 DEF JournalInv, JournalTypes
<1>11. JournalTypes'
  BY <1>1, <1>2, <1>6, <1>7, <1>9, <1>10 DEF JournalInv, JournalTypes, Posting
<1>12. Meetings'
  <2>1. \A a, b \in Posting' : a # b => post'[a].row \in crowded'
    BY <1>1, <1>6, <1>7 DEF JournalInv, Meetings, Posting
  <2>2. \A v, w \in journalWrites' : v.by = w.by => v = w
    BY <1>1, <1>2, <1>10 DEF JournalInv, Meetings
  <2>3. QED BY <2>1, <2>2 DEF Meetings
<1>13. Keeping'
  <2>1. Keeps(new.value, row)
    BY <1>2, <1>3, <1>8, NewestKeep
  <2>2. \A w \in journalWrites' : Keeps(w.value, post'[w.by].row)
    BY <1>1, <1>2, <1>6, <1>10, <2>1 DEF JournalInv, Keeping
  <2>3. ASSUME ~blind', NEW r \in acked \ crowded PROVE Keeps(new.value, r)
    <3>1. r \in 1 .. made /\ journal # Missing /\ readable /\ ~blind
      BY <1>1, <2>3 DEF JournalInv, JournalTypes
    <3>2. Keeps(list, r)
      BY <1>5, <3>1 DEF JournalInv, Keeping
    <3>3. list \in SUBSET Nat /\ IsFiniteSet(list) /\ r \in Nat /\ row \in Nat
      BY <1>3, <1>4, <3>1, RowsAreNoFile
    <3>4. QED BY <1>2, <3>2, <3>3, OneMore
  <2>4. QED BY <1>1, <2>2, <2>3 DEF JournalInv, Keeping
<1>14. QED BY <1>11, <1>12, <1>13 DEF JournalInv

\* A write of a request goes on, and its request is told what became of it.
LEMMA JournalStore == ASSUME JournalInv, NEW p \in Posts, Store(p) PROVE JournalInv'
<1>1. PICK w \in journalWrites :
          /\ w.by = p
          /\ \/ JournalFile!Fill(w) /\ UNCHANGED <<post, acked>>
             \/ /\ JournalFile!Replace(w)
                /\ acked' = acked \cup {post[p].row}
                /\ post' = [post EXCEPT ![p] = NoPost]
             \/ /\ JournalFile!GiveUp(w)
                /\ post' = [post EXCEPT ![p] = NoPost]
                /\ UNCHANGED acked
  BY DEF Store
<1>2. UNCHANGED <<made, crowded, blind>>
  BY DEF Store
<1>3. /\ post[p].stage = "writing" /\ p \in Posting /\ w.value \in SUBSET (1 .. made)
      /\ post[p].row \in 1 .. made
  BY <1>1 DEF JournalInv, JournalTypes, Posting
<1>4. CASE JournalFile!Fill(w) /\ UNCHANGED <<post, acked>>
  <2> DEFINE f == [w EXCEPT !.whole = TRUE]
  <2>1. journalWrites' = (journalWrites \ {w}) \cup {f} /\ UNCHANGED <<journal, post, acked, made, crowded, blind>>
    BY <1>2, <1>4 DEF JournalFile!Fill
  <2>2. f.by = w.by /\ f.value = w.value
    OBVIOUS
  <2> HIDE DEF f
  <2>3. Posting' = Posting
    BY <2>1 DEF Posting
  <2>4. JournalTypes'
    BY <2>1, <2>2, <2>3 DEF JournalInv, JournalTypes
  <2>5. Meetings'
    BY <1>1, <2>1, <2>2, <2>3 DEF JournalInv, Meetings
  <2>6. Keeping'
    BY <2>1, <2>2 DEF JournalInv, Keeping
  <2>7. QED BY <2>4, <2>5, <2>6 DEF JournalInv
<1>5. ASSUME post' = [post EXCEPT ![p] = NoPost], journalWrites' = journalWrites \ {w}
      PROVE  /\ post' \in [Posts -> [stage : {"idle", "reading", "writing"}, row : Nat]]
             /\ Posting' = Posting \ {p}
             /\ \A q \in Posting' : post'[q] = post[q]
             /\ \A v \in journalWrites' : v \in journalWrites /\ v.by \in Posting' /\ post'[v.by] = post[v.by]
             /\ Meetings'
  <2>1. /\ post' \in [Posts -> [stage : {"idle", "reading", "writing"}, row : Nat]] /\ post'[p].stage = "idle"
        /\ \A q \in Posts : q # p => post'[q] = post[q]
    BY <1>5 DEF JournalInv, JournalTypes, NoPost
  <2>2. Posting' = Posting \ {p} /\ \A q \in Posting' : post'[q] = post[q]
    BY <2>1 DEF Posting
  <2>3. ASSUME NEW v \in journalWrites' PROVE v \in journalWrites /\ v.by \in Posting'
    <3>1. v \in journalWrites /\ v # w
      BY <1>5
    <3>2. v.by # p /\ v.by \in Posting
      BY <1>1, <3>1 DEF JournalInv, JournalTypes, Meetings, Posting
    <3>3. QED BY <2>2, <3>1, <3>2
  <2>4. Meetings'
    BY <1>2, <1>5, <2>2 DEF JournalInv, Meetings
  <2>5. QED BY <2>1, <2>2, <2>3, <2>4
<1>6. CASE /\ JournalFile!Replace(w)
           /\ acked' = acked \cup {post[p].row}
           /\ post' = [post EXCEPT ![p] = NoPost]
  <2>1. journalWrites' = journalWrites \ {w} /\ journal' = w.value
    BY <1>6 DEF JournalFile!Replace
  <2>2. JournalTypes'
    <3>1. journal' # Missing
      BY <1>3, <2>1, RowsAreNoFile DEF JournalInv, JournalTypes
    <3>2. acked' \subseteq 1 .. made
      BY <1>3, <1>6 DEF JournalInv, JournalTypes
    <3>3. \A q \in Posting' : post'[q].row \in 1 .. made
      BY <1>5, <1>6, <2>1 DEF JournalInv, JournalTypes
    <3>4. \A v \in journalWrites' :
            v.by \in Posts /\ post'[v.by].stage = "writing" /\ v.value \in SUBSET (1 .. made)
      BY <1>5, <1>6, <2>1 DEF JournalInv, JournalTypes
    <3>5. QED BY <1>2, <1>3, <1>5, <1>6, <2>1, <3>1, <3>2, <3>3, <3>4 DEF JournalInv, JournalTypes
  <2>3. \A v \in journalWrites' : Keeps(v.value, post'[v.by].row)
    BY <1>5, <1>6, <2>1 DEF JournalInv, Keeping
  <2>4. ASSUME ~blind', NEW r \in acked' \ crowded'
        PROVE  Keeps(journal', r) /\ \A v \in journalWrites' : Keeps(v.value, r)
    <3>1. CASE r \in acked
      <4>1. ~blind /\ r \in acked \ crowded
        BY <1>2, <2>4, <3>1
      <4>2. Keeps(w.value, r) /\ \A v \in journalWrites : Keeps(v.value, r)
        BY <4>1 DEF JournalInv, Keeping
      <4>3. QED BY <2>1, <4>2
    <3>2. CASE r = post[p].row
      <4>1. Keeps(w.value, r)
        BY <1>1, <3>2 DEF JournalInv, Keeping
      <4>2. \A q \in Posting : q = p
        BY <1>2, <1>3, <2>4, <3>2 DEF JournalInv, Meetings
      <4>3. journalWrites' = {}
        BY <1>5, <1>6, <2>1, <4>2
      <4>4. QED BY <2>1, <4>1, <4>3
    <3>3. QED BY <1>6, <2>4, <3>1, <3>2
  <2>5. Keeping'
    BY <2>3, <2>4 DEF Keeping
  <2>6. Meetings'
    BY <1>5, <1>6, <2>1
  <2>7. QED BY <2>2, <2>5, <2>6 DEF JournalInv
<1>7. CASE /\ JournalFile!GiveUp(w)
           /\ post' = [post EXCEPT ![p] = NoPost]
           /\ UNCHANGED acked
  <2>1. journalWrites' = journalWrites \ {w} /\ journal' = journal
    BY <1>7 DEF JournalFile!GiveUp
  <2>2. JournalTypes'
    <3>1. \A q \in Posting' : post'[q].row \in 1 .. made
      BY <1>5, <1>7, <2>1 DEF JournalInv, JournalTypes
    <3>2. \A v \in journalWrites' :
            v.by \in Posts /\ post'[v.by].stage = "writing" /\ v.value \in SUBSET (1 .. made)
      BY <1>5, <1>7, <2>1 DEF JournalInv, JournalTypes
    <3>3. QED BY <1>2, <1>5, <1>7, <2>1, <3>1, <3>2 DEF JournalInv, JournalTypes
  <2>3. \A v \in journalWrites' : Keeps(v.value, post'[v.by].row)
    BY <1>5, <1>7, <2>1 DEF JournalInv, Keeping
  <2>4. Keeping'
    BY <1>2, <1>7, <2>1, <2>3 DEF JournalInv, Keeping
  <2>5. Meetings'
    BY <1>5, <1>7, <2>1
  <2>6. QED BY <2>2, <2>4, <2>5 DEF JournalInv
<1>8. QED BY <1>1, <1>4, <1>6, <1>7

\* Every step of the journal keeps its invariant.
LEMMA JournalSteps == JournalInv /\ (JournalNext \/ JournalRestart \/ UNCHANGED jvars) => JournalInv'
<1> SUFFICES ASSUME JournalInv, JournalNext \/ JournalRestart \/ UNCHANGED jvars PROVE JournalInv'
  OBVIOUS
<1>1. CASE JournalNext
  <2>1. PICK p \in Posts : Post(p) \/ Extend(p, TRUE) \/ Extend(p, FALSE) \/ Store(p)
    BY <1>1 DEF JournalNext
  <2>2. QED BY <2>1, JournalPost, JournalExtend, JournalStore
<1>2. CASE JournalRestart
  <2>1. /\ journalWrites' = {} /\ post' = [p \in Posts |-> NoPost]
        /\ UNCHANGED <<journal, made, acked, crowded, blind>>
    BY <1>2 DEF JournalRestart, JournalFile!Abandon
  <2>2. Posting' = {} /\ post' \in [Posts -> [stage : {"idle", "reading", "writing"}, row : Nat]]
    BY <2>1 DEF Posting, NoPost
  <2>3. QED BY <2>1, <2>2 DEF JournalInv, JournalTypes, Meetings, Keeping
<1>3. CASE UNCHANGED jvars
  BY <1>3 DEF jvars, JournalInv, JournalTypes, Meetings, Keeping, Posting
<1>4. QED BY <1>1, <1>2, <1>3

\* A row that POST /api/journal acknowledged is in the file, unless its own
\* request met another one, or as many newer rows as the journal may hold are, or
\* a request that could not read the file has written it anew: for any requests,
\* any cap, writes that fail or land in another order, and ends of the process.
THEOREM JournalSafe == Spec => []JournalKept
<1>1. Init => JournalInv
  <2> SUFFICES ASSUME Init PROVE JournalInv
    OBVIOUS
  <2>1. /\ journal = Missing /\ journalWrites = {} /\ post = [p \in Posts |-> NoPost]
        /\ made = 0 /\ acked = {} /\ crowded = {} /\ blind = FALSE
    BY DEF Init, JournalInit
  <2>2. Posting = {} /\ post \in [Posts -> [stage : {"idle", "reading", "writing"}, row : Nat]]
    BY <2>1 DEF Posting, NoPost
  <2>3. QED BY <2>1, <2>2, MaxRowsAssumption DEF JournalInv, JournalTypes, Meetings, Keeping
<1>2. JournalInv /\ [Next]_vars => JournalInv'
  BY Steps, JournalSteps
<1>3. JournalInv => JournalKept
  BY DEF JournalInv, JournalTypes, Keeping, Keeps, Newer, JournalKept
<1>4. QED BY <1>1, <1>2, <1>3, PTL DEF Spec

-----------------------------------------------------------------------------
\* A line has reached the file, or the frame after it did not wait for it.
Sent(log, s) ==
    \/ log[s].line \in {"written", "broken"}
    \/ s < Len(log) /\ log[s + 1].early

WholeFrame(frame, board) ==
    /\ frame.m = Present(board)
    /\ frame.c = [i \in Present(board) |-> board[i]]

ChangeFrame(frame, before, board) ==
    /\ frame.m \subseteq Present(board) \ Present(before)
    /\ frame.c = [i \in {i \in Present(board) : before[i] # board[i]} |-> board[i]]
    /\ frame.x = Present(before) \ Present(board)

\* A contract's card is in a frame among the first n whose line was sent.
CardSent(log, i, n) == \E s \in 1 .. n : i \in log[s].frame.m /\ Sent(log, s)

\* A frame is whole, or tells what changed since the frame before it; then the
\* line before was sent, and so were the cards which the frame leaves out.
Fits(log, t) ==
    IF log[t].frame.k THEN WholeFrame(log[t].frame, log[t].board)
    ELSE /\ t > 1
         /\ ChangeFrame(log[t].frame, log[t - 1].board, log[t].board)
         /\ Sent(log, t - 1)
         /\ \A i \in Present(log[t].board) \ log[t].frame.m : CardSent(log, i, t - 1)

\* Sent, or the last line and still on its way.
OnItsWay(log, s) == Sent(log, s) \/ (s = Len(log) /\ log[s].line = "writing")

\* What the next frame is told apart from is the last board, and the cards
\* that count as known are in lines that were sent or are on their way.
PrevFits(log, p) ==
    p # NoPrev =>
        /\ log # <<>>
        /\ p.quotes = log[Len(log)].board
        /\ Present(p.quotes) \subseteq p.meta
        /\ OnItsWay(log, Len(log))
        /\ \A i \in p.meta : \E s \in 1 .. Len(log) : i \in log[s].frame.m /\ OnItsWay(log, s)

Quotes == {board[i] : board \in Boards, i \in Contracts}
Frames == [k : BOOLEAN, m : SUBSET Contracts,
           c : UNION {[D -> Quotes] : D \in SUBSET Contracts}, x : SUBSET Contracts]
Entries == [frame : Frames, line : {"writing", "written", "broken", "lost"},
            board : Boards, early : BOOLEAN]

IvInv ==
    /\ taken \in Seq(Entries)
    /\ \A t \in 1 .. Len(taken) : Fits(taken, t)
    /\ PrevFits(taken, prev)

\* One more entry leaves what was said of the others.
LEMMA MoreEntries ==
    ASSUME NEW log, NEW more, NEW e, Len(log) \in Nat, Len(more) = Len(log) + 1,
           more[Len(log) + 1] = e, \A t \in 1 .. Len(log) : more[t] = log[t]
    PROVE  /\ \A s \in 1 .. Len(log) : Sent(log, s) => Sent(more, s)
           /\ \A s \in 1 .. Len(log) :
                 OnItsWay(log, s) /\ (log[Len(log)].line = "writing" => e.early) => Sent(more, s)
           /\ \A t \in 1 .. Len(log) : Fits(log, t) => Fits(more, t)
<1> DEFINE n == Len(log)
<1> HIDE DEF n
<1>2. /\ n \in Nat /\ Len(more) = n + 1 /\ Len(log) = n /\ more[n + 1] = e
      /\ \A t \in 1 .. n : more[t] = log[t]
  BY DEF n
<1>3. ASSUME NEW s \in 1 .. n, Sent(log, s) PROVE Sent(more, s)
  <2>1. CASE log[s].line \in {"written", "broken"}
    BY <1>2, <2>1 DEF Sent
  <2>2. CASE s < n /\ log[s + 1].early
    <3>1. s + 1 \in 1 .. n
      BY <1>2, <2>2
    <3>2. more[s + 1].early /\ s < n + 1
      BY <1>2, <2>2, <3>1
    <3>3. QED BY <1>2, <3>2 DEF Sent
  <2>3. QED BY <1>2, <1>3, <2>1, <2>2 DEF Sent
<1>4. ASSUME NEW s \in 1 .. n, OnItsWay(log, s), log[n].line = "writing" => e.early PROVE Sent(more, s)
  <2>1. CASE Sent(log, s)
    BY <1>3, <2>1
  <2>2. CASE s = n /\ log[s].line = "writing"
    <3>1. more[s + 1].early /\ s < Len(more)
      BY <1>2, <1>4, <2>2
    <3>2. QED BY <3>1 DEF Sent
  <2>3. QED BY <1>2, <1>4, <2>1, <2>2 DEF OnItsWay
<1>5. ASSUME NEW t \in 1 .. n, Fits(log, t) PROVE Fits(more, t)
  <2>1. more[t] = log[t]
    BY <1>2
  <2>2. CASE log[t].frame.k
    BY <1>5, <2>1, <2>2 DEF Fits
  <2>3. CASE ~log[t].frame.k
    <3>1. /\ t > 1
          /\ ChangeFrame(log[t].frame, log[t - 1].board, log[t].board)
          /\ Sent(log, t - 1)
          /\ \A i \in Present(log[t].board) \ log[t].frame.m : CardSent(log, i, t - 1)
      BY <1>5, <2>3 DEF Fits
    <3>2. t - 1 \in 1 .. n /\ t \in Nat /\ \A s \in 1 .. t - 1 : s \in 1 .. n
      BY <1>2, <3>1
    <3>3. more[t - 1] = log[t - 1] /\ Sent(more, t - 1)
      BY <1>2, <1>3, <3>1, <3>2
    <3>4. ASSUME NEW i \in Present(log[t].board) \ log[t].frame.m PROVE CardSent(more, i, t - 1)
      <4>1. PICK s \in 1 .. t - 1 : i \in log[s].frame.m /\ Sent(log, s)
        BY <3>1 DEF CardSent
      <4>2. more[s] = log[s] /\ Sent(more, s)
        BY <1>2, <1>3, <3>2, <4>1
      <4>3. QED BY <4>1, <4>2 DEF CardSent
    <3>5. QED BY <2>1, <2>3, <3>1, <3>3, <3>4 DEF Fits
  <2>4. QED BY <2>2, <2>3
<1>6. QED BY <1>3, <1>4, <1>5 DEF n

\* Only lines that were on their way have come to something.
SameFrames(a, b) ==
    /\ Len(b) = Len(a)
    /\ \A t \in 1 .. Len(a) :
          /\ b[t].frame = a[t].frame /\ b[t].board = a[t].board /\ b[t].early = a[t].early
          /\ b[t].line = a[t].line \/ a[t].line = "writing"

LEMMA LinesSettle ==
    ASSUME NEW a, NEW b, Len(a) \in Nat, SameFrames(a, b)
    PROVE  /\ \A s \in 1 .. Len(a) : Sent(a, s) => Sent(b, s)
           /\ \A t \in 1 .. Len(a) : Fits(a, t) => Fits(b, t)
<1> DEFINE n == Len(a)
<1>1. /\ n \in Nat /\ Len(a) = n /\ Len(b) = n
      /\ \A t \in 1 .. n :
          /\ b[t].frame = a[t].frame /\ b[t].board = a[t].board /\ b[t].early = a[t].early
          /\ b[t].line = a[t].line \/ a[t].line = "writing"
  BY DEF SameFrames
<1> HIDE DEF n
<1>2. ASSUME NEW s \in 1 .. n, Sent(a, s) PROVE Sent(b, s)
  <2>1. CASE a[s].line \in {"written", "broken"}
    BY <1>1, <2>1 DEF Sent
  <2>2. CASE s < n /\ a[s + 1].early
    <3>1. s + 1 \in 1 .. n
      BY <1>1, <2>2
    <3>2. QED BY <1>1, <2>2, <3>1 DEF Sent
  <2>3. QED BY <1>1, <1>2, <2>1, <2>2 DEF Sent
<1>3. ASSUME NEW t \in 1 .. n, Fits(a, t) PROVE Fits(b, t)
  <2>1. b[t].frame = a[t].frame /\ b[t].board = a[t].board
    BY <1>1
  <2>2. CASE a[t].frame.k
    BY <1>3, <2>1, <2>2 DEF Fits
  <2>3. CASE ~a[t].frame.k
    <3>1. /\ t > 1
          /\ ChangeFrame(a[t].frame, a[t - 1].board, a[t].board)
          /\ Sent(a, t - 1)
          /\ \A i \in Present(a[t].board) \ a[t].frame.m : CardSent(a, i, t - 1)
      BY <1>3, <2>3 DEF Fits
    <3>2. t - 1 \in 1 .. n /\ t \in Nat /\ \A s \in 1 .. t - 1 : s \in 1 .. n
      BY <1>1, <3>1
    <3>3. b[t - 1].board = a[t - 1].board /\ Sent(b, t - 1)
      BY <1>1, <1>2, <3>1, <3>2
    <3>4. ASSUME NEW i \in Present(a[t].board) \ a[t].frame.m PROVE CardSent(b, i, t - 1)
      <4>1. PICK s \in 1 .. t - 1 : i \in a[s].frame.m /\ Sent(a, s)
        BY <3>1 DEF CardSent
      <4>2. b[s].frame = a[s].frame /\ Sent(b, s)
        BY <1>1, <1>2, <3>2, <4>1
      <4>3. QED BY <4>1, <4>2 DEF CardSent
    <3>5. QED BY <2>1, <2>3, <3>1, <3>3, <3>4 DEF Fits
  <2>4. QED BY <2>2, <2>3
<1>4. QED BY <1>2, <1>3 DEF n

\* A board joins the recording.
LEMMA RecordOne == ASSUME IvInv, NEW board \in Boards, Record(board) PROVE IvInv'
<1> DEFINE n == Len(taken)
           second == n + 1
           key == IsKey(second)
           frame == RecordFrame(board, second)
           early == taken # <<>> /\ taken[n].line = "writing"
           e == [frame |-> frame, line |-> "writing", board |-> board, early |-> early]
           seen == Present(board)
<1>1. /\ prev' = [keyAt |-> IF key THEN second ELSE prev.keyAt, quotes |-> board, meta |-> prev.meta \cup seen]
      /\ taken' = Append(taken, e)
  BY DEF Record
<1>2. taken \in Seq(Entries) /\ n \in Nat /\ (\A t \in 1 .. n : Fits(taken, t)) /\ PrevFits(taken, prev)
  BY DEF IvInv
<1>3. /\ frame.k = key
      /\ frame.m = IF key THEN seen ELSE seen \ prev.meta
      /\ frame.x = IF key THEN {} ELSE Present(prev.quotes) \ seen
      /\ frame.c = [i \in {i \in seen : key \/ prev.quotes[i] # board[i]} |-> board[i]]
      /\ frame = [k |-> frame.k, m |-> frame.m, c |-> frame.c, x |-> frame.x]
  BY DEF RecordFrame
<1>4. key \in BOOLEAN /\ early \in BOOLEAN
  BY DEF IsKey
<1>5. frame \in Frames
  <2>1. seen \subseteq Contracts /\ Present(prev.quotes) \subseteq Contracts
    BY DEF Present
  <2> DEFINE changed == {i \in seen : key \/ prev.quotes[i] # board[i]}
  <2>2. changed \in SUBSET Contracts
    BY <2>1
  <2>3. \A i \in changed : board[i] \in Quotes
    BY <2>2 DEF Quotes
  <2> HIDE DEF changed
  <2>4. [i \in changed |-> board[i]] \in [changed -> Quotes]
    BY <2>3
  <2>5. [i \in changed |-> board[i]] \in UNION {[D -> Quotes] : D \in SUBSET Contracts}
    BY <2>2, <2>4
  <2>6. frame.c = [i \in changed |-> board[i]]
    BY <1>3 DEF changed
  <2>7. frame.m \in SUBSET Contracts /\ frame.x \in SUBSET Contracts
    BY <1>3, <2>1
  <2> HIDE DEF frame, key, seen
  <2>8. QED BY <1>3, <1>4, <2>5, <2>6, <2>7 DEF Frames
<1>6. e \in Entries /\ e.frame = frame /\ e.line = "writing" /\ e.board = board /\ e.early = early
  <2> HIDE DEF frame, early
  <2>1. QED BY <1>4, <1>5 DEF Entries
<1>7. \A i \in seen : key \/ i \in frame.m \/ i \in prev.meta
  BY <1>3
<1>8. ~key => prev # NoPrev
  BY DEF IsKey
<1>9. prev = NoPrev => prev.meta = {}
  BY DEF NoPrev
<1>10. taken # <<>> => n \in 1 .. n
  BY <1>2
<1>11. taken'[n].line = taken'[n].line /\ prev'.quotes = board /\ prev'.meta = prev.meta \cup seen
  BY <1>1
<1> DEFINE more == taken'
<1> HIDE DEF n, key, frame, early, e, seen
<1>12. more = Append(taken, e)
  BY <1>1
<1>13. taken[n].line = "writing" /\ taken # <<>> => e.early
  BY <1>6 DEF early
<1> HIDE DEF more
<1>14. /\ more \in Seq(Entries) /\ Len(more) = n + 1 /\ more[n + 1] = e
       /\ \A t \in 1 .. n : more[t] = taken[t]
       /\ \A s \in 1 .. n : taken # <<>> /\ OnItsWay(taken, s) => Sent(more, s)
       /\ \A t \in 1 .. n : Fits(more, t)
  <2>1. /\ more \in Seq(Entries) /\ Len(more) = n + 1 /\ more[n + 1] = e
        /\ \A t \in 1 .. n : more[t] = taken[t]
        /\ \A s \in 1 .. n :
              OnItsWay(taken, s) /\ (taken[n].line = "writing" => e.early) => Sent(more, s)
        /\ \A t \in 1 .. n : Fits(taken, t) => Fits(more, t)
    <3>1. /\ more \in Seq(Entries) /\ Len(taken) \in Nat /\ Len(more) = Len(taken) + 1
          /\ more[Len(taken) + 1] = e /\ \A t \in 1 .. Len(taken) : more[t] = taken[t]
      BY <1>2, <1>6, <1>12
    <3>2. /\ \A s \in 1 .. Len(taken) :
                OnItsWay(taken, s) /\ (taken[Len(taken)].line = "writing" => e.early) => Sent(more, s)
          /\ \A t \in 1 .. Len(taken) : Fits(taken, t) => Fits(more, t)
      BY ONLY <3>1, MoreEntries
    <3>3. QED BY <3>1, <3>2 DEF n
  <2>2. \A s \in 1 .. n : taken # <<>> /\ OnItsWay(taken, s) => Sent(more, s)
    BY <1>13, <2>1
  <2>3. QED BY <1>2, <2>1, <2>2
<1>15. ASSUME prev # NoPrev
       PROVE  /\ n \in 1 .. n /\ prev.quotes = more[n].board
              /\ Present(prev.quotes) \subseteq prev.meta
              /\ Sent(more, n)
              /\ \A i \in prev.meta : CardSent(more, i, n)
  <2>1. /\ taken # <<>> /\ prev.quotes = taken[n].board
        /\ Present(prev.quotes) \subseteq prev.meta
        /\ OnItsWay(taken, n)
        /\ \A i \in prev.meta : \E s \in 1 .. n : i \in taken[s].frame.m /\ OnItsWay(taken, s)
    BY <1>2, <1>15 DEF PrevFits, n
  <2>2. n \in 1 .. n
    BY <1>10, <2>1
  <2>3. ASSUME NEW i \in prev.meta PROVE CardSent(more, i, n)
    <3>1. PICK s \in 1 .. n : i \in taken[s].frame.m /\ OnItsWay(taken, s)
      BY <2>1
    <3>2. i \in more[s].frame.m /\ Sent(more, s)
      BY <1>14, <2>1, <3>1
    <3>3. QED BY <3>2 DEF CardSent
  <2>4. QED BY <1>14, <2>1, <2>2, <2>3
<1>16. Fits(more, n + 1)
  <2>1. CASE key
    <3>1. frame.m = seen /\ frame.k
      BY <1>3, <2>1
    <3>2. {i \in seen : key \/ prev.quotes[i] # board[i]} = seen
      BY <2>1
    <3>3. frame.c = [i \in seen |-> board[i]]
      BY <1>3, <3>2
    <3>4. QED BY <1>6, <1>14, <3>1, <3>3 DEF Fits, WholeFrame, seen
  <2>2. CASE ~key
    <3>1. /\ n \in 1 .. n /\ prev.quotes = more[n].board
          /\ Present(prev.quotes) \subseteq prev.meta
          /\ Sent(more, n)
          /\ \A i \in prev.meta : CardSent(more, i, n)
      BY <1>8, <1>15, <2>2
    <3>2. n + 1 > 1 /\ (n + 1) - 1 = n
      BY <3>1, <1>2
    <3>3. /\ ~frame.k /\ frame.m = seen \ prev.meta /\ frame.x = Present(prev.quotes) \ seen
          /\ frame.c = [i \in {i \in seen : key \/ prev.quotes[i] # board[i]} |-> board[i]]
      BY <1>3, <2>2
    <3>4. {i \in seen : key \/ prev.quotes[i] # board[i]} = {i \in seen : prev.quotes[i] # board[i]}
      BY <2>2
    <3>5. ChangeFrame(frame, prev.quotes, board)
      BY <3>1, <3>3, <3>4 DEF ChangeFrame, seen
    <3>6. \A i \in seen \ frame.m : CardSent(more, i, n)
      BY <3>1, <3>3
    <3>7. QED BY <1>6, <1>14, <3>1, <3>2, <3>3, <3>5, <3>6 DEF Fits, seen
  <2>3. QED BY <2>1, <2>2
<1>17. \A t \in 1 .. n + 1 : Fits(more, t)
  <2>1. \A t \in 1 .. n + 1 : t \in 1 .. n \/ t = n + 1
    BY <1>2
  <2>2. QED BY <1>14, <1>16, <2>1
<1>18. PrevFits(more, prev')
  <2>1. more # <<>> /\ prev'.quotes = more[Len(more)].board /\ Present(prev'.quotes) \subseteq prev'.meta
    <3>1. more # <<>>
      BY <1>2, <1>14
    <3>2. QED BY <1>6, <1>11, <1>14, <3>1 DEF seen
  <2>2. OnItsWay(more, n + 1)
    BY <1>6, <1>14 DEF OnItsWay
  <2>3. ASSUME NEW i \in prev'.meta PROVE \E s \in 1 .. n + 1 : i \in more[s].frame.m /\ OnItsWay(more, s)
    <3>1. n + 1 \in 1 .. n + 1 /\ \A s \in 1 .. n : s \in 1 .. n + 1
      BY <1>2
    <3>2. CASE i \in prev.meta
      <4>1. prev # NoPrev
        BY <1>9, <3>2
      <4>2. PICK s \in 1 .. n : i \in more[s].frame.m /\ Sent(more, s)
        BY <1>15, <3>2, <4>1 DEF CardSent
      <4>3. QED BY <3>1, <4>2 DEF OnItsWay
    <3>3. CASE i \in frame.m
      BY <1>6, <1>14, <2>2, <3>1, <3>3
    <3>4. i \in prev.meta \/ i \in frame.m
      BY <1>3, <1>7, <1>11
    <3>5. QED BY <3>2, <3>3, <3>4
  <2>4. QED BY <1>14, <2>1, <2>2, <2>3 DEF PrevFits
<1>19. IvInv' <=> /\ more \in Seq(Entries)
                  /\ \A t \in 1 .. Len(more) : Fits(more, t)
                  /\ PrevFits(more, prev')
  BY DEF IvInv, more
<1>20. QED BY <1>14, <1>17, <1>18, <1>19

\* A line is written, or comes to nothing.
LEMMA SettleKeeps ==
    ASSUME IvInv, taken' \in Seq(Entries), SameFrames(taken, taken'),
           \/ prev' = NoPrev
           \/ prev' = prev /\ \A s \in 1 .. Len(taken) : taken'[s].line # "lost" \/ taken[s].line = "lost"
    PROVE  IvInv'
<1> DEFINE n == Len(taken)
           more == taken'
<1>1. /\ taken \in Seq(Entries) /\ n \in Nat /\ (\A t \in 1 .. n : Fits(taken, t)) /\ PrevFits(taken, prev)
  BY DEF IvInv
<1> HIDE DEF more
<1>2. /\ more \in Seq(Entries) /\ Len(more) = n /\ SameFrames(taken, more)
  BY DEF more, SameFrames
<1> HIDE DEF n
<1>3. /\ \A s \in 1 .. n : Sent(taken, s) => Sent(more, s)
      /\ \A t \in 1 .. n : Fits(taken, t) => Fits(more, t)
  BY <1>1, <1>2, LinesSettle DEF n
<1>4. ASSUME prev' # NoPrev, NEW s \in 1 .. n, OnItsWay(taken, s) PROVE OnItsWay(more, s)
  <2>1. CASE Sent(taken, s)
    BY <1>3, <2>1 DEF OnItsWay
  <2>2. CASE s = n /\ taken[s].line = "writing"
    <3>1. more[s] \in Entries
      BY <1>2
    <3>2. more[s].line \in {"writing", "written", "broken", "lost"}
      BY <3>1 DEF Entries
    <3>3. more[s].line # "lost"
      BY <1>4, <2>2 DEF n, more
    <3>4. QED BY <1>2, <2>2, <3>2, <3>3 DEF OnItsWay, Sent
  <2>3. QED BY <1>4, <2>1, <2>2 DEF OnItsWay, n
<1>5. ASSUME prev' # NoPrev PROVE PrevFits(more, prev')
  <2>1. prev' = prev /\ prev # NoPrev
    BY <1>5
  <2>2. /\ taken # <<>>
        /\ prev.quotes = taken[n].board
        /\ Present(prev.quotes) \subseteq prev.meta
        /\ OnItsWay(taken, n)
        /\ \A i \in prev.meta : \E s \in 1 .. n : i \in taken[s].frame.m /\ OnItsWay(taken, s)
    BY <1>1, <2>1 DEF PrevFits, n
  <2>3. n \in 1 .. n /\ more # <<>>
    BY <1>1, <1>2, <2>2 DEF n
  <2>4. \A s \in 1 .. n : more[s].frame = taken[s].frame /\ more[s].board = taken[s].board
    BY <1>2 DEF SameFrames, n
  <2>5. ASSUME NEW i \in prev.meta PROVE \E s \in 1 .. n : i \in more[s].frame.m /\ OnItsWay(more, s)
    <3>1. PICK s \in 1 .. n : i \in taken[s].frame.m /\ OnItsWay(taken, s)
      BY <2>2
    <3>2. QED BY <1>4, <1>5, <2>4, <3>1
  <2>6. prev.quotes = more[n].board /\ OnItsWay(more, n)
    BY <1>4, <1>5, <2>2, <2>3, <2>4
  <2>7. QED BY <1>2, <2>1, <2>2, <2>3, <2>5, <2>6 DEF PrevFits
<1>6. PrevFits(more, prev')
  BY <1>5 DEF PrevFits
<1>7. IvInv' <=> /\ more \in Seq(Entries)
                 /\ \A t \in 1 .. Len(more) : Fits(more, t)
                 /\ PrevFits(more, prev')
  BY DEF IvInv, more
<1>8. QED BY <1>1, <1>2, <1>3, <1>6, <1>7

\* A line that was on its way comes to a line of another kind.
LEMMA OneLine ==
    ASSUME taken \in Seq(Entries), NEW t \in 1 .. Len(taken), taken[t].line = "writing",
           NEW became \in {"written", "broken", "lost"},
           taken' = [taken EXCEPT ![t].line = became]
    PROVE  /\ taken' \in Seq(Entries) /\ SameFrames(taken, taken')
           /\ taken'[t].line = became /\ \A s \in 1 .. Len(taken) : s # t => taken'[s] = taken[s]
<1>1. taken[t] \in Entries
  OBVIOUS
<1> DEFINE e == [taken[t] EXCEPT !.line = became]
<1>2. /\ e \in Entries /\ e.line = became
      /\ e.frame = taken[t].frame /\ e.board = taken[t].board /\ e.early = taken[t].early
  BY <1>1 DEF Entries
<1>3. taken' = [taken EXCEPT ![t] = e]
  OBVIOUS
<1> HIDE DEF e
<1>4. /\ taken' \in Seq(Entries) /\ Len(taken') = Len(taken) /\ taken'[t] = e
      /\ \A s \in 1 .. Len(taken) : s # t => taken'[s] = taken[s]
  BY <1>2, <1>3
<1>5. QED BY <1>2, <1>4 DEF SameFrames

\* Every step of the recording keeps its invariant.
LEMMA IvSteps == IvInv /\ (IvNext \/ IvRestart \/ UNCHANGED ivars) => IvInv'
<1> SUFFICES ASSUME IvInv, IvNext \/ IvRestart \/ UNCHANGED ivars PROVE IvInv'
  OBVIOUS
<1>0. taken \in Seq(Entries) /\ Len(taken) \in Nat
  BY DEF IvInv
<1>1. ASSUME NEW t \in 1 .. Len(taken), Recorded(t) PROVE IvInv'
  <2>1. PICK became \in {"written", "broken"} :
            taken[t].line = "writing" /\ taken' = [taken EXCEPT ![t].line = became] /\ prev' = prev
    BY <1>1 DEF Recorded
  <2>2. /\ taken' \in Seq(Entries) /\ SameFrames(taken, taken')
        /\ taken'[t].line = became /\ \A s \in 1 .. Len(taken) : s # t => taken'[s] = taken[s]
    BY <1>0, <2>1, OneLine
  <2>3. \A s \in 1 .. Len(taken) : taken'[s].line # "lost" \/ taken[s].line = "lost"
    BY <2>1, <2>2
  <2>4. QED BY <2>1, <2>2, <2>3, SettleKeeps
<1>2. ASSUME NEW t \in 1 .. Len(taken), RecordFails(t) PROVE IvInv'
  <2>1. PICK became \in {"broken", "lost"} :
            taken[t].line = "writing" /\ taken' = [taken EXCEPT ![t].line = became] /\ prev' = NoPrev
    BY <1>2 DEF RecordFails
  <2>2. taken' \in Seq(Entries) /\ SameFrames(taken, taken')
    BY <1>0, <2>1, OneLine
  <2>3. QED BY <2>1, <2>2, SettleKeeps
<1>3. CASE IvRestart
  <2> DEFINE after(e) == IF e.line = "writing" THEN [e EXCEPT !.line = "lost"] ELSE e
  <2>1. taken' = [t \in 1 .. Len(taken) |-> after(taken[t])] /\ prev' = NoPrev
    BY <1>3 DEF IvRestart
  <2>2. ASSUME NEW e \in Entries
        PROVE  /\ after(e) \in Entries /\ after(e).frame = e.frame /\ after(e).board = e.board
               /\ after(e).early = e.early /\ (after(e).line = e.line \/ e.line = "writing")
    BY DEF Entries
  <2> HIDE DEF after
  <2>3. \A t \in 1 .. Len(taken) : taken[t] \in Entries
    BY <1>0
  <2>4. taken' \in Seq(Entries) /\ Len(taken') = Len(taken)
    BY <1>0, <2>1, <2>2, <2>3
  <2>5. SameFrames(taken, taken')
    BY <2>1, <2>2, <2>3, <2>4 DEF SameFrames
  <2>6. QED BY <2>1, <2>4, <2>5, SettleKeeps
<1>4. CASE UNCHANGED ivars
  BY <1>4 DEF ivars, IvInv
<1>5. CASE IvNext
  BY <1>1, <1>2, <1>5, RecordOne DEF IvNext
<1>6. QED BY <1>3, <1>4, <1>5

-----------------------------------------------------------------------------
\* The function by which the day is read back.
IsView(v, log, n) ==
    v = [t \in 0 .. n |->
            IF t = 0 THEN Nothing
            ELSE IF log[t].line = "written" THEN Shown(v[t - 1], log[t].frame)
            ELSE v[t - 1]]

LEMMA IsViewExists == ASSUME NEW log, NEW n \in Nat PROVE \E v : IsView(v, log, n)
<1> DEFINE G == {k \in Nat : \E v : IsView(v, log, k)}
<1>1. 0 \in G
  <2> DEFINE v == [t \in 0 .. 0 |-> Nothing]
  <2>1. IsView(v, log, 0)
    <3>1. \A t \in 0 .. 0 : t = 0
      OBVIOUS
    <3>2. QED BY <3>1 DEF IsView
  <2>2. QED BY <2>1
<1>2. ASSUME NEW k \in Nat, k \in G PROVE k + 1 \in G
  <2>1. PICK v : IsView(v, log, k)
    BY <1>2
  <2> DEFINE last == IF log[k + 1].line = "written" THEN Shown(v[k], log[k + 1].frame) ELSE v[k]
             w == [t \in 0 .. k + 1 |-> IF t = k + 1 THEN last ELSE v[t]]
  <2> HIDE DEF last
  <2>2. /\ \A t \in 0 .. k : w[t] = v[t] /\ t # k + 1
        /\ w[k + 1] = last /\ k \in 0 .. k /\ 0 \in 0 .. k
    OBVIOUS
  <2>3. \A t \in 0 .. k + 1 : t # 0 => t - 1 \in 0 .. k
    OBVIOUS
  <2>4. \A t \in 0 .. k + 1 : t = k + 1 \/ t \in 0 .. k
    OBVIOUS
  <2>5. \A t \in 0 .. k :
          v[t] = IF t = 0 THEN Nothing
                 ELSE IF log[t].line = "written" THEN Shown(v[t - 1], log[t].frame)
                 ELSE v[t - 1]
    BY <2>1 DEF IsView
  <2>6. w = [t \in 0 .. k + 1 |-> w[t]]
    OBVIOUS
  <2> HIDE DEF w
  <2>7. ASSUME NEW t \in 0 .. k + 1
        PROVE  w[t] = IF t = 0 THEN Nothing
                      ELSE IF log[t].line = "written" THEN Shown(w[t - 1], log[t].frame)
                      ELSE w[t - 1]
    <3>1. CASE t = k + 1
      <4>1. t # 0 /\ t - 1 = k /\ w[k] = v[k]
        BY <2>2, <3>1
      <4>2. QED BY <2>2, <3>1, <4>1 DEF last
    <3>2. CASE t \in 0 .. k
      <4>1. t # 0 => w[t - 1] = v[t - 1]
        <5>1. t # 0 => t - 1 \in 0 .. k
          BY <3>2
        <5>2. QED BY <2>2, <5>1
      <4>2. QED BY <2>2, <2>5, <3>2, <4>1
    <3>3. QED BY <2>4, <3>1, <3>2
  <2>8. IsView(w, log, k + 1)
    BY <2>6, <2>7 DEF IsView
  <2>9. QED BY <2>8
<1> HIDE DEF G
<1>3. n \in G
  BY <1>1, <1>2, NatSetInduction
<1>4. QED BY <1>3 DEF G

\* What is shown after each frame is told by the frame and what was shown before.
LEMMA ViewSteps ==
    ASSUME Len(taken) \in Nat
    PROVE  /\ RecordMoments[0] = Nothing
           /\ \A t \in 1 .. Len(taken) :
                RecordMoments[t] = IF taken[t].line = "written"
                                   THEN Shown(RecordMoments[t - 1], taken[t].frame)
                                   ELSE RecordMoments[t - 1]
<1> DEFINE n == Len(taken)
           it == CHOOSE v : IsView(v, taken, n)
<1>1. \E v : IsView(v, taken, n)
  BY IsViewExists
<1>2. IsView(it, taken, n)
  BY <1>1
<1>3. RecordMoments = it
  BY DEF RecordMoments, IsView
<1> HIDE DEF it
<1>4. 0 \in 0 .. n /\ \A t \in 1 .. n : t \in 0 .. n /\ t # 0
  OBVIOUS
<1>5. QED BY <1>2, <1>3, <1>4 DEF IsView

\* A sequence of views that follows the frames of a log.
Follows(v, log) ==
    /\ v[0] = Nothing
    /\ \A t \in 1 .. Len(log) :
          v[t] = IF log[t].line = "written" THEN Shown(v[t - 1], log[t].frame) ELSE v[t - 1]

\* A card that has been read stays known.
LEMMA CardsStay ==
    ASSUME NEW v, NEW log, Len(log) \in Nat, Follows(v, log)
    PROVE  /\ \A t \in 1 .. Len(log) : log[t].line = "written" => log[t].frame.m \subseteq v[t].meta
           /\ \A t \in 0 .. Len(log) : \A s \in 0 .. t : v[s].meta \subseteq v[t].meta
<1> DEFINE n == Len(log)
<1>1. ASSUME NEW t \in 1 .. n
      PROVE  /\ v[t - 1].meta \subseteq v[t].meta
             /\ log[t].line = "written" => log[t].frame.m \subseteq v[t].meta
  <2>1. CASE log[t].line = "written"
    <3>1. v[t] = Shown(v[t - 1], log[t].frame)
      BY <2>1 DEF Follows
    <3>2. v[t].meta = v[t - 1].meta \cup log[t].frame.m
      BY <3>1 DEF Shown
    <3>3. QED BY <3>2
  <2>2. CASE log[t].line # "written"
    BY <2>2 DEF Follows
  <2>3. QED BY <2>1, <2>2
<1> DEFINE G == {t \in Nat : t \in 0 .. n => \A s \in 0 .. t : v[s].meta \subseteq v[t].meta}
<1>2. 0 \in G
  <2>1. \A s \in 0 .. 0 : s = 0
    OBVIOUS
  <2>2. QED BY <2>1
<1>3. ASSUME NEW t \in Nat, t \in G PROVE t + 1 \in G
  <2> SUFFICES ASSUME t + 1 \in 0 .. n, NEW s \in 0 .. t + 1 PROVE v[s].meta \subseteq v[t + 1].meta
    OBVIOUS
  <2>1. t \in 0 .. n /\ t + 1 \in 1 .. n /\ (t + 1) - 1 = t
    OBVIOUS
  <2>2. v[t].meta \subseteq v[t + 1].meta
    BY <1>1, <2>1
  <2>3. CASE s = t + 1
    BY <2>3
  <2>4. CASE s \in 0 .. t
    <3>1. v[s].meta \subseteq v[t].meta
      BY <1>3, <2>1, <2>4
    <3>2. QED BY <2>2, <3>1
  <2>5. s = t + 1 \/ s \in 0 .. t
    OBVIOUS
  <2>6. QED BY <2>3, <2>4, <2>5
<1> HIDE DEF G
<1>4. \A t \in Nat : t \in G
  BY <1>2, <1>3, NatSetInduction
<1>5. \A t \in 0 .. n : \A s \in 0 .. t : v[s].meta \subseteq v[t].meta
  BY <1>4 DEF G
<1>6. QED BY <1>1, <1>5

\* Quotes are shown of contracts whose card is known.
LEMMA KnownOnly ==
    ASSUME NEW v, NEW log, Len(log) \in Nat, Follows(v, log), NEW i \in Contracts
    PROVE  \A t \in 0 .. Len(log) : i \notin v[t].meta => v[t].quotes[i] = Absent
<1> DEFINE n == Len(log)
           G == {t \in Nat : t \in 0 .. n => (i \notin v[t].meta => v[t].quotes[i] = Absent)}
<1>1. 0 \in G
  BY DEF Follows, Nothing
<1>2. ASSUME NEW t \in Nat, t \in G PROVE t + 1 \in G
  <2> SUFFICES ASSUME t + 1 \in 0 .. n, i \notin v[t + 1].meta PROVE v[t + 1].quotes[i] = Absent
    OBVIOUS
  <2>1. t \in 0 .. n /\ t + 1 \in 1 .. n /\ (t + 1) - 1 = t
    OBVIOUS
  <2>2. CASE log[t + 1].line = "written"
    <3> DEFINE frame == log[t + 1].frame
    <3>1. v[t + 1] = Shown(v[t], frame)
      BY <2>1, <2>2 DEF Follows
    <3>2. /\ v[t + 1].meta = v[t].meta \cup frame.m
          /\ i \notin v[t + 1].meta => 
               v[t + 1].quotes[i] = IF frame.k \/ i \in frame.x THEN Absent ELSE v[t].quotes[i]
      BY <3>1 DEF Shown
    <3>3. QED BY <1>2, <2>1, <3>2
  <2>3. CASE log[t + 1].line # "written"
    <3>1. v[t + 1] = v[t]
      BY <2>1, <2>3 DEF Follows
    <3>2. QED BY <1>2, <2>1, <3>1
  <2>4. QED BY <2>2, <2>3
<1> HIDE DEF G
<1>3. \A t \in Nat : t \in G
  BY <1>1, <1>2, NatSetInduction
<1>4. QED BY <1>3 DEF G

\* From a whole frame on, as long as lines are written and frames tell what
\* changed, the view shows the board to whom the cards are known.
LEMMA ShownTrue ==
    ASSUME NEW v, NEW log, Len(log) \in Nat, Follows(v, log), NEW i \in Contracts,
           \A t \in 1 .. Len(log) : Fits(log, t),
           NEW K \in 1 .. Len(log), log[K].frame.k,
           NEW top \in K .. Len(log),
           \A t \in K .. top : log[t].line = "written",
           \A t \in K + 1 .. top : ~log[t].frame.k
    PROVE  \A t \in K .. top : i \in v[t].meta => v[t].quotes[i] = log[t].board[i]
<1> DEFINE n == Len(log)
           G == {d \in Nat : K + d \in K .. top =>
                   (i \in v[K + d].meta => v[K + d].quotes[i] = log[K + d].board[i])}
<1>0. K \in Nat /\ top \in Nat /\ n \in Nat /\ K <= top /\ top <= n /\ 1 <= K
  OBVIOUS
<1>1. ASSUME NEW t \in K .. top
      PROVE  LET frame == log[t].frame
             IN  /\ t \in 1 .. n
                 /\ v[t].meta = v[t - 1].meta \cup frame.m
                 /\ v[t].quotes[i] = IF i \in DOMAIN frame.c \cap v[t].meta THEN frame.c[i]
                                     ELSE IF frame.k \/ i \in frame.x THEN Absent
                                     ELSE v[t - 1].quotes[i]
  <2>1. t \in 1 .. n
    BY <1>0
  <2>2. v[t] = Shown(v[t - 1], log[t].frame)
    BY <2>1 DEF Follows
  <2>3. QED BY <2>1, <2>2 DEF Shown
<1>2. 0 \in G
  <2>1. K + 0 = K /\ K \in K .. top
    BY <1>0
  <2>2. WholeFrame(log[K].frame, log[K].board)
    BY DEF Fits
  <2>3. /\ DOMAIN log[K].frame.c = Present(log[K].board)
        /\ i \in Present(log[K].board) => log[K].frame.c[i] = log[K].board[i]
        /\ i \notin Present(log[K].board) => log[K].board[i] = Absent
    BY <2>2 DEF WholeFrame, Present
  <2>4. i \in v[K].meta => v[K].quotes[i] = log[K].board[i]
    BY <1>1, <2>1, <2>3
  <2>5. QED BY <2>1, <2>4
<1>3. ASSUME NEW d \in Nat, d \in G PROVE d + 1 \in G
  <2> DEFINE t == K + d
  <2> SUFFICES ASSUME t + 1 \in K .. top, i \in v[t + 1].meta
               PROVE  v[t + 1].quotes[i] = log[t + 1].board[i]
    <3>1. K + (d + 1) = t + 1
      BY <1>0
    <3>2. QED BY <3>1
  <2>1. t \in K .. top /\ t + 1 \in K + 1 .. top /\ (t + 1) - 1 = t /\ t \in Nat /\ t + 1 \in 1 .. n
    BY <1>0
  <2>2. i \in v[t].meta => v[t].quotes[i] = log[t].board[i]
    BY <1>3, <2>1
  <2> HIDE DEF t
  <2>3. ~log[t + 1].frame.k
    BY <2>1
  <2>4. ChangeFrame(log[t + 1].frame, log[t].board, log[t + 1].board)
    BY <2>1, <2>3 DEF Fits
  <2> DEFINE frame == log[t + 1].frame
             before == log[t].board
             board == log[t + 1].board
  <2>5. /\ frame.m \subseteq Present(board) \ Present(before)
        /\ DOMAIN frame.c = {j \in Present(board) : before[j] # board[j]}
        /\ i \in DOMAIN frame.c => frame.c[i] = board[i]
        /\ frame.x = Present(before) \ Present(board)
    BY <2>4 DEF ChangeFrame
  <2>6. /\ i \in Present(board) <=> board[i] # Absent
        /\ i \in Present(before) <=> before[i] # Absent
    BY DEF Present
  <2>7. /\ v[t + 1].meta = v[t].meta \cup frame.m
        /\ v[t + 1].quotes[i] = IF i \in DOMAIN frame.c \cap v[t + 1].meta THEN frame.c[i]
                                ELSE IF frame.k \/ i \in frame.x THEN Absent
                                ELSE v[t].quotes[i]
    BY <1>1, <2>1
  <2> HIDE DEF frame, before, board
  <2>8. CASE i \in v[t].meta
    <3>1. v[t].quotes[i] = before[i]
      BY <2>2, <2>8 DEF before
    <3>2. ~frame.k
      BY <2>3 DEF frame
    <3>3. v[t + 1].quotes[i] = board[i]
      BY <2>5, <2>6, <2>7, <3>1, <3>2
    <3>4. QED BY <3>3 DEF board
  <2>9. CASE i \notin v[t].meta
    <3>1. i \in frame.m
      BY <2>7, <2>9
    <3>2. i \in Present(board) /\ board[i] # Absent /\ before[i] = Absent
      BY <2>5, <2>6, <3>1
    <3>3. i \in DOMAIN frame.c
      BY <2>5, <3>2
    <3>4. QED BY <2>5, <2>7, <3>3 DEF board
  <2>10. QED BY <2>8, <2>9
<1> HIDE DEF G
<1>4. \A d \in Nat : d \in G
  BY <1>2, <1>3, NatSetInduction
<1>5. ASSUME NEW t \in K .. top PROVE i \in v[t].meta => v[t].quotes[i] = log[t].board[i]
  <2>1. t - K \in Nat /\ K + (t - K) = t
    BY <1>0
  <2>2. t - K \in G
    BY <1>4, <2>1
  <2>3. QED BY <2>1, <2>2 DEF G
<1>6. QED BY <1>5

\* The last whole frame up to a second.
LEMMA LastWhole ==
    ASSUME NEW log, Len(log) \in Nat, \A t \in 1 .. Len(log) : Fits(log, t),
           NEW t \in 1 .. Len(log)
    PROVE  \E K \in 1 .. t : log[K].frame.k /\ \A s \in K + 1 .. t : ~log[s].frame.k
<1> DEFINE S == {s \in 1 .. t : log[s].frame.k}
<1>1. 1 \in S
  <2>1. Fits(log, 1) /\ 1 \in 1 .. t
    OBVIOUS
  <2>2. QED BY <2>1 DEF Fits
<1>2. S \in SUBSET Nat /\ S # {} /\ t \in Nat /\ \A s \in S : s <= t
  BY <1>1
<1>3. PICK K \in S : \A s \in S : s <= K
  <2> HIDE DEF S
  <2>1. QED BY ONLY <1>2, Greatest
<1>4. ASSUME NEW s \in K + 1 .. t PROVE ~log[s].frame.k
  <2>1. s \in 1 .. t /\ ~(s <= K)
    BY <1>2
  <2>2. QED BY <1>3, <2>1
<1>5. QED BY <1>4

\* A line that was sent is written, or misleads, or the line after it does.
LEMMA SentMisleads ==
    ASSUME Len(taken) \in Nat, NEW s \in 1 .. Len(taken), Sent(taken, s), taken[s].line # "written"
    PROVE  \/ Misleads(s)
           \/ s < Len(taken) /\ Misleads(s + 1)
<1>1. (s + 1) - 1 = s
  OBVIOUS
<1>2. QED BY <1>1 DEF Sent, Misleads

\* What a whole and written frame shows is known.
LEMMA WholeKnown ==
    ASSUME Len(taken) \in Nat, \A t \in 1 .. Len(taken) : Fits(taken, t),
           NEW v, Follows(v, taken), NEW t \in 1 .. Len(taken), NEW i \in Contracts,
           i \notin v[t].meta, NEW l \in 1 .. t, NEW q \in Whole(l, t)
    PROVE  taken[q].board[i] = Absent
<1>1. q \in 1 .. Len(taken) /\ q \in 0 .. t /\ t \in 0 .. Len(taken) /\ taken[q].frame.k /\ taken[q].line = "written"
  BY DEF Whole
<1>2. taken[q].frame.m = Present(taken[q].board)
  BY <1>1 DEF Fits, WholeFrame
<1>3. taken[q].frame.m \subseteq v[q].meta /\ v[q].meta \subseteq v[t].meta
  BY <1>1, CardsStay
<1>4. QED BY <1>2, <1>3 DEF Present

\* The invariant says what the day shows when it is read back.
LEMMA ReadBack == IvInv => RecordReplays
<1> SUFFICES ASSUME IvInv, NEW t \in 1 .. Len(taken), NEW i \in Contracts,
                    taken[t].line = "written", RecordMoments[t].quotes[i] # taken[t].board[i]
             PROVE  \E l \in {q \in 1 .. t : Misleads(q)} :
                        \/ Whole(l, t) = {}
                        \/ /\ RecordMoments[t].quotes[i] = Absent
                           /\ \A q \in Whole(l, t) : taken[q].board[i] = Absent
  BY DEF RecordReplays
<1> DEFINE view == RecordMoments
           n == Len(taken)
<1>1. n \in Nat /\ \A s \in 1 .. n : Fits(taken, s)
  BY DEF IvInv
<1>2. Follows(view, taken)
  BY <1>1, ViewSteps DEF Follows
<1> HIDE DEF view
<1>3. t \in Nat /\ t <= n /\ t \in 0 .. n /\ \A s \in 1 .. t : s \in 1 .. n
  BY <1>1
\* A contract whose card never arrived.
<1>4. CASE i \notin view[t].meta
  <2>1. view[t].quotes[i] = Absent
    BY <1>1, <1>2, <1>3, <1>4, KnownOnly
  <2>2. i \in Present(taken[t].board)
    BY <2>1 DEF Present, view
  <2>3. i \notin taken[t].frame.m
    BY <1>1, <1>2, <1>4, CardsStay
  <2>4. ~taken[t].frame.k
    BY <1>1, <2>2, <2>3 DEF Fits, WholeFrame
  <2>5. CardSent(taken, i, t - 1)
    BY <1>1, <2>2, <2>3, <2>4 DEF Fits
  <2>6. PICK s \in 1 .. t - 1 : i \in taken[s].frame.m /\ Sent(taken, s)
    BY <2>5 DEF CardSent
  <2>7. s \in 1 .. n /\ s \in 0 .. t /\ s \in 1 .. t /\ s + 1 \in 1 .. t
    BY <1>3
  <2>8. taken[s].line # "written"
    <3> SUFFICES ASSUME taken[s].line = "written" PROVE FALSE
      OBVIOUS
    <3>1. taken[s].frame.m \subseteq view[s].meta /\ view[s].meta \subseteq view[t].meta
      BY <1>1, <1>2, <1>3, <2>7, CardsStay
    <3>2. QED BY <1>4, <2>6, <3>1
  <2>9. Misleads(s) \/ Misleads(s + 1)
    BY <1>1, <2>6, <2>7, <2>8, SentMisleads
  <2>10. PICK l \in 1 .. t : Misleads(l)
    BY <2>7, <2>9
  <2>11. \A q \in Whole(l, t) : taken[q].board[i] = Absent
    BY <1>1, <1>2, <1>4, WholeKnown
  <2>12. QED BY <2>1, <2>10, <2>11 DEF view
\* A contract whose quote is wrong: some line since the last whole frame is missing.
<1>5. CASE i \in view[t].meta
  <2>1. PICK K \in 1 .. t : taken[K].frame.k /\ \A s \in K + 1 .. t : ~taken[s].frame.k
    BY <1>1, LastWhole
  <2>2. K \in 1 .. n /\ t \in K .. n /\ t \in K .. t
    BY <1>3
  <2>3. PICK s \in K .. t : taken[s].line # "written"
    <3> SUFFICES ASSUME \A s \in K .. t : taken[s].line = "written" PROVE FALSE
      OBVIOUS
    <3>1. view[t].quotes[i] = taken[t].board[i]
      BY <1>1, <1>2, <1>5, <2>1, <2>2, ShownTrue
    <3>2. QED BY <3>1 DEF view
  <2>4. s # t /\ s \in 1 .. n /\ s \in 1 .. t /\ s + 1 \in 1 .. t /\ s + 1 \in K + 1 .. t /\ (s + 1) - 1 = s
    BY <1>3, <2>3
  <2>5. Sent(taken, s)
    BY <1>1, <1>3, <2>1, <2>4 DEF Fits
  <2>6. Misleads(s) \/ Misleads(s + 1)
    BY <1>1, <2>3, <2>4, <2>5, SentMisleads
  <2>7. ASSUME NEW q \in s .. t, taken[q].frame.k PROVE q = s /\ taken[q].line # "written"
    <3>1. q \notin K + 1 .. t
      BY <2>1, <2>7
    <3>2. q = K /\ s = K
      BY <1>3, <3>1
    <3>3. QED BY <2>3, <3>2
  <2>8. Whole(s, t) = {} /\ Whole(s + 1, t) = {}
    <3>1. \A q \in s + 1 .. t : q \in s .. t
      BY <1>3, <2>4
    <3>2. QED BY <2>7, <3>1 DEF Whole
  <2>9. QED BY <2>4, <2>6, <2>8
<1>6. QED BY <1>4, <1>5

\* Read back, the day shows the quotes of every recorded second, for any boards,
\* failed and broken lines, lines that land late and ends of the process; a line
\* that is broken or lost on the way does harm up to the next whole frame, and
\* after it only to a contract which that frame does not show.
THEOREM RecordSafe == Spec => []RecordReplays
<1>1. Init => IvInv
  BY DEF Init, IvInit, IvInv, PrevFits
<1>2. IvInv /\ [Next]_vars => IvInv'
  BY Steps, IvSteps
<1>3. IvInv => RecordReplays
  BY ReadBack
<1>4. QED BY <1>1, <1>2, <1>3, PTL DEF Spec

=============================================================================
