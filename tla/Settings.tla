------------------------------ MODULE Settings ------------------------------
(***************************************************************************)
(* The settings of the server: a PUT changes the copy in memory at once    *)
(* and then writes the file, a start reads the file or writes the          *)
(* defaults.                                                               *)
(***************************************************************************)
EXTENDS Naturals, Disk

CONSTANTS
    Puts,                  \* requests that may be under way at once
    SettingsValues,        \* what the settings may be, after sanitize()
    Defaults,              \* defaults()
    MaxPuts                \* bound: saves in a behaviour

VARIABLES
    settings,        \* S
    settingsFile,    \* the file, or Missing
    settingsWrites,  \* writes of it under way
    puts,            \* how many saves so far
    alone,           \* the last save has met no other
    doubt            \* the file may differ from S: a write failed or writes met

svars == <<settings, settingsFile, settingsWrites, puts, alone, doubt>>

SettingsFile == INSTANCE AtomicJson WITH content <- settingsFile, writes <- settingsWrites

\* The first start: no file, the defaults are written.
SettingsInit ==
    /\ settings = Defaults /\ settingsFile = Missing
    /\ settingsWrites = {[by |-> "start", value |-> Defaults, whole |-> FALSE]}
    /\ puts = 0 /\ alone = TRUE /\ doubt = FALSE

\* Wrong: the settings in memory are written before they are replaced.
PutWritesOld(r, value) ==
    /\ puts < MaxPuts /\ puts' = puts + 1
    /\ \A w \in settingsWrites : w.by \notin {r, "start"}
    /\ settings' = value
    /\ SettingsFile!Begin(r, settings)
    /\ alone' = (settingsWrites = {})
    /\ doubt' = (doubt \/ settingsWrites # {})

\* saveSettings() of a request; the server listens once loadSettings() is over.
Put(r, value) ==
    /\ puts < MaxPuts /\ puts' = puts + 1
    /\ \A w \in settingsWrites : w.by \notin {r, "start"}
    /\ settings' = value
    /\ SettingsFile!Begin(r, value)
    /\ alone' = (settingsWrites = {})
    /\ doubt' = (doubt \/ settingsWrites # {})

StoreSettings ==
    /\ \E w \in settingsWrites :
          \/ SettingsFile!Fill(w) /\ UNCHANGED doubt
          \/ /\ SettingsFile!Replace(w)
             /\ doubt' = (doubt /\ ~alone)
          \/ SettingsFile!GiveUp(w) /\ doubt' = TRUE
    /\ UNCHANGED <<settings, puts, alone>>

SettingsNext ==
    \/ \E r \in Puts, value \in SettingsValues : Put(r, value)
    \/ StoreSettings

\* loadSettings(): the file, or the defaults if there is none.
Loaded == IF settingsFile \in {Missing, Torn} THEN Defaults ELSE settingsFile

SettingsRestart ==
    /\ settings' = Loaded
    /\ settingsWrites' = IF settingsFile \in {Missing, Torn}
                         THEN {[by |-> "start", value |-> Defaults, whole |-> FALSE]} ELSE {}
    /\ UNCHANGED <<settingsFile, puts>>
    /\ alone' = TRUE /\ doubt' = FALSE

\* Once no write is under way, what the server works with is what the next
\* start would read; a failed write and writes that met are amended by the
\* next save that is alone and lands.
SettingsKept == (settingsWrites = {} /\ ~doubt) => settingsFile = settings
=============================================================================
