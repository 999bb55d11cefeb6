---------------------------- MODULE ServerFiles ----------------------------
(***************************************************************************)
(* The files of one server: the journal, the settings, the roster of       *)
(* contracts, the data log, a dossier and the recordings of the day. Each  *)
(* store has requests and writes of its own; they share the process, whose *)
(* end cuts all of them off at once.                                       *)
(***************************************************************************)
EXTENDS Journal, Settings, Roster, DataLog, DossierFile, IvRecord, Picture

CONSTANTS
    Mixes,         \* bound: sets of stores that have traffic in one behaviour
    MaxEnds        \* bound: ends of the process

VARIABLES
    mix,           \* the stores with traffic
    ends           \* how often the process has ended

vars == <<jvars, svars, rvars, lvars, dvars, ivars, pvars, mix, ends>>

Has(store) == store \in mix

Init ==
    /\ JournalInit /\ SettingsInit /\ RosterInit /\ LogInit /\ DossierInit
    /\ IvInit /\ PictureInit
    /\ mix \in Mixes /\ ends = 0

Step ==
    /\ \/ /\ Has("journal") /\ JournalNext
          /\ UNCHANGED <<svars, rvars, lvars, dvars, ivars, pvars>>
       \/ /\ Has("settings") /\ SettingsNext
          /\ UNCHANGED <<jvars, rvars, lvars, dvars, ivars, pvars>>
       \/ /\ Has("roster") /\ RosterNext
          /\ UNCHANGED <<jvars, svars, lvars, dvars, ivars, pvars>>
       \/ /\ Has("log") /\ LogNext
          /\ UNCHANGED <<jvars, svars, rvars, dvars, ivars, pvars>>
       \/ /\ Has("dossier") /\ DossierNext
          /\ UNCHANGED <<jvars, svars, rvars, lvars, ivars, pvars>>
       \/ /\ Has("record") /\ IvNext
          /\ UNCHANGED <<jvars, svars, rvars, lvars, dvars, pvars>>
       \/ /\ Has("picture") /\ PictureNext
          /\ UNCHANGED <<jvars, svars, rvars, lvars, dvars, ivars>>
    /\ UNCHANGED <<mix, ends>>

\* The process is stopped or killed, and started anew: each request and each
\* write under way ends where it is.
End ==
    /\ ends < MaxEnds /\ ends' = ends + 1
    /\ JournalRestart /\ SettingsRestart /\ RosterRestart /\ DossierRestart
    /\ IvRestart /\ PictureRestart
    /\ LogStop \/ LogCrash
    /\ UNCHANGED mix

Next == Step \/ End
Spec == Init /\ [][Next]_vars
=============================================================================
