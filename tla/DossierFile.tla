---------------------------- MODULE DossierFile ----------------------------
(***************************************************************************)
(* savePortfolioDossier(): the file of a session is created exclusively,   *)
(* then written, and removed again if writing fails.                       *)
(***************************************************************************)
EXTENDS Naturals

CONSTANTS Savers   \* requests that save a dossier of this session

ASSUME SaversNamed == "nobody" \notin Savers

VARIABLES
    dossier,   \* the file: who created it and whether it is whole
    saver      \* where each request is, and what it was told

dvars == <<dossier, saver>>

NoDossier == [by |-> "nobody", whole |-> FALSE]
DossierInit ==
    /\ dossier = NoDossier
    /\ saver = [s \in Savers |-> "idle"]

\* Wrong: the file is opened for writing, be it there or not.
OpenAnyway(s) ==
    /\ saver[s] = "idle"
    /\ dossier' = [by |-> s, whole |-> FALSE]
    /\ saver' = [saver EXCEPT ![s] = "open"]

\* open(file, 'wx').
OpenNew(s) ==
    /\ saver[s] = "idle"
    /\ IF dossier = NoDossier
       THEN /\ dossier' = [by |-> s, whole |-> FALSE]
            /\ saver' = [saver EXCEPT ![s] = "open"]
       ELSE /\ saver' = [saver EXCEPT ![s] = "conflict"]
            /\ UNCHANGED dossier

\* writeFile() and close().
WriteDossier(s) ==
    /\ saver[s] = "open"
    /\ \/ /\ dossier' = [dossier EXCEPT !.whole = TRUE]
          /\ saver' = [saver EXCEPT ![s] = "saved"]
       \/ /\ saver' = [saver EXCEPT ![s] = "failed"]
          /\ UNCHANGED dossier

\* The handle is closed and the file removed, if the disk lets it.
RemoveDossier(s) ==
    /\ saver[s] = "failed"
    /\ saver' = [saver EXCEPT ![s] = "error"]
    /\ dossier' \in {NoDossier, dossier}

DossierNext == \E s \in Savers : OpenNew(s) \/ WriteDossier(s) \/ RemoveDossier(s)

\* Requests end with the process; a file that is not whole stays, and no later
\* request writes or removes it.
DossierRestart ==
    /\ saver' = [s \in Savers |-> IF saver[s] \in {"open", "failed"} THEN "cut off" ELSE saver[s]]
    /\ UNCHANGED dossier

\* A request that was told its dossier is saved finds it whole and its own for
\* good, whatever other requests for the same session do and wherever they fail;
\* one of them at most is told so.
DossierStays ==
    \A s \in Savers : saver[s] = "saved" => dossier = [by |-> s, whole |-> TRUE]
=============================================================================
