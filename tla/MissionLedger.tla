--------------------------- MODULE MissionLedger ---------------------------
(***************************************************************************)
(* What the server promises about the saved record of one time-travel       *)
(* mission: a draft may be replaced as often as the user likes; once the     *)
(* mission is active its plan is locked, its events are only ever appended   *)
(* to and its clock never goes back.  The record never disappears.          *)
(* This is the promise of validatePortfolioMissionSaveTransition() in        *)
(* server/portfolio-mission-store.mjs, stated without tabs, requests, version *)
(* checks or files.                                                         *)
(***************************************************************************)
EXTENDS Naturals, Sequences, SequencesExt

CONSTANTS
    Plans,      \* what the user decides before the start
    Decisions,  \* what an event may record: a position opened, changed, closed
    NoDoc       \* "there is no record"

VARIABLE doc    \* the saved document

Drafts == [state : {"draft"}, plan : Plans]
Actives == [state : {"active"}, plan : Plans, events : Seq(Decisions), now : Nat]
Docs == Drafts \cup Actives

\* An active document that continues another one, or is equal to it.
Continues(d, e) ==
    /\ d.state = "active" /\ e.state = "active"
    /\ d.plan = e.plan
    /\ IsPrefix(d.events, e.events)
    /\ d.now <= e.now

Init == doc = NoDoc

\* A first save, or a save over a draft: any document.
Replace ==
    /\ doc = NoDoc \/ doc.state = "draft"
    /\ doc' \in Docs

\* A save over an active document.
Extend ==
    /\ doc # NoDoc /\ doc.state = "active"
    /\ doc' \in Docs
    /\ Continues(doc, doc')

Next == Replace \/ Extend

Spec == Init /\ [][Next]_doc
=============================================================================
