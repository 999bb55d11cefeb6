---------------------------- MODULE MissionSave ----------------------------
(***************************************************************************)
(* Saving one time-travel mission from several browser tabs.                *)
(*                                                                         *)
(* A tab (ui/tabs/portfolio-time.mjs) holds a document, a chain of saves     *)
(* that go out one at a time, and lastSavedAt, the version the server gave    *)
(* its last save or the record it opened.  The server                        *)
(* (server/portfolio-mission-store.mjs) chains all saves on pendingWrite;     *)
(* each one reads the file, checks version, time and transition, and then    *)
(* writes a temporary file and renames it.  Requests and answers get lost,    *)
(* writes fail, the server restarts, and the wall clock is set back.         *)
(*                                                                         *)
(* A document is a draft with a plan or an active session with a locked       *)
(* plan, its events and its clock; steps of the form, snapshots and money     *)
(* are folded into these.  `by' in the file is for the properties only: it    *)
(* says which tab wrote it.                                                  *)
(***************************************************************************)
EXTENDS Naturals, FiniteSets, Sequences, SequencesExt

CONSTANTS
    Tabs,
    Creator,     \* the tab in which the mission was begun
    Plans, Decisions,
    NoDoc, NoTime, NoReply,
    MaxTime,     \* bound: wall clock readings
    MaxNow,      \* bound: the end of the mission
    MaxEvents,   \* bound: events of the mission
    MaxWork,     \* bound: saves a tab holds in its chain
    MaxPending,  \* bound: saves the server holds in its chain
    Limit        \* bound: how often users save and open, how often something
                 \* breaks, fails, restarts or sets the clock back

ASSUME CreatorAssumption == Creator \in Tabs
ASSUME NoTimeAssumption == NoTime \notin Nat
ASSUME BoundsAssumption ==
    {MaxTime, MaxNow, MaxEvents, MaxWork, MaxPending} \subseteq Nat
ASSUME LimitAssumption == Limit \in [{"saves", "opens", "faults"} -> Nat]

VARIABLES
    file,      \* the record on disk: [savedAt, doc, by] or NoDoc
    clock,     \* Date.now() of the server
    pending,   \* the saves chained on pendingWrite, in order of arrival
    reply,     \* tab -> the answer on the way back
    base,      \* tab -> the document it shows and works on
    last,      \* tab -> lastSavedAt
    work,      \* tab -> the documents chained on persistQueue, the first of
               \* which may have reached the server
    stepped,   \* tab -> the document of a clock step that awaits its prices
    opening,   \* tab -> the record it has read and not applied yet
    spent      \* how much of Limit is used up

server == <<file, clock, pending>>
tab == <<base, last, work, stepped, opening>>
vars == <<server, reply, tab, spent>>

Ledger == INSTANCE MissionLedger WITH doc <- IF file = NoDoc THEN NoDoc ELSE file.doc

Times == 0 .. MaxTime
Drafts == [state : {"draft"}, plan : Plans]
Actives == [state : {"active"}, plan : Plans,
            events : BoundedSeq(Decisions, MaxEvents), now : 0 .. MaxNow]
Docs == Drafts \cup Actives

\* The record on disk, what a tab has read of it, a save on its way, an answer.
Records == [savedAt : Times, doc : Docs, by : Tabs]
Openings == [savedAt : Times, doc : Docs, applying : BOOLEAN]
Saves == [tab : Tabs, doc : Docs, expected : Times \cup {NoTime},
          savedAt : Times, heard : BOOLEAN, checked : BOOLEAN]
Replies == [ok : BOOLEAN, savedAt : Times \cup {NoTime}]

ASSUME NoDocAssumption == NoDoc \notin Docs \cup Records \cup Openings
ASSUME NoReplyAssumption == NoReply \notin Replies

Init ==
    /\ file = NoDoc
    /\ clock = 0
    /\ pending = <<>>
    /\ reply = [t \in Tabs |-> NoReply]
    /\ base = [t \in Tabs |-> NoDoc]
    /\ last = [t \in Tabs |-> NoTime]
    /\ work = [t \in Tabs |-> <<>>]
    /\ stepped = [t \in Tabs |-> NoDoc]
    /\ opening = [t \in Tabs |-> NoDoc]
    /\ spent = [kind \in DOMAIN Limit |-> 0]

IsActive(d) == d # NoDoc /\ d.state = "active"

Spend(kind) ==
    /\ spent[kind] < Limit[kind]
    /\ spent' = [spent EXCEPT ![kind] = @ + 1]

-----------------------------------------------------------------------------
\* A record is being restored into the form; persist() ignores every save meanwhile.
Resuming(t) == opening[t] # NoDoc /\ opening[t].applying

\* What the user does in a tab.  persist(d): chain one more save.
Persist(t, d) ==
    /\ ~Resuming(t)
    /\ Spend("saves")
    /\ Len(work[t]) < MaxWork
    /\ work' = [work EXCEPT ![t] = Append(@, d)]

\* A step of the form is saved: the tab works on the new draft at once.
SaveStep(t, p) ==
    LET d == [state |-> "draft", plan |-> p] IN
    /\ base[t] = NoDoc => t = Creator
    /\ ~IsActive(base[t])
    /\ base' = [base EXCEPT ![t] = d]
    /\ Persist(t, d)
    /\ UNCHANGED <<server, reply, last, stepped, opening>>

\* The mission is locked and started; the tab adopts that only when it is saved.
Activate(t) ==
    /\ base[t] # NoDoc /\ base[t].state = "draft"
    /\ Persist(t, [state |-> "active", plan |-> base[t].plan, events |-> <<>>, now |-> 0])
    /\ UNCHANGED <<server, reply, base, last, stepped, opening>>

\* A position is opened, changed or closed.
Decide(t, e) ==
    /\ IsActive(base[t])
    /\ Len(base[t].events) < MaxEvents
    /\ Persist(t, [base[t] EXCEPT !.events = Append(@, e)])
    /\ UNCHANGED <<server, reply, base, last, stepped, opening>>

\* advanceClock(): the new session is made from the current one, then its
\* prices are awaited; what the user did meanwhile is not in it.  Without
\* prices, or while a record is being restored, the step comes to nothing.
BeginStepPastEnd(t) ==
    /\ IsActive(base[t])
    /\ stepped[t] = NoDoc
    /\ stepped' = [stepped EXCEPT ![t] = [base[t] EXCEPT !.now = @ + 1]]
    /\ UNCHANGED <<server, reply, base, last, work, opening, spent>>
BeginStep(t) ==
    /\ IsActive(base[t]) /\ base[t].now < MaxNow
    /\ stepped[t] = NoDoc
    /\ stepped' = [stepped EXCEPT ![t] = [base[t] EXCEPT !.now = @ + 1]]
    /\ UNCHANGED <<server, reply, base, last, work, opening, spent>>
EndStep(t) ==
    /\ stepped[t] # NoDoc
    /\ \/ Persist(t, stepped[t])
       \/ UNCHANGED <<work, spent>>
    /\ stepped' = [stepped EXCEPT ![t] = NoDoc]
    /\ UNCHANGED <<server, reply, base, last, opening>>

\* The saved mission is opened: its record is read; then applyResumed() takes
\* over its version, and after an await its document, unless a step of the form
\* cannot be rebuilt.
Open(t) ==
    /\ file # NoDoc /\ opening[t] = NoDoc
    /\ Spend("opens")
    /\ opening' = [opening EXCEPT ![t] =
                      [savedAt |-> file.savedAt, doc |-> file.doc, applying |-> FALSE]]
    /\ UNCHANGED <<server, reply, base, last, work, stepped>>
Apply(t) ==
    /\ opening[t] # NoDoc /\ ~Resuming(t)
    /\ last' = [last EXCEPT ![t] = opening[t].savedAt]
    /\ opening' = [opening EXCEPT ![t].applying = TRUE]
    /\ UNCHANGED <<server, reply, base, work, stepped, spent>>
Opened(t) ==
    /\ Resuming(t)
    /\ base' = [base EXCEPT ![t] = opening[t].doc] \/ UNCHANGED base
    /\ opening' = [opening EXCEPT ![t] = NoDoc]
    /\ UNCHANGED <<server, reply, last, work, stepped, spent>>

-----------------------------------------------------------------------------
\* A save of the tab has reached the server and the tab waits for its answer.
Waiting(t) ==
    \/ reply[t] # NoReply
    \/ \E i \in DOMAIN pending : pending[i].tab = t /\ pending[i].heard

\* The next save of the chain goes out with the version known at that moment;
\* the handler stamps it and chains it on pendingWrite.
SendImpatient(t) ==
    /\ work[t] # <<>>
    /\ Len(pending) < MaxPending
    /\ pending' = Append(pending,
          [tab |-> t, doc |-> Head(work[t]), expected |-> last[t],
           savedAt |-> clock, heard |-> TRUE, checked |-> FALSE])
    /\ UNCHANGED <<file, clock, reply, tab, spent>>
Send(t) ==
    /\ work[t] # <<>> /\ ~Waiting(t)
    /\ Len(pending) < MaxPending
    /\ pending' = Append(pending,
          [tab |-> t, doc |-> Head(work[t]), expected |-> last[t],
           savedAt |-> clock, heard |-> TRUE, checked |-> FALSE])
    /\ UNCHANGED <<file, clock, reply, tab, spent>>

\* The answer arrives and the next save of the chain may go out.  Success gives
\* the tab its new version, and an active document is adopted only now; failure
\* is shown and changes neither.
ReceiveAdopting(t) ==
    /\ reply[t] # NoReply
    /\ work' = [work EXCEPT ![t] = Tail(@)]
    /\ reply' = [reply EXCEPT ![t] = NoReply]
    /\ last' = IF reply[t].ok THEN [last EXCEPT ![t] = reply[t].savedAt] ELSE last
    /\ base' = IF IsActive(Head(work[t])) THEN [base EXCEPT ![t] = Head(work[t])] ELSE base
    /\ UNCHANGED <<server, stepped, opening, spent>>
Receive(t) ==
    /\ reply[t] # NoReply
    /\ work' = [work EXCEPT ![t] = Tail(@)]
    /\ reply' = [reply EXCEPT ![t] = NoReply]
    /\ IF reply[t].ok
       THEN /\ last' = [last EXCEPT ![t] = reply[t].savedAt]
            /\ base' = IF IsActive(Head(work[t]))
                       THEN [base EXCEPT ![t] = Head(work[t])] ELSE base
       ELSE UNCHANGED <<last, base>>
    /\ UNCHANGED <<server, stepped, opening, spent>>

\* The connection breaks, before the request arrives, while the server works
\* on it, or on the way back; the tab reports a failure in each case.
Disconnect(t) ==
    /\ Spend("faults")
    /\ work[t] # <<>>
    /\ work' = [work EXCEPT ![t] = Tail(@)]
    /\ reply' = [reply EXCEPT ![t] = NoReply]
    /\ pending' = [i \in DOMAIN pending |->
                      IF pending[i].tab = t THEN [pending[i] EXCEPT !.heard = FALSE]
                      ELSE pending[i]]
    /\ UNCHANGED <<file, clock, base, last, stepped, opening>>

-----------------------------------------------------------------------------
\* Which save of the chain may run now.
AnyTurn(i) == i \in DOMAIN pending
Turn(i) == i = 1 /\ pending # <<>>

AcceptsWithoutTime(r) ==
    file # NoDoc =>
        /\ r.expected = NoTime \/ r.expected = file.savedAt
        /\ IsActive(file.doc) => Ledger!Continues(file.doc, r.doc)
\* savePortfolioMissionDraftUnlocked() up to the write: the version, the time
\* and the transition, against the record on disk.
Accepts(r) ==
    file # NoDoc =>
        /\ r.expected = NoTime \/ r.expected = file.savedAt
        /\ r.savedAt >= file.savedAt
        /\ IsActive(file.doc) => Ledger!Continues(file.doc, r.doc)

\* The operation leaves the chain and its answer, if anybody still listens,
\* starts on its way.
Answer(i, ok) ==
    LET r == pending[i] IN
    /\ pending' = RemoveAt(pending, i)
    /\ reply' = IF r.heard THEN [reply EXCEPT ![r.tab] = [ok |-> ok, savedAt |-> IF ok THEN r.savedAt ELSE NoTime]]
                ELSE reply

Check(i) ==
    /\ Turn(i) /\ ~pending[i].checked
    /\ \/ /\ Accepts(pending[i])
          /\ pending' = [pending EXCEPT ![i].checked = TRUE]
          /\ UNCHANGED reply
       \/ /\ ~Accepts(pending[i])
          /\ Answer(i, FALSE)
    /\ UNCHANGED <<file, clock, tab, spent>>

\* The rename: the record is replaced as a whole.
Write(i) ==
    /\ Turn(i) /\ pending[i].checked
    /\ file' = [savedAt |-> pending[i].savedAt, doc |-> pending[i].doc,
                by |-> pending[i].tab]
    /\ Answer(i, TRUE)
    /\ UNCHANGED <<clock, tab, spent>>

\* mkdir, write or rename throws; the next save of the chain runs all the same.
WriteFails(i) ==
    /\ Spend("faults")
    /\ Turn(i) /\ pending[i].checked
    /\ Answer(i, FALSE)
    /\ UNCHANGED <<file, clock, tab>>

\* The server stops and starts again: the chain is gone, the file is not, and
\* the tabs that were waiting see their connection break.
Restart ==
    /\ Spend("faults")
    /\ pending # <<>>
    /\ pending' = <<>>
    /\ reply' = [t \in Tabs |->
                    IF \E i \in DOMAIN pending : pending[i].tab = t /\ pending[i].heard
                    THEN [ok |-> FALSE, savedAt |-> NoTime] ELSE reply[t]]
    /\ UNCHANGED <<file, clock, tab>>

\* Date.now() goes on, or is set back by the user or by time synchronisation.
SetClock(c) ==
    /\ c # clock
    /\ IF c < clock THEN Spend("faults") ELSE UNCHANGED spent
    /\ clock' = c
    /\ UNCHANGED <<file, pending, reply, tab>>

Next ==
    \/ \E t \in Tabs : Activate(t) \/ BeginStep(t) \/ EndStep(t) \/ Open(t) \/ Apply(t) \/ Opened(t)
    \/ \E t \in Tabs, p \in Plans : SaveStep(t, p)
    \/ \E t \in Tabs, e \in Decisions : Decide(t, e)
    \/ \E t \in Tabs : Send(t) \/ Receive(t) \/ Disconnect(t)
    \/ \E i \in DOMAIN pending : Check(i) \/ Write(i) \/ WriteFails(i)
    \/ Restart
    \/ \E c \in Times : SetClock(c)

Spec == Init /\ [][Next]_vars

-----------------------------------------------------------------------------
\* The types of the variables.
TypeOK ==
    /\ file \in Records \cup {NoDoc}
    /\ clock \in Times
    /\ \A i \in DOMAIN pending : pending[i] \in Saves
    /\ base \in [Tabs -> Docs \cup {NoDoc}]
    /\ last \in [Tabs -> Times \cup {NoTime}]

\* Whatever the tabs do at the same time, whatever gets lost or fails, the
\* file goes through the life of a mission: no tab takes an active mission back
\* to a draft, drops an event, rewrites a plan or turns its clock back.
KeepsLedger == Ledger!Spec

\* What a tab was told is saved is really there: the active mission it shows is
\* the one on disk or an earlier state of it.
ConfirmedKept ==
    \A t \in Tabs :
        IsActive(base[t]) => file # NoDoc /\ Ledger!Continues(base[t], file.doc)

\* The version by which tabs recognise a change never goes back, although the
\* requests are stamped before they wait and the clock may be set back.
SavedAtMonotone ==
    [][file # NoDoc => file' # NoDoc /\ file'.savedAt >= file.savedAt]_file

\* A tab waits for one save at a time, however its connections broke before,
\* and an answer always belongs to the save it takes off its chain.
OneSaveAtATime ==
    \A t \in Tabs :
        LET here == {i \in DOMAIN pending : pending[i].tab = t /\ pending[i].heard} IN
        /\ Cardinality(here) + (IF reply[t] # NoReply THEN 1 ELSE 0) <= 1
        /\ Waiting(t) => work[t] # <<>>
        /\ \A i \in here : pending[i].doc = Head(work[t])

\* ui/portfolio-mission-data.mjs:73-75: if another tab has taken the mission
\* further the server refuses, because a silent overwrite would throw the
\* user's work away.  So a save that replaces another tab's record has seen it.
NoSilentOverwrite ==
    [][\A i \in DOMAIN pending :
          (Write(i) /\ file # NoDoc)
          => pending[i].tab = file.by \/ pending[i].expected = file.savedAt]_vars
=============================================================================
