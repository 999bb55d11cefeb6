------------------------------- MODULE Journal -------------------------------
(***************************************************************************)
(* The trade journal: each POST of /api/journal reads the whole file, adds *)
(* its row and writes the file back, with nothing between requests. A row  *)
(* is named by the time the server gave it.                                *)
(***************************************************************************)
EXTENDS Naturals, FiniteSets, Disk

CONSTANTS
    Posts,         \* requests that may be under way at once
    JournalCap,    \* JOURNAL_CAP
    MaxRows        \* bound: rows posted in a behaviour

ASSUME JournalCapAssumption == JournalCap \in Nat
ASSUME MaxRowsAssumption == MaxRows \in Nat
ASSUME JournalValues == \A rows \in SUBSET (1 .. MaxRows) : rows \notin {Missing, Torn}

VARIABLES
    journal,        \* data/journal.json: the set of its rows, or Missing
    journalWrites,  \* writes of it under way
    post,           \* the stage of each request and its row
    made,           \* how many rows have been made
    acked,          \* rows whose request was told that they are kept
    crowded,        \* rows whose request met another one
    blind           \* a request could not read the file

jvars == <<journal, journalWrites, post, made, acked, crowded, blind>>

JournalFile == INSTANCE AtomicJson WITH content <- journal, writes <- journalWrites

NoPost == [stage |-> "idle", row |-> 0]
Posting == {p \in Posts : post[p].stage # "idle"}

JournalInit ==
    /\ journal = Missing /\ journalWrites = {}
    /\ post = [p \in Posts |-> NoPost]
    /\ made = 0 /\ acked = {} /\ crowded = {} /\ blind = FALSE

\* makeEntry() with the time of the server.
Post(p) ==
    /\ post[p].stage = "idle" /\ made < MaxRows
    /\ made' = made + 1
    /\ post' = [post EXCEPT ![p] = [stage |-> "reading", row |-> made']]
    /\ crowded' = IF Posting = {} THEN crowded
                  ELSE crowded \cup {made'} \cup {post[q].row : q \in Posting}
    /\ UNCHANGED <<journal, journalWrites, acked, blind>>

\* normalizeJournal(): the newest rows, as many as the journal may hold.
NewestRows(rows) ==
    {r \in rows : Cardinality({q \in rows : q > r}) < JournalCap}

\* appendEntry() on what was read; every error of reading stands for no rows.
Extend(p, readable) ==
    /\ post[p].stage = "reading"
    /\ LET list == IF readable /\ journal \notin {Missing, Torn} THEN journal ELSE {}
       IN  JournalFile!Begin(p, NewestRows(list \cup {post[p].row}))
    /\ post' = [post EXCEPT ![p].stage = "writing"]
    /\ blind' = (blind \/ ~readable)
    /\ UNCHANGED <<made, acked, crowded>>

Store(p) ==
    /\ \E w \in journalWrites :
          /\ w.by = p
          /\ \/ JournalFile!Fill(w) /\ UNCHANGED <<post, acked>>
             \/ /\ JournalFile!Replace(w)
                /\ acked' = acked \cup {post[p].row}
                /\ post' = [post EXCEPT ![p] = NoPost]
             \/ /\ JournalFile!GiveUp(w)
                /\ post' = [post EXCEPT ![p] = NoPost]
                /\ UNCHANGED acked
    /\ UNCHANGED <<made, crowded, blind>>

JournalNext ==
    \E p \in Posts : Post(p) \/ Extend(p, TRUE) \/ Extend(p, FALSE) \/ Store(p)

JournalRestart ==
    /\ JournalFile!Abandon
    /\ post' = [p \in Posts |-> NoPost]
    /\ UNCHANGED <<made, acked, crowded, blind>>

\* A row that was acknowledged is in the file, unless its own request met
\* another one, or newer rows fill the journal, or a request that could not
\* read the file has written it anew. Requests that meet each other later on
\* lose only rows of their own.
JournalKept ==
    \A r \in acked : journal # Missing /\
        (journal = Torn \/ r \in journal \/ r \in crowded \/ blind
          \/ Cardinality({q \in journal : q > r}) = JournalCap)
=============================================================================
