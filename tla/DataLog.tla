------------------------------- MODULE DataLog -------------------------------
(***************************************************************************)
(* The data log of one day: rows are numbered, kept in a buffer, and every *)
(* second a batch is appended to the file of the day, up to a cap; a       *)
(* download flushes too. A row is <<life, number>>: numbers go on after a  *)
(* restart from those found in the file, if it can be read. An append may  *)
(* be cut off; the next one goes on in the line that it left. A batch is   *)
(* taken to be one write, and sizes are counted in rows.                   *)
(***************************************************************************)
EXTENDS Naturals, FiniteSets

CONSTANTS
    FileCap,     \* fileCapBytes, in rows
    Flushers,    \* flushes that may be under way at once: the timer's, a download's
    MaxLogRows   \* bound: rows numbered in a life

ASSUME LogAssumption == FileCap \in Nat /\ MaxLogRows \in Nat

VARIABLES
    life,      \* which process writes
    seq,       \* the last number given
    base,      \* the number this life went on from
    pending,   \* rows not yet in a batch
    flush,     \* the batch of each flush, and the size it looked up
    logFile,   \* rows that can be read in the file of the day
    junk,      \* rows in lines of the file that cannot be read
    tail,      \* the end of the file: {} a newline, {Part} a piece, {r} row r without its newline
    size,      \* sizes: what the file is held to hold, or Unknown
    capped,    \* the day is in the set capped
    numbered,  \* every row that was given a number
    refused,   \* rows that met the cap, a missing directory or a failed append
    cutOff,    \* rows in memory when a life ended
    blindLives \* lives that could not read the file they found

lvars == <<life, seq, base, pending, flush, logFile, junk, tail, size, capped,
           numbered, refused, cutOff, blindLives>>

Unknown == FileCap + 1000
NoFlush == [stage |-> "idle", batch |-> {}, seen |-> 0]
Part == <<0, 0>>
Lines == logFile \cup junk \cup tail

LogInit ==
    /\ life = 1 /\ seq = 0 /\ base = 0
    /\ pending = {} /\ numbered = {} /\ refused = {} /\ cutOff = {} /\ blindLives = {}
    /\ flush = [f \in Flushers |-> NoFlush]
    /\ logFile = {} /\ junk = {} /\ tail = {} /\ size = Unknown /\ capped = FALSE

Push ==
    /\ seq < base + MaxLogRows
    /\ seq' = seq + 1
    /\ pending' = pending \cup {<<life, seq'>>}
    /\ numbered' = numbered \cup {<<life, seq'>>}
    /\ UNCHANGED <<life, base, flush, logFile, junk, tail, size, capped, refused, cutOff, blindLives>>

\* flush() up to its first await: the batch is taken out of the buffer.
FlushBegin(f) ==
    /\ flush[f].stage = "idle" /\ pending # {}
    /\ flush' = [flush EXCEPT ![f] = [NoFlush EXCEPT !.stage = "mkdir", !.batch = pending]]
    /\ pending' = {}
    /\ UNCHANGED <<life, seq, base, logFile, junk, tail, size, capped, numbered, refused, cutOff, blindLives>>

\* The rows of a capped day stay in memory, and so do all if there is no
\* directory for them.
FlushDrop(f) ==
    /\ flush[f].stage = "mkdir"
    /\ refused' = refused \cup flush[f].batch
    /\ flush' = [flush EXCEPT ![f] = NoFlush]
    /\ UNCHANGED <<life, seq, base, pending, logFile, junk, tail, size, capped, numbered, cutOff, blindLives>>

\* The rows fit, as far as is known, or a note that the file is full goes out
\* in their place.
Decide(f, known) ==
    LET batch == flush[f].batch
        fits  == known + Cardinality(batch) <= FileCap
    IN  /\ size' = known
        /\ capped' = (capped \/ ~fits)
        /\ flush' = [flush EXCEPT ![f] = [@ EXCEPT !.stage = "appending",
                                                   !.batch = IF fits THEN batch ELSE {}]]
        /\ refused' = IF fits THEN refused ELSE refused \cup batch
        /\ UNCHANGED <<life, seq, base, pending, logFile, junk, tail, numbered, cutOff, blindLives>>

\* A day that is not capped: its size is known, or is looked up first; a
\* failed look counts as an empty file.
FlushSized(f) ==
    /\ flush[f].stage = "mkdir" /\ ~capped
    /\ \/ size # Unknown /\ Decide(f, size)
       \/ /\ size = Unknown
          /\ \E seen \in {0, Cardinality(Lines)} :
                flush' = [flush EXCEPT ![f] = [@ EXCEPT !.stage = "stat", !.seen = seen]]
          /\ UNCHANGED <<life, seq, base, pending, logFile, junk, tail, size, capped,
                         numbered, refused, cutOff, blindLives>>

FlushStat(f) == flush[f].stage = "stat" /\ Decide(f, flush[f].seen)

\* What reaches the file of an append: whole lines of rows, then what was cut
\* off. The first line written goes on in the one the file ended in, and then
\* neither can be read.
Appended(rows, end) ==
    LET first  == IF rows = {} THEN end ELSE {r \in rows : \A q \in rows : r[2] <= q[2]}
        joined == IF tail = {} THEN {} ELSE tail \cup first
    IN  /\ logFile' = (logFile \cup rows \cup end) \ (joined \cup {Part})
        /\ junk' = junk \cup (joined \ {Part})
        /\ tail' = IF end # {} /\ end \subseteq joined THEN {Part} ELSE end

\* An append that fails writes nothing, or as many whole lines as it gets to,
\* and of the next one a piece or all but the newline.
Fails(batch, rows, end) ==
    /\ \A r \in rows, q \in batch \ rows : r[2] < q[2]
    /\ end \ {Part} \subseteq {q \in batch \ rows : \A r \in batch \ rows : q[2] <= r[2]}
    /\ rows = batch => batch = {} \/ end = {}
    /\ IF rows = {} /\ end = {} THEN UNCHANGED <<logFile, junk, tail>> ELSE Appended(rows, end)
    /\ refused' = refused \cup (batch \ (rows \cup end))
Ends(batch) == {{}, {Part}} \cup {{r} : r \in batch}

\* appendFile() comes back; its error is swallowed.
FlushEnd(f) ==
    /\ flush[f].stage = "appending"
    /\ flush' = [flush EXCEPT ![f] = NoFlush]
    /\ LET batch == flush[f].batch
       IN  \/ Appended(batch, {}) /\ size' = size + Cardinality(batch) /\ UNCHANGED refused
           \/ /\ \E rows \in SUBSET batch, end \in Ends(batch) : Fails(batch, rows, end)
              /\ UNCHANGED size
    /\ UNCHANGED <<life, seq, base, pending, capped, numbered, cutOff, blindLives>>

LogNext == Push \/ \E f \in Flushers :
    FlushBegin(f) \/ FlushDrop(f) \/ FlushSized(f) \/ FlushStat(f) \/ FlushEnd(f)

Batched == UNION {flush[f].batch : f \in Flushers}

\* The greatest number in the file.
Restored(file) == IF file = {} THEN 0 ELSE CHOOSE n \in {r[2] : r \in file} : \A r \in file : r[2] <= n

\* Wrong: each life numbers its rows from one.
RestoreNothing ==
    /\ seq' = 0 /\ blindLives' = blindLives
    /\ size' = IF Lines' = {} THEN Unknown ELSE Cardinality(Lines')

\* restore(): numbers go on from the file of today; if there is one and it
\* cannot be looked up or read, they start anew.
Restore ==
    \/ /\ seq' = Restored(logFile') /\ blindLives' = blindLives
       /\ size' = IF Lines' = {} THEN Unknown ELSE Cardinality(Lines')
    \/ /\ Lines' # {} /\ seq' = 0 /\ blindLives' = blindLives \cup {life'}
       /\ size' \in {Unknown, Cardinality(Lines')}

NewLife ==
    /\ life' = life + 1
    /\ Restore /\ base' = seq'
    /\ pending' = {} /\ capped' = FALSE
    /\ flush' = [f \in Flushers |-> NoFlush]
    /\ UNCHANGED numbered

\* Killed: the buffer is gone, and so is each batch under way (one that gets
\* through, or a part of it, is a FlushEnd just before).
LogCrash ==
    /\ cutOff' = cutOff \cup Batched \cup pending
    /\ UNCHANGED <<logFile, junk, tail, refused>>
    /\ NewLife

\* flushSync(): the buffer is written in one piece, unless the day is capped.
FlushSync ==
    \/ pending # {} /\ ~capped /\ Appended(pending, {}) /\ UNCHANGED refused
    \/ \E rows \in SUBSET pending, end \in Ends(pending) :
          /\ pending = {} \/ capped => rows = {} /\ end = {}
          /\ Fails(pending, rows, end)

\* Wrong: the process exits and leaves the buffer.
LogStopAtOnce ==
    /\ UNCHANGED <<logFile, junk, tail, refused>>
    /\ cutOff' = cutOff \cup Batched
    /\ NewLife

\* An exit on a signal: the buffer goes to the file, a batch under way is gone.
LogStop ==
    /\ FlushSync
    /\ cutOff' = cutOff \cup Batched
    /\ NewLife

Accounted == numbered \subseteq pending \cup Batched \cup logFile \cup junk \cup refused \cup cutOff
NeverTwice ==
    /\ pending \cap Batched = {} /\ pending \cap logFile = {} /\ Batched \cap logFile = {}
    /\ \A f, g \in Flushers : f # g => flush[f].batch \cap flush[g].batch = {}
NumbersUnique ==
    \A r, q \in logFile :
        r[2] = q[2] /\ r[1] < q[1] => \E l \in blindLives : r[1] < l /\ l <= q[1]

\* Every row numbered in any life waits for the disk, or can be read in the
\* file, or is lost for one of four reasons: the cap or a failed append, a line
\* run into another, a batch under way when its life ended, a kill. None is
\* written twice, though flushes and new rows overlap. Two rows of the file
\* share a number only if a life between them could not read the file.
LogKept == Accounted /\ NeverTwice /\ NumbersUnique
=============================================================================
