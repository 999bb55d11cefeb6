----------------------------- MODULE AtomicJson -----------------------------
(***************************************************************************)
(* writeJsonAtomic(): several writers of one file, each with a temporary   *)
(* file of its own that is renamed onto the target once it is whole. A     *)
(* rename that meets a lock is tried again, so writers may land in an      *)
(* order other than the one they began in. Instantiated by each store of   *)
(* the server that keeps one JSON file.                                    *)
(***************************************************************************)
EXTENDS Disk

VARIABLES
    content,       \* what the file holds
    writes         \* writes under way: who writes what, and whether the temporary file is whole

Begin(who, value) ==
    /\ writes' = writes \cup {[by |-> who, value |-> value, whole |-> FALSE]}
    /\ UNCHANGED content

\* Wrong: the target itself is written.
FillInPlace(w) ==
    /\ w \in writes /\ ~w.whole
    /\ writes' = (writes \ {w}) \cup {[w EXCEPT !.whole = TRUE]}
    /\ content' = Torn

Fill(w) ==
    /\ w \in writes /\ ~w.whole
    /\ writes' = (writes \ {w}) \cup {[w EXCEPT !.whole = TRUE]}
    /\ UNCHANGED content

\* The rename, perhaps after some that met a lock.
Replace(w) ==
    /\ w \in writes /\ w.whole
    /\ writes' = writes \ {w}
    /\ content' = w.value

\* The disk is full, or the file stays locked through all tries: the temporary
\* file is removed and the caller gets the error.
GiveUp(w) ==
    /\ w \in writes
    /\ writes' = writes \ {w}
    /\ UNCHANGED content

\* The process ends: temporary files are left behind, which nobody reads.
Abandon ==
    /\ writes' = {}
    /\ UNCHANGED content
=============================================================================
