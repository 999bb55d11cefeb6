---------------------------- MODULE PositionBook ----------------------------
(***************************************************************************)
(* What the event ledger of a mission stands for: a book of positions, each  *)
(* a row of lots with the quantity that is left of them.  A position is       *)
(* opened with one lot, grows by a new lot at the end, and shrinks first in    *)
(* first out; one that is down to nothing stays that way.  Only a running      *)
(* mission trades, and a mission runs once.                                  *)
(***************************************************************************)
EXTENDS Naturals, Sequences, SequencesExt

VARIABLES
    phase,  \* "draft", "active" or "closed"
    book    \* position -> lot -> quantity left, positions and lots in order

Init == phase = "draft" /\ book = <<>>

Start == phase = "draft" /\ phase' = "active" /\ UNCHANGED book
Finish == phase = "active" /\ phase' = "closed" /\ UNCHANGED book

Holds(lots) == \E k \in DOMAIN lots : lots[k] > 0

\* A lot is added to a row, perhaps an empty one.
Grown(old, new) ==
    /\ Len(new) = Len(old) + 1
    /\ Front(new) = old
    /\ Last(new) > 0

\* Lot k is touched: the lots before it are used up, those after it are not.
Shrunk(old, new) ==
    /\ DOMAIN new = DOMAIN old
    /\ \E k \in DOMAIN old :
          /\ new[k] < old[k]
          /\ \A i \in DOMAIN old : (i < k => new[i] = 0) /\ (i > k => new[i] = old[i])

\* One position is opened, or one that holds something grows or shrinks.
Traded(old, new) ==
    \/ /\ Len(new) = Len(old) + 1
       /\ Front(new) = old
       /\ Grown(<<>>, Last(new))
    \/ /\ DOMAIN new = DOMAIN old
       /\ \E p \in DOMAIN old :
             /\ Holds(old[p])
             /\ Grown(old[p], new[p]) \/ Shrunk(old[p], new[p])
             /\ \A other \in DOMAIN old \ {p} : new[other] = old[other]

Trade ==
    /\ phase = "active" /\ UNCHANGED phase
    /\ \E old \in {book}, new \in {book'} : Traded(old, new)

Next == Start \/ Finish \/ Trade

Spec == Init /\ [][Next]_<<phase, book>>
=============================================================================
