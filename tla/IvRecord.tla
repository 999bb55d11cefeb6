------------------------------ MODULE IvRecord ------------------------------
(***************************************************************************)
(* The recording of the board for one day: a line per step, whole at first *)
(* and every half hour, else what changed since the line before. The file  *)
(* is read back at any time to draw the day. Seconds are counted in steps, *)
(* so the frame of second t is taken[t]; the bases (u, xu) travel like the *)
(* contracts and are left out.                                             *)
(***************************************************************************)
EXTENDS Naturals, Sequences

CONSTANTS
    Contracts,   \* contracts within the band
    Absent,      \* the quote of a contract that a board does not show
    Boards,      \* bound: boards a round may see
    KeyEvery,    \* IV_RECORD_KEYFRAME_SEC
    MaxFrames    \* bound: frames of the day

VARIABLES
    prev,    \* ivRec.prev: what the next frame is told apart from, or NoPrev
    taken,   \* every frame of the day: what became of its line, the board it was
             \* made of, and whether the line before was still being written
    piece    \* the file ends in a piece of a line

ivars == <<prev, taken, piece>>

NoPrev == [keyAt |-> 0, quotes |-> [i \in Contracts |-> Absent], meta |-> {}]
Nothing == [meta |-> {}, quotes |-> [i \in Contracts |-> Absent]]
Present(board) == {i \in Contracts : board[i] # Absent}

IvInit == prev = NoPrev /\ taken = <<>> /\ piece = FALSE

IsKey(second) == prev = NoPrev \/ second - prev.keyAt >= KeyEvery

\* The frame: cards of contracts not met before, quotes that changed, and
\* contracts gone.
RecordFrame(board, second) ==
    LET key == IsKey(second)
        seen == Present(board)
    IN  [k |-> key,
         m |-> IF key THEN seen ELSE seen \ prev.meta,
         c |-> LET changed == {i \in seen : key \/ prev.quotes[i] # board[i]}
               IN  [i \in changed |-> board[i]],
         x |-> IF key THEN {} ELSE Present(prev.quotes) \ seen]

\* recordIv() up to its first await: the state moves on before the line is
\* written. The line before may still be on its way.
Record(board) ==
    LET second == Len(taken) + 1 IN
    /\ second <= MaxFrames
    /\ prev' = [keyAt |-> IF IsKey(second) THEN second ELSE prev.keyAt,
                quotes |-> board,
                meta |-> prev.meta \cup Present(board)]
    /\ taken' = Append(taken, [frame |-> RecordFrame(board, second), line |-> "writing", board |-> board,
                               early |-> taken # <<>> /\ taken[Len(taken)].line = "writing"])
    /\ UNCHANGED piece

\* appendFile() has written the line; after a piece the two are one broken line.
Recorded(t) ==
    /\ taken[t].line = "writing"
    /\ taken' = [taken EXCEPT ![t].line = IF piece THEN "broken" ELSE "written"]
    /\ piece' = FALSE
    /\ UNCHANGED prev

\* Mutant of RecordFails: the state stays where it moved to before the write.
RecordFailsUnnoticed(t) ==
    /\ taken[t].line = "writing"
    /\ \E part \in BOOLEAN :
        /\ taken' = [taken EXCEPT ![t].line = IF part THEN "broken" ELSE "lost"]
        /\ piece' = (piece \/ part)
    /\ UNCHANGED prev

\* mkdir() or appendFile() fails, perhaps after a piece of the line: the next
\* frame is a whole one.
RecordFails(t) ==
    /\ taken[t].line = "writing"
    /\ \E part \in BOOLEAN :
        /\ taken' = [taken EXCEPT ![t].line = IF part THEN "broken" ELSE "lost"]
        /\ piece' = (piece \/ part)
    /\ prev' = NoPrev

IvNext ==
    \/ \E board \in Boards : Record(board)
    \/ \E t \in 1..Len(taken) : Recorded(t) \/ RecordFails(t)

\* The process ends: a line under way comes to nothing; one that got through, or
\* left a piece, has done so before.
IvRestart ==
    /\ taken' = [t \in 1..Len(taken) |->
         IF taken[t].line = "writing" THEN [taken[t] EXCEPT !.line = "lost"] ELSE taken[t]]
    /\ prev' = NoPrev
    /\ UNCHANGED piece

\* What recordMoments() holds after one more frame: a whole frame clears the
\* quotes, contracts gone are dropped, and a quote counts for a contract whose
\* card is known.
Shown(view, frame) ==
    LET meta == view.meta \cup frame.m
        kept == [i \in Contracts |-> IF frame.k \/ i \in frame.x THEN Absent ELSE view.quotes[i]]
    IN  [meta |-> meta,
         quotes |-> [i \in Contracts |-> IF i \in DOMAIN frame.c \cap meta THEN frame.c[i] ELSE kept[i]]]

\* parseRecord() and recordMoments(): the frames whose line can be read, in the
\* order of their seconds.
RecordMoments ==
    LET view[t \in 0..Len(taken)] ==
            IF t = 0 THEN Nothing
            ELSE IF taken[t].line = "written" THEN Shown(view[t - 1], taken[t].frame)
            ELSE view[t - 1]
    IN  view

\* Line l is broken, or the line before it never reached the file though frame l
\* counted on it.
Misleads(l) == taken[l].line = "broken" \/ (taken[l].early /\ taken[l - 1].line # "written")

\* A whole frame that can be read, between seconds l and t.
Whole(l, t) == {q \in l..t : taken[q].frame.k /\ taken[q].line = "written"}

\* Read back, the day shows at every recorded second the quotes of that second,
\* none missing and none that had gone, wherever lines fail or the process ends.
\* A line broken in the middle, or lost while the next frame was made, does harm
\* up to the next whole frame, and after it only to a contract which that frame
\* does not show: for want of its card it stays out until a whole frame shows it.
RecordReplays ==
    LET view == RecordMoments IN
    \A t \in 1..Len(taken), i \in Contracts :
        (taken[t].line = "written" /\ view[t].quotes[i] # taken[t].board[i]) =>
            \E l \in {q \in 1..t : Misleads(q)} :
                \/ Whole(l, t) = {}
                \/ /\ view[t].quotes[i] = Absent
                   /\ \A q \in Whole(l, t) : taken[q].board[i] = Absent
=============================================================================
