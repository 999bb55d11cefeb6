---------------------------- MODULE MCWatchLoop ----------------------------
EXTENDS WatchLoop
CONSTANTS c1, c2
MCContracts == {c1, c2}
Rows(a, b) == [c \in MCContracts |-> IF c = c1 THEN a ELSE b]

\* Nothing, a board that lacks a contract, and the whole board.
MCBoards == {Rows(NoRow, NoRow), Rows(1, NoRow), Rows(1, 1)}
=============================================================================
