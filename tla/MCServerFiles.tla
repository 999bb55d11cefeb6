--------------------------- MODULE MCServerFiles ---------------------------
EXTENDS ServerFiles, TLC
CONSTANTS r1, r2, c1, c2

\* Two stores at a time where both do little.
MCMixes == {{"journal"}, {"settings", "dossier"}, {"log"}, {"roster"},
            {"record"}, {"picture"}}
\* Contracts that come, change and go from board to board.
MCBoards == {c1 :> 1 @@ c2 :> Absent, c1 :> 1 @@ c2 :> 1, c1 :> Absent @@ c2 :> 2}
MCRanges == {{1}, {1, 2}}
=============================================================================
