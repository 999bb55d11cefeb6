------------------------- MODULE MCPortfolioSession -------------------------
EXTENDS PortfolioSession

CONSTANTS f1, f2, c1, c2

MCFamilyOf == c1 :> f1 @@ c2 :> f2
\* The floor binds before both budgets are used up, the ceiling before the floor.
MCMissions == {[minFree |-> 4, maxMargin |-> 4]}
MCQuotes == {[capital |-> 1, margin |-> 0, cash |-> -1],
             [capital |-> 2, margin |-> 2, cash |-> 2]}
MCExits == {5}
=============================================================================
