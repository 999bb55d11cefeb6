----------------------------- MODULE MCRateLane -----------------------------
(* A lane of a few slots and a token every two ticks.  The burst is one, or more *)
(* than the slots may start beside their tokens when a window opens.           *)
EXTENDS RateLane, TLC
CONSTANTS w1, w2, w3
MCWorkers == {w1, w2, w3}
MCBursts == {1, 8}
MCTwoWorkers == {w1, w2}
MCCapBursts == {1, 2}
MCSymmetry == Permutations(MCWorkers)
=============================================================================
