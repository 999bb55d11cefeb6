---------------------------- MODULE MCMissionSave ----------------------------
(* Two tabs on one mission; the mission is begun in the first. *)
EXTENDS MissionSave, TLC
CONSTANTS t1, t2, p1, d1, d2, none
MCTabs == {t1, t2}
MCPlans == {p1}
MCDecisions == {d1, d2}
MCLimit == [saves |-> 5, opens |-> 1, faults |-> 2]
MCSymmetry == Permutations(MCDecisions)
=============================================================================
