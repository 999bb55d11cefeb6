SPECIFICATION Spec
CONSTANTS
    w1 = w1
    w2 = w2
    w3 = w3
    Workers <- MCTwoWorkers
    Period = 2
    Bursts <- MCCapBursts
    MaxSaves = 1
    MaxElapsed = 6
INVARIANTS
    RateHeld
