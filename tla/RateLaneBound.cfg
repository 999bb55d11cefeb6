SPECIFICATION Spec
CONSTANTS
    w1 = w1
    w2 = w2
    w3 = w3
    Workers <- MCWorkers
    Period = 2
    Bursts <- MCBursts
    MaxSaves = 2
    MaxElapsed = 6
SYMMETRY MCSymmetry
INVARIANTS
    TypeOK
    RateHeldPerSlot
