SPECIFICATION Spec
CONSTANTS
    Tasks = {t1, t2}
    Sessions = {s1, s2, s3}
    NoSession = NoSession
    MaxPairings = 3
SYMMETRY Symmetry
INVARIANTS SessionCurrent PairingRestorable
