SPECIFICATION Spec

CONSTANTS
    ada = ada
    ben = ben
    NoOwner = NoOwner
    Owner <- MCOwner
    Posture = {"passes", "fails"}
    Seeds <- MCSeeds
    Thread = {1, 2}
    Followed = {1}
    Array = {1, 2, 3}
    MaxCap = 2

INVARIANT
    TornOnlyByReRegistration

PROPERTY ImplementsInventory
