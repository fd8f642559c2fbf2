SPECIFICATION StoreSpec
CONSTANTS
    k1 = k1
    k2 = k2
    k3 = k3
    k4 = k4
    k5 = k5
    k6 = k6
    Keys <- MCKeys
    MaxNum = 3
    MaxFaults = 2
SYMMETRY KeySymmetry
INVARIANTS
    IndexesUnique
    KeysBound
    CreateHeals
PROPERTIES
    OthersKept
