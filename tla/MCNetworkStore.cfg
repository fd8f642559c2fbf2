SPECIFICATION NetworkSpec
CONSTANTS
    n1 = n1
    Networks <- MCNetworks
    MaxNum = 3
    MaxFaults = 2
    MaxBlind = 1
INVARIANTS
    NetworkIndexesUnique
PROPERTIES
    ImplementsRegistry
