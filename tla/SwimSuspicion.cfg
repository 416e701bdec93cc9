SPECIFICATION Spec
CONSTANTS
    Node <- Three
    Seeds <- Seed1
    Scenarios <- OnlyCut
PROPERTY SuspicionEnds
