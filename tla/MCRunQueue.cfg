SPECIFICATION Spec
CONSTANTS
    Users <- Priorities
    NotYet = NotYet
INVARIANTS
    TrieConsistent
    LookupsFindLowestBit
PROPERTY
    ImplementsReadyQueue
