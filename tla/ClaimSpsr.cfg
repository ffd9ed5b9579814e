SPECIFICATION Spec
CONSTANTS
    Tasks = {a, b, c}
    Servers = {a, b}
INVARIANTS
    LeavesToItsCaller
