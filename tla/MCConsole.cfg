SPECIFICATION Spec
CONSTANTS
    Letters = {"a", "b"}
    Size = 4
    Wrap = 256
INVARIANTS
    SeenIsStored
PROPERTIES
    EchoesTheLine
