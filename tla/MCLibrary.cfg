SPECIFICATION Spec
CONSTANTS
    Half = 128
    Chars <- TheChars
    Calls <- TheCalls
    PRINTF_BUFMAX = 4
    UNLIMITED = UNLIMITED
    ScanCalls <- TheScans
    MemSize = 5
    Char = {0, 1, 2}
    SizeMax = 15
    Pending <- ThePending
    Strings <- TheStrings
    Values <- TheValues
INVARIANTS
    ReadsBackWhatItPrints
    FillsItsField
    SinksGetTheText
    ScansTheText
    StringFunctionsAgree
    WritesOnlyTheDestination
    ReturnsTheCopy
CHECK_DEADLOCK FALSE
