CONSTANTS
    Half = 16
    Unit = 8
    TooLarge = 112
    FloatNums <- Mini
    Even <- MiniEven
    Bits <- MiniBits
    Sessions <- AllSessions
    SymbolIds = {0, 1, 2}
    Seeds <- OnePair
    Refusals = {3, 255}
    MaxCalls = 4
SPECIFICATION Spec
INVARIANTS
    StoredAsWritten
    MirrorSound
    KnownNeverDoubled
PROPERTIES
    RaisedWritesNothing
