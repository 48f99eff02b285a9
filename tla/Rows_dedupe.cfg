CONSTANTS
    Half = 16
    Unit = 8
    TooLarge = 112
    FloatNums <- Mini
    Even <- MiniEven
    Bits <- MiniBits
    Sessions <- StringSession
    SymbolIds = {0, 1, 2}
    Seeds = {}
    Refusals = {3, 255}
    MaxCalls = 1
SPECIFICATION Spec
INVARIANT
    DedupeSkipsInlineFacts
