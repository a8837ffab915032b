CONSTANTS
    Max32 = 15
    Max64 = 255
    ByteTable = 2
    Grammars <- MCGrammars
    LimitsTried <- MCLimits
SPECIFICATION Spec
CHECK_DEADLOCK FALSE
INVARIANTS
    TypeOK
    AcceptedTablesRun
    SizesBeforeTables
    TokensAreCounted
