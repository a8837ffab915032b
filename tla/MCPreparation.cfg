SPECIFICATION Spec
CONSTANTS
    ParserStates <- MCParserStates
    Terminals <- MCTerminals
    Nonterminals <- MCNonterminals
    Productions <- MCProductions
    Ignored <- MCIgnored
    Action <- MCAction
    Goto <- MCGoto
    NoGoto <- MCNoGoto
    Lhs <- MCLhs
    PopLen <- MCPopLen
    Eof <- MCEof
    StartState <- MCStartState
    Bytes <- MCBytes
    DfaStates <- MCDfaStates
    DfaStart <- MCDfaStart
    NoState <- MCNoState
    Delta <- MCDelta
    NoTerminal <- MCNoTerminal
    Label <- MCLabel
    LexerTerminals <- MCLexerTerminals
    LogicalStart <- MCLogicalStart
    EosTokens <- MCEosTokens
    Tokens <- RowTokens
    TokenBytes <- RowBytes
    SourceOrder <- MCSourceOrder
    ByteOrder <- MCByteOrder
    TokenOrder <- MCTokenOrder
    TerminalOrder <- MCTerminalOrder
    StateOrder <- MCStateOrder
    WorkLimits <- MCWorkLimits
    ItemLimits <- MCItemLimits
INVARIANTS TypeOK WorklistIsSound TablesAreExact LimitsHold
PROPERTY Ends
CHECK_DEADLOCK FALSE
