SPECIFICATION Spec
CONSTANTS
    ParserStates <- MCParserStates
    Terminals <- MCTerminals
    Nonterminals <- MCNonterminals
    Productions <- MCProductions
    Ignored <- MCIgnored
    Action <- MCAction
    Goto <- MCGoto
    NoGoto <- MCNoGoto
    Lhs <- MCLhs
    PopLen <- MCPopLen
    Eof <- MCEof
    StartState <- MCStartState
    Bytes <- MCBytes
    DfaStates <- MCDfaStates
    DfaStart <- MCDfaStart
    NoState <- MCNoState
    Delta <- MCDelta
    NoTerminal <- MCNoTerminal
    Label <- MCLabel
    LexerTerminals <- MCLexerTerminals
    LogicalStart <- MCLogicalStart
    EosTokens <- MCEosTokens
    Tokens <- RowTokens
    TokenBytes <- RowBytes
    Continuations <- MCContinuations
    NoToken <- MCNoToken
    TokenIds <- RowTokenIds
    StaleMask <- RowTokens
    Leftovers <- MCLeftovers
    Requests <- RowRequests
    RowCount = 1
    MaxStack = 4
INVARIANTS TypeOK RowsArePaths MasksMeanAdvances
PROPERTY AtomicAndExact
