SPECIFICATION Spec
CONSTANTS
    ParserStates <- MCParserStates
    Terminals <- MCTerminals
    Nonterminals <- MCNonterminals
    Productions <- MCProductions
    Ignored <- MCIgnored
    Action <- MCAction
    Goto <- MCGoto
    NoGoto <- MCNoGoto
    Lhs <- MCLhs
    PopLen <- MCPopLen
    Eof <- MCEof
    StartState <- MCStartState
    Bytes <- MCBytes
    DfaStates <- MCDfaStates
    DfaStart <- MCDfaStart
    NoState <- MCNoState
    Delta <- MCDelta
    NoTerminal <- MCNoTerminal
    Label <- MCLabel
    LexerTerminals <- MCLexerTerminals
    LogicalStart <- MCLogicalStart
    EosTokens <- MCEosTokens
    Tokens <- BatchTokens
    TokenBytes <- BatchBytes
    Continuations <- MCContinuations
    NoToken <- MCNoToken
    TokenIds <- BatchTokenIds
    StaleMask <- BatchTokens
    Leftovers <- BatchLeftovers
    Requests <- BatchRequests
    RowCount = 2
    MaxStack = 2
PROPERTY AtomicAndExact
