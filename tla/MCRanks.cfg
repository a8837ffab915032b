SPECIFICATION Spec
CONSTANTS
    ParserStates <- MCParserStates
    Terminals <- MCTerminals
    Nonterminals <- MCNonterminals
    Productions <- MCProductions
    Ignored <- MCIgnored
    Action <- MCAction
    Goto <- MCGoto
    NoGoto <- MCNoGoto
    Lhs <- MCLhs
    PopLen <- MCPopLen
    Graphs <- MCGraphs
INVARIANTS TypeOK ComponentsAreExact RefusesJustLoops RanksFall TableIsLowered
PROPERTY Ends
CHECK_DEADLOCK FALSE
