SPECIFICATION ClassificationSpec
CONSTANTS
    ParserStates <- MCParserStates
    Terminals <- MCTerminals
    Nonterminals <- MCNonterminals
    Productions <- MCProductions
    Ignored <- MCIgnored
    Action <- MCAction
    Goto <- MCGoto
    NoGoto <- MCNoGoto
    Lhs <- MCLhs
    PopLen <- MCPopLen
    HeadsTried <- MCHeads
    Stacks <- MCStacks
    Limits <- MCLimits
INVARIANTS ClassificationTypeOK Aligned ExactClassification NeverFails
PROPERTY Answers
CHECK_DEADLOCK FALSE
