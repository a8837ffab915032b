CONSTANTS
    ClassCount = 2
    Names <- MCNames
    NoName = "unlabelled"
    Priority <- MCPriority
    Dead = 0
    Automata <- MCAutomata
    LimitsTried <- MCLimits
    Inputs <- MCInputs
SPECIFICATION Spec
CHECK_DEADLOCK FALSE
INVARIANTS
    TypeOK
    WithinLimits
    MunchIsExact
