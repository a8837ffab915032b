SPECIFICATION SessionSpec
CONSTANTS
    Vocabulary <- MCVocabulary
    TokenIds <- MCTokenIds
    EosTokens <- MCEos
    NoToken <- MCNoToken
    Words <- MCWords
    Free <- MCFree
    NoInput <- MCNoInput
    Threads <- MCThreads
    Interruptible <- Handled
    RowCount = 2
    Pad = "b"
    Prompt <- TwoPrompt
    Inputs <- MCInputs
    Requests <- MCRequests
    NoRequest <- MCNoRequest
    MaxBatchRows = 4
    MaskBytes = 1
    MaxPackedMaskBytes = 2
INVARIANTS SessionTypeOK MasksFitTheInput InStep OneSession RefusalsAreFree
PROPERTIES PoisonIsFinal CallsEnd
