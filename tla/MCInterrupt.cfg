SPECIFICATION Spec
CONSTANTS
    Vocabulary <- MCVocabulary
    TokenIds <- MCTokenIds
    EosTokens <- MCEos
    NoToken <- MCNoToken
    Words <- MCWords
    Free <- MCFree
    NoInput <- MCNoInput
    Threads <- MCThreads
    Interruptible <- Anywhere
    RowCount = 1
    Pad <- MCNoToken
    Prompt <- OnePrompt
    Inputs <- OneInputs
INVARIANT InterruptPoisons
