SPECIFICATION Spec
CONSTANTS
    Vocabulary <- MCVocabulary
    TokenIds <- MCTokenIds
    EosTokens <- MCEos
    NoToken <- MCNoToken
    Words <- MCWords
    Free <- MCFree
    NoInput <- MCNoInput
    Threads <- MCThreads
    Interruptible <- Handled
    RowCount = 1
    Pad <- MCNoToken
    Prompt <- OnePrompt
    Inputs <- OneInputs
PROPERTY CompletionRejects
