SPECIFICATION ToolchainSpec
CONSTANTS
    Bytes <- MCBytes
    Characters <- MCCharacters
    ByteOf <- MCByteOf
    Unmapped <- MCUnmapped
    Utf8 <- MCUtf8
    NotText <- MCNotText
    NotAnId <- MCNotAnId
    Documents <- MCDocuments
    EosLists <- MCEosLists
    MaxJsonBytes = 6
    MaxVocabulary = 5
    MaxDecoded = 6
    MaxImportWork = 45
    SizeOf <- MCSizeOf
    Identifiers <- MCIdentifiers
    Flaw <- MCFlaw
    Lexeme <- MCLexeme
    Skip <- MCSkip
    BaseCost = 1
    LexemeCost = 2
    RelevanceCost = 1
    PrefixBytes = 2
    MaxSourceBytes = 12
    MaxRegexBytes = 5
    MaxTerminalSpecs = 4
    MaxIgnoredTerminals = 2
    MaxTokens = 5
    MaxTokenBytes = 8
    MaxRegexFuel = 16
    MaxTerminals = 4
    MaxNonterminals = 3
    MaxProductions = 4
    MaxParserCells = 6
    MaxWork = 15
    MaxLogicalBytes = 16
    Sources <- MCSources
    Manifests <- MCManifests
    UserSources <- MCUserSources
    NoDocument = NoDocument
    NoSource = NoSource
    NoManifest = NoManifest
INVARIANTS ToolchainTypeOK ImportIsExact ImportStaysInBounds StagesAgree CompileIsExact
CHECK_DEADLOCK FALSE
