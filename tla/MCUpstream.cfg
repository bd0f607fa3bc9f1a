SPECIFICATION FairSpec
CONSTANTS
    Tokens = {0, 5}
    MaxChunks = 3
    ServersAsked = {"adapter", "llmproxy"}
    SourcesAsked = {"litellm", "gemini", "ollama", "script", "hang"}
    KindsAsked = {"stream", "buffered", "generate"}
    Asks <- MCAsks
INVARIANTS
    TypeOK
    DoneIsWhole
    StatusBeforeStream
    RequiredToolIsCalled
    UsageIsPositive
PROPERTIES
    KeepsContract
    BothSidesEnd
