SPECIFICATION Spec
CONSTANTS
    Tokens = {0, 5}
    MaxChunks = 2
    ServersAsked = {"llmproxy"}
    SourcesAsked = {"ollama"}
    KindsAsked = {"stream"}
    Asks <- MCAsks
INVARIANTS
    UsageIsCounted
