\* Off an edge proxy, built with NDEBUG (invalid_input only logs).  The
\* operator has room for a few quiesce/unquiesce cycles; the node may rest
\* when they are over.
CONSTANTS
    EdgeProxy = FALSE
    AssertsEnabled = FALSE
    InitStates = {"ACTIVE"}
    MaxCommands = 4
    MaxInputs = 12
    NoInput = NoInput
SPECIFICATION QmSpec
CHECK_DEADLOCK FALSE
INVARIANT TrackerFollowsState
PROPERTY QuiesceCompletes
