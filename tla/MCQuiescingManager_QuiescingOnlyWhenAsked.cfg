\* With NDEBUG: invalid_input only logs, and the fall-through turns a late
\* flows_gone into a quiesce of the connections after an unquiesce.
CONSTANTS
    EdgeProxy = FALSE
    AssertsEnabled = FALSE
    InitStates = {"ACTIVE"}
    MaxCommands = 3
    MaxInputs = 9
    NoInput = NoInput
SPECIFICATION QmSpec
CHECK_DEADLOCK FALSE
INVARIANT QuiescingOnlyWhenAsked
