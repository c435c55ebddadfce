\* With NDEBUG, off an edge proxy: a connections_gone the tracker began in
\* one quiesce cycle is queued in the next.
CONSTANTS
    EdgeProxy = FALSE
    AssertsEnabled = FALSE
    InitStates = {"ACTIVE"}
    MaxCommands = 3
    MaxInputs = 9
    NoInput = NoInput
SPECIFICATION QmSpec
CHECK_DEADLOCK FALSE
INVARIANT QuiescedOnlyWhenDrained
