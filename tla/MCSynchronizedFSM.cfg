CONSTANTS
    FsmThreads = {t1, t2, t3}
    Inputs = {a, b}
    MaxInputs = 5
    NoInput = NoInput
SPECIFICATION FsmSpec
INVARIANT FsmTypeOK
INVARIANT MutualExclusion
INVARIANT NoStrandedInput
PROPERTY AllInputsProcessed
PROPERTY DispatcherRefined
