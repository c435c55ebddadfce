\* On an edge proxy: quiesce_untrusted_interface is a TODO, so nothing ever
\* reports flows_gone.
CONSTANTS
    EdgeProxy = TRUE
    AssertsEnabled = FALSE
    InitStates = {"ACTIVE"}
    MaxCommands = 4
    MaxInputs = 12
    NoInput = NoInput
SPECIFICATION QmSpec
CHECK_DEADLOCK FALSE
PROPERTY QuiesceCompletes
