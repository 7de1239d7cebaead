CONSTANTS
    Sources = {"a", "b"}
    Manifests = {"m"}
    Funcs <- MCFuncs
    Bodies <- MCBodies
    Gated <- MCGated
    IO <- MCIO
    Contents <- MCContents
    Defs <- MCDefs
    Checkout <- MCCheckout
    Variants <- Changes
    ChunkSize = 1
    WriteConcurrency = 1
    Faults = {"llmDeferred", "drainDeferred"}
    Reverts = FALSE
    Forced = {FALSE}
    MaxEdits = 0
    MaxFaults = 2
SPECIFICATION Spec
INVARIANT CompleteWhenSettled
CHECK_DEADLOCK FALSE
