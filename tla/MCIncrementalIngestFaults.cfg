CONSTANTS
    Sources = {"a", "b"}
    Manifests = {"m"}
    Funcs <- MCFuncs
    Bodies <- MCBodies
    Gated <- MCGated
    IO <- MCIO
    Contents <- MCContents
    Defs <- MCDefs
    Checkout <- MovesCheckout
    Variants <- Moves
    ChunkSize = 2
    WriteConcurrency = 2
    Faults = {"llmFailed", "llmDeferred", "embedFail", "drainFailed", "drainDeferred",
              "parseFail", "writeFail", "eagerFail", "crash"}
    Reverts = TRUE
    Forced = {FALSE, TRUE}
    MaxEdits = 2
    MaxFaults = 1
SPECIFICATION Spec
INVARIANTS CommitVouchesForTasks
PROPERTIES UpToDateWorkIsKept
CHECK_DEADLOCK FALSE
