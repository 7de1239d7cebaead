CONSTANTS
    Sources = {"a", "b"}
    Manifests = {"m"}
    Funcs <- MCFuncs
    Bodies <- MCBodies
    Gated <- MCGated
    IO <- MCIO
    Contents <- MCContents
    Defs <- MCDefs
    Checkout <- MCCheckout
    Variants <- Rewrites
    ChunkSize = 1
    WriteConcurrency = 2
    Faults = {"llmFailed", "llmDeferred", "embedFail"}
    Reverts = FALSE
    Forced = {FALSE, TRUE}
    MaxEdits = 2
    MaxFaults = 1
SPECIFICATION FairSpec
INVARIANTS TypeOK CompleteWhenSettled NoGhostsWhenSettled
PROPERTY SyncsConverge
CHECK_DEADLOCK FALSE
