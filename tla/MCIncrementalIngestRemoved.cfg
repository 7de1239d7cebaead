CONSTANTS
    Sources = {"a", "b"}
    Manifests = {"m"}
    Funcs <- MCFuncs
    Bodies <- MCBodies
    Gated <- MCGated
    IO <- MCIO
    Contents <- MCContents
    Defs <- MCDefs
    Checkout <- MCCheckout
    Variants <- Removes
    ChunkSize = 1
    WriteConcurrency = 1
    Faults = {}
    Reverts = FALSE
    Forced = {FALSE}
    MaxEdits = 1
    MaxFaults = 0
SPECIFICATION Spec
INVARIANT NoGhostsWhenSettled
CHECK_DEADLOCK FALSE
