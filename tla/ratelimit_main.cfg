SPECIFICATION MainSpec
INVARIANTS MainTypeOK SendNeverBlocks ExitCodeSound
