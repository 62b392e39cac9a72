CONSTANTS
  PatchValues = {"x", "y"}
  MaxPatchCalls = 3
  MsLimit = 16
SPECIFICATION PatchSpec
INVARIANT
  RejectedNotAssembled
CHECK_DEADLOCK FALSE
