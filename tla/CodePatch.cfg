SPECIFICATION PatchSpec
CONSTANTS
  MaxForeign = 2
INVARIANTS PatchTypeOK ProtectionReturned
PROPERTIES AnswersAreTrue ForeignBytesRespected RestoreHeals
CHECK_DEADLOCK FALSE
