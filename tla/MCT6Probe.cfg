CONSTANTS
  Loads <- EveryLoad
  RamSizes = {58, 64}
  Counts <- EdgeCounts
  U32 <- Modulus
SPECIFICATION Spec
INVARIANTS
  TypeOK
  OneAttemptPerInsertion
  ModesAreRespected
  PolicyAdmitsOwnRequests
  TableReadWithinCount
  UnwindingIsExact
  RegisteredIsReady
