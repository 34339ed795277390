SPECIFICATION Spec
CONSTANTS
  STABLE_SECONDS = 1
  COOLDOWN_SECONDS = 2
  RAPID_LOSS_SECONDS = 1
  HOUR = 5
  HOURLY_ATTEMPTS = 2
  BOOT_ATTEMPTS = 3
  Generations = {g1, g2}
  Commands = {"watch", "start", "clear", "crash", "stall"}
SYMMETRY GenerationSymmetry
INVARIANTS
  TypeOK
  InsertionsAreConsumed
  AttemptsArePaced
PROPERTIES
  OneInsertionPerGeneration
  AutomaticReentryIsBlocked
  ImplementsPolicy
