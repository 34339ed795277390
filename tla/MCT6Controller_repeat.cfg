SPECIFICATION Spec
CONSTANTS
  STABLE_SECONDS = 1
  COOLDOWN_SECONDS = 2
  RAPID_LOSS_SECONDS = 1
  HOUR = 3
  HOURLY_ATTEMPTS = 1
  BOOT_ATTEMPTS = 1
  Generations = {g1, g2, g3, g4}
  Commands = {"watch", "panel"}
INVARIANTS
  FailedStopIsNotRepeated
