SPECIFICATION FairSpec
CONSTANTS
  STABLE_SECONDS = 1
  COOLDOWN_SECONDS = 2
  RAPID_LOSS_SECONDS = 1
  HOUR = 3
  HOURLY_ATTEMPTS = 2
  BOOT_ATTEMPTS = 2
  Generations = {g1, g2}
  Commands = {"watch", "stop", "panel"}
PROPERTIES
  LockIsReleased
  StableGenerationIsDecided
