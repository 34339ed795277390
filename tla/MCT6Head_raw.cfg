CONSTANTS
  Transport = "RAW"
  IdleRefresh = TRUE
  FinalOff = TRUE
  Frames = {f1, f2}
  UsbCallbacks = {"suspend", "disconnect"}
SPECIFICATION Spec
SYMMETRY FrameSymmetry
INVARIANTS
  TypeOK
  FramesOnlyWhileOn
  QuietAtMonitorOff
  DrainedBeforeRelease
  NewestFrameIsShown
  DamageReferenceIsShown
  RefreshChainAlive
  NoFrameWhileSuspended
  NoCircularWait
PROPERTIES
  FinalOffIsLast
  ImplementsScreen
