CONSTANTS
  Transport = "NV12"
  IdleRefresh = FALSE
  FinalOff = FALSE
  Frames = {f1}
  UsbCallbacks = {"disconnect"}
SPECIFICATION Spec
INVARIANTS
  DrainedBeforeRelease
