\* A faulted head that is switched off rests until the disconnect, which this
\* instance leaves out.
CONSTANTS
  Transport = "NV12"
  IdleRefresh = FALSE
  FinalOff = FALSE
  Frames = {f1, f2}
  UsbCallbacks = {}
SPECIFICATION FairSpec
INVARIANTS
  PendingFrameIsScheduled
PROPERTIES
  StagedFrameIsTaken
  CommitCompletes
  ImplementsScreen
CHECK_DEADLOCK FALSE
