CONSTANTS
  Transport = "RAW"
  IdleRefresh = TRUE
  FinalOff = TRUE
  Frames = {f1}
  UsbCallbacks = {"disconnect"}
SPECIFICATION FairSpec
PROPERTIES
  IdleScreenIsRefreshed
  DisconnectCompletes
