CONSTANTS
  Transport = "RAW"
  IdleRefresh = FALSE
  FinalOff = TRUE
  Frames = {f1}
  UsbCallbacks = {"disconnect"}
SPECIFICATION Spec
PROPERTIES
  NoFinalOffWhenOff
