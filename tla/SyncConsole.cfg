SPECIFICATION Spec
CONSTANTS
  laptop = laptop
  desktop = desktop
  Devices <- TwoDevices
  Validity = 1
  MaxTime = 1
  MaxTokens = 4
  MaxRenders = 2
SYMMETRY Interchangeable
CHECK_DEADLOCK FALSE
INVARIANTS
  SessionIsHeld
  CredentialsAreAccounted
PROPERTIES
  ConfirmedOnce
