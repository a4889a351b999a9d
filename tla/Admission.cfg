SPECIFICATION Spec
CONSTANTS
  r1 = r1
  r2 = r2
  r3 = r3
  laptop = laptop
  desktop = desktop
  Requests <- ThreeRequests
  Devices <- TwoDevices
  Stranger = stranger
  Nobody = nobody
  Slots = 2
  DeviceSlots = 1
  GlobalPerWindow = 2
  DevicePerWindow = 1
  MaxDevices = 1
  Window = 3
  MaxTime = 4
SYMMETRY Interchangeable
CHECK_DEADLOCK FALSE
INVARIANTS
  PermitsBalance
  RatesHold
  CleanEndLosesNothing
  RevocationIsFelt
