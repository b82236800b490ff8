SPECIFICATION Spec
CONSTANTS
  NoKey = NoKey
  NoOtp = NoOtp
  NoDevice = NoDevice
  NoMessage = NoMessage
  NoChain = NoChain
  d1 = d1
  n1 = n1
  n2 = n2
  k1 = k1
  k2 = k2
  Requests = {r1, r2}
  Otps = {o1}
  Devices = {d1, d2, d3}
  Keys = {k1, k2}
  Nonces = {n1, n2}
  Messages <- MCMessages
  Batches <- MCBatches
  InitialDevices <- MCInitialDevices
  Handsets <- MCHandsets
  Environments <- MCEnvironments
  Policies <- MCPolicies
  ModesPut = {"audit"}
  Quota = 1
  OtpWindows = 1
  OTP_MAX_ATTEMPTS = 1
  MaxClock = 3
  MaxChallenges = 1
  MaxOverrides = 2
SYMMETRY Symmetry
INVARIANTS TypeOK OneDevicePerOtp AttestedByItsPairing EnqueuedOnce QueuedIsEnqueued
CHECK_DEADLOCK FALSE
