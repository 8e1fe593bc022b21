SPECIFICATION FairSpec
CONSTANTS
  Sources = {s1, s2}
  uid = uid
  camera = camera
  Locators = {uid}
  Devices = {camera}
  DeviceOf <- MCDeviceOf
  StableId <- MCStableId
  Rates = {1}
  OpenTimeout = 2
  MinFrameGap = 1
  FrameGapIntervals = 1
  None = None
INVARIANT CaptureInv
PROPERTIES StallIsReported NoGhostFrame CameraReturns LightGoesOut
