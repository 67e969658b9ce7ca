CONSTANTS
  Device = {0, 1}
  Identity = {a, b}
  KeyId = {1}
  OtpId = {1}
  Request = {r1, r2}
  NoKey = NoKey
  Nobody = Nobody
  DeviceLimit = 2
  MaxUploads = 2
  MaxRequests = 4
  MaxFaults = 0
SPECIFICATION Spec
PROPERTY ResetUnbinds
CHECK_DEADLOCK FALSE
