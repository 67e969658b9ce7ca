CONSTANTS
  Device = {0, 1}
  Identity = {a, b}
  KeyId = {1, 2}
  OtpId = {1}
  Request = {r1, r2}
  NoKey = NoKey
  Nobody = Nobody
  DeviceLimit = 2
  MaxUploads = 2
  MaxRequests = 4
  MaxFaults = 1
SYMMETRY PreKeySymmetry
SPECIFICATION Spec
INVARIANT TypeOK
INVARIANT OtpOnce
INVARIANT RevokedIsBare
INVARIANT SignedByItsIdentity
INVARIANT FirstBundleAnnounced
CHECK_DEADLOCK FALSE
