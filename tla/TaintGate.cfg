SPECIFICATION Spec
CONSTANTS
  Apps = {a1, a2}
  Texts = {t1, t2}
  Keys = {k1, k2}
  Bits = {external, confidential}
  External = external
  ExportMask = {confidential}
  Cap = 1
  TTL = 0
  TransferCap = 2
  MaxRequests = 3
  MaxTime = 1
  MaxStaged = 3
  MaxCalls = 2
CONSTRAINTS OneHalf Timeless
INVARIANTS OneShot ReleasedAsApproved ExportPrecedesImport
