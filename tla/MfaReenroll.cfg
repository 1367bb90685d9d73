SPECIFICATION MfaSpec
CONSTANTS
  Users = {u1}
  Secrets = {s1, s2}
  Batches = {b1, b2}
  CodeCount = 2
  Requests = {r1, r2}
  None = None
  MaxFailures = 2
  Window = 2
  Block = 1
PROPERTIES OffOnlyByTotp
