SPECIFICATION EnrolledSpec
CONSTANTS
  u1 = u1
  u2 = u2
  s1 = s1
  s2 = s2
  b1 = b1
  b2 = b2
  Users <- MCUsers
  Secrets <- MCSecrets
  Batches <- MCBatches
  Interactions = {i1}
  CodeCount = 1
  r1 = r1
  r2 = r2
  Requests = {r1, r2}
  None = None
  ChallengeTTL = 1
  MaxFailures = 1
  Window = 1
  Block = 1
INVARIANTS SessionJustified
PROPERTIES RecoveryCodeOfAccount
SYMMETRY Symmetry
CHECK_DEADLOCK FALSE
