SPECIFICATION DividedSpec
CONSTANTS
  u1 = u1
  u2 = u2
  s1 = s1
  s2 = s2
  b1 = b1
  b2 = b2
  Users = {u1}
  Interactions = {i1}
  Secrets = {s1}
  Batches = {b1}
  CodeCount = 1
  r1 = r1
  r2 = r2
  Requests = {r1, r2}
  None = None
  ChallengeTTL = 1
  MaxFailures = 1
  Window = 1
  Block = 1
INVARIANTS TypeOK
PROPERTIES GatedLoginSpec StuckEnds
