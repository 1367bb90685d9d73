SPECIFICATION Spec
CONSTANTS
  u1 = u1
  u2 = u2
  c1 = c1
  c2 = c2
  Users = {u1, u2}
  Clients = {c1, c2}
  ClientOf <- MCClientOf
  Scopes = {s1}
  InteractionIds = {i1}
  GrantIds = {g1, g2}
  TokenIds = {t1, t2}
  Requests = {r1, r2}
  None = None
INVARIANTS TypeOK TokensRestOnConsent RevokedStaysRevoked
PROPERTIES TokensLiveOnce
SYMMETRY Symmetry
