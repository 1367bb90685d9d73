SPECIFICATION Spec
CONSTANTS
  Clients = {c1}
  Secrets = {k1, k2}
  AppUris = {u1, u2}
  Issuers = {i1, i2}
  MethodLists <- MCMethodLists
  Tokens = {t1}
  Requests = {r1, r2}
  None = None
SYMMETRY Symmetry
INVARIANTS MethodMatchesRegistration WithdrawnUriGone InitialTokenUsedOnce
PROPERTIES SecretsHandedOver DisabledStaysDisabled
