SPECIFICATION Spec
CONSTANTS
  Users = {op, u1}
  Clients = {home, c1}
  ScimClients = {c1}
  Operator = op
  Home = home
  Roles = {"IDP_ADMIN", "IDP_CLIENT_ADMIN", "USER"}
  RoleLists <- MCRoleLists
  Requests = {r1}
  MaxTokens = 2
  None = None
INVARIANTS TypeOK RolesWereGranted AccountsHaveClient
PROPERTIES ClientIsolation DisabledClientFrozen
