\* Two logins of one tab, two clients, three accounts; up to three answers
\* of a page are outstanding.
SPECIFICATION PortalSpec
CONSTANTS
  a1 = a1  c1 = c1  c2 = c2  u1 = u1
  Clients = {c1, c2}
  Accounts = {a1, a2}
  ClientOf <- MCClientOf
  AdminClient = c1
  Logins = {l1, l2}
  None = None
  ClientIds = {x1, x2}
  NoClient = NoClient
  Deleted = Deleted
  MaxCalls = 3
  MaxAnswers = 3
  Users = {u1, u2, u3}
  ManagedClients = {c1, c2}
  OwnerOf <- MCOwnerOf
  Home = c1
  Nobody = Nobody
  Secrets = {s1, s2, s3}
  CodeSets = {k1, k2, k3}
  Nothing = Nothing
INVARIANTS TypeOK OwnValues ChangesLandInScope CodesShownAreStored
PROPERTIES CallbackActsOnce
