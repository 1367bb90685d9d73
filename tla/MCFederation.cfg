\* Two clients with an interaction each, one subject with two addresses, two
\* states of one provider, two callbacks at the same time.
SPECIFICATION Spec
CONSTANTS
  i1 = i1
  i2 = i2
  c1 = c1
  c2 = c2
  Providers = {p1}
  Clients <- TwoClients
  Interactions <- TwoInteractions
  ClientOf <- TwoClientOf
  States = {st1, st2}
  Subjects = {s1}
  Emails = {e1, e2}
  Users = {u1, u2}
  Requests = {r1, r2}
  None = None
  StateTTL = 1
INVARIANTS TypeOK OneLoginPerState SubjectHasOneAccount AccountOfClient
PROPERTIES DisabledNotAccepted DisabledProviderCompletesNothing
SYMMETRY Symmetry
