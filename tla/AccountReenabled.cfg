SPECIFICATION Spec
CONSTANTS
  Users = {u1}
  Passwords = {p1, p2, p3}
  Tokens = {t1, t2}
  USER = USER
  RoleNames = {USER, ghost}
  Requests = {r1, r2}
  None = None
  TokenTTL = 1
PROPERTIES DisabledUntilEnabled
