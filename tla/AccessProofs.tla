---------------------------- MODULE AccessProofs ----------------------------
(***************************************************************************)
(* Theorems about Access: administrators' roles are granted by             *)
(* administrators, every account keeps its client, requests stay inside    *)
(* their client, and accounts of a disabled client are frozen.             *)
(***************************************************************************)
EXTENDS Access, TLAPS

(* What a password change or reset is going to save: a copy of an account  *)
(* that still exists, is of the same client, and whose administrator's     *)
(* roles had been granted when it was read.                                *)
Held ==
  \A r \in Requests : req[r].op = "password" =>
    /\ user[req[r].user] # None
    /\ user[req[r].user].client = req[r].read.client
    /\ {req[r].user} \X (req[r].read.roles \cap AdminRoles) \subseteq granted

IInv == TypeOK /\ RolesWereGranted /\ AccountsHaveClient /\ Held

LEMMA InitHolds == Init => IInv
<1> SUFFICES ASSUME Init PROVE IInv
  OBVIOUS
<1> USE AccessAssumption DEF Init, Idle
<1>1. TypeOK
  BY DEF TypeOK, Account, Token, Request, AdminRoles
<1>2. RolesWereGranted
  BY DEF RolesWereGranted, AdminRoles
<1>3. AccountsHaveClient
  BY DEF AccountsHaveClient, Registered
<1>4. Held
  BY DEF Held
<1> QED
  BY <1>1, <1>2, <1>3, <1>4 DEF IInv

-----------------------------------------------------------------------------
(* Tokens, and the start and end of requests that touch no table.          *)
LEMMA TokensKeep ==
  ASSUME IInv, UNCHANGED <<user, client, req, granted>>, token' \subseteq Token
  PROVE  IInv'
<1> USE DEF IInv
<1>1. TypeOK'
  BY DEF TypeOK
<1>2. RolesWereGranted' /\ AccountsHaveClient' /\ Held'
  BY DEF RolesWereGranted, AccountsHaveClient, Held, Registered
<1> QED
  BY <1>1, <1>2

LEMMA IssueTokenKeeps ==
  ASSUME IInv, NEW u \in Users, NEW c \in Clients, NEW scim \in BOOLEAN,
         IssueToken(u, c, scim)
  PROVE  IInv'
<1>1. token' \subseteq Token
  BY DEF IssueToken, IInv, TypeOK, Token
<1> QED
  BY <1>1, TokensKeep DEF IssueToken

LEMMA IssueClientTokenKeeps ==
  ASSUME IInv, NEW c \in Clients, NEW scim \in BOOLEAN,
         IssueClientToken(c, scim)
  PROVE  IInv'
<1>1. token' \subseteq Token
  BY DEF IssueClientToken, IInv, TypeOK, Token
<1> QED
  BY <1>1, TokensKeep DEF IssueClientToken

LEMMA ExpireKeeps ==
  ASSUME IInv, NEW t \in token, Expire(t)
  PROVE  IInv'
<1>1. token' \subseteq Token
  BY DEF Expire, IInv, TypeOK
<1> QED
  BY <1>1, TokensKeep DEF Expire

LEMMA TargetIsClient ==
  ASSUME TypeOK, NEW t \in token, NEW asked \in Clients \cup {None}
  PROVE  Target(t, asked) \in Clients
  BY DEF Target, TypeOK, Token

LEMMA RestartKeeps ==
  ASSUME IInv, Restart
  PROVE  IInv'
<1> USE DEF IInv, Restart
<1>1. TypeOK'
  BY DEF TypeOK, Request, Idle
<1>2. RolesWereGranted' /\ AccountsHaveClient'
  BY DEF RolesWereGranted, AccountsHaveClient, Registered
<1>3. Held'
  BY DEF Held, Idle
<1> QED
  BY <1>1, <1>2, <1>3
-----------------------------------------------------------------------------
LEMMA CreateStartKeeps ==
  ASSUME IInv, NEW r \in Requests, NEW c \in Clients, NEW u \in Users,
         NEW active \in BOOLEAN, CreateStart(r, c, u, active)
  PROVE  IInv'
<1> USE DEF IInv, CreateStart, Wait
<1>1. TypeOK'
  BY DEF TypeOK, Request
<1>2. RolesWereGranted' /\ AccountsHaveClient'
  BY DEF RolesWereGranted, AccountsHaveClient, Registered
<1>3. Held'
  <2> SUFFICES ASSUME NEW q \in Requests, req'[q].op = "password"
               PROVE  Held!(q)'
    BY DEF Held
  <2>1. q # r
    BY DEF TypeOK
  <2> QED
    BY <2>1 DEF Held, TypeOK
<1> QED
  BY <1>1, <1>2, <1>3

LEMMA CreateEndKeeps ==
  ASSUME IInv, NEW r \in Requests, CreateEnd(r)
  PROVE  IInv'
<1> USE DEF IInv
<1> DEFINE q == req[r]
<1>1. /\ req' = [req EXCEPT ![r] = Idle]
      /\ UNCHANGED <<client, token, granted>>
      /\ q.op = "create"
  BY DEF CreateEnd, Done
<1>2. /\ q \in Request /\ q.op = "create"
      /\ q.user \in Users /\ q.client \in Clients /\ q.active \in BOOLEAN
  BY <1>1 DEF TypeOK, Request, Idle
<1>3. CASE UNCHANGED user
  <2>1. TypeOK'
    BY <1>1, <1>3 DEF TypeOK, Request
  <2>2. RolesWereGranted' /\ AccountsHaveClient'
    BY <1>1, <1>3 DEF RolesWereGranted, AccountsHaveClient, Registered
  <2>3. Held'
    BY <1>1, <1>3 DEF Held, TypeOK, Idle
  <2> QED
    BY <2>1, <2>2, <2>3
<1>4. CASE /\ Insertable(q)
           /\ user' = [user EXCEPT ![q.user] =
                         [client |-> q.client, enabled |-> q.active,
                          roles |-> {"USER"}]]
  <2> DEFINE new == [client |-> q.client, enabled |-> q.active,
                     roles |-> {"USER"}]
  <2>1. new \in Account
    BY <1>2, AccessAssumption DEF Account
  <2>2. TypeOK'
    BY <1>1, <1>4, <2>1 DEF TypeOK, Request
  <2>3. new.roles \cap AdminRoles = {}
    BY DEF AdminRoles
  <2>4. RolesWereGranted'
    <3> SUFFICES ASSUME NEW u \in Users
                 PROVE  {u} \X (user'[u].roles \cap AdminRoles) \subseteq granted
                        \/ user'[u] = None
      BY <1>1 DEF RolesWereGranted
    <3>1. CASE u = q.user
      BY <1>2, <1>4, <2>3, <3>1 DEF TypeOK
    <3>2. CASE u # q.user
      BY <1>4, <3>2 DEF TypeOK, RolesWereGranted
    <3> QED
      BY <3>1, <3>2
  <2>5. AccountsHaveClient'
    BY <1>1, <1>2, <1>4
       DEF TypeOK, AccountsHaveClient, Registered, Insertable
  <2>6. Held'
    <3> SUFFICES ASSUME NEW x \in Requests, req'[x].op = "password"
                 PROVE  Held!(x)'
      BY DEF Held
    <3>1. x # r
      BY <1>1 DEF TypeOK, Idle
    <3>2. req'[x] = req[x] /\ Held!(x)
      BY <1>1, <3>1 DEF TypeOK, Held
    <3>3. req[x].user \in Users /\ req[x].user # q.user
      BY <1>4, <3>2 DEF TypeOK, Request, Idle, Insertable
    <3>4. user'[req[x].user] = user[req[x].user]
      BY <1>4, <3>3 DEF TypeOK
    <3> QED
      BY <1>1, <3>2, <3>4
  <2> QED
    BY <2>2, <2>4, <2>5, <2>6
<1> QED
  BY <1>3, <1>4 DEF CreateEnd
-----------------------------------------------------------------------------
(* An existing row is saved, with its client and with no administrator's   *)
(* role that has not been granted.                                         *)
LEMMA RowSavedKeeps ==
  ASSUME IInv, NEW u \in Users, NEW new \in Account,
         user[u] # None, new.client = user[u].client,
         user' = [user EXCEPT ![u] = new],
         UNCHANGED <<client, token>>,
         granted \subseteq granted', granted' \subseteq Users \X AdminRoles,
         {u} \X (new.roles \cap AdminRoles) \subseteq granted',
         req' \in [Requests -> Request],
         \A r \in Requests : req'[r] = req[r] \/ req'[r] = Idle
  PROVE  IInv'
<1> USE DEF IInv
<1>1. new # None
  BY AccessAssumption
<1>2. \A v \in Users : user'[v] = IF v = u THEN new ELSE user[v]
  BY DEF TypeOK
<1>3. TypeOK'
  BY DEF TypeOK
<1>4. RolesWereGranted'
  BY <1>2 DEF RolesWereGranted
<1>5. AccountsHaveClient'
  BY <1>2 DEF AccountsHaveClient, Registered
<1>6. Held'
  <2> SUFFICES ASSUME NEW r \in Requests, req'[r].op = "password"
               PROVE  Held!(r)'
    BY DEF Held
  <2>1. req'[r] = req[r] /\ Held!(r)
    BY DEF Held, Idle
  <2>2. req[r].user \in Users
    BY <2>1 DEF TypeOK, Request, Idle
  <2> QED
    BY <1>1, <1>2, <2>1, <2>2
<1> QED
  BY <1>3, <1>4, <1>5, <1>6

LEMMA SetEnabledKeeps ==
  ASSUME IInv, NEW u \in Users, NEW c \in Clients, NEW enabled \in BOOLEAN,
         SetEnabled(u, c, enabled)
  PROVE  IInv'
<1> DEFINE new == [user[u] EXCEPT !.enabled = enabled]
<1>1. user[u] # None /\ user[u] \in Account
  BY DEF SetEnabled, Administered, IInv, TypeOK
<1>2. new \in Account /\ new.client = user[u].client /\ new.roles = user[u].roles
  BY <1>1 DEF Account
<1>3. {u} \X (new.roles \cap AdminRoles) \subseteq granted
  BY <1>1, <1>2 DEF IInv, RolesWereGranted
<1>4. /\ user' = [user EXCEPT ![u] = new]
      /\ UNCHANGED <<client, token, req, granted>>
  BY DEF SetEnabled
<1> HIDE DEF new
<1> QED
  BY <1>1, <1>2, <1>3, <1>4, RowSavedKeeps DEF IInv, TypeOK

LEMMA AssignRolesKeeps ==
  ASSUME IInv, NEW t \in token, NEW u \in Users,
         NEW asked \in Clients \cup {None}, NEW names \in RoleLists,
         AssignRoles(t, u, asked, names)
  PROVE  IInv'
<1> DEFINE new == [user[u] EXCEPT !.roles = Assigned(t, names)]
<1>1. user[u] # None /\ user[u] \in Account
  BY DEF AssignRoles, Administered, IInv, TypeOK
<1>2. Assigned(t, names) \in SUBSET Roles
  BY AccessAssumption DEF Assigned
<1>3. /\ new \in Account /\ new.client = user[u].client
      /\ new.roles = Assigned(t, names)
  BY <1>1, <1>2 DEF Account
<1>4. /\ {u} \X (new.roles \cap AdminRoles) \subseteq granted'
      /\ granted \subseteq granted' /\ granted' \subseteq Users \X AdminRoles
  <2>1. CASE IsIdpAdmin(t)
    BY <1>3, <2>1 DEF AssignRoles, Assigned, IInv, TypeOK
  <2>2. CASE ~IsIdpAdmin(t)
    BY <1>3, <2>2 DEF AssignRoles, Assigned, AdminRoles, IInv, TypeOK
  <2> QED
    BY <2>1, <2>2
<1>5. user' = [user EXCEPT ![u] = new] /\ UNCHANGED <<client, token, req>>
  BY DEF AssignRoles
<1> HIDE DEF new
<1> QED
  BY <1>1, <1>3, <1>4, <1>5, RowSavedKeeps DEF IInv, TypeOK
-----------------------------------------------------------------------------
LEMMA PasswordStartKeeps ==
  ASSUME IInv, NEW r \in Requests, NEW u \in Users, PasswordStart(r, u)
  PROVE  IInv'
<1> USE DEF IInv, PasswordStart, Wait
<1>1. user[u] # None /\ user[u] \in Account
  BY DEF TypeOK
<1>2. TypeOK'
  BY <1>1 DEF TypeOK, Request
<1>3. RolesWereGranted' /\ AccountsHaveClient'
  BY DEF RolesWereGranted, AccountsHaveClient, Registered
<1>4. Held'
  <2> SUFFICES ASSUME NEW x \in Requests, req'[x].op = "password"
               PROVE  Held!(x)'
    BY DEF Held
  <2>1. CASE x = r
    BY <1>1, <2>1 DEF TypeOK, RolesWereGranted
  <2>2. CASE x # r
    BY <2>2 DEF TypeOK, Held
  <2> QED
    BY <2>1, <2>2
<1> QED
  BY <1>2, <1>3, <1>4

LEMMA PasswordEndKeeps ==
  ASSUME IInv, NEW r \in Requests, PasswordEnd(r)
  PROVE  IInv'
<1>1. /\ req[r].user \in Users /\ req[r].read \in Account
      /\ req[r].op = "password"
  BY DEF PasswordEnd, IInv, TypeOK, Request, Idle
<1>2. Held!(r)
  BY <1>1 DEF IInv, Held
<1>3. /\ req' \in [Requests -> Request]
      /\ \A x \in Requests : req'[x] = req[x] \/ req'[x] = Idle
  BY DEF PasswordEnd, Done, IInv, TypeOK, Request
<1> QED
  BY <1>1, <1>2, <1>3, RowSavedKeeps DEF PasswordEnd, IInv, TypeOK

(* A client is saved: one that has a row already, or a new one.            *)
LEMMA SaveClientKeeps ==
  ASSUME IInv, NEW c \in Clients, NEW enabled \in BOOLEAN,
         SaveClient(c, enabled)
  PROVE  IInv'
<1> USE DEF IInv, SaveClient
<1>1. TypeOK'
  BY DEF TypeOK
<1>2. RolesWereGranted' /\ Held'
  BY DEF RolesWereGranted, Held
<1>3. Registered \subseteq Registered'
  BY DEF TypeOK, Registered
<1>4. AccountsHaveClient'
  BY <1>3 DEF AccountsHaveClient
<1> QED
  BY <1>1, <1>2, <1>4

LEMMA DeleteClientKeeps ==
  ASSUME IInv, NEW t \in token, NEW c \in Clients, DeleteClient(t, c)
  PROVE  IInv'
<1> USE DEF IInv, DeleteClient
<1>1. TypeOK'
  BY DEF TypeOK
<1>2. RolesWereGranted' /\ Held'
  BY DEF RolesWereGranted, Held
<1>3. Registered \ {c} \subseteq Registered'
  BY DEF TypeOK, Registered
<1>4. AccountsHaveClient'
  BY <1>3 DEF AccountsHaveClient, Deletable
<1> QED
  BY <1>1, <1>2, <1>4
-----------------------------------------------------------------------------
LEMMA NextKeeps == IInv /\ [Next]_vars => IInv'
<1> SUFFICES ASSUME IInv, [Next]_vars PROVE IInv'
  OBVIOUS
<1>0. TypeOK
  BY DEF IInv
<1>1. CASE Issue
  BY <1>1, IssueTokenKeeps, IssueClientTokenKeeps DEF Issue
<1>2. ASSUME NEW t \in token, Begin(t) PROVE IInv'
  <2> PICK r \in Requests, u \in Users :
         \/ \E asked \in Clients \cup {None} : CreateUser(r, t, u, asked)
         \/ CreateClientUser(r, t, u)
         \/ \E active \in BOOLEAN : ScimCreate(r, t, u, active)
    BY <1>2 DEF Begin
  <2>1. t.client \in Clients
    BY <1>0 DEF TypeOK, Token
  <2>2. ASSUME NEW asked \in Clients \cup {None}, CreateUser(r, t, u, asked)
        PROVE  IInv'
    BY <1>0, <2>2, TargetIsClient, CreateStartKeeps DEF CreateUser
  <2>3. CASE CreateClientUser(r, t, u)
    BY <2>1, <2>3, CreateStartKeeps DEF CreateClientUser
  <2>4. ASSUME NEW active \in BOOLEAN, ScimCreate(r, t, u, active)
        PROVE  IInv'
    BY <2>1, <2>4, CreateStartKeeps DEF ScimCreate
  <2> QED
    BY <2>2, <2>3, <2>4
<1>3. ASSUME NEW t \in token, Change(t) PROVE IInv'
  <2> PICK u \in Users :
         \/ \E asked \in Clients \cup {None}, enabled \in BOOLEAN :
              UpdateUser(t, u, asked, enabled)
         \/ \E enabled \in BOOLEAN : ScimUpdate(t, u, enabled)
         \/ \E asked \in Clients \cup {None}, names \in RoleLists :
              AssignRoles(t, u, asked, names)
    BY <1>3 DEF Change
  <2>1. t.client \in Clients
    BY <1>0 DEF TypeOK, Token
  <2>2. ASSUME NEW asked \in Clients \cup {None}, NEW enabled \in BOOLEAN,
               UpdateUser(t, u, asked, enabled)
        PROVE  IInv'
    BY <1>0, <2>2, TargetIsClient, SetEnabledKeeps DEF UpdateUser
  <2>3. ASSUME NEW enabled \in BOOLEAN, ScimUpdate(t, u, enabled)
        PROVE  IInv'
    BY <2>1, <2>3, SetEnabledKeeps DEF ScimUpdate
  <2> QED
    BY <2>2, <2>3, AssignRolesKeeps
<1>4. ASSUME NEW t \in token, ChangeClient(t) PROVE IInv'
  <2>1. t.client \in Clients
    BY <1>0 DEF TypeOK, Token
  <2> QED
    BY <1>4, <2>1, SaveClientKeeps, DeleteClientKeeps
       DEF ChangeClient, CreateClient, UpdateClient, UpdateSettings
<1>5. ASSUME NEW r \in Requests, End(r) PROVE IInv'
  BY <1>5, CreateEndKeeps, PasswordEndKeeps DEF End
<1>6. CASE UNCHANGED vars
  BY <1>0, <1>6, TokensKeep DEF vars, TypeOK
<1> QED
  BY <1>1, <1>2, <1>3, <1>4, <1>5, <1>6, ExpireKeeps, PasswordStartKeeps,
     RestartKeeps
     DEF Next

THEOREM Inductive == Spec => []IInv
<1> QED
  BY InitHolds, NextKeeps, PTL DEF Spec

(* Accounts, clients, tokens and requests keep their shape, for any number *)
(* of each.                                                                *)
THEOREM TypeCorrect == Spec => []TypeOK
<1>1. IInv => TypeOK
  BY DEF IInv
<1> QED
  BY <1>1, Inductive, PTL

(* An account has an administrator's role only if the operator or an       *)
(* account that was an enabled IDP_ADMIN gave it.                          *)
THEOREM AdminRolesAreGranted == Spec => []RolesWereGranted
<1>1. IInv => RolesWereGranted
  BY DEF IInv
<1> QED
  BY <1>1, Inductive, PTL

(* No account loses its client to a deletion, whatever is in flight.       *)
THEOREM NoAccountWithoutClient == Spec => []AccountsHaveClient
<1>1. IInv => AccountsHaveClient
  BY DEF IInv
<1> QED
  BY <1>1, Inductive, PTL
-----------------------------------------------------------------------------
LEMMA TargetOfOthers ==
  ASSUME NEW t \in token, NEW asked, ~IsIdpAdmin(t)
  PROVE  Target(t, asked) = t.client
  BY DEF Target

LEMMA OthersAreIsolated ==
  ASSUME TypeOK, NEW t \in token, ~IsIdpAdmin(t)
  PROVE  Isolated(t)
<1>1. ASSUME Change(t), NEW u \in Users, user[u] # None, user'[u] # user[u]
      PROVE  user[u].client = t.client
  <2> PICK v \in Users :
         \/ \E asked \in Clients \cup {None}, enabled \in BOOLEAN :
              UpdateUser(t, v, asked, enabled)
         \/ \E enabled \in BOOLEAN : ScimUpdate(t, v, enabled)
         \/ \E asked \in Clients \cup {None}, names \in RoleLists :
              AssignRoles(t, v, asked, names)
    BY <1>1 DEF Change
  <2>1. user[v].client = t.client
    BY TargetOfOthers
       DEF UpdateUser, ScimUpdate, AssignRoles, SetEnabled, Administered
  <2>2. \A x \in Users : x # v => user'[x] = user[x]
    BY DEF TypeOK, UpdateUser, ScimUpdate, AssignRoles, SetEnabled
  <2> QED
    BY <1>1, <2>1, <2>2
<1>2. ASSUME Begin(t), NEW r \in Requests, req'[r] # req[r]
      PROVE  ~Foreign(req'[r], t)
  <2> PICK x \in Requests, u \in Users :
         \/ \E asked \in Clients \cup {None} : CreateUser(x, t, u, asked)
         \/ CreateClientUser(x, t, u)
         \/ \E active \in BOOLEAN : ScimCreate(x, t, u, active)
    BY <1>2 DEF Begin
  <2>1. \E active \in BOOLEAN : CreateStart(x, t.client, u, active)
    BY TargetOfOthers DEF CreateUser, CreateClientUser, ScimCreate
  <2>2. x = r /\ req'[r].client = t.client
    BY <1>2, <2>1 DEF CreateStart, Wait, TypeOK
  <2> QED
    BY <2>2 DEF Foreign
<1>3. ASSUME ChangeClient(t), NEW c \in Clients \ {t.client}
      PROVE  client'[c] = client[c]
  <2>1. \E enabled \in BOOLEAN : UpdateSettings(t, enabled)
    BY <1>3 DEF ChangeClient, CreateClient, UpdateClient, DeleteClient
  <2> QED
    BY <2>1 DEF UpdateSettings, SaveClient, TypeOK
<1> QED
  BY <1>1, <1>2, <1>3 DEF Isolated

(* A request stays inside the client of its token unless its subject is an *)
(* IDP_ADMIN at that moment.                                               *)
THEOREM RequestsStayInClient == Spec => ClientIsolation
<1>1. TypeOK /\ [Next]_vars
        => [\A t \in token : ~IsIdpAdmin(t) => Isolated(t)]_vars
  BY OthersAreIsolated
<1> QED
  BY <1>1, TypeCorrect, PTL DEF Spec, ClientIsolation
-----------------------------------------------------------------------------
(* The rows a save by SetEnabled, AssignRoles or CreateEnd can change.     *)
LEMMA AdministeredChanges ==
  ASSUME TypeOK, NEW v \in Users, NEW c, Administered(v, c),
         NEW row, user' = [user EXCEPT ![v] = row],
         NEW u \in Users, user'[u] # user[u]
  PROVE  client[user[u].client] = "enabled"
<1>1. u = v
  BY DEF TypeOK
<1> QED
  BY <1>1 DEF Administered

LEMMA ChangeIsUnfrozen ==
  ASSUME TypeOK, NEW t \in token, Change(t), NEW u \in Users,
         user'[u] # user[u]
  PROVE  client[user[u].client] = "enabled"
<1> PICK v \in Users :
       \/ \E asked \in Clients \cup {None}, enabled \in BOOLEAN :
            UpdateUser(t, v, asked, enabled)
       \/ \E enabled \in BOOLEAN : ScimUpdate(t, v, enabled)
       \/ \E asked \in Clients \cup {None}, names \in RoleLists :
            AssignRoles(t, v, asked, names)
  BY DEF Change
<1>1. \E c : Administered(v, c)
  BY DEF UpdateUser, ScimUpdate, AssignRoles, SetEnabled
<1>2. \E row : user' = [user EXCEPT ![v] = row]
  BY DEF UpdateUser, ScimUpdate, AssignRoles, SetEnabled
<1> QED
  BY <1>1, <1>2, AdministeredChanges

LEMMA EndIsUnfrozen ==
  ASSUME TypeOK, NEW r \in Requests, End(r), NEW u \in Users,
         user[u] # None, user'[u] # user[u]
  PROVE  PasswordEnd(r) /\ req[r].user = u
<1>1. CASE CreateEnd(r)
  BY <1>1 DEF CreateEnd, Insertable, TypeOK
<1>2. CASE PasswordEnd(r)
  BY <1>2 DEF PasswordEnd, TypeOK
<1> QED
  BY <1>1, <1>2 DEF End

(* An account of a disabled client changes only by a save that was waiting *)
(* for argon2 when the client was disabled.                                *)
THEOREM DisabledClientsAreFrozen == Spec => DisabledClientFrozen
<1> DEFINE Frozen ==
      \A u \in Users :
        user[u] # None /\ client[user[u].client] # "enabled"
          /\ user'[u] # user[u]
        => \E r \in Requests : PasswordEnd(r) /\ req[r].user = u
<1>1. TypeOK /\ [Next]_vars => [Frozen]_vars
  <2> SUFFICES ASSUME TypeOK, Next, NEW u \in Users,
                      user[u] # None, user'[u] # user[u],
                      client[user[u].client] # "enabled"
               PROVE  \E r \in Requests : PasswordEnd(r) /\ req[r].user = u
    OBVIOUS
  <2>1. ~(Issue \/ Restart \/ \E r \in Requests, v \in Users : PasswordStart(r, v))
    BY DEF Issue, IssueToken, IssueClientToken, Restart, PasswordStart
  <2>2. ASSUME NEW t \in token PROVE ~(Begin(t) \/ ChangeClient(t) \/ Expire(t))
    BY DEF Begin, CreateUser, CreateClientUser, ScimCreate, CreateStart,
           ChangeClient, CreateClient, UpdateClient, UpdateSettings,
           DeleteClient, SaveClient, Expire
  <2>3. ASSUME NEW t \in token PROVE ~Change(t)
    BY ChangeIsUnfrozen
  <2>4. PICK r \in Requests : End(r)
    BY <2>1, <2>2, <2>3 DEF Next
  <2> QED
    BY <2>4, EndIsUnfrozen
<1> QED
  BY <1>1, TypeCorrect, PTL DEF Spec, DisabledClientFrozen
=============================================================================
