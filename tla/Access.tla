------------------------------- MODULE Access -------------------------------
(***************************************************************************)
(* Who may change which account and which client: access tokens, the       *)
(* guards in front of the administration and SCIM endpoints, the client    *)
(* scope of a request, and the changes the endpoints make.                 *)
(*                                                                         *)
(* jwtVerify is the last wait before a handler reads the database: guards  *)
(* and handler, up to the hash of a new password, are one action, on the   *)
(* token that is still valid and on the rights the database holds then.    *)
(***************************************************************************)
EXTENDS Naturals, FiniteSets

CONSTANTS Users,        \* User.id
          Clients,      \* public client ids
          ScimClients,  \* clients with scope scim and client_credentials
          Operator,     \* the first account, made by hand at installation
          Home,         \* and its client
          Roles,        \* names in the roles table, also those made later
          RoleLists,    \* sets of role names a request can ask for
          Requests,     \* requests that can be in flight at the same time
          MaxTokens,    \* bound on the access tokens alive at one time
          None          \* no row, and "not given"

\* The names a guard asks for.  Other names in the table grant nothing.
AdminRoles == {"IDP_ADMIN", "IDP_CLIENT_ADMIN"}
Account == [client : Clients, enabled : BOOLEAN, roles : SUBSET Roles]

ASSUME AccessAssumption ==
  /\ AdminRoles \cup {"USER"} \subseteq Roles
  /\ Users \cap Clients = {}
  /\ None \notin Clients \cup Account \cup {"enabled", "disabled", "deleted"}
  /\ ScimClients \subseteq Clients
  /\ Operator \in Users /\ Home \in Clients
  /\ \A names \in RoleLists : names \subseteq STRING
  /\ MaxTokens \in Nat

VARIABLES
  user,    \* users and user_roles: the row of an account, or None
  client,  \* clients: "enabled", "disabled", "deleted", or None before
  token,   \* access tokens that verify: signed and not expired
  req      \* what each request in flight has read, and waits for

\* History: which account has been given which administrator's role.
VARIABLE granted

vars == <<user, client, token, req, granted>>

Token == [sub : Users \cup Clients, client : Clients, scim : BOOLEAN]

Idle == [op |-> "idle"]
Request ==
  {Idle}
  \cup [op : {"create"}, user : Users, client : Clients, active : BOOLEAN]
  \cup [op : {"password"}, user : Users, read : Account]

TypeOK ==
  /\ user \in [Users -> Account \cup {None}]
  /\ client \in [Clients -> {"enabled", "disabled", "deleted", None}]
  /\ token \subseteq Token
  /\ req \in [Requests -> Request]
  /\ granted \subseteq Users \X AdminRoles

Init ==
  /\ user = [u \in Users |->
       IF u = Operator
       THEN [client |-> Home, enabled |-> TRUE, roles |-> {"IDP_ADMIN"}]
       ELSE None]
  /\ client = [c \in Clients |-> IF c = Home THEN "enabled" ELSE None]
  /\ token = {}
  /\ req = [r \in Requests |-> Idle]
  /\ granted = {<<Operator, "IDP_ADMIN">>}

Wait(r, q) == req[r] = Idle /\ req' = [req EXCEPT ![r] = q]
Done(r) == req' = [req EXCEPT ![r] = Idle]
-----------------------------------------------------------------------------
\* Faulty query: the client is not looked at.
AdministeredAnyway(u, c) == user[u] # None /\ user[u].client = c

\* findByIdForAdministration: the row may be disabled, its client may not.
Administered(u, c) ==
  user[u] # None /\ user[u].client = c /\ client[c] = "enabled"

\* findById and findByIdForOidc of the account's own client.
Found(u, c) == Administered(u, c) /\ user[u].enabled

\* RolesGuard: the subject is an account of the token's client, and has one
\* of the roles now.
HasRole(t, required) ==
  /\ t.sub \in Users
  /\ Found(t.sub, t.client)
  /\ user[t.sub].roles \cap required # {}

IsIdpAdmin(t) == HasRole(t, {"IDP_ADMIN"})

\* Faulty scope: whoever asks for another client gets it.
TargetAsked(t, asked) == IF asked # None THEN asked ELSE t.client

\* resolveTargetClientId: only an IDP_ADMIN leaves the token's client.
Target(t, asked) ==
  IF IsIdpAdmin(t) /\ asked # None THEN asked ELSE t.client

\* ScimAuthGuard: the scope of the token, and the client as it is now.
ScimAllowed(t) ==
  t.scim /\ t.client \in ScimClients /\ client[t.client] = "enabled"

\* ClientCredentialsGuard: the token's subject is the client itself.
IsClientToken(t) == t.sub = t.client
-----------------------------------------------------------------------------
(* A token for an account whose own client, and the client it signs in to, *)
(* are enabled; findByIdForOidc does not compare the two.  Scope scim is   *)
(* given to a client that has it.                                          *)
IssueToken(u, c, scim) ==
  /\ user[u] # None /\ Found(u, user[u].client)
  /\ client[c] = "enabled"
  /\ Cardinality(token) < MaxTokens
  /\ scim => c \in ScimClients
  /\ token' = token \cup {[sub |-> u, client |-> c, scim |-> scim]}
  /\ UNCHANGED <<user, client, req, granted>>

\* client_credentials grant: the subject is the client.
IssueClientToken(c, scim) ==
  /\ client[c] = "enabled"
  /\ Cardinality(token) < MaxTokens
  /\ scim => c \in ScimClients
  /\ token' = token \cup {[sub |-> c, client |-> c, scim |-> scim]}
  /\ UNCHANGED <<user, client, req, granted>>

Expire(t) == /\ token' = token \ {t}
             /\ UNCHANGED <<user, client, req, granted>>
-----------------------------------------------------------------------------
(* createUserWithRoles up to the hash of the password, for a row that gets *)
(* the random id u.                                                        *)
CreateStart(r, c, u, active) ==
  /\ client[c] = "enabled"
  /\ user[u] = None
  /\ Wait(r, [op |-> "create", user |-> u, client |-> c, active |-> active])
  /\ UNCHANGED <<user, client, token, granted>>

\* POST /users
CreateUser(r, t, u, asked) ==
  HasRole(t, AdminRoles) /\ CreateStart(r, Target(t, asked), u, TRUE)

\* POST /client/users
CreateClientUser(r, t, u) ==
  IsClientToken(t) /\ CreateStart(r, t.client, u, TRUE)

\* POST /scim/v2/Users
ScimCreate(r, t, u, active) ==
  ScimAllowed(t) /\ CreateStart(r, t.client, u, active)

\* Faulty insert: the foreign key is not enforced.
InsertableAlways(q) == user[q.user] = None

\* The clients that have a row.
Registered == {c \in Clients : client[c] \in {"enabled", "disabled"}}

\* users.clientId references clients, and ids are not reused.
Insertable(q) == user[q.user] = None /\ q.client \in Registered

(* After the hash: the row is inserted with role USER and, for SCIM, saved *)
(* again with its active flag; or the statement fails, for the reference   *)
(* to its client or for a name or address that is taken.                   *)
CreateEnd(r) ==
  /\ req[r].op = "create"
  /\ \/ /\ Insertable(req[r])
        /\ user' = [user EXCEPT ![req[r].user] =
                      [client |-> req[r].client, enabled |-> req[r].active,
                       roles |-> {"USER"}]]
     \/ UNCHANGED user
  /\ Done(r)
  /\ UNCHANGED <<client, token, granted>>

\* updateUser: no wait between read and save.
SetEnabled(u, c, enabled) ==
  /\ Administered(u, c)
  /\ user' = [user EXCEPT ![u].enabled = enabled]
  /\ UNCHANGED <<client, token, req, granted>>

\* PUT /users/:id
UpdateUser(t, u, asked, enabled) ==
  HasRole(t, AdminRoles) /\ SetEnabled(u, Target(t, asked), enabled)

\* SCIM PUT, PATCH and DELETE
ScimUpdate(t, u, enabled) ==
  ScimAllowed(t) /\ SetEnabled(u, t.client, enabled)

\* Faulty choices of roles: what anybody asked for; with unknown names.
AssignedAsAsked(t, names) == names \cap Roles
AssignedUnknown(t, names) == IF IsIdpAdmin(t) THEN names ELSE {"USER"}

(* A client's administrator who is not IDP_ADMIN can only assign USER, and *)
(* names that are not in the roles table are dropped.                      *)
Assigned(t, names) == IF IsIdpAdmin(t) THEN names \cap Roles ELSE {"USER"}

\* PUT /users/:id/roles
AssignRoles(t, u, asked, names) ==
  /\ HasRole(t, AdminRoles)
  /\ Administered(u, Target(t, asked))
  /\ user' = [user EXCEPT ![u].roles = Assigned(t, names)]
  /\ granted' = IF IsIdpAdmin(t)
                THEN granted \cup ({u} \X (names \cap AdminRoles))
                ELSE granted
  /\ UNCHANGED <<client, token, req>>

(* change-password of the token's subject, or reset-password with a mailed *)
(* token: the enabled account is read, then argon2 runs...                 *)
PasswordStart(r, u) ==
  /\ user[u] # None /\ Found(u, user[u].client)
  /\ Wait(r, [op |-> "password", user |-> u, read |-> user[u]])
  /\ UNCHANGED <<user, client, token, granted>>

\* ... and the entity that was read is saved, enabled and roles included.
PasswordEnd(r) ==
  /\ req[r].op = "password"
  /\ user' = [user EXCEPT ![req[r].user] = req[r].read]
  /\ Done(r)
  /\ UNCHANGED <<client, token, granted>>
-----------------------------------------------------------------------------
SaveClient(c, enabled) ==
  /\ client' = [client EXCEPT ![c] = IF enabled THEN "enabled" ELSE "disabled"]
  /\ UNCHANGED <<user, token, req, granted>>

\* POST /admin/clients: a client with a new random id.
CreateClient(t, c, enabled) ==
  IsIdpAdmin(t) /\ client[c] = None /\ SaveClient(c, enabled)

\* PUT /admin/clients/:clientId
UpdateClient(t, c, enabled) ==
  IsIdpAdmin(t) /\ c \in Registered /\ SaveClient(c, enabled)

\* PUT /client-admin/settings
UpdateSettings(t, enabled) ==
  HasRole(t, {"IDP_CLIENT_ADMIN"}) /\ SaveClient(t.client, enabled)

\* User.client is declared onDelete RESTRICT.
Deletable(c) == \A u \in Users : user[u] # None => user[u].client # c

\* DELETE /admin/clients/:clientId
DeleteClient(t, c) ==
  /\ IsIdpAdmin(t)
  /\ c \in Registered /\ Deletable(c)
  /\ client' = [client EXCEPT ![c] = "deleted"]
  /\ UNCHANGED <<user, token, req, granted>>

\* The process restarts; tokens are signed, and stay valid.
Restart == /\ req' = [r \in Requests |-> Idle]
           /\ UNCHANGED <<user, client, token, granted>>
-----------------------------------------------------------------------------
\* A request with token t.
Begin(t) ==
  \E r \in Requests, u \in Users :
    \/ \E asked \in Clients \cup {None} : CreateUser(r, t, u, asked)
    \/ CreateClientUser(r, t, u)
    \/ \E active \in BOOLEAN : ScimCreate(r, t, u, active)

Change(t) ==
  \E u \in Users :
    \/ \E asked \in Clients \cup {None}, enabled \in BOOLEAN :
         UpdateUser(t, u, asked, enabled)
    \/ \E enabled \in BOOLEAN : ScimUpdate(t, u, enabled)
    \/ \E asked \in Clients \cup {None}, names \in RoleLists :
         AssignRoles(t, u, asked, names)

ChangeClient(t) ==
  \/ \E c \in Clients, enabled \in BOOLEAN :
       CreateClient(t, c, enabled) \/ UpdateClient(t, c, enabled)
  \/ \E enabled \in BOOLEAN : UpdateSettings(t, enabled)
  \/ \E c \in Clients : DeleteClient(t, c)

Issue == \E c \in Clients, scim \in BOOLEAN :
           IssueClientToken(c, scim) \/ \E u \in Users : IssueToken(u, c, scim)

End(r) == CreateEnd(r) \/ PasswordEnd(r)

Next == \/ Issue
        \/ \E t \in token : Begin(t) \/ Change(t) \/ ChangeClient(t) \/ Expire(t)
        \/ \E r \in Requests, u \in Users : PasswordStart(r, u)
        \/ \E r \in Requests : End(r)
        \/ Restart

Spec == Init /\ [][Next]_vars
-----------------------------------------------------------------------------
(* An administrator's role comes from an administrator of the provider: an *)
(* account has it only if the operator made it so or a request of an       *)
(* account that was an enabled IDP_ADMIN at that moment assigned it,       *)
(* whatever tokens outlive the rights of their subject and whatever older  *)
(* copies of the account a password change saves.                          *)
RolesWereGranted ==
  \A u \in Users : user[u] # None => {u} \X (user[u].roles \cap AdminRoles)
                                       \subseteq granted

\* A request that is going to create an account outside the token's client.
Foreign(q, t) == q.op = "create" /\ q.client # t.client

\* A step is no request of a token that leaves the token's client.
Isolated(t) ==
  /\ \A u \in Users :
       user[u] # None /\ user'[u] # user[u] /\ user[u].client # t.client
         => ~Change(t)
  /\ \A r \in Requests :
       req'[r] # req[r] /\ Foreign(req'[r], t) => ~Begin(t)
  /\ \A c \in Clients \ {t.client} :
       client'[c] # client[c] => ~ChangeClient(t)

(* A request stays inside the client of its token: the accounts it changes *)
(* and the account it is going to create are of that client, and of no     *)
(* other unless its subject is an IDP_ADMIN now.                           *)
ClientIsolation ==
  [][\A t \in token : ~IsIdpAdmin(t) => Isolated(t)]_vars

(* Every account has its client, although clients are deleted while new    *)
(* accounts for them wait for argon2.                                      *)
AccountsHaveClient ==
  \A u \in Users : user[u] # None => user[u].client \in Registered

(* Disabling a client freezes its accounts, for live tokens of every       *)
(* administrator too: only a request that was already waiting for argon2   *)
(* still changes one.                                                      *)
DisabledClientFrozen ==
  [][\A u \in Users :
       user[u] # None /\ client[user[u].client] # "enabled"
         /\ user'[u] # user[u]
       => \E r \in Requests : PasswordEnd(r) /\ req[r].user = u]_vars
=============================================================================
