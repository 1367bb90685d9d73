------------------------------ MODULE Account ------------------------------
(***************************************************************************)
(* The accounts of one client and their passwords: IdentityService, the    *)
(* password_reset_tokens table and ScimUserService, with the requests that *)
(* change an account while another one waits for argon2.                   *)
(*                                                                         *)
(* TypeORM's save writes every column of the entity a request loaded that  *)
(* differs from the table, roles included; an entity loaded before argon2  *)
(* and saved after it overwrites what other requests saved in between.     *)
(***************************************************************************)
EXTENDS Naturals, FiniteSets

CONSTANTS Users,      \* User.id of accounts of the client
          Passwords,  \* passwords people choose, each chosen once
          Tokens,     \* raw reset tokens randomBytes can return, each once
          USER,       \* the role every new account gets
          RoleNames,  \* names of roles, those a request can ask for
          Requests,   \* requests that can be in flight at the same time
          None,       \* SQL NULL, and "no such value"
          TokenTTL    \* lifetime of a reset token, in units of time

ASSUME AccountAssumption ==
  /\ TokenTTL \in Nat \ {0}
  /\ None \notin Passwords
  /\ USER \in RoleNames

VARIABLES
  user,    \* users: the row of an account, or None
  roles,   \* names in the roles table
  client,  \* the client: its uuid, its public client id, enabled
  token,   \* password_reset_tokens: the row of a token, or None
  req      \* what each request in flight has read, and waits for

(* History: what has been asked for, and what has been answered. *)
VARIABLES
  chosen,  \* passwords already chosen
  retired, \* <<u, p>>: p was u's password and was replaced
  spent    \* tokens a password was saved with, and how many times

history == <<chosen, retired, spent>>
vars == <<user, roles, client, token, req, history>>

Account == [enabled : BOOLEAN, roles : SUBSET RoleNames, password : Passwords]
Client == [id : {"uuid"}, clientId : {"public"}, enabled : BOOLEAN]
Token == [user : Users, client : {"uuid", "public"}, left : 0..TokenTTL,
          used : BOOLEAN]

\* null is neither an account nor a token.
ASSUME NullAssumption == None \notin Account \cup Token

Idle == [op |-> "idle"]
Request ==
  {Idle}
  \cup [op : {"create"}, user : Users, active : BOOLEAN, new : Passwords]
  \cup [op : {"change"}, user : Users, read : Account, new : Passwords]
  \cup [op : {"reset"}, user : Users, read : Account, new : Passwords,
        token : Tokens]

Typed ==
  /\ user \in [Users -> Account \cup {None}]
  /\ client \in Client
  /\ token \in [Tokens -> Token \cup {None}]
  /\ req \in [Requests -> Request]
  /\ chosen \subseteq Passwords
  /\ retired \subseteq Users \X Passwords
  /\ spent \in [Tokens -> Nat]

\* user_roles: accounts, and entities held, have roles that are in the table.
RolesExist ==
  /\ roles \subseteq RoleNames /\ USER \in roles
  /\ \A u \in Users : user[u] # None => user[u].roles \subseteq roles
  /\ \A r \in Requests :
       req[r].op \in {"change", "reset"} => req[r].read.roles \subseteq roles

TypeOK == Typed /\ RolesExist

Init ==
  /\ user = [u \in Users |-> None]
  /\ roles = {USER}
  /\ client = [id |-> "uuid", clientId |-> "public", enabled |-> TRUE]
  /\ token = [t \in Tokens |-> None]
  /\ req = [r \in Requests |-> Idle]
  /\ chosen = {}
  /\ retired = {}
  /\ spent = [t \in Tokens |-> 0]

Wait(r, q) == req' = [req EXCEPT ![r] = q]
Done(r) == Wait(r, Idle)
Choose(p) == p \notin chosen /\ chosen' = chosen \cup {p}

\* findById, findByUsername, findByEmail: the client and the row are enabled.
Found(u) == client.enabled /\ user[u] # None /\ user[u].enabled

\* findByIdForAdministration: the row may be disabled.
Administered(u) == client.enabled /\ user[u] # None

\* save of an entity that carries a new password.
SavePassword(u, entity, p) ==
  /\ user' = [user EXCEPT ![u] = [entity EXCEPT !.password = p]]
  /\ retired' = retired \cup {<<u, user[u].password>>}
-----------------------------------------------------------------------------
(* POST /users, /client/users and SCIM Users: the client is enabled, and   *)
(* the new password is hashed.  (The look for an account with the same     *)
(* name compares the client's uuid with public ids, and never finds one.)  *)
CreateStart(r, u, active, p) ==
  /\ req[r] = Idle
  /\ client.enabled
  /\ Choose(p)
  /\ Wait(r, [op |-> "create", user |-> u, active |-> active, new |-> p])
  /\ UNCHANGED <<user, roles, client, token, retired, spent>>

Created(r, enabled) ==
  user' = [user EXCEPT ![req[r].user] =
             [enabled |-> enabled, roles |-> {USER},
              password |-> req[r].new]]

(* The row is inserted, enabled, unless UNIQUE (username, clientId) fails, *)
(* and a SCIM request saves it again with its active flag.                 *)
CreateEnd(r) ==
  /\ req[r].op = "create"
  /\ \/ user[req[r].user] = None /\ Created(r, req[r].active)
     \/ user[req[r].user] # None /\ UNCHANGED user
  /\ Done(r)
  /\ UNCHANGED <<roles, client, token, history>>

\* PUT /users/:id, SCIM PUT, PATCH and DELETE: no wait between read and save.
UpdateUser(u, enabled) ==
  /\ Administered(u)
  /\ user' = [user EXCEPT ![u].enabled = enabled]
  /\ UNCHANGED <<roles, client, token, req, history>>

\* Faulty assignment: unknown names are kept.
AssignRolesUnfiltered(u, names) ==
  /\ Administered(u)
  /\ user' = [user EXCEPT ![u].roles = names]
  /\ UNCHANGED <<roles, client, token, req, history>>

(* PUT /users/:id/roles: names that are not in the table are dropped, the  *)
(* check for a missing role looks at the missing role itself, null.        *)
AssignRoles(u, names) ==
  /\ Administered(u)
  /\ user' = [user EXCEPT ![u].roles = names \cap roles]
  /\ UNCHANGED <<roles, client, token, req, history>>

\* POST /roles: a name that is not in the table; no request takes one out.
CreateRole(name) ==
  /\ name \notin roles
  /\ roles' = roles \cup {name}
  /\ UNCHANGED <<user, client, token, req, history>>

\* The client's administrator enables or disables it.
UpdateClient(enabled) ==
  /\ client' = [client EXCEPT !.enabled = enabled]
  /\ UNCHANGED <<user, roles, token, req, history>>
-----------------------------------------------------------------------------
(* POST /account/change-password: the account is read, argon2 verifies the *)
(* presented password, which is the one read, and hashes the new one...    *)
ChangeStart(r, u, p) ==
  /\ req[r] = Idle
  /\ Found(u)
  /\ Choose(p)
  /\ Wait(r, [op |-> "change", user |-> u, read |-> user[u], new |-> p])
  /\ UNCHANGED <<user, roles, client, token, retired, spent>>

\* Faulty second half: the entity is saved before its hash is assigned.
ChangeEndUnassigned(r) ==
  /\ req[r].op = "change"
  /\ user' = [user EXCEPT ![req[r].user] = req[r].read]
  /\ Done(r)
  /\ UNCHANGED <<roles, client, token, history>>

\* ... then the entity that was read is saved with the new hash.
ChangeEnd(r) ==
  /\ req[r].op = "change"
  /\ SavePassword(req[r].user, req[r].read, req[r].new)
  /\ Done(r)
  /\ UNCHANGED <<roles, client, token, chosen, spent>>

\* UPDATE ... SET usedAt WHERE userId AND clientId AND usedAt IS NULL.
Invalidated(u, clientId) ==
  {t \in Tokens : /\ token[t] # None
                  /\ token[t].user = u
                  /\ token[t].client = clientId
                  /\ ~token[t].used}

(* POST /account/forgot-password: the row of the new token carries the     *)
(* client's uuid, the invalidation is asked for its public id.             *)
ForgotPassword(t, u) ==
  /\ Found(u)
  /\ token[t] = None
  /\ token' = [x \in Tokens |->
       IF x = t THEN [user |-> u, client |-> client.id, left |-> TokenTTL,
                      used |-> FALSE]
       ELSE IF x \in Invalidated(u, client.clientId)
            THEN [token[x] EXCEPT !.used = TRUE]
       ELSE token[x]]
  /\ UNCHANGED <<user, roles, client, req, history>>

\* What resetPassword requires of a token before it hashes the password.
Usable(t) == /\ token[t] # None
             /\ ~token[t].used
             /\ token[t].left > 0

(* POST /account/reset-password: the token and its account are read...     *)
ResetStart(r, t, p) ==
  /\ req[r] = Idle
  /\ Usable(t)
  /\ Found(token[t].user)
  /\ Choose(p)
  /\ LET u == token[t].user IN
     Wait(r, [op |-> "reset", user |-> u, read |-> user[u], new |-> p,
              token |-> t])
  /\ UNCHANGED <<user, roles, client, token, retired, spent>>

\* ... saved with the new hash, and then the token is marked as used.
ResetEnd(r) ==
  /\ req[r].op = "reset"
  /\ SavePassword(req[r].user, req[r].read, req[r].new)
  /\ spent' = [spent EXCEPT ![req[r].token] = @ + 1]
  /\ token' = [token EXCEPT ![req[r].token].used = TRUE]
  /\ Done(r)
  /\ UNCHANGED <<roles, client, chosen>>
-----------------------------------------------------------------------------
Tick ==
  /\ token' = [t \in Tokens |-> IF token[t] # None /\ token[t].left > 0
                                THEN [token[t] EXCEPT !.left = @ - 1]
                                ELSE token[t]]
  /\ UNCHANGED <<user, roles, client, req, history>>

Forget == req' = [r \in Requests |-> Idle]

\* The process restarts: the requests in flight are lost.
Restart == Forget /\ UNCHANGED <<user, roles, client, token, history>>

\* Faulty order of the two saves: the token first.
CrashInResetTokenFirst(r) ==
  /\ req[r].op = "reset"
  /\ token' = [token EXCEPT ![req[r].token].used = TRUE]
  /\ Forget
  /\ UNCHANGED <<user, roles, client, history>>

\* It dies inside resetPassword between the two saves...
CrashInReset(r) ==
  /\ req[r].op = "reset"
  /\ SavePassword(req[r].user, req[r].read, req[r].new)
  /\ spent' = [spent EXCEPT ![req[r].token] = @ + 1]
  /\ Forget
  /\ UNCHANGED <<roles, client, token, chosen>>

\* ... or inside ScimUserService.create between the two saves.
CrashInCreate(r) ==
  /\ req[r].op = "create"
  /\ user[req[r].user] = None
  /\ Created(r, TRUE)
  /\ Forget
  /\ UNCHANGED <<roles, client, token, history>>

Begin(r, p) ==
  \/ \E u \in Users, active \in BOOLEAN : CreateStart(r, u, active, p)
  \/ \E u \in Users : ChangeStart(r, u, p)
  \/ \E t \in Tokens : ResetStart(r, t, p)

End(r) == \/ CreateEnd(r) \/ ChangeEnd(r) \/ ResetEnd(r)
          \/ CrashInReset(r) \/ CrashInCreate(r)

Administer == \/ \E u \in Users, enabled \in BOOLEAN : UpdateUser(u, enabled)
              \/ \E u \in Users, names \in SUBSET RoleNames :
                   AssignRoles(u, names)
              \/ \E name \in RoleNames : CreateRole(name)
              \/ \E enabled \in BOOLEAN : UpdateClient(enabled)

Next == \/ \E r \in Requests : End(r) \/ \E p \in Passwords : Begin(r, p)
        \/ \E t \in Tokens, u \in Users : ForgotPassword(t, u)
        \/ Administer
        \/ Tick
        \/ Restart

Spec == Init /\ [][Next]_vars
-----------------------------------------------------------------------------
(* A password that has been replaced never works again: no save brings     *)
(* back the hash of an entity that was read before the replacement,        *)
(* although changes, resets and administration of an account overlap.      *)
RetiredPasswordGone ==
  \A u \in Users : user[u] # None => <<u, user[u].password>> \notin retired

(* A reset link is not lost to a failure: a token is marked as used only   *)
(* after a password was saved with it, or because its account asked for    *)
(* another one that lives at least as long, whatever crash or concurrent   *)
(* request falls between the two saves of resetPassword.                   *)
LinkNotLost ==
  \A t \in Tokens :
    token[t] # None /\ token[t].used =>
      \/ spent[t] > 0
      \/ \E n \in Tokens \ {t} : /\ token[n] # None
                                /\ token[n].user = token[t].user
                                /\ token[n].left >= token[t].left

(* docs/scim.md: a deleted user "is soft-disabled so the TSCloak identity  *)
(* remains auditable while access is disabled".  The code does not keep    *)
(* it disabled: a password change or reset under way saves enabled again.  *)
DisabledUntilEnabled ==
  [][\A u \in Users :
       user[u] # None /\ ~user[u].enabled /\ user'[u].enabled
         => UpdateUser(u, TRUE)]_vars
=============================================================================
