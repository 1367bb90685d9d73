----------------------------- MODULE UsersPage -----------------------------
(***************************************************************************)
(* users.html of the idp-admin console (users.js) with the handlers of     *)
(* IdentityController that it calls: an administrator chooses the client   *)
(* whose accounts are managed, and edits them in rows and panels that may  *)
(* be older than this choice.  Requests take effect in the order they are  *)
(* sent, their answers arrive in any order.                                *)
(***************************************************************************)
EXTENDS FiniteSets, Naturals

CONSTANTS Users, ManagedClients,
          OwnerOf,    \* the client an account belongs to, or would
          Home,       \* the client the administrator's own account is of
          Nobody, MaxAnswers

ASSUME UsersPageAssumption == OwnerOf \in [Users -> ManagedClients] /\ Home \in ManagedClients

VARIABLES
  exists,            \* the server: the accounts
  selectedClientId,  \* the variable of users.js; Nobody for '', without a choice
  userRows,          \* the accounts the table shows
  saving,            \* rows whose Apply button is disabled
  editor,            \* the account the edit panel was opened for
  answers            \* answers that have not arrived

\* History: changed accounts, with the client that was chosen at that time.
VARIABLE changes

usersVars == <<exists, selectedClientId, userRows, saving, editor,
               answers, changes>>
unchangedPage == <<selectedClientId, userRows, editor>>

Answers == [op : {"clients", "edit", "roles", "create"},
            user : Users \cup {Nobody}, ok : BOOLEAN]
  \cup [op : {"list"}, rows : SUBSET Users]

UsersTypeOK ==
  /\ exists \subseteq Users /\ userRows \subseteq Users /\ saving \subseteq userRows
  /\ selectedClientId \in ManagedClients \cup {Nobody}
  /\ editor \in Users \cup {Nobody}
  /\ answers \subseteq Answers /\ changes \subseteq Users \X ManagedClients

\* Faulty requests: they leave the choice out.
ScopeOfNobody(selected) == Nobody

\* The client_id that users.js puts into a request: none without a choice.
ScopeOf(selected) == selected

\* resolveTargetClientId for an IDP_ADMIN.
TargetClient(clientId) == IF clientId = Nobody THEN Home ELSE clientId

\* findByIdForAdministration(userId, clientId).
FoundUser(u, clientId) == u \in exists /\ OwnerOf[u] = clientId

\* What loadUsers will show for this choice.
UserList(selected) ==
  [op |-> "list", rows |->
     {u \in exists : OwnerOf[u] = TargetClient(ScopeOf(selected))}]
Answered(op, u, ok) == [op |-> op, user |-> u, ok |-> ok]
Asks(new) == Cardinality(answers) < MaxAnswers /\ answers' = answers \cup new
ThenLoads(q) == answers' = (answers \ {q}) \cup {UserList(selectedClientId)}

UsersInit ==
  /\ exists = {}
  /\ selectedClientId = Nobody 
  /\ userRows = {} /\ saving = {} /\ editor = Nobody
  /\ answers = {Answered("clients", Nobody, TRUE)}
  /\ changes = {}

(* setupClientScope: the first client of the list is chosen.               *)
ScopeArrived(q, c) ==
  /\ q \in answers /\ q.op = "clients"
  /\ selectedClientId' = c 
  /\ answers' = (answers \ {q}) \cup {UserList(c)}
  /\ UNCHANGED <<exists, userRows, saving, editor, changes>>

\* Without a list there is no choice; the accounts are loaded all the same.
NoScope(q) ==
  /\ q \in answers /\ q.op = "clients"
  /\ ThenLoads(q)
  /\ UNCHANGED <<exists, selectedClientId, userRows, saving, editor, changes>>

ChangeScope(c) ==
  /\ selectedClientId # Nobody
  /\ selectedClientId' = c
  /\ Asks({UserList(c)})
  /\ UNCHANGED <<exists, userRows, saving, editor, changes>>

RefreshUsers ==
  /\ Asks({UserList(selectedClientId)})
  /\ UNCHANGED <<exists, saving, changes>> /\ UNCHANGED unchangedPage

\* Faulty table: the buttons of the old rows stay disabled.
UsersLoadedKeeping(q) ==
  /\ q \in answers /\ q.op = "list"
  /\ \E shown \in {q.rows, {}} : userRows' = shown
  /\ answers' = answers \ {q}
  /\ UNCHANGED <<exists, selectedClientId, saving, editor, changes>>

\* Every list that arrives is shown, also one for an earlier choice.
UsersLoaded(q) ==
  /\ q \in answers /\ q.op = "list"
  /\ \E shown \in {q.rows, {}} : userRows' = shown
  /\ saving' = {}
  /\ answers' = answers \ {q}
  /\ UNCHANGED <<exists, selectedClientId, editor, changes>>

OpenUserEditor(u) ==
  /\ u \in userRows
  /\ editor' = u
  /\ UNCHANGED <<exists, selectedClientId, userRows, saving, answers, changes>>

CloseUserEditor ==
  /\ editor' = Nobody
  /\ UNCHANGED <<exists, selectedClientId, userRows, saving, answers, changes>>

\* PUT /users/:id and /users/:id/roles, with the choice of this moment.
Changes(op, u) ==
  LET target == TargetClient(ScopeOf(selectedClientId)) IN
  /\ Asks({Answered(op, u, FoundUser(u, target))})
  /\ changes' = IF FoundUser(u, target)
                  THEN changes \cup {<<u, TargetClient(selectedClientId)>>}
                  ELSE changes
  /\ UNCHANGED exists /\ UNCHANGED unchangedPage

SubmitUserEditor ==
  /\ editor # Nobody
  /\ Changes("edit", editor)
  /\ UNCHANGED saving

\* Apply: the whole set of roles; the button waits for the answer.
ApplyRoles(u) ==
  /\ u \in userRows \ saving
  /\ Changes("roles", u)
  /\ saving' = saving \cup {u}

CreateUser(u) ==
  /\ u \notin exists /\ OwnerOf[u] = TargetClient(ScopeOf(selectedClientId))
  /\ exists' = exists \cup {u}
  /\ changes' = changes \cup {<<u, TargetClient(selectedClientId)>>}
  /\ Asks({Answered("create", Nobody, TRUE)})
  /\ UNCHANGED saving /\ UNCHANGED unchangedPage

\* The panel that was submitted is removed; one opened since stays.
UserSaved(q) ==
  /\ q \in answers /\ q.op = "edit" /\ q.ok
  /\ \E e \in {editor, IF editor = q.user THEN Nobody ELSE editor} : editor' = e
  /\ ThenLoads(q)
  /\ UNCHANGED <<exists, selectedClientId, userRows, saving, changes>>

\* The button is enabled again, unless the table was replaced meanwhile.
RolesApplied(q) ==
  /\ q \in answers /\ q.op = "roles"
  /\ \E rest \in {saving, saving \ {q.user}} : saving' = rest
  /\ IF q.ok THEN ThenLoads(q) ELSE answers' = answers \ {q}
  /\ UNCHANGED <<exists, changes>> /\ UNCHANGED unchangedPage

UserCreated(q) ==
  /\ q \in answers /\ q.op = "create"
  /\ ThenLoads(q)
  /\ UNCHANGED <<exists, saving, changes>> /\ UNCHANGED unchangedPage

\* A refusal shows a message, a lost answer not even that.
AnswerFailed(q) ==
  /\ q \in answers /\ q.op \in {"edit", "create", "roles", "list"}
  /\ answers' = answers \ {q}
  /\ UNCHANGED <<exists, saving, changes>> /\ UNCHANGED unchangedPage

\* Accounts come into being through the server's other interfaces, too.
UserAppears(u) ==
  /\ u \notin exists
  /\ exists' = exists \cup {u}
  /\ UNCHANGED <<saving, answers, changes>> /\ UNCHANGED unchangedPage

UsersNext ==
  \/ RefreshUsers \/ CloseUserEditor \/ SubmitUserEditor
  \/ \E c \in ManagedClients : ChangeScope(c)
  \/ \E u \in Users : \/ OpenUserEditor(u) \/ ApplyRoles(u) \/ CreateUser(u)
                      \/ UserAppears(u)
  \/ \E q \in answers : \/ \E c \in ManagedClients : ScopeArrived(q, c)
                        \/ NoScope(q) \/ UsersLoaded(q) \/ UserSaved(q)
                        \/ RolesApplied(q) \/ UserCreated(q) \/ AnswerFailed(q)

UsersSpec == UsersInit /\ [][UsersNext]_usersVars
-----------------------------------------------------------------------------
(* A change lands only on an account of the client that the page shows as  *)
(* the managed one when it is sent, although rows and panels of another    *)
(* client can still be on the page, or come back with a late list.         *)
ChangesLandInScope ==
  \A change \in changes : OwnerOf[change[1]] = change[2]
=============================================================================
