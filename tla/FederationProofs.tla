------------------------- MODULE FederationProofs -------------------------
(***************************************************************************)
(* Theorems about Federation: a state is good for one login, a subject for *)
(* one account, and a login for an enabled account of its interaction's    *)
(* client, whatever callbacks overlap with each other, with changes of     *)
(* accounts and providers, and with a restart.                             *)
(***************************************************************************)
EXTENDS Federation, TLAPS

InFlight(r) == ctx[r].op # "idle"

(* A state not drawn yet has been stored nowhere, and one that is still in *)
(* the table has logged nobody in.                                         *)
StateInv ==
  \A s \in States :
    /\ times[s] <= 1
    /\ s \notin drawn => tx[s] = None /\ times[s] = 0
    /\ tx[s] # None => times[s] = 0

(* What a callback carries was taken out of the table by it alone, has not *)
(* logged anybody in, and has the client of its interaction.               *)
Carried ==
  \A r \in Requests : InFlight(r) =>
    /\ ctx[r].state \in drawn
    /\ tx[ctx[r].state] = None
    /\ times[ctx[r].state] = 0
    /\ ctx[r].client = ClientOf[ctx[r].uid]
    /\ \A q \in Requests :
         InFlight(q) /\ ctx[q].state = ctx[r].state => q = r

\* Links lead to an account of their client, one for each subject.
LinksInv ==
  \A l \in link :
    /\ user[l.user] # None
    /\ user[l.user].client = l.client
    /\ \A m \in LinkOf(l.provider, l.subject, l.client) : m = l

(* An accepted login has used its state, is for an account of its client,  *)
(* and is still linked with it, unless the provider has been deleted.      *)
Rests(a) ==
  /\ times[a.state] = 1
  /\ user[a.user] # None
  /\ user[a.user].client = ClientOf[a.uid]
  /\ \/ provider[a.provider] = "deleted"
     \/ \E l \in LinkOf(a.provider, a.subject, ClientOf[a.uid]) :
          l.user = a.user

AcceptedInv == \A a \in accepted : Rests(a)

IInv == /\ TypeOK
        /\ StateInv
        /\ Carried
        /\ LinksInv
        /\ AcceptedInv
        /\ SubjectHasOneAccount

LEMMA InitHolds == Init => IInv
<1> SUFFICES ASSUME Init PROVE IInv
  OBVIOUS
<1> USE FederationAssumption DEF Init, Idle
<1>1. TypeOK
  BY DEF TypeOK, Context
<1>2. StateInv /\ Carried /\ LinksInv /\ AcceptedInv /\ SubjectHasOneAccount
  BY DEF StateInv, Carried, InFlight, LinksInv, AcceptedInv,
         SubjectHasOneAccount
<1> QED
  BY <1>1, <1>2 DEF IInv
-----------------------------------------------------------------------------
(* Steps that accept nothing and add nothing: administration of providers  *)
(* and clients, time, errors, a restart.                                   *)
LEMMA NothingAddedKeeps ==
  ASSUME IInv, UNCHANGED <<user, history>>,
         provider' \in [Providers -> {"new", "enabled", "disabled", "deleted"}],
         \A p \in Providers : provider[p] = "deleted" => provider'[p] = "deleted",
         override' \in [Clients \X Providers -> BOOLEAN \cup {None}],
         enabled' \subseteq Clients, open' \subseteq Interactions,
         link' \subseteq link,
         \A l \in link \ link' : provider'[l.provider] = "deleted",
         tx' \in [States -> Transaction \cup {None}],
         \A s \in States : tx[s] = None => tx'[s] = None,
         ctx' \in [Requests -> Context],
         \A r \in Requests : ctx'[r] = ctx[r] \/ ctx'[r] = Idle
  PROVE  IInv'
<1> USE DEF IInv, history
<1>1. TypeOK'
  BY DEF TypeOK
<1>2. StateInv'
  BY DEF StateInv, TypeOK
<1>3. Carried'
  <2> SUFFICES ASSUME NEW r \in Requests, InFlight(r)'
               PROVE  Carried!(r)'
    BY DEF Carried
  <2>1. /\ \A q \in Requests : InFlight(q)' => InFlight(q) /\ ctx'[q] = ctx[q]
        /\ ctx[r].state \in States
    BY DEF InFlight, Idle, TypeOK, Context
  <2> QED
    BY <2>1 DEF Carried, TypeOK
<1>4. LinksInv'
  BY DEF LinksInv, LinkOf
<1>5. AcceptedInv'
  <2> SUFFICES ASSUME NEW a \in accepted PROVE Rests(a)'
    BY DEF AcceptedInv
  <2>1. a.provider \in Providers /\ Rests(a)
    BY DEF TypeOK, Login, AcceptedInv
  <2> QED
    BY <2>1 DEF Rests, LinkOf
<1>6. SubjectHasOneAccount'
  BY DEF SubjectHasOneAccount
<1> QED
  BY <1>1, <1>2, <1>3, <1>4, <1>5, <1>6

LEMMA ForgetForgets ==
  ASSUME TypeOK, Forget
  PROVE  /\ ctx' \in [Requests -> Context]
         /\ \A r \in Requests : ctx'[r] = Idle
  BY DEF Forget, Context

LEMMA DoneForgets ==
  ASSUME TypeOK, NEW r \in Requests, Done(r)
  PROVE  /\ ctx' \in [Requests -> Context]
         /\ \A q \in Requests : ctx'[q] = IF q = r THEN Idle ELSE ctx[q]
  BY DEF Done, Wait, TypeOK, Context

LEMMA SaveProviderKeeps ==
  ASSUME IInv, NEW p \in Providers, NEW state \in {"enabled", "disabled"},
         SaveProvider(p, state)
  PROVE  IInv'
<1>1. /\ provider' \in [Providers -> {"new", "enabled", "disabled", "deleted"}]
      /\ \A q \in Providers : provider[q] = "deleted" => provider'[q] = "deleted"
  BY DEF SaveProvider, IInv, TypeOK
<1> QED
  BY <1>1, NothingAddedKeeps DEF SaveProvider, IInv, TypeOK

LEMMA DeleteProviderKeeps ==
  ASSUME IInv, NEW p \in Providers, DeleteProvider(p)
  PROVE  IInv'
<1> USE DEF IInv, TypeOK
<1>1. /\ provider' \in [Providers -> {"new", "enabled", "disabled", "deleted"}]
      /\ provider'[p] = "deleted"
      /\ \A q \in Providers : provider[q] = "deleted" => provider'[q] = "deleted"
  BY DEF DeleteProvider
<1>2. override' \in [Clients \X Providers -> BOOLEAN \cup {None}]
  BY DEF DeleteProvider
<1>3. /\ link' \subseteq link
      /\ \A l \in link \ link' : provider'[l.provider] = "deleted"
  BY <1>1 DEF DeleteProvider
<1>4. /\ tx' \in [States -> Transaction \cup {None}]
      /\ \A s \in States : tx[s] = None => tx'[s] = None
  BY DEF DeleteProvider
<1> QED
  BY <1>1, <1>2, <1>3, <1>4, NothingAddedKeeps DEF DeleteProvider

LEMMA TickKeeps ==
  ASSUME IInv, Tick
  PROVE  IInv'
<1>1. /\ tx' \in [States -> Transaction \cup {None}]
      /\ \A s \in States : tx[s] = None => tx'[s] = None
  <2> SUFFICES ASSUME NEW s \in States, tx[s] # None, tx[s].left > 0
               PROVE  [tx[s] EXCEPT !.left = @ - 1] \in Transaction
    BY DEF Tick, IInv, TypeOK
  <2>1. tx[s] \in Transaction
    BY DEF IInv, TypeOK
  <2> QED
    BY <2>1, FederationAssumption DEF Transaction
<1> QED
  BY <1>1, NothingAddedKeeps DEF Tick, IInv, TypeOK

LEMMA UnchangedKeeps ==
  ASSUME IInv, UNCHANGED vars
  PROVE  IInv'
  BY NothingAddedKeeps DEF vars, history, IInv, TypeOK
-----------------------------------------------------------------------------
(* Accounts are made and changed by others: an account keeps its client.   *)
LEMMA AccountSavedKeeps ==
  ASSUME IInv, NEW u \in Users, NEW new \in Account,
         user[u] # None => new.client = user[u].client,
         user' = [user EXCEPT ![u] = new],
         UNCHANGED <<provider, override, enabled, link, tx, open, history>>,
         ctx' \in [Requests -> Context],
         \A r \in Requests : ctx'[r] = ctx[r] \/ ctx'[r] = Idle
  PROVE  IInv'
<1> USE DEF IInv, history
<1>1. new # None
  BY NullAssumption
<1>2. \A v \in Users : /\ user[v] # None => user'[v] # None
                       /\ user[v] # None => user'[v].client = user[v].client
  BY <1>1 DEF TypeOK
<1>3. TypeOK'
  BY DEF TypeOK
<1>4. StateInv'
  BY DEF StateInv
<1>5. Carried'
  <2> SUFFICES ASSUME NEW r \in Requests, InFlight(r)'
               PROVE  Carried!(r)'
    BY DEF Carried
  <2>1. \A q \in Requests : InFlight(q)' => InFlight(q) /\ ctx'[q] = ctx[q]
    BY DEF InFlight, Idle, TypeOK
  <2> QED
    BY <2>1 DEF Carried
<1>6. LinksInv'
  BY <1>2 DEF LinksInv, LinkOf, TypeOK, Link
<1>7. AcceptedInv'
  BY <1>2 DEF AcceptedInv, Rests, LinkOf, TypeOK, Login
<1>8. SubjectHasOneAccount'
  BY DEF SubjectHasOneAccount
<1> QED
  BY <1>3, <1>4, <1>5, <1>6, <1>7, <1>8

LEMMA CreateUserKeeps ==
  ASSUME IInv, NEW u \in Users, NEW c \in Clients, NEW e \in Emails,
         CreateUser(u, c, e)
  PROVE  IInv'
<1> DEFINE new == [client |-> c, email |-> e, enabled |-> TRUE]
<1>1. new \in Account
  BY DEF Account
<1>2. user[u] = None /\ user' = [user EXCEPT ![u] = new]
  BY DEF CreateUser
<1> HIDE DEF new
<1> QED
  BY <1>1, <1>2, AccountSavedKeeps DEF CreateUser, IInv, TypeOK

LEMMA UpdateUserKeeps ==
  ASSUME IInv, NEW u \in Users, NEW e \in Emails, NEW on \in BOOLEAN,
         UpdateUser(u, e, on)
  PROVE  IInv'
<1> DEFINE new == [client |-> user[u].client, email |-> e, enabled |-> on]
<1>1. new \in Account /\ new.client = user[u].client
  BY DEF Account, UpdateUser, IInv, TypeOK
<1>2. user' = [user EXCEPT ![u] = new]
  BY DEF UpdateUser
<1> HIDE DEF new
<1> QED
  BY <1>1, <1>2, AccountSavedKeeps DEF UpdateUser, IInv, TypeOK

LEMMA CrashInProvisionKeeps ==
  ASSUME IInv, NEW r \in Requests, NEW u \in Users, CrashInProvision(r, u)
  PROVE  IInv'
<1> DEFINE new == [client |-> ctx[r].client, email |-> ctx[r].email,
                   enabled |-> TRUE]
<1>1. new \in Account
  BY DEF Account, CrashInProvision, IInv, TypeOK, Context, Idle
<1>2. user[u] = None /\ user' = [user EXCEPT ![u] = new]
  BY DEF CrashInProvision, Insert
<1> HIDE DEF new
<1> QED
  BY <1>1, <1>2, ForgetForgets, AccountSavedKeeps
     DEF CrashInProvision, IInv
-----------------------------------------------------------------------------
LEMMA AuthorizeKeeps ==
  ASSUME IInv, NEW s \in States, NEW p \in Providers, NEW c \in Clients,
         NEW i \in Interactions, Authorize(s, p, c, i)
  PROVE  IInv'
<1> USE DEF IInv
<1> DEFINE row == [provider |-> p, client |-> c, uid |-> i, left |-> StateTTL]
<1>1. row \in Transaction
  BY FederationAssumption DEF Transaction
<1>2. /\ tx' = [tx EXCEPT ![s] = row]
      /\ drawn' = drawn \cup {s} /\ s \notin drawn
      /\ UNCHANGED <<provider, override, enabled, user, link, open, ctx,
                     accepted, times>>
  BY DEF Authorize
<1> HIDE DEF row
<1>3. TypeOK'
  BY <1>1, <1>2 DEF TypeOK
<1>4. StateInv'
  BY <1>2 DEF StateInv, TypeOK
<1>5. Carried'
  BY <1>2 DEF Carried, InFlight, TypeOK
<1>6. LinksInv' /\ AcceptedInv' /\ SubjectHasOneAccount'
  BY <1>2 DEF LinksInv, AcceptedInv, Rests, SubjectHasOneAccount, LinkOf
<1> QED
  BY <1>3, <1>4, <1>5, <1>6

LEMMA CallbackStartKeeps ==
  ASSUME IInv, NEW r \in Requests, NEW s \in States, CallbackStart(r, s)
  PROVE  IInv'
<1> USE DEF IInv
<1> DEFINE c == [op |-> "upstream", state |-> s, provider |-> tx[s].provider,
                 client |-> tx[s].client, uid |-> tx[s].uid]
<1>1. /\ tx' = [tx EXCEPT ![s] = None] /\ tx[s] # None
      /\ UNCHANGED <<provider, override, enabled, user, link, open, history>>
  BY DEF CallbackStart
<1>2. CASE UNCHANGED ctx
  BY <1>1, <1>2, NothingAddedKeeps DEF TypeOK
<1>3. CASE Bound(tx[s]) /\ ctx' = [ctx EXCEPT ![r] = c]
  <2>1. c \in Context /\ c.op = "upstream" /\ c.state = s
        /\ c.client = ClientOf[c.uid]
    BY <1>1, <1>3 DEF TypeOK, Context, Transaction, Bound
  <2> HIDE DEF c
  <2>2. TypeOK'
    BY <1>1, <1>3, <2>1 DEF TypeOK, history
  <2>3. StateInv'
    BY <1>1 DEF StateInv, TypeOK, history
  <2>4. \A q \in Requests : ctx'[q] = IF q = r THEN c ELSE ctx[q]
    BY <1>3 DEF TypeOK
  <2>5. \A q \in Requests : InFlight(q) => ctx[q].state # s
    BY <1>1 DEF Carried
  <2>6. Carried'
    <3> SUFFICES ASSUME NEW q \in Requests, InFlight(q)'
                 PROVE  Carried!(q)'
      BY DEF Carried
    <3>1. CASE q = r
      BY <1>1, <2>1, <2>4, <2>5, <3>1
         DEF InFlight, StateInv, TypeOK, history
    <3>2. CASE q # r
      <4>1. InFlight(q) /\ ctx'[q] = ctx[q] /\ ctx[q].state # s
        BY <2>4, <2>5, <3>2 DEF InFlight
      <4>2. Carried!(q)
        BY <4>1 DEF Carried
      <4>3. tx'[ctx[q].state] = None
        BY <1>1, <4>1, <4>2 DEF TypeOK
      <4>4. \A x \in Requests :
              InFlight(x)' /\ ctx'[x].state = ctx[q].state => x = q
        BY <2>1, <2>4, <4>1, <4>2 DEF InFlight
      <4> QED
        BY <1>1, <4>1, <4>2, <4>3, <4>4 DEF history
    <3> QED
      BY <3>1, <3>2
  <2>7. LinksInv' /\ AcceptedInv' /\ SubjectHasOneAccount'
    BY <1>1
       DEF LinksInv, AcceptedInv, Rests, SubjectHasOneAccount, LinkOf, history
  <2> QED
    BY <2>2, <2>3, <2>6, <2>7
<1> QED
  BY <1>1, <1>2, <1>3 DEF CallbackStart, Wait
-----------------------------------------------------------------------------
(* The end of a callback that accepts: the account is of its client, the   *)
(* link is there and the only one of its subject.                          *)
LEMMA AcceptKeeps ==
  ASSUME IInv, NEW r \in Requests, NEW s \in Subjects, NEW u \in Users,
         InFlight(r), Accept(r, s, u),
         UNCHANGED <<provider, override, enabled, tx, open, drawn>>,
         provider[ctx[r].provider] # "deleted",
         user' \in [Users -> Account \cup {None}],
         \A v \in Users : user[v] # None =>
           user'[v] # None /\ user'[v].client = user[v].client,
         user'[u] # None, user'[u].client = ctx[r].client,
         NEW l \in Link,
         l = [provider |-> ctx[r].provider, subject |-> s,
              client |-> ctx[r].client, user |-> u],
         link' = link \cup {l},
         LinkOf(ctx[r].provider, s, ctx[r].client) \subseteq {l}
  PROVE  IInv'
<1> USE DEF IInv
<1> DEFINE c == ctx[r]
<1>1. /\ c.state \in States /\ c.provider \in Providers
      /\ c.client \in Clients /\ c.uid \in Interactions
  BY DEF InFlight, TypeOK, Context, Idle
<1>2. Carried!(r)
  BY DEF Carried
<1> PICK a \in Login :
       a = [state |-> c.state, provider |-> c.provider, subject |-> s,
            uid |-> c.uid, user |-> u]
  BY <1>1 DEF Login
<1>3. /\ a.state = c.state /\ a.provider = c.provider
      /\ a.subject = s /\ a.uid = c.uid /\ a.user = u
  OBVIOUS
<1>4. \/ UNCHANGED <<accepted, times>>
      \/ /\ accepted' = accepted \cup {a}
         /\ times' = [times EXCEPT ![c.state] = @ + 1]
  BY DEF Accept
<1>5. /\ ctx' \in [Requests -> Context]
      /\ \A q \in Requests : ctx'[q] = IF q = r THEN Idle ELSE ctx[q]
  BY DoneForgets DEF Accept
<1> DEFINE state == c.state
<1> HIDE DEF c
<1>6. \A x \in States : times'[x] = times[x] \/ (x = state /\ times'[x] = 1)
  BY <1>1, <1>2, <1>4 DEF TypeOK, c
<1>7. TypeOK'
  BY <1>3, <1>4, <1>5 DEF TypeOK
<1>8. StateInv'
  BY <1>2, <1>6 DEF StateInv, c
<1>9. Carried'
  <2> SUFFICES ASSUME NEW q \in Requests, InFlight(q)'
               PROVE  Carried!(q)'
    BY DEF Carried
  <2>1. /\ q # r /\ \A x \in Requests : InFlight(x)' => InFlight(x) /\ x # r
        /\ \A x \in Requests : InFlight(x)' => ctx'[x] = ctx[x]
    BY <1>5 DEF InFlight, Idle
  <2>2. Carried!(q) /\ ctx[q].state # state
    BY <2>1, <1>2 DEF Carried, c
  <2>3. ctx[q].state \in States
    BY <2>1 DEF InFlight, TypeOK, Context, Idle
  <2>4. times'[ctx[q].state] = times[ctx[q].state]
    BY <1>6, <2>2, <2>3
  <2> QED
    BY <2>1, <2>2, <2>4
<1>10. LinksInv'
  <2> SUFFICES ASSUME NEW m \in link'
               PROVE  LinksInv!(m)'
    BY DEF LinksInv
  <2>1. CASE m = l
    BY <2>1 DEF LinkOf
  <2>2. CASE m \in link /\ m # l
    <3>1. m.user \in Users /\ LinksInv!(m)
      BY <2>2 DEF LinksInv, TypeOK, Link
    <3>2. l \notin LinkOf(m.provider, m.subject, m.client)'
      BY <2>2 DEF LinkOf
    <3> QED
      BY <3>1, <3>2 DEF LinkOf
  <2> QED
    BY <2>1, <2>2
<1>11. ASSUME NEW b \in accepted
       PROVE  /\ Rests(b)'
              /\ b.provider = a.provider /\ b.subject = a.subject
                   /\ ClientOf[b.uid] = ClientOf[a.uid] => b.user = a.user
  <2>1. Rests(b) /\ b.state \in States /\ b.user \in Users
    BY DEF AcceptedInv, TypeOK, Login
  <2>2. times'[b.state] = 1
    BY <1>6, <2>1 DEF Rests
  <2>3. Rests(b)'
    BY <2>1, <2>2 DEF Rests, LinkOf
  <2>4. ASSUME b.provider = a.provider, b.subject = a.subject,
               ClientOf[b.uid] = ClientOf[a.uid]
        PROVE  b.user = a.user
    <3>1. PICK m \in LinkOf(b.provider, b.subject, ClientOf[b.uid]) :
             m.user = b.user
      BY <1>3, <2>1, <2>4 DEF Rests, c
    <3>2. m = l
      BY <1>2, <1>3, <2>4, <3>1 DEF c
    <3> QED
      BY <1>3, <3>1, <3>2
  <2> QED
    BY <2>3, <2>4
<1>12. CASE UNCHANGED <<accepted, times>>
  <2>1. AcceptedInv' /\ SubjectHasOneAccount'
    BY <1>11, <1>12 DEF AcceptedInv, SubjectHasOneAccount
  <2> QED
    BY <1>7, <1>8, <1>9, <1>10, <2>1
<1>13. CASE /\ accepted' = accepted \cup {a}
            /\ times' = [times EXCEPT ![c.state] = @ + 1]
  <2>1. times'[a.state] = 1
    BY <1>1, <1>2, <1>3, <1>13 DEF TypeOK, c
  <2>2. l \in LinkOf(a.provider, a.subject, ClientOf[a.uid])'
    BY <1>2, <1>3 DEF LinkOf, c
  <2>3. Rests(a)'
    BY <1>2, <1>3, <2>1, <2>2 DEF Rests, c
  <2>4. AcceptedInv'
    BY <1>11, <1>13, <2>3 DEF AcceptedInv
  <2>5. SubjectHasOneAccount'
    BY <1>11, <1>13 DEF SubjectHasOneAccount
  <2> QED
    BY <1>7, <1>8, <1>9, <1>10, <2>4, <2>5
<1> QED
  BY <1>4, <1>12, <1>13

(* The claims of an ID token find the linked account, or the account with  *)
(* the address, or nobody.                                                 *)
LEMMA UpstreamAnswersKeeps ==
  ASSUME IInv, NEW r \in Requests, NEW claims \in Claims,
         UpstreamAnswers(r, claims)
  PROVE  IInv'
<1> DEFINE c == ctx[r]
<1>1. /\ c.op = "upstream" /\ InFlight(r)
      /\ c.state \in States /\ c.provider \in Providers
      /\ c.client \in Clients /\ c.uid \in Interactions
  BY DEF UpstreamAnswers, InFlight, IInv, TypeOK, Context, Idle
<1>2. /\ UNCHANGED <<provider, override, enabled, tx, open, drawn>>
      /\ claims.subject \in Subjects
  BY DEF UpstreamAnswers, Claims
<1>3. CASE Reject(r)
  BY <1>2, <1>3, DoneForgets, NothingAddedKeeps
     DEF Reject, IInv, TypeOK, history
<1>4. ASSUME Available(c.provider, c.client),
             NEW l \in LinkOf(c.provider, claims.subject, c.client),
             Accept(r, claims.subject, l.user), UNCHANGED <<user, link>>
      PROVE  IInv'
  <2>1. /\ l \in link /\ l \in Link /\ l.user \in Users
        /\ l.provider = c.provider /\ l.subject = claims.subject
        /\ l.client = c.client
    BY <1>4 DEF LinkOf, IInv, TypeOK, Link
  <2>2. l = [provider |-> c.provider, subject |-> claims.subject,
             client |-> c.client, user |-> l.user]
    BY <2>1 DEF Link
  <2>3. /\ user[l.user] # None /\ user[l.user].client = c.client
        /\ LinkOf(c.provider, claims.subject, c.client) \subseteq {l}
    BY <2>1 DEF IInv, LinksInv
  <2>4. provider[c.provider] # "deleted"
    BY <1>4 DEF Available
  <2> QED
    BY <1>1, <1>2, <1>4, <2>1, <2>2, <2>3, <2>4, AcceptKeeps
       DEF IInv, TypeOK
<1>5. ASSUME Available(c.provider, c.client),
             LinkOf(c.provider, claims.subject, c.client) = {},
             NEW u \in Holder(claims.email, c.client),
             LinkTo(c, claims.subject, u),
             Accept(r, claims.subject, u), UNCHANGED user
      PROVE  IInv'
  <2> PICK l \in Link : l = [provider |-> c.provider, client |-> c.client,
                             subject |-> claims.subject, user |-> u]
    BY <1>1, <1>2 DEF Link, Holder
  <2>1. /\ u \in Users /\ user[u] # None /\ user[u].client = c.client
        /\ link' = link \cup {l}
    BY <1>5 DEF Holder, LinkTo
  <2>2. provider[c.provider] # "deleted"
    BY <1>5 DEF Available
  <2> QED
    BY <1>1, <1>2, <1>5, <2>1, <2>2, AcceptKeeps DEF IInv, TypeOK
<1>6. ASSUME Verified(claims),
             UNCHANGED <<user, link, accepted, times>>,
             Wait(r, [op |-> "provision", state |-> c.state,
                      provider |-> c.provider, client |-> c.client,
                      uid |-> c.uid, subject |-> claims.subject,
                      email |-> claims.email])
      PROVE  IInv'
  <2> DEFINE d == [op |-> "provision", state |-> c.state,
                   provider |-> c.provider, client |-> c.client,
                   uid |-> c.uid, subject |-> claims.subject,
                   email |-> claims.email]
  <2>1. claims.email \in Emails
    BY <1>6 DEF Claims, Verified
  <2>2. /\ d \in Context /\ d.op = "provision"
        /\ d.state = c.state /\ d.client = c.client /\ d.uid = c.uid
    BY <1>1, <1>2, <2>1 DEF Context
  <2>3. ctx' = [ctx EXCEPT ![r] = d]
    BY <1>6 DEF Wait
  <2> HIDE DEF d
  <2>4. TypeOK'
    BY <1>2, <1>6, <2>2, <2>3 DEF IInv, TypeOK
  <2>5. /\ \A q \in Requests : InFlight(q)' <=> InFlight(q)
        /\ \A q \in Requests : /\ ctx'[q].state = ctx[q].state
                               /\ ctx'[q].client = ctx[q].client
                               /\ ctx'[q].uid = ctx[q].uid
    BY <1>1, <2>2, <2>3 DEF InFlight, IInv, TypeOK
  <2>6. Carried'
    BY <1>2, <1>6, <2>5 DEF Carried, IInv
  <2>7. StateInv' /\ LinksInv' /\ AcceptedInv' /\ SubjectHasOneAccount'
    BY <1>2, <1>6
       DEF IInv, StateInv, LinksInv, AcceptedInv, Rests, LinkOf,
           SubjectHasOneAccount
  <2> QED
    BY <2>4, <2>6, <2>7 DEF IInv
<1> QED
  BY <1>3, <1>4, <1>5, <1>6 DEF UpstreamAnswers

LEMMA ProvisionKeeps ==
  ASSUME IInv, NEW r \in Requests, NEW u \in Users, Provision(r, u)
  PROVE  IInv'
<1> DEFINE c == ctx[r]
           new == [client |-> c.client, email |-> c.email, enabled |-> TRUE]
<1>1. /\ InFlight(r) /\ c.subject \in Subjects /\ c.provider \in Providers
      /\ c.client \in Clients /\ new \in Account /\ new.client = c.client
  BY DEF Provision, InFlight, IInv, TypeOK, Context, Idle, Account
<1>2. /\ user[u] = None /\ user' = [user EXCEPT ![u] = new]
      /\ UNCHANGED <<provider, override, enabled, tx, open, drawn>>
  BY DEF Provision, Insert
<1> HIDE DEF new
<1>3. CASE /\ Linkable(c)
           /\ LinkTo(c, c.subject, u)
           /\ Accept(r, c.subject, u)
  <2> PICK l \in Link : l = [provider |-> c.provider, client |-> c.client,
                             subject |-> c.subject, user |-> u]
    BY <1>1 DEF Link
  <2>1. /\ link' = link \cup {l}
        /\ LinkOf(c.provider, c.subject, c.client) \subseteq {l}
        /\ provider[c.provider] # "deleted"
    BY <1>3 DEF LinkTo, Linkable, Exists
  <2>2. /\ user' \in [Users -> Account \cup {None}]
        /\ user'[u] = new /\ new # None
        /\ \A v \in Users : user[v] # None => user'[v] = user[v]
    BY <1>1, <1>2, NullAssumption DEF IInv, TypeOK
  <2> QED
    BY <1>1, <1>2, <1>3, <2>1, <2>2, AcceptKeeps
<1>4. CASE Done(r) /\ UNCHANGED <<link, accepted, times>>
  BY <1>1, <1>2, <1>4, DoneForgets, AccountSavedKeeps DEF IInv, history
<1> QED
  BY <1>3, <1>4 DEF Provision
-----------------------------------------------------------------------------
LEMMA NextKeeps == IInv /\ [Next]_vars => IInv'
<1> SUFFICES ASSUME IInv, [Next]_vars PROVE IInv'
  OBVIOUS
<1>1. CASE Administer
  <2>1. ASSUME NEW c \in Clients, NEW p \in Providers, NEW on \in BOOLEAN,
               SetClientProvider(c, p, on)
        PROVE  IInv'
    BY <2>1, NothingAddedKeeps DEF SetClientProvider, IInv, TypeOK
  <2>2. ASSUME NEW c \in Clients, UpdateClient(c) PROVE IInv'
    BY <2>2, NothingAddedKeeps DEF UpdateClient, IInv, TypeOK
  <2> QED
    BY <1>1, <2>1, <2>2, SaveProviderKeeps, DeleteProviderKeeps,
       CreateUserKeeps, UpdateUserKeeps
       DEF Administer
<1>2. CASE Callback
  <2>1. ASSUME NEW r \in Requests, UpstreamFails(r) \/ ProvisionFails(r)
        PROVE  IInv'
    BY <2>1, DoneForgets, NothingAddedKeeps
       DEF UpstreamFails, ProvisionFails, IInv, TypeOK
  <2> QED
    BY <1>2, <2>1, CallbackStartKeeps, UpstreamAnswersKeeps, ProvisionKeeps,
       CrashInProvisionKeeps
       DEF Callback
<1>3. ASSUME NEW i \in Interactions, Expire(i) PROVE IInv'
  BY <1>3, NothingAddedKeeps DEF Expire, IInv, TypeOK
<1>4. CASE Restart
  BY <1>4, ForgetForgets, NothingAddedKeeps DEF Restart, IInv, TypeOK
<1> QED
  BY <1>1, <1>2, <1>3, <1>4, AuthorizeKeeps, TickKeeps, UnchangedKeeps
     DEF Next

THEOREM Inductive == Spec => []IInv
<1> QED
  BY InitHolds, NextKeeps, PTL DEF Spec

(* Tables, callbacks and accepted logins keep their shape.                 *)
THEOREM TypeCorrect == Spec => []TypeOK
<1>1. IInv => TypeOK
  BY DEF IInv
<1> QED
  BY <1>1, Inductive, PTL

(* One authorization response is good for one login, however many requests *)
(* carry its state.                                                        *)
THEOREM StatesLogInOnce == Spec => []OneLoginPerState
<1>1. IInv => OneLoginPerState
  BY DEF IInv, StateInv, OneLoginPerState
<1> QED
  BY <1>1, Inductive, PTL

(* A subject of a provider signs in to one account of a client for ever.   *)
THEOREM SubjectsAreNotSplit == Spec => []SubjectHasOneAccount
<1>1. IInv => SubjectHasOneAccount
  BY DEF IInv
<1> QED
  BY <1>1, Inductive, PTL

(* An interaction is answered for an account of its own client.            *)
THEOREM AccountsAreOfClient == Spec => []AccountOfClient
<1>1. IInv => AccountOfClient
  BY DEF IInv, AcceptedInv, Rests, AccountOfClient
<1> QED
  BY <1>1, Inductive, PTL
-----------------------------------------------------------------------------
(* What is known of a login at the step that accepts it: it comes from the *)
(* callback that ends, whose state had logged nobody in.                   *)
LEMMA NewLogin ==
  ASSUME IInv, NEW r \in Requests, NEW s \in Subjects, NEW u \in Users,
         InFlight(r), Accept(r, s, u),
         NEW a \in accepted', times'[a.state] # times[a.state]
  PROVE  /\ a.user = u /\ a.state = ctx[r].state
         /\ a.provider = ctx[r].provider /\ ClientOf[a.uid] = ctx[r].client
<1>1. Carried!(r)
  BY DEF IInv, Carried
<1>2. /\ accepted' = accepted \cup
           {[state |-> ctx[r].state, provider |-> ctx[r].provider,
             subject |-> s, uid |-> ctx[r].uid, user |-> u]}
      /\ times' = [times EXCEPT ![ctx[r].state] = @ + 1]
  BY DEF Accept
<1>3. a \notin accepted
  <2>1. ASSUME a \in accepted PROVE a.state \in States /\ times[a.state] = 1
    BY <2>1 DEF IInv, TypeOK, Login, AcceptedInv, Rests
  <2> QED
    BY <1>1, <1>2, <2>1 DEF IInv, TypeOK
<1> QED
  BY <1>1, <1>2, <1>3

(* Steps other than an acceptance log nobody in.                           *)
LEMMA AcceptingSteps ==
  ASSUME Next, times' # times
  PROVE  \E r \in Requests : \/ \E claims \in Claims : UpstreamAnswers(r, claims)
                             \/ \E u \in Users : Provision(r, u)
<1>1. ~Administer
  BY DEF Administer, SaveProvider, DeleteProvider, SetClientProvider,
         UpdateClient, CreateUser, UpdateUser, history
<1>2. ~(Tick \/ Restart \/ \E i \in Interactions : Expire(i))
  BY DEF Tick, Restart, Expire, history
<1>3. ~\E s \in States, p \in Providers, c \in Clients, i \in Interactions :
          Authorize(s, p, c, i)
  BY DEF Authorize
<1>4. Callback
  BY <1>1, <1>2, <1>3 DEF Next
<1> QED
  BY <1>4 DEF Callback, CallbackStart, UpstreamFails, ProvisionFails,
              CrashInProvision, history

(* The two steps that accept: from the upstream answer, with a provider    *)
(* that is available, or after the hash of a new account's password.       *)
LEMMA AcceptedLogin ==
  ASSUME IInv, Next, NEW a \in accepted', times'[a.state] # times[a.state]
  PROVE  /\ user'[a.user].enabled
         /\ \/ provider[a.provider] = "enabled" /\ ClientOf[a.uid] \in enabled
            \/ \E r \in Requests : ctx[r].op = "provision"
                                  /\ ctx[r].state = a.state
<1> PICK r \in Requests : \/ \E claims \in Claims : UpstreamAnswers(r, claims)
                          \/ \E u \in Users : Provision(r, u)
  BY AcceptingSteps
<1>1. ASSUME NEW claims \in Claims, UpstreamAnswers(r, claims)
      PROVE  /\ user'[a.user].enabled
             /\ provider[a.provider] = "enabled" /\ ClientOf[a.uid] \in enabled
  <2> DEFINE c == ctx[r]
  <2>1. InFlight(r) /\ claims.subject \in Subjects
    BY <1>1 DEF UpstreamAnswers, InFlight, Claims
  <2>2. PICK u \in Users : /\ Accept(r, claims.subject, u)
                           /\ Active(u) /\ UNCHANGED user
                           /\ Available(c.provider, c.client)
    <3>1. \A l \in link : l.user \in Users
      BY DEF IInv, TypeOK, Link
    <3> QED
      BY <1>1, <3>1 DEF UpstreamAnswers, Reject, LinkOf, Holder
  <2>3. /\ a.user = u /\ a.provider = c.provider
        /\ ClientOf[a.uid] = c.client
    BY <2>1, <2>2, NewLogin
  <2> QED
    BY <2>2, <2>3 DEF Active, Available
<1>2. ASSUME NEW u \in Users, Provision(r, u)
      PROVE  user'[a.user].enabled /\ ctx[r].op = "provision"
             /\ ctx[r].state = a.state
  <2>1. /\ InFlight(r) /\ ctx[r].op = "provision"
        /\ ctx[r].subject \in Subjects /\ user'[u].enabled
    BY <1>2 DEF Provision, Insert, InFlight, IInv, TypeOK, Context, Idle
  <2>2. Accept(r, ctx[r].subject, u)
    BY <1>2 DEF Provision
  <2> QED
    BY <2>1, <2>2, NewLogin
<1> QED
  BY <1>1, <1>2

(* A disabled account is not signed in to.                                 *)
THEOREM DisabledAreRefused == Spec => DisabledNotAccepted
<1> DEFINE Refused == \A a \in accepted' : times'[a.state] # times[a.state]
                       => user'[a.user].enabled
<1>1. IInv /\ [Next]_vars => [Refused]_vars
  BY AcceptedLogin
<1> QED
  BY <1>1, Inductive, PTL DEF Spec, DisabledNotAccepted

(* A disabled provider or client completes no login, but for one whose new *)
(* account was already past the check.                                     *)
THEOREM OnlyEnabledComplete == Spec => DisabledProviderCompletesNothing
<1> DEFINE Checked ==
      \A a \in accepted' : times'[a.state] # times[a.state]
        => \/ provider[a.provider] = "enabled" /\ ClientOf[a.uid] \in enabled
           \/ \E r \in Requests : ctx[r].op = "provision"
                                 /\ ctx[r].state = a.state
<1>1. IInv /\ [Next]_vars => [Checked]_vars
  BY AcceptedLogin
<1> QED
  BY <1>1, Inductive, PTL DEF Spec, DisabledProviderCompletesNothing
=============================================================================
