---------------------------- MODULE Federation ----------------------------
(***************************************************************************)
(* Sign-in through an upstream OIDC provider: FederationController's       *)
(* authorize and callback, FederationService's transactions, provider      *)
(* availability and identity links, and the accounts they create.          *)
(*                                                                         *)
(* A callback leaves its turn of the event loop twice: while the upstream  *)
(* provider answers (discovery, code exchange, key set), and, when the     *)
(* account is new, while argon2 hashes its random password.  What happens  *)
(* to an accepted login next (MFA, the interaction's result) is MfaLogin's.*)
(***************************************************************************)
EXTENDS Naturals, FiniteSets

CONSTANTS Providers,     \* federation providers
          Clients,       \* clients of TSCloak
          Interactions,  \* uids of login interactions
          ClientOf,      \* the client of an interaction (params.client_id)
          States,        \* values of state generateState can return, once each
          Subjects,      \* sub claims of the upstream providers
          Emails,        \* email addresses
          Users,         \* User.id of accounts that can come to exist
          Requests,      \* callbacks that can be in flight at the same time
          None,          \* SQL NULL, and "no such value"
          StateTTL       \* lifetime of a transaction, in units of time

ASSUME FederationAssumption ==
  /\ ClientOf \in [Interactions -> Clients]
  /\ StateTTL \in Nat
  /\ None \notin Emails

VARIABLES
  provider,  \* federation_providers: enabled or not, "new" or "deleted"
  override,  \* client_federation_providers: enabled, or None without a row
  enabled,   \* the clients that are enabled
  user,      \* users: client, email, enabled, or None
  link,      \* federated_identities
  tx,        \* federation_transactions: the row of a state, or None
  open,      \* interactions that have not expired
  ctx        \* the callbacks in flight

(* History: the states drawn, and the logins a callback accepted. *)
VARIABLES drawn, accepted, times

history == <<drawn, accepted, times>>
vars == <<provider, override, enabled, user, link, tx, open, ctx, history>>

Account == [client : Clients, email : Emails, enabled : BOOLEAN]
Link == [provider : Providers, subject : Subjects, client : Clients,
         user : Users]
Transaction == [provider : Providers, client : Clients, uid : Interactions,
                left : 0..StateTTL]
\* NULL is no row.
ASSUME NullAssumption == None \notin Account \cup Transaction

Claims == [subject : Subjects, email : Emails \cup {None}, verified : BOOLEAN]
Idle == [op |-> "idle"]
Context ==
  {Idle}
  \cup [op : {"upstream"}, state : States, provider : Providers,
        client : Clients, uid : Interactions]
  \cup [op : {"provision"}, state : States, provider : Providers,
        client : Clients, uid : Interactions, subject : Subjects,
        email : Emails]
Login == [state : States, provider : Providers, subject : Subjects,
          uid : Interactions, user : Users]

TypeOK ==
  /\ provider \in [Providers -> {"new", "enabled", "disabled", "deleted"}]
  /\ override \in [Clients \X Providers -> BOOLEAN \cup {None}]
  /\ enabled \subseteq Clients
  /\ user \in [Users -> Account \cup {None}]
  /\ link \subseteq Link
  /\ tx \in [States -> Transaction \cup {None}]
  /\ open \subseteq Interactions
  /\ ctx \in [Requests -> Context]
  /\ drawn \subseteq States
  /\ accepted \subseteq Login
  /\ times \in [States -> Nat]

Init ==
  /\ provider = [p \in Providers |-> "new"]
  /\ override = [k \in Clients \X Providers |-> None]
  /\ enabled = Clients
  /\ user = [u \in Users |-> None]
  /\ link = {}
  /\ tx = [s \in States |-> None]
  /\ open = Interactions
  /\ ctx = [r \in Requests |-> Idle]
  /\ drawn = {}
  /\ accepted = {}
  /\ times = [s \in States |-> 0]

Wait(r, c) == ctx' = [ctx EXCEPT ![r] = c]
Done(r) == Wait(r, Idle)

\* Faulty check: an override of the client is all that is looked at.
AvailableByOverride(p, c) == c \in enabled /\ override[c, p] # FALSE

\* isProviderEnabledForClient: without an override the client follows the
\* provider; an override can only switch it off.
Available(p, c) == /\ c \in enabled
                   /\ provider[p] = "enabled"
                   /\ override[c, p] # FALSE

\* UNIQUE (email, clientId), and findByEmailForFederation.
Holder(e, c) ==
  {u \in Users : user[u] # None /\ user[u].email = e /\ user[u].client = c}

\* UNIQUE (providerId, subject, clientId), and findFederatedIdentity.
LinkOf(p, s, c) ==
  {l \in link : l.provider = p /\ l.subject = s /\ l.client = c}
-----------------------------------------------------------------------------
Exists(p) == provider[p] \in {"enabled", "disabled"}

\* POST and PUT /federation/providers; an id is never used again.
SaveProvider(p, state) ==
  /\ provider[p] # "deleted"
  /\ provider' = [provider EXCEPT ![p] = state]
  /\ UNCHANGED <<override, enabled, user, link, tx, open, ctx, history>>

\* DELETE /federation/providers/:id; the foreign keys cascade.
DeleteProvider(p) ==
  /\ Exists(p)
  /\ provider' = [provider EXCEPT ![p] = "deleted"]
  /\ override' = [k \in Clients \X Providers |->
                    IF k[2] = p THEN None ELSE override[k]]
  /\ link' = {l \in link : l.provider # p}
  /\ tx' = [s \in States |-> IF tx[s] # None /\ tx[s].provider = p
                             THEN None ELSE tx[s]]
  /\ UNCHANGED <<enabled, user, open, ctx, history>>

(* setClientProviderEnabled: a client may refuse any provider, and may     *)
(* accept one that is enabled globally.                                    *)
SetClientProvider(c, p, on) ==
  /\ c \in enabled
  /\ Exists(p)
  /\ on => provider[p] = "enabled"
  /\ override' = [override EXCEPT ![<<c, p>>] = on]
  /\ UNCHANGED <<provider, enabled, user, link, tx, open, ctx, history>>

UpdateClient(c) ==
  /\ enabled' = IF c \in enabled THEN enabled \ {c} ELSE enabled \cup {c}
  /\ UNCHANGED <<provider, override, user, link, tx, open, ctx, history>>

\* createUserWithRoles, for a request that is not a sign-in.
CreateUser(u, c, e) ==
  /\ user[u] = None
  /\ c \in enabled
  /\ Holder(e, c) = {}
  /\ user' = [user EXCEPT ![u] = [client |-> c, email |-> e, enabled |-> TRUE]]
  /\ UNCHANGED <<provider, override, enabled, link, tx, open, ctx, history>>

\* updateUser, with a new address that nobody of the client has, or disabling.
UpdateUser(u, e, on) ==
  /\ user[u] # None
  /\ user[u].client \in enabled
  /\ Holder(e, user[u].client) \subseteq {u}
  /\ user' = [user EXCEPT ![u] = [client |-> user[u].client, email |-> e,
                                  enabled |-> on]]
  /\ UNCHANGED <<provider, override, enabled, link, tx, open, ctx, history>>

(* GET /federation/providers/:id/authorize stores the transaction before   *)
(* it asks the upstream provider for its endpoints; uid and client are     *)
(* what the query says.                                                    *)
Authorize(s, p, c, i) ==
  /\ s \notin drawn
  /\ Available(p, c)
  /\ tx' = [tx EXCEPT ![s] = [provider |-> p, client |-> c, uid |-> i,
                              left |-> StateTTL]]
  /\ drawn' = drawn \cup {s}
  /\ UNCHANGED <<provider, override, enabled, user, link, open, ctx, accepted,
                 times>>
-----------------------------------------------------------------------------
\* Faulty check: the interaction may be another client's.
BoundLoosely(t) == t.uid \in open

\* The interaction of a transaction is there and belongs to its client.
Bound(t) == t.uid \in open /\ ClientOf[t.uid] = t.client

\* Faulty consumeTransaction: the row is kept until the callback has ended.
CallbackStartKeeping(r, s) ==
  /\ ctx[r] = Idle
  /\ tx[s] # None
  /\ tx[s].left > 0 /\ Bound(tx[s])
  /\ Wait(r, [op |-> "upstream", state |-> s, provider |-> tx[s].provider,
              client |-> tx[s].client, uid |-> tx[s].uid])
  /\ UNCHANGED <<provider, override, enabled, user, link, tx, open, history>>

(* GET /federation/callback: consumeTransaction deletes the row whatever   *)
(* comes of it; a live one whose interaction is bound goes upstream.       *)
CallbackStart(r, s) ==
  /\ ctx[r] = Idle
  /\ tx[s] # None
  /\ tx' = [tx EXCEPT ![s] = None]
  /\ IF tx[s].left > 0 /\ Bound(tx[s])
     THEN Wait(r, [op |-> "upstream", state |-> s,
                   provider |-> tx[s].provider, client |-> tx[s].client,
                   uid |-> tx[s].uid])
     ELSE UNCHANGED ctx
  /\ UNCHANGED <<provider, override, enabled, user, link, open, history>>

\* The upstream provider does not answer, or its ID token does not verify.
UpstreamFails(r) ==
  /\ ctx[r].op = "upstream"
  /\ Done(r)
  /\ UNCHANGED <<provider, override, enabled, user, link, tx, open, history>>

\* The callback has found its user, and ends.
Accept(r, s, u) ==
  LET c == ctx[r] IN
  /\ IF c.uid \in open
     THEN /\ accepted' = accepted \cup
               {[state |-> c.state, provider |-> c.provider, subject |-> s,
                 uid |-> c.uid, user |-> u]}
          /\ times' = [times EXCEPT ![c.state] = @ + 1]
     ELSE UNCHANGED <<accepted, times>>
  /\ Done(r)

\* Errors of findOrCreateFederatedIdentity.
Reject(r) == Done(r) /\ UNCHANGED <<user, link, accepted, times>>

\* Faulty check of the claims: an address may be missing.
VerifiedOnly(claims) == claims.verified

\* The claims name a verified address.
Verified(claims) == claims.email # None /\ claims.verified

\* Faulty check of the account: none.
ActiveAlways(u) == TRUE

\* The account found is enabled.
Active(u) == user[u].enabled

LinkTo(c, s, u) ==
  link' = link \cup {[provider |-> c.provider, subject |-> s,
                      client |-> c.client, user |-> u]}

(* findOrCreateFederatedIdentity on verified claims: the linked account,   *)
(* else the account with the verified address, else a new account, whose   *)
(* password is hashed first.                                               *)
UpstreamAnswers(r, claims) ==
  /\ ctx[r].op = "upstream"
  /\ LET c == ctx[r]
         links == LinkOf(c.provider, claims.subject, c.client)
         holders == Holder(claims.email, c.client)
     IN \/ ~Available(c.provider, c.client) /\ Reject(r)
        \/ /\ Available(c.provider, c.client)
           /\ \/ \E l \in links :
                   \/ /\ Active(l.user)
                      /\ Accept(r, claims.subject, l.user)
                      /\ UNCHANGED <<user, link>>
                   \/ ~Active(l.user) /\ Reject(r)
              \/ links = {} /\ ~Verified(claims) /\ Reject(r)
              \/ /\ links = {} /\ Verified(claims)
                 /\ \E u \in holders :
                      \/ /\ Active(u)
                         /\ LinkTo(c, claims.subject, u)
                         /\ Accept(r, claims.subject, u)
                         /\ UNCHANGED user
                      \/ ~Active(u) /\ Reject(r)
              \/ /\ links = {} /\ Verified(claims) /\ holders = {}
                 /\ Wait(r, [op |-> "provision", state |-> c.state,
                             provider |-> c.provider, client |-> c.client,
                             uid |-> c.uid, subject |-> claims.subject,
                             email |-> claims.email])
                 /\ UNCHANGED <<user, link, accepted, times>>
  /\ UNCHANGED <<provider, override, enabled, tx, open, drawn>>

\* createUserWithRoles inserts the row, which fails if the address is taken.
Insert(c, u) ==
  /\ user[u] = None
  /\ Holder(c.email, c.client) = {}
  /\ user' = [user EXCEPT ![u] = [client |-> c.client, email |-> c.email,
                                  enabled |-> TRUE]]

\* Faulty table: the pair of provider and subject is not unique.
LinkableTwice(c) == Exists(c.provider)

\* The identity can be inserted: its provider exists, the pair is free.
Linkable(c) == /\ Exists(c.provider)
               /\ LinkOf(c.provider, c.subject, c.client) = {}

(* The new account's password is hashed: the account is inserted, then its *)
(* link; an error in the second leaves the first.                          *)
Provision(r, u) ==
  /\ ctx[r].op = "provision"
  /\ Insert(ctx[r], u)
  /\ \/ /\ Linkable(ctx[r])
        /\ LinkTo(ctx[r], ctx[r].subject, u)
        /\ Accept(r, ctx[r].subject, u)
     \/ /\ ~Linkable(ctx[r])
        /\ Done(r)
        /\ UNCHANGED <<link, accepted, times>>
  /\ UNCHANGED <<provider, override, enabled, tx, open, drawn>>

ProvisionFails(r) ==
  /\ ctx[r].op = "provision"
  /\ Holder(ctx[r].email, ctx[r].client) # {}
  /\ Done(r)
  /\ UNCHANGED <<provider, override, enabled, user, link, tx, open, history>>
-----------------------------------------------------------------------------
\* Ten minutes pass unit by unit; only whether a transaction has expired counts.
Tick == /\ tx' = [s \in States |-> IF tx[s] # None /\ tx[s].left > 0
                                   THEN [tx[s] EXCEPT !.left = @ - 1]
                                   ELSE tx[s]]
        /\ UNCHANGED <<provider, override, enabled, user, link, open, ctx,
                       history>>

Expire(i) == /\ open' = open \ {i}
             /\ UNCHANGED <<provider, override, enabled, user, link, tx, ctx,
                            history>>

Forget == ctx' = [r \in Requests |-> Idle]

\* The process restarts: the callbacks in flight are lost.
Restart == /\ Forget
           /\ UNCHANGED <<provider, override, enabled, user, link, tx, open,
                          history>>

\* It dies after the new account was inserted and before its link was.
CrashInProvision(r, u) ==
  /\ ctx[r].op = "provision"
  /\ Insert(ctx[r], u)
  /\ Forget
  /\ UNCHANGED <<provider, override, enabled, link, tx, open, history>>

Administer ==
  \/ \E p \in Providers : \/ SaveProvider(p, "enabled")
                          \/ SaveProvider(p, "disabled")
                          \/ DeleteProvider(p)
                          \/ \E c \in Clients, on \in BOOLEAN :
                               SetClientProvider(c, p, on)
  \/ \E c \in Clients : UpdateClient(c)
  \/ \E u \in Users, e \in Emails : \/ \E c \in Clients : CreateUser(u, c, e)
                                   \/ \E on \in BOOLEAN : UpdateUser(u, e, on)

Callback ==
  \E r \in Requests : \/ \E s \in States : CallbackStart(r, s)
                      \/ UpstreamFails(r)
                      \/ \E claims \in Claims : UpstreamAnswers(r, claims)
                      \/ \E u \in Users : Provision(r, u)
                      \/ ProvisionFails(r)
                      \/ \E u \in Users : CrashInProvision(r, u)

Next == \/ Administer
        \/ \E s \in States, p \in Providers, c \in Clients, i \in Interactions :
             Authorize(s, p, c, i)
        \/ Callback
        \/ Tick
        \/ \E i \in Interactions : Expire(i)
        \/ Restart

Spec == Init /\ [][Next]_vars
-----------------------------------------------------------------------------
(* One authorization response is good for one login, however many requests *)
(* carry its state at the same time: the transaction is deleted in the     *)
(* turn that reads it, before the upstream provider is asked anything.     *)
OneLoginPerState == \A s \in States : times[s] <= 1

(* A subject of a provider signs in to one account of a client for ever:   *)
(* two first sign-ins that overlap, a crash between account and link, or a *)
(* change of either address never split it over two accounts.              *)
SubjectHasOneAccount ==
  \A a, b \in accepted :
    /\ a.provider = b.provider
    /\ a.subject = b.subject
    /\ ClientOf[a.uid] = ClientOf[b.uid]
    => a.user = b.user

(* An interaction is answered for an account of its own client only,       *)
(* although the query of authorize names any client with any interaction.  *)
AccountOfClient ==
  \A a \in accepted : user[a.user].client = ClientOf[a.uid]

(* A disabled account is not signed in to ("disabled users must not        *)
(* authenticate"), whatever happened to it while upstream was answering.   *)
DisabledNotAccepted ==
  [][\A a \in accepted' : times'[a.state] # times[a.state]
       => user'[a.user].enabled]_vars

(* The check at callback time is there "so a disabled provider cannot      *)
(* complete an in-flight login": only a sign-in that was past it, hashing  *)
(* the password of its new account, completes with a provider or client    *)
(* that is disabled.                                                       *)
DisabledProviderCompletesNothing ==
  [][\A a \in accepted' : times'[a.state] # times[a.state]
       => \/ provider[a.provider] = "enabled" /\ ClientOf[a.uid] \in enabled
          \/ \E r \in Requests : ctx[r].op = "provision"
                                /\ ctx[r].state = a.state]_vars
=============================================================================
