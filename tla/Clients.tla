------------------------------ MODULE Clients -------------------------------
(***************************************************************************)
(* Registered clients: administration, dynamic registration with initial   *)
(* access tokens, what oidc-provider is told of a client, and which        *)
(* authentication the token endpoint takes.                                *)
(*                                                                         *)
(* oidc-provider itself is external: it generates and compares secrets; a  *)
(* registration has its body before its initial access token is looked up, *)
(* and is one step from there to the listener; a registration update waits *)
(* for its body after the client has been found.                           *)
(***************************************************************************)
EXTENDS Naturals

CONSTANTS Clients,      \* public client ids
          Secrets,      \* client secrets, each drawn once
          AppUris,      \* redirect URIs that applications ask for
          Issuers,      \* issuers the process is configured with; each
                        \* stands for its client portal callback as well
          MethodLists,  \* authentication methods a client asks for
          Tokens,       \* initial access tokens
          Requests,     \* registration updates in flight
          None          \* no row, no secret, not given

SecretMethods == {"client_secret_basic", "client_secret_post",
                  "client_secret_jwt"}
Methods == SecretMethods \cup {"none", "private_key_jwt"}
Uris == AppUris \cup Issuers

Client == [secret : Secrets \cup {None}, methods : SUBSET Methods,
           machine : BOOLEAN,  \* grant client_credentials
           jwks : BOOLEAN,     \* a jwksUri is registered
           uris : SUBSET Uris, enabled : BOOLEAN]

ASSUME ClientsAssumption ==
  /\ None \notin Client \cup Secrets \cup Methods
  /\ \A uris \in SUBSET Uris : uris # None
  /\ MethodLists \subseteq SUBSET Methods

VARIABLES
  client,  \* clients: the row, or None
  token,   \* initial access tokens in the oidc table
  issuer,  \* OIDC_ISSUER of the running process
  req      \* registration updates in flight: idle, or what was found

\* History: secrets drawn; the secret the last answer about a client showed;
\* the redirect URIs last asked for; the tokens a client was registered
\* with, those of a second client, and those in use at a crash.
VARIABLES drawn, shown, asked, used, reused, crashed

history == <<used, reused, crashed>>
vars == <<client, token, issuer, req, drawn, shown, asked, history>>

Idle == [op |-> "idle"]
Request == {Idle} \cup [op : {"manage"}, client : Clients,
                        secret : Secrets \cup {None}]

TypeOK ==
  /\ client \in [Clients -> Client \cup {None}]
  /\ token \subseteq Tokens
  /\ issuer \in Issuers
  /\ req \in [Requests -> Request]
  /\ drawn \subseteq Secrets
  /\ shown \in [Clients -> Secrets \cup {None}]
  /\ asked \in [Clients -> SUBSET Uris]
  /\ used \subseteq Tokens /\ reused \subseteq used /\ crashed \subseteq used

Init ==
  /\ client = [c \in Clients |-> None]
  /\ token = {}
  /\ issuer \in Issuers
  /\ req = [r \in Requests |-> Idle]
  /\ drawn = {}
  /\ shown = [c \in Clients |-> None]
  /\ asked = [c \in Clients |-> {}]
  /\ used = {} /\ reused = {} /\ crashed = {}
-----------------------------------------------------------------------------
\* Both services ask for a secret by grant or by method.
RequiresSecret(row) == row.machine \/ row.methods \cap SecretMethods # {}

\* randomBytes: a secret that is new...
Drawn(s) == s \notin drawn \cup {None} /\ drawn' = drawn \cup {s}

\* ... and a client id: one that nothing knows stands for a new one.
Unknown(c) == /\ client[c] = None
              /\ \A r \in Requests : req[r] # Idle => req[r].client # c

\* The row is saved, and the answer shows secret s, or none.
Save(c, row, s) == /\ client' = [client EXCEPT ![c] = row]
                   /\ shown' = [shown EXCEPT ![c] = s]

\* A request about c names redirect URIs.
Asks(c, uris) == asked' = [asked EXCEPT ![c] = uris]

\* resolveRedirectUris: every client is read with the portal's callback.
Resolved(row) == [row EXCEPT !.uris = @ \cup {issuer}]

\* createClient, for a client_id that was drawn; s is the secret that is
\* generated, None if none is.
CreateClient(c, row, s) ==
  /\ Unknown(c) /\ row.secret = None
  /\ Asks(c, row.uris)
  /\ IF RequiresSecret(row)
     THEN Drawn(s) /\ Save(c, [row EXCEPT !.secret = s], s)
     ELSE s = None /\ UNCHANGED drawn /\ Save(c, row, None)
  /\ UNCHANGED <<token, issuer, req, history>>

\* Redirect URIs that are given replace those that were read.
Given(new, old) == IF new = None THEN old ELSE new

\* Faulty merge: redirect URIs are added to those that were read.
AmendedAdding(read, in) ==
  [secret |-> read.secret, methods |-> in.methods, machine |-> in.machine,
   jwks |-> in.jwks,
   uris |-> read.uris \cup Given(in.uris, {}),
   enabled |-> in.enabled]

Amended(read, in) ==
  [secret |-> read.secret, methods |-> in.methods, machine |-> in.machine,
   jwks |-> in.jwks,
   uris |-> Given(in.uris, read.uris),
   enabled |-> in.enabled]

\* Faulty answer: the secret that was generated is not in it.
UpdateClientUnshown(c, in, s) ==
  /\ client[c] # None
  /\ LET row == Amended(Resolved(client[c]), in)
     IN  /\ Asks(c, Given(in.uris, asked[c]))
         /\ IF RequiresSecret(row) /\ row.secret = None
            THEN Drawn(s) /\ Save(c, [row EXCEPT !.secret = s], shown[c])
            ELSE s = None /\ UNCHANGED drawn /\ Save(c, row, shown[c])
  /\ UNCHANGED <<token, issuer, req, history>>

(* updateClient: the client is read with its derived callback, which the   *)
(* save makes permanent when the request names no URIs.  A secret that     *)
(* exists is preserved; one that is missing and required is generated, and *)
(* both controllers answer with it.                                        *)
UpdateClient(c, in, s) ==
  /\ client[c] # None
  /\ LET row == Amended(Resolved(client[c]), in)
     IN  /\ Asks(c, Given(in.uris, asked[c]))
         /\ IF RequiresSecret(row) /\ row.secret = None
            THEN Drawn(s) /\ Save(c, [row EXCEPT !.secret = s], s)
            ELSE s = None /\ UNCHANGED drawn /\ Save(c, row, shown[c])
  /\ UNCHANGED <<token, issuer, req, history>>

\* DELETE of the administration, and of the client's own registration.
DeleteClient(c) ==
  /\ client[c] # None
  /\ client' = [client EXCEPT ![c] = None]
  /\ shown' = [shown EXCEPT ![c] = None]
  /\ asked' = [asked EXCEPT ![c] = {}]
  /\ UNCHANGED <<token, issuer, req, drawn, history>>
-----------------------------------------------------------------------------
\* Faulty upsert: the flag of a row that exists is set as well.
UpsertedEnabling(c, payload) == payload

\* upsert: every column is replaced, enabled only in a new row.
Upserted(c, payload) ==
  [payload EXCEPT !.enabled = client[c] = None \/ client[c].enabled]

\* An initial access token is made; or revoked, or expires.
CreateInitialToken(t) ==
  /\ t \notin token /\ t \notin used
  /\ token' = token \cup {t}
  /\ UNCHANGED <<client, issuer, req, drawn, shown, asked, history>>

RevokeInitialToken(t) ==
  /\ t \in token
  /\ token' = token \ {t}
  /\ UNCHANGED <<client, issuer, req, drawn, shown, asked, history>>

(* POST /reg: oidc-provider accepts the token and the metadata, generates  *)
(* a secret or none, stores the client under a new id, and will answer.    *)
Stored(c, t, payload, answer) ==
  /\ t \in token /\ Unknown(c)
  /\ IF payload.secret = None THEN UNCHANGED drawn ELSE Drawn(payload.secret)
  /\ Save(c, Upserted(c, payload), answer)
  /\ Asks(c, payload.uris)
  /\ used' = used \cup {t}
  /\ reused' = reused \cup (used \cap {t})
  /\ UNCHANGED issuer

\* Faulty listener: nothing destroys the token.
RegisterKeeping(c, t, payload) ==
  Stored(c, t, payload, payload.secret) /\ UNCHANGED <<token, req, crashed>>

\* The listener of registration_create.success destroys the token.
Register(c, t, payload) ==
  /\ Stored(c, t, payload, payload.secret)
  /\ token' = token \ {t}
  /\ UNCHANGED <<req, crashed>>

\* The process dies before the listener has run: there is no answer, and no
\* update in flight survives it.
CrashInRegister(c, t, payload) ==
  /\ Stored(c, t, payload, None)
  /\ crashed' = crashed \cup {t}
  /\ req' = [r \in Requests |-> Idle]
  /\ UNCHANGED token

\* find: a disabled client does not exist for oidc-provider.
Found(c) == client[c] # None /\ client[c].enabled

\* PUT /reg/:client_id: the registration access token names a client...
ManageStart(r, c) ==
  /\ req[r] = Idle /\ Found(c)
  /\ req' = [req EXCEPT ![r] = [op |-> "manage", client |-> c,
                                secret |-> client[c].secret]]
  /\ UNCHANGED <<client, token, issuer, drawn, shown, asked, history>>

(* ... and when the body has come, its metadata is stored, with the secret *)
(* that was found, with a new one, or with none.                           *)
ManageEnd(r, payload) ==
  /\ req[r].op = "manage"
  /\ LET c == req[r].client
         s == payload.secret
     IN  /\ \/ s \in {None, req[r].secret} /\ UNCHANGED drawn
            \/ s # None /\ Drawn(s)
         /\ Save(c, Upserted(c, payload), s)
         /\ Asks(c, payload.uris)
  /\ req' = [req EXCEPT ![r] = Idle]
  /\ UNCHANGED <<token, issuer, history>>

\* The process restarts, perhaps with another OIDC_ISSUER.
Restart(i) ==
  /\ issuer' = i
  /\ req' = [r \in Requests |-> Idle]
  /\ UNCHANGED <<client, token, drawn, shown, asked, history>>
-----------------------------------------------------------------------------
(* What a token request presents: the mechanisms it uses (Authorization    *)
(* header, client_secret, client_assertion), the algorithm of the          *)
(* assertion, and the secret or key it knows.                              *)
Presentation == [with : SUBSET {"basic", "post", "assertion"},
                 alg : {"HS", "asymmetric", "unreadable"},
                 secret : Secrets, ownKey : BOOLEAN]

\* requestedTokenEndpointAuthMethod: the first mechanism decides.
Requested(p) ==
  CASE "basic" \in p.with -> "client_secret_basic"
    [] p.with \cap {"basic", "post"} = {"post"} -> "client_secret_post"
    [] p.with = {"assertion"} /\ p.alg = "HS" -> "client_secret_jwt"
    [] p.with = {"assertion"} /\ p.alg = "asymmetric" -> "private_key_jwt"
    [] p.with = {"assertion"} /\ p.alg = "unreadable" -> None
    [] p.with = {} -> "none"

Preference == <<"client_secret_basic", "client_secret_post",
                "client_secret_jwt">>

\* Without a requested method: "none" if the client may be public, else the
\* first of a fixed order.
Default(row) ==
  CASE "none" \in row.methods -> "none"
    [] "none" \notin row.methods /\ "private_key_jwt" \in row.methods
         /\ row.jwks -> "private_key_jwt"
    [] OTHER ->
         LET have == {i \in 1 .. 3 : Preference[i] \in row.methods}
         IN  IF have = {} THEN "none"
             ELSE Preference[CHOOSE i \in have : \A j \in have : i <= j]

\* Faulty sentinel: a method is answered that the request does offer.
MethodNoSentinel(row, p) ==
  LET m == Requested(p)
  IN  IF m = None THEN Default(row) ELSE m

(* resolveTokenEndpointAuthMethod: the requested method if it is           *)
(* registered, otherwise one that the request does not offer.              *)
Method(row, p) ==
  LET m == Requested(p)
  IN  CASE m = None -> Default(row)
        [] m # None /\ m \in row.methods
             /\ (m = "private_key_jwt" => row.jwks) -> m
        [] OTHER -> IF m = "none" THEN "client_secret_basic" ELSE "none"

\* oidc-provider: the methods a request offers, one mechanism at most.
Offered(p) ==
  CASE p.with = {} -> {"none"}
    [] p.with = {"basic"} -> {"client_secret_basic"}
    [] p.with = {"post"} -> {"client_secret_post"}
    [] p.with = {"assertion"} -> {"client_secret_jwt", "private_key_jwt"}
    [] OTHER -> {}

\* oidc-provider: the credential fits the method of the client.
Credential(row, m, p) ==
  CASE m = "none" -> TRUE
    [] m \in {"client_secret_basic", "client_secret_post"} ->
         p.secret = row.secret
    [] m = "client_secret_jwt" -> p.alg = "HS" /\ p.secret = row.secret
    [] m = "private_key_jwt" -> p.alg = "asymmetric" /\ row.jwks /\ p.ownKey

\* The token endpoint takes the request as one of client c.
Accepted(c, p) ==
  /\ Found(c)
  /\ Method(client[c], p) \in Offered(p)
  /\ Credential(client[c], Method(client[c], p), p)
-----------------------------------------------------------------------------
\* What a client, or an administrator for it, can ask for.
Metadata == [secret : Secrets \cup {None}, methods : MethodLists,
             machine : BOOLEAN, jwks : BOOLEAN,
             uris : (SUBSET AppUris) \ {{}}, enabled : BOOLEAN]
\* Leaving out a field of an update is giving it the value it has, but for
\* the redirect URIs.
Changes == [methods : MethodLists, machine : BOOLEAN, jwks : BOOLEAN,
            uris : ((SUBSET AppUris) \ {{}}) \cup {None}, enabled : BOOLEAN]
Registration == {m \in Metadata : m.enabled}

Administer(c) ==
  \/ \E row \in Metadata, s \in Secrets \cup {None} : CreateClient(c, row, s)
  \/ \E in \in Changes, s \in Secrets \cup {None} : UpdateClient(c, in, s)
  \/ DeleteClient(c)

Registering(c) ==
  \E t \in Tokens, payload \in Registration :
    Register(c, t, payload) \/ CrashInRegister(c, t, payload)

Manage(r) == \/ \E c \in Clients : ManageStart(r, c)
             \/ \E payload \in Registration : ManageEnd(r, payload)

Next == \/ \E c \in Clients : Administer(c) \/ Registering(c)
        \/ \E t \in Tokens : CreateInitialToken(t) \/ RevokeInitialToken(t)
        \/ \E r \in Requests : Manage(r)
        \/ \E i \in Issuers : Restart(i)

Spec == Init /\ [][Next]_vars
-----------------------------------------------------------------------------
(* What a client that uses exactly one mechanism is entitled to, said      *)
(* without the detour through a single method.                             *)
Entitled(row, p) ==
  /\ row.enabled
  /\ \/ p.with = {} /\ "none" \in row.methods
     \/ /\ p.with = {"basic"} /\ "client_secret_basic" \in row.methods
        /\ p.secret = row.secret
     \/ /\ p.with = {"post"} /\ "client_secret_post" \in row.methods
        /\ p.secret = row.secret
     \/ /\ p.with = {"assertion"} /\ p.alg = "HS"
        /\ "client_secret_jwt" \in row.methods /\ p.secret = row.secret
     \/ /\ p.with = {"assertion"} /\ p.alg = "asymmetric" /\ p.ownKey
        /\ "private_key_jwt" \in row.methods /\ row.jwks

(* "Authentication Method Must Match Registration": of every client the    *)
(* token endpoint takes exactly the methods it is registered with, of an   *)
(* enabled client only, although oidc-provider is given a single method.   *)
MethodMatchesRegistration ==
  \A c \in Clients : client[c] # None =>
    \A p \in Presentation : Accepted(c, p) <=> Entitled(client[c], p)

(* A stored secret changes only by the client's own registration update,   *)
(* or where there was none; and the answer that goes with the change shows *)
(* what is stored now.                                                     *)
SecretsHandedOver ==
  [][\A c \in Clients :
       client[c] # None /\ client'[c] # None
         /\ client'[c].secret # client[c].secret
       => /\ shown'[c] = client'[c].secret
          /\ \/ client[c].secret = None
             \/ \E r \in Requests : req[r].op = "manage" /\ req[r].client = c
                                   /\ req'[r] = Idle]_vars

(* A redirect URI that is no longer asked for is no longer registered;     *)
(* what is registered beyond is the portal's callback, of an issuer.       *)
WithdrawnUriGone ==
  \A c \in Clients : client[c] # None =>
    client[c].uris \ Issuers = asked[c] \ Issuers

(* Only the administration enables a disabled client: not a registration   *)
(* update that found it before it was disabled.                            *)
DisabledStaysDisabled ==
  [][\A c \in Clients :
       client[c] # None /\ client'[c] # None
         /\ ~client[c].enabled /\ client'[c].enabled
       => req' = req]_vars

(* An initial access token registers one client, unless the process died   *)
(* between the registration and the deletion of the token.                 *)
InitialTokenUsedOnce == reused \subseteq crashed
=============================================================================
