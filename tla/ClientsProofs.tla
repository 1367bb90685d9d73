---------------------------- MODULE ClientsProofs ----------------------------
(***************************************************************************)
(* Theorems about Clients: what the tables hold, the redirect URIs and     *)
(* secrets of a client, initial access tokens, and the authentication that *)
(* the token endpoint takes.                                               *)
(***************************************************************************)
EXTENDS Clients, TLAPS

LEMMA GivenIsOf ==
  ASSUME NEW S, NEW old \in S, NEW new \in S \cup {None}
  PROVE  Given(new, old) \in S
  BY DEF Given

LEMMA AmendedIsClient ==
  ASSUME NEW read \in Client, NEW in \in Changes
  PROVE  /\ Amended(read, in) \in Client
         /\ Amended(read, in).secret = read.secret
         /\ Amended(read, in).uris = Given(in.uris, read.uris)
<1>1. /\ in.methods \in SUBSET Methods
      /\ in.machine \in BOOLEAN /\ in.jwks \in BOOLEAN /\ in.enabled \in BOOLEAN
  BY ClientsAssumption DEF Changes
<1>2. Given(in.uris, read.uris) \in SUBSET Uris
  BY GivenIsOf DEF Client, Changes, Uris
<1> QED
  BY <1>1, <1>2 DEF Amended, Client

LEMMA ResolvedIsClient ==
  ASSUME NEW row \in Client, issuer \in Issuers
  PROVE  /\ Resolved(row) \in Client
         /\ Resolved(row).uris = row.uris \cup {issuer}
  BY DEF Resolved, Client, Uris

LEMMA UpsertedIsClient ==
  ASSUME NEW c, NEW payload \in Registration, client[c] \in Client \cup {None}
  PROVE  /\ Upserted(c, payload) \in Client
         /\ Upserted(c, payload).uris = payload.uris
  BY ClientsAssumption DEF Upserted, Client, Registration, Metadata, Uris

LEMMA PayloadIsClient ==
  ASSUME NEW payload \in Registration
  PROVE  payload \in Client /\ payload.uris \in SUBSET Uris
         /\ payload.secret \in Secrets \cup {None}
  BY ClientsAssumption DEF Client, Registration, Metadata, Uris
-----------------------------------------------------------------------------
\* A registered row is what was asked for, but for portal callbacks.
UrisOf(row, uris) == row.uris \ Issuers = uris \ Issuers

\* A token that was used is gone, unless the process died.
TokensInv == reused \subseteq crashed /\ token \cap used \subseteq crashed

IInv == TypeOK /\ WithdrawnUriGone /\ TokensInv

LEMMA InitHolds == Init => IInv
  BY ClientsAssumption
     DEF Init, IInv, TypeOK, WithdrawnUriGone, TokensInv, Idle, Request

(* Every save of a row: create, update, registration and its update.       *)
LEMMA SaveKeeps ==
  ASSUME TypeOK, WithdrawnUriGone, NEW c \in Clients, NEW row \in Client,
         NEW s \in Secrets \cup {None}, NEW uris \in SUBSET Uris,
         UrisOf(row, uris), Save(c, row, s), Asks(c, uris)
  PROVE  /\ client' \in [Clients -> Client \cup {None}]
         /\ shown' \in [Clients -> Secrets \cup {None}]
         /\ asked' \in [Clients -> SUBSET Uris]
         /\ WithdrawnUriGone'
<1>1. /\ client' \in [Clients -> Client \cup {None}]
      /\ shown' \in [Clients -> Secrets \cup {None}]
      /\ asked' \in [Clients -> SUBSET Uris]
  BY DEF Save, Asks, TypeOK
<1>2. WithdrawnUriGone'
  BY DEF Save, Asks, TypeOK, WithdrawnUriGone, UrisOf
<1> QED
  BY <1>1, <1>2

LEMMA DrawnKeeps ==
  ASSUME TypeOK, NEW s \in Secrets \cup {None}, Drawn(s) \/ UNCHANGED drawn
  PROVE  drawn' \subseteq Secrets
  BY DEF Drawn, TypeOK

LEMMA CreateClientKeeps ==
  ASSUME IInv, NEW c \in Clients, NEW row \in Metadata,
         NEW s \in Secrets \cup {None}, CreateClient(c, row, s)
  PROVE  IInv'
<1> USE DEF IInv
<1> DEFINE saved == IF RequiresSecret(row) THEN [row EXCEPT !.secret = s] ELSE row
           told == IF RequiresSecret(row) THEN s ELSE None
<1>1. saved \in Client /\ row.uris \in SUBSET Uris /\ saved.uris = row.uris
  BY ClientsAssumption DEF Client, Metadata, Uris
<1>2. Save(c, saved, told) /\ Asks(c, row.uris)
  BY DEF CreateClient
<1>3. drawn' \subseteq Secrets
  BY DrawnKeeps DEF CreateClient
<1>4. UrisOf(saved, row.uris) /\ told \in Secrets \cup {None}
  BY <1>1 DEF UrisOf
<1> HIDE DEF saved, told
<1>5. TypeOK' /\ WithdrawnUriGone'
  BY <1>1, <1>2, <1>3, <1>4, SaveKeeps DEF CreateClient, TypeOK, history
<1>6. TokensInv'
  BY DEF CreateClient, TokensInv, history
<1> QED
  BY <1>5, <1>6

LEMMA UpdateClientKeeps ==
  ASSUME IInv, NEW c \in Clients, NEW in \in Changes,
         NEW s \in Secrets \cup {None}, UpdateClient(c, in, s)
  PROVE  IInv'
<1> USE DEF IInv
<1> DEFINE row == Amended(Resolved(client[c]), in)
           fresh == RequiresSecret(row) /\ row.secret = None
           saved == IF fresh THEN [row EXCEPT !.secret = s] ELSE row
           told == IF fresh THEN s ELSE shown[c]
           uris == Given(in.uris, asked[c])
<1>1. client[c] \in Client /\ issuer \in Issuers /\ client[c].uris \in SUBSET Uris
  BY DEF UpdateClient, TypeOK, Client
<1>2. /\ row \in Client
      /\ row.uris = Given(in.uris, client[c].uris \cup {issuer})
  BY <1>1, ResolvedIsClient, AmendedIsClient
<1> HIDE DEF row
<1>3. saved \in Client /\ saved.uris = row.uris
  BY <1>2 DEF Client
<1>4. told \in Secrets \cup {None}
  BY DEF TypeOK
<1>5. uris \in SUBSET Uris
  BY DEF TypeOK, Changes, Given, Uris
<1>6. UrisOf(saved, uris)
  <2>1. client[c].uris \ Issuers = asked[c] \ Issuers
    BY DEF WithdrawnUriGone, UpdateClient
  <2> QED
    BY <1>1, <1>2, <1>3, <2>1 DEF UrisOf, Given
<1>7. Save(c, saved, told) /\ Asks(c, uris)
  BY DEF UpdateClient, row
<1>8. drawn' \subseteq Secrets
  BY DrawnKeeps DEF UpdateClient, row
<1> HIDE DEF saved, told, uris
<1>9. TypeOK' /\ WithdrawnUriGone'
  BY <1>3, <1>4, <1>5, <1>6, <1>7, <1>8, SaveKeeps
     DEF UpdateClient, TypeOK, history
<1>10. TokensInv'
  BY DEF UpdateClient, TokensInv, history
<1> QED
  BY <1>9, <1>10

LEMMA DeleteClientKeeps ==
  ASSUME IInv, NEW c \in Clients, DeleteClient(c)
  PROVE  IInv'
<1> USE DEF IInv, DeleteClient
<1>1. TypeOK'
  BY DEF TypeOK, history
<1>2. WithdrawnUriGone'
  BY DEF TypeOK, WithdrawnUriGone
<1>3. TokensInv'
  BY DEF TokensInv, history
<1> QED
  BY <1>1, <1>2, <1>3

LEMMA InitialTokenKeeps ==
  ASSUME IInv, NEW t \in Tokens,
         CreateInitialToken(t) \/ RevokeInitialToken(t)
  PROVE  IInv'
<1> USE DEF IInv, CreateInitialToken, RevokeInitialToken
<1>1. TypeOK'
  BY DEF TypeOK, history
<1>2. WithdrawnUriGone'
  BY DEF WithdrawnUriGone
<1>3. TokensInv'
  BY DEF TokensInv, history
<1> QED
  BY <1>1, <1>2, <1>3

(* The upsert of a registration, or of its update.                         *)
LEMMA UpsertKeeps ==
  ASSUME IInv, NEW c \in Clients, NEW payload \in Registration,
         NEW answer \in Secrets \cup {None},
         Save(c, Upserted(c, payload), answer), Asks(c, payload.uris)
  PROVE  /\ client' \in [Clients -> Client \cup {None}]
         /\ shown' \in [Clients -> Secrets \cup {None}]
         /\ asked' \in [Clients -> SUBSET Uris]
         /\ WithdrawnUriGone'
<1>1. TypeOK /\ WithdrawnUriGone /\ client[c] \in Client \cup {None}
  BY DEF IInv, TypeOK
<1>2. UrisOf(Upserted(c, payload), payload.uris)
  BY <1>1, UpsertedIsClient DEF UrisOf
<1> QED
  BY <1>1, <1>2, UpsertedIsClient, PayloadIsClient, SaveKeeps

LEMMA RegisteringKeeps ==
  ASSUME IInv, NEW c \in Clients, NEW t \in Tokens,
         NEW payload \in Registration,
         Register(c, t, payload) \/ CrashInRegister(c, t, payload)
  PROVE  IInv'
<1>1. PICK answer \in Secrets \cup {None} : Stored(c, t, payload, answer)
  BY PayloadIsClient DEF Register, CrashInRegister
<1>2. /\ client' \in [Clients -> Client \cup {None}]
      /\ shown' \in [Clients -> Secrets \cup {None}]
      /\ asked' \in [Clients -> SUBSET Uris]
      /\ WithdrawnUriGone'
  BY <1>1, UpsertKeeps DEF Stored
<1>3. drawn' \subseteq Secrets
  BY <1>1, PayloadIsClient, DrawnKeeps DEF Stored, IInv, TypeOK
<1>4. TypeOK'
  <2>1. req' \in [Requests -> Request]
    BY DEF Register, CrashInRegister, IInv, TypeOK, Request
  <2> QED
    BY <1>1, <1>2, <1>3, <2>1 DEF Register, CrashInRegister, Stored, IInv,
                                  TypeOK
<1>5. TokensInv'
  BY <1>1 DEF Register, CrashInRegister, Stored, IInv, TokensInv
<1> QED
  BY <1>2, <1>4, <1>5 DEF IInv

LEMMA ManageStartKeeps ==
  ASSUME IInv, NEW r \in Requests, NEW c \in Clients, ManageStart(r, c)
  PROVE  IInv'
<1> USE DEF IInv, ManageStart
<1>1. client[c].secret \in Secrets \cup {None}
  BY DEF Found, TypeOK, Client
<1>2. TypeOK'
  BY <1>1 DEF TypeOK, Request, history
<1>3. WithdrawnUriGone' /\ TokensInv'
  BY DEF WithdrawnUriGone, TokensInv, history
<1> QED
  BY <1>2, <1>3

LEMMA ManageEndKeeps ==
  ASSUME IInv, NEW r \in Requests, NEW payload \in Registration,
         ManageEnd(r, payload)
  PROVE  IInv'
<1> DEFINE c == req[r].client
<1>1. c \in Clients
  BY DEF ManageEnd, IInv, TypeOK, Request, Idle
<1>2. Save(c, Upserted(c, payload), payload.secret) /\ Asks(c, payload.uris)
  BY DEF ManageEnd
<1>3. /\ client' \in [Clients -> Client \cup {None}]
      /\ shown' \in [Clients -> Secrets \cup {None}]
      /\ asked' \in [Clients -> SUBSET Uris]
      /\ WithdrawnUriGone'
  BY <1>1, <1>2, UpsertKeeps, PayloadIsClient
<1>4. drawn' \subseteq Secrets
  BY PayloadIsClient, DrawnKeeps DEF ManageEnd, IInv, TypeOK
<1>5. req' \in [Requests -> Request]
  BY DEF ManageEnd, IInv, TypeOK, Request
<1>6. TypeOK'
  BY <1>3, <1>4, <1>5 DEF ManageEnd, IInv, TypeOK, history
<1>7. TokensInv'
  BY DEF ManageEnd, IInv, TokensInv, history
<1> QED
  BY <1>3, <1>6, <1>7 DEF IInv

LEMMA RestartKeeps ==
  ASSUME IInv, NEW i \in Issuers, Restart(i)
  PROVE  IInv'
<1> USE DEF IInv, Restart
<1>1. TypeOK'
  BY DEF TypeOK, Request, history
<1>2. WithdrawnUriGone' /\ TokensInv'
  BY DEF WithdrawnUriGone, TokensInv, history
<1> QED
  BY <1>1, <1>2

LEMMA NextKeeps == IInv /\ [Next]_vars => IInv'
<1> SUFFICES ASSUME IInv, [Next]_vars PROVE IInv'
  OBVIOUS
<1>1. ASSUME NEW c \in Clients, Administer(c) PROVE IInv'
  BY <1>1, CreateClientKeeps, UpdateClientKeeps, DeleteClientKeeps
     DEF Administer
<1>2. ASSUME NEW c \in Clients, Registering(c) PROVE IInv'
  BY <1>2, RegisteringKeeps DEF Registering
<1>3. ASSUME NEW r \in Requests, Manage(r) PROVE IInv'
  BY <1>3, ManageStartKeeps, ManageEndKeeps DEF Manage
<1>4. CASE UNCHANGED vars
  BY <1>4 DEF vars, history, IInv, TypeOK, WithdrawnUriGone, TokensInv
<1> QED
  BY <1>1, <1>2, <1>3, <1>4, InitialTokenKeeps, RestartKeeps DEF Next

THEOREM Inductive == Spec => []IInv
<1> QED
  BY InitHolds, NextKeeps, PTL DEF Spec

(* Tables and requests keep their shape for any number of clients,         *)
(* secrets, redirect URIs, issuers, tokens and requests.                   *)
THEOREM TypeCorrect == Spec => []TypeOK
<1>1. IInv => TypeOK
  BY DEF IInv
<1> QED
  BY <1>1, Inductive, PTL

(* A redirect URI that was withdrawn is not registered any more, although  *)
(* every update writes back what it read with the portal's callback.       *)
THEOREM WithdrawnUrisAreGone == Spec => []WithdrawnUriGone
<1>1. IInv => WithdrawnUriGone
  BY DEF IInv
<1> QED
  BY <1>1, Inductive, PTL

(* An initial access token registers a second client only after a crash    *)
(* that fell between its first registration and its deletion.              *)
THEOREM InitialTokensAreUsedOnce == Spec => []InitialTokenUsedOnce
<1>1. IInv => InitialTokenUsedOnce
  BY DEF IInv, TokensInv, InitialTokenUsedOnce
<1> QED
  BY <1>1, Inductive, PTL
-----------------------------------------------------------------------------
LEMMA NoneIsNoMethod == \A m \in Methods : m # None
  BY ClientsAssumption

LEMMA NoMechanism ==
  ASSUME NEW row \in Client, NEW p \in Presentation, p.with = {}
  PROVE  /\ Offered(p) = {"none"}
         /\ Method(row, p) = IF "none" \in row.methods THEN "none"
                             ELSE "client_secret_basic"
<1>1. Offered(p) = {"none"}
  BY DEF Offered
<1>2. Requested(p) = "none"
  BY DEF Requested
<1> QED
  BY <1>1, <1>2, NoneIsNoMethod DEF Method, Methods, SecretMethods

LEMMA HeaderOnly ==
  ASSUME NEW row \in Client, NEW p \in Presentation, p.with = {"basic"}
  PROVE  /\ Offered(p) = {"client_secret_basic"}
         /\ Method(row, p) = IF "client_secret_basic" \in row.methods
                             THEN "client_secret_basic" ELSE "none"
<1>1. Offered(p) = {"client_secret_basic"}
  BY DEF Offered
<1>2. Requested(p) = "client_secret_basic"
  BY DEF Requested
<1> QED
  BY <1>1, <1>2, NoneIsNoMethod DEF Method, Methods, SecretMethods

LEMMA BodyOnly ==
  ASSUME NEW row \in Client, NEW p \in Presentation, p.with = {"post"}
  PROVE  /\ Offered(p) = {"client_secret_post"}
         /\ Method(row, p) = IF "client_secret_post" \in row.methods
                             THEN "client_secret_post" ELSE "none"
<1>1. Offered(p) = {"client_secret_post"}
  BY DEF Offered
<1>2. p.with \cap {"basic", "post"} = {"post"} /\ "basic" \notin p.with
  OBVIOUS
<1>3. Requested(p) = "client_secret_post"
  BY <1>2 DEF Requested
<1> QED
  BY <1>1, <1>3, NoneIsNoMethod DEF Method, Methods, SecretMethods


\* An assertion signed with a secret, with a key, or unreadable.
LEMMA AssertionOnly ==
  ASSUME NEW row \in Client, NEW p \in Presentation, p.with = {"assertion"}
  PROVE  /\ Offered(p) = {"client_secret_jwt", "private_key_jwt"}
         /\ p.alg = "HS" =>
              Method(row, p) = IF "client_secret_jwt" \in row.methods
                               THEN "client_secret_jwt" ELSE "none"
         /\ p.alg = "asymmetric" =>
              Method(row, p) = IF "private_key_jwt" \in row.methods /\ row.jwks
                               THEN "private_key_jwt" ELSE "none"
<1>1. Offered(p) = {"client_secret_jwt", "private_key_jwt"}
  BY DEF Offered
<1>2. "basic" \notin p.with /\ p.with \cap {"basic", "post"} # {"post"}
  OBVIOUS
<1>3. p.alg = "HS" => Requested(p) = "client_secret_jwt"
  BY <1>2 DEF Requested
<1>4. p.alg = "asymmetric" => Requested(p) = "private_key_jwt"
  BY <1>2 DEF Requested
<1> QED
  BY <1>1, <1>3, <1>4, NoneIsNoMethod DEF Method, Methods, SecretMethods

\* Of a request with several mechanisms oidc-provider takes none.
LEMMA SeveralMechanisms ==
  ASSUME NEW p \in Presentation,
         p.with \notin {{}, {"basic"}, {"post"}, {"assertion"}}
  PROVE  Offered(p) = {}
  BY DEF Offered

LEMMA TakenIsEntitled ==
  ASSUME NEW row \in Client, NEW p \in Presentation
  PROVE  /\ row.enabled
         /\ Method(row, p) \in Offered(p)
         /\ Credential(row, Method(row, p), p)
         <=> Entitled(row, p)
<1>1. CASE p.with = {}
  BY <1>1, NoMechanism DEF Credential, Entitled
<1>2. CASE p.with = {"basic"}
  BY <1>2, HeaderOnly DEF Credential, Entitled
<1>3. CASE p.with = {"post"}
  BY <1>3, BodyOnly DEF Credential, Entitled
<1>4. CASE p.with = {"assertion"}
  <2>1. CASE p.alg = "HS"
    BY <1>4, <2>1, AssertionOnly DEF Credential, Entitled
  <2>2. CASE p.alg = "asymmetric"
    BY <1>4, <2>2, AssertionOnly DEF Credential, Entitled
  <2>3. CASE p.alg = "unreadable"
    BY <1>4, <2>3, AssertionOnly DEF Credential, Entitled
  <2> QED
    BY <2>1, <2>2, <2>3 DEF Presentation
<1>5. CASE p.with \notin {{}, {"basic"}, {"post"}, {"assertion"}}
  BY <1>5, SeveralMechanisms DEF Entitled
<1> QED
  BY <1>1, <1>2, <1>3, <1>4, <1>5

(* The token endpoint takes exactly the registered methods of a client,    *)
(* whatever lists of methods are asked for and however they change.        *)
THEOREM MethodsMatchRegistration == Spec => []MethodMatchesRegistration
<1>1. TypeOK => MethodMatchesRegistration
  <2> SUFFICES ASSUME TypeOK, NEW c \in Clients, client[c] # None,
                      NEW p \in Presentation
               PROVE  Accepted(c, p) <=> Entitled(client[c], p)
    BY DEF MethodMatchesRegistration
  <2>1. client[c] \in Client
    BY DEF TypeOK
  <2> QED
    BY <2>1, TakenIsEntitled DEF Accepted, Found
<1> QED
  BY <1>1, TypeCorrect, PTL
-----------------------------------------------------------------------------
LEMMA ManageEndKeepsFlag ==
  ASSUME TypeOK, NEW r \in Requests, NEW payload \in Registration,
         ManageEnd(r, payload), NEW c \in Clients,
         client[c] # None, ~client[c].enabled
  PROVE  ~client'[c].enabled
<1>1. payload \in Client
  BY PayloadIsClient
<1>2. CASE c = req[r].client
  <2>1. client'[c] = Upserted(c, payload)
    BY <1>2 DEF ManageEnd, Save, TypeOK
  <2>2. Upserted(c, payload).enabled = (client[c] = None \/ client[c].enabled)
    BY <1>1 DEF Upserted, Client
  <2> QED
    BY <2>1, <2>2
<1>3. CASE c # req[r].client
  BY <1>3 DEF ManageEnd, Save, TypeOK
<1> QED
  BY <1>2, <1>3

(* A registration update does not enable a client that was disabled while  *)
(* it was in flight: only steps of the administration do.                  *)
THEOREM OnlyAdministrationEnables == Spec => DisabledStaysDisabled
<1> DEFINE Stays ==
      \A c \in Clients :
        client[c] # None /\ client'[c] # None
          /\ ~client[c].enabled /\ client'[c].enabled
        => req' = req
<1>1. TypeOK /\ [Next]_vars => [Stays]_vars
  <2> SUFFICES ASSUME TypeOK, Next, NEW c \in Clients,
                      client[c] # None, ~client[c].enabled,
                      client'[c].enabled, req' # req
               PROVE  FALSE
    OBVIOUS
  <2>1. ~(\E d \in Clients : Administer(d))
    BY DEF Administer, CreateClient, UpdateClient, DeleteClient
  <2>2. ASSUME NEW d \in Clients, Registering(d)
        PROVE  client'[c] = client[c]
    BY <2>2 DEF Registering, Register, CrashInRegister, Stored, Unknown, Save,
                TypeOK
  <2>3. client'[c] = client[c] \/ \E r \in Requests, payload \in Registration :
                                   ManageEnd(r, payload)
    BY <2>1, <2>2 DEF Next, CreateInitialToken, RevokeInitialToken, Restart,
                Manage, ManageStart
  <2> QED
    BY <2>3, ManageEndKeepsFlag
<1> QED
  BY <1>1, TypeCorrect, PTL DEF Spec, DisabledStaysDisabled

LEMMA UpdateHandsOver ==
  ASSUME TypeOK, NEW c \in Clients, NEW in \in Changes,
         NEW s \in Secrets \cup {None}, UpdateClient(c, in, s),
         client'[c].secret # client[c].secret
  PROVE  shown'[c] = client'[c].secret /\ client[c].secret = None
<1> DEFINE row == Amended(Resolved(client[c]), in)
<1>1. client[c] \in Client /\ issuer \in Issuers
  BY DEF UpdateClient, TypeOK
<1>2. row \in Client /\ row.secret = client[c].secret
  BY <1>1, ResolvedIsClient, AmendedIsClient DEF Resolved, Client
<1> HIDE DEF row
<1>3. ~(RequiresSecret(row) /\ row.secret = None) => client'[c] = row
  BY DEF UpdateClient, Save, TypeOK, row
<1>4. RequiresSecret(row) /\ row.secret = None
  BY <1>2, <1>3
<1>5. Save(c, [row EXCEPT !.secret = s], s)
  BY <1>4 DEF UpdateClient, row
<1>6. shown'[c] = s /\ client'[c].secret = s
  BY <1>2, <1>5 DEF Save, TypeOK, Client
<1> QED
  BY <1>2, <1>4, <1>6

LEMMA ManageEndHandsOver ==
  ASSUME TypeOK, NEW r \in Requests, NEW payload \in Registration,
         ManageEnd(r, payload), NEW c \in Clients,
         client'[c] # client[c]
  PROVE  /\ shown'[c] = client'[c].secret
         /\ req[r].op = "manage" /\ req[r].client = c /\ req'[r] = Idle
<1>1. c = req[r].client
  BY DEF ManageEnd, Save, TypeOK
<1>2. client'[c] = Upserted(c, payload) /\ shown'[c] = payload.secret
  BY <1>1 DEF ManageEnd, Save, TypeOK
<1>3. payload \in Client
  BY PayloadIsClient
<1>4. Upserted(c, payload).secret = payload.secret
  BY <1>3 DEF Upserted, Client
<1> QED
  BY <1>1, <1>2, <1>4 DEF ManageEnd, TypeOK

(* A stored secret is not lost or replaced but by the client's own update, *)
(* and a new one is shown to whoever asked for the change.                 *)
THEOREM SecretsAreHandedOver == Spec => SecretsHandedOver
<1> DEFINE Over(c) ==
      /\ shown'[c] = client'[c].secret
      /\ \/ client[c].secret = None
         \/ \E r \in Requests : req[r].op = "manage" /\ req[r].client = c
                               /\ req'[r] = Idle
<1>1. ASSUME TypeOK, Next, NEW c \in Clients, client[c] # None,
             client'[c] # None, client'[c].secret # client[c].secret
      PROVE  Over(c)
  <2>1. ASSUME NEW d \in Clients, Administer(d) PROVE Over(c)
    <3>1. ~(\E row \in Metadata, s \in Secrets \cup {None} : CreateClient(d, row, s))
      BY <1>1 DEF CreateClient, Unknown, Save, TypeOK
    <3>2. ~DeleteClient(d)
      BY <1>1 DEF DeleteClient, TypeOK
    <3>3. PICK in \in Changes, s \in Secrets \cup {None} : UpdateClient(d, in, s)
      BY <2>1, <3>1, <3>2 DEF Administer
    <3>4. c = d
      BY <1>1, <3>3 DEF UpdateClient, Save, TypeOK
    <3> QED
      BY <1>1, <3>3, <3>4, UpdateHandsOver
  <2>2. ASSUME NEW d \in Clients, Registering(d) PROVE FALSE
    BY <1>1, <2>2 DEF Registering, Register, CrashInRegister, Stored,
                      Unknown, Save, TypeOK
  <2>3. ASSUME NEW r \in Requests, NEW payload \in Registration,
               ManageEnd(r, payload)
        PROVE  Over(c)
    BY <1>1, <2>3, ManageEndHandsOver
  <2>4. ASSUME UNCHANGED client PROVE FALSE
    BY <1>1, <2>4
  <2>5. \/ \E d \in Clients : Administer(d) \/ Registering(d)
        \/ \E r \in Requests, payload \in Registration : ManageEnd(r, payload)
        \/ UNCHANGED client
    BY <1>1 DEF Next, CreateInitialToken, RevokeInitialToken, Restart,
                Manage, ManageStart
  <2> QED
    BY <2>1, <2>2, <2>3, <2>4, <2>5
<1> DEFINE Handed ==
      \A c \in Clients :
        client[c] # None /\ client'[c] # None
          /\ client'[c].secret # client[c].secret
        => Over(c)
<1>2. TypeOK /\ [Next]_vars => [Handed]_vars
  BY <1>1
<1> QED
  BY <1>2, TypeCorrect, PTL DEF Spec, SecretsHandedOver
=============================================================================
