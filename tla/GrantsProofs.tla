--------------------------- MODULE GrantsProofs ---------------------------
(***************************************************************************)
(* Theorems about Grants: access tokens rest on a consent of their own     *)
(* account, and the store implements TokenLife: what is used up, revoked   *)
(* or expired stays so.                                                    *)
(***************************************************************************)
EXTENDS Grants, TLAPS

-----------------------------------------------------------------------------
(* Whose a grant is.  A grant is named by sessions, interactions, requests *)
(* and its row, which come and go one by one; owner says for each id drawn *)
(* whose account all of them speak of.                                     *)

\* Scopes of an account at its own client, which it has consented to.
Consented(b) ==
  /\ b.client = ClientOf[b.account]
  /\ \A s \in b.scope : <<b.account, b.client, s>> \in consented

OfOwner(owner, g, u) == g \in drawn /\ owner[g] = u

SessionOf(owner) == session # None =>
  /\ session.clients \subseteq {ClientOf[session.account]}
  /\ \A c \in Clients : session.grants[c] # None =>
       OfOwner(owner, session.grants[c], session.account)

InteractionOf(owner, x) ==
  /\ x.client = ClientOf[x.account]
  /\ x.current => session # None /\ session.account = x.account
  /\ x.grantId # None => OfOwner(owner, x.grantId, x.account)
  /\ x.result \in GrantIds => OfOwner(owner, x.result, x.account)

GrantOf(owner, g, x) == OfOwner(owner, g, x.account) /\ Consented(x)

TokenOf(t, x) == t \in drawn /\ Consented(x.bearer)

\* The interaction, if it is still there, is one of account u.
Asked(i, u) == oidc[i] # None => oidc[i].account = u

RequestOf(owner, q) ==
  /\ q.op = "save" => /\ GrantOf(owner, q.id, q.grant)
                      /\ Asked(q.uid, q.grant.account)
  /\ q.op = "finish" => q.id \in drawn /\ Asked(q.uid, owner[q.id])
  /\ q.op \in {"consume", "consuming", "issue"} => Consented(q.bearer)
  /\ q.op = "consuming" => TokenOf(q.id, q.read)

Owned(owner) ==
  /\ SessionOf(owner)
  /\ \A i \in InteractionIds : oidc[i] # None => InteractionOf(owner, oidc[i])
  /\ \A g \in GrantIds : oidc[g] # None => GrantOf(owner, g, oidc[g])
  /\ \A t \in TokenIds : oidc[t] # None => TokenOf(t, oidc[t])
  /\ \A r \in Requests : RequestOf(owner, ctx[r])
  /\ \A a \in accessTokens : Consented(a)

Owners == [GrantIds -> Users \cup {None}]

IInv == TypeOK /\ \E owner \in Owners : Owned(owner)

LEMMA InitHolds == Init => IInv
<1> SUFFICES ASSUME Init PROVE IInv
  OBVIOUS
<1> USE DEF Init, Idle
<1>1. TypeOK
  BY DEF TypeOK, Context, Ids
<1> DEFINE nobody == [g \in GrantIds |-> None]
<1>2. nobody \in Owners
  BY DEF Owners
<1>3. Owned(nobody)
  BY DEF Owned, SessionOf, RequestOf, Ids
<1> HIDE DEF nobody
<1> QED
  BY <1>1, <1>2, <1>3 DEF IInv
-----------------------------------------------------------------------------
LEMMA IdsAreDistinct ==
  /\ \A i \in InteractionIds : i \in Ids /\ i \notin GrantIds /\ i \notin TokenIds
  /\ \A g \in GrantIds : g \in Ids /\ g \notin InteractionIds /\ g \notin TokenIds
  /\ \A t \in TokenIds : t \in Ids /\ t \notin InteractionIds /\ t \notin GrantIds
  BY RecordsAssumption DEF Ids

LEMMA PutPuts ==
  ASSUME TypeOK, NEW id \in Ids, NEW x, oidc' = Put(id, x)
  PROVE  /\ DOMAIN oidc' = Ids
         /\ \A y \in Ids : oidc'[y] = IF y = id THEN x ELSE oidc[y]
  BY DEF Put, TypeOK

LEMMA ServeServes ==
  ASSUME TypeOK, NEW r \in Requests, NEW q \in Context, Serve(r, q)
  PROVE  /\ ctx' \in [Requests -> Context]
         /\ \A p \in Requests : ctx'[p] = IF p = r THEN q ELSE ctx[p]
  BY DEF Serve, TypeOK

\* The steps after which the session is the same and no interaction is new.
LEMMA SameSessionKeeps ==
  ASSUME TypeOK, NEW owner \in Owners, Owned(owner),
         UNCHANGED session, drawn \subseteq drawn', consented \subseteq consented',
         \A i \in InteractionIds : oidc'[i] # None =>
           /\ oidc[i] # None /\ oidc'[i].account = oidc[i].account
           /\ oidc'[i] = oidc[i] \/ InteractionOf(owner, oidc[i])',
         \A g \in GrantIds : oidc'[g] # None =>
           oidc'[g] = oidc[g] \/ GrantOf(owner, g, oidc[g])',
         \A t \in TokenIds : oidc'[t] # None =>
           oidc'[t] = oidc[t] \/ TokenOf(t, oidc[t])',
         \A r \in Requests :
           ctx'[r] = ctx[r] \/ ctx'[r] = Idle \/ RequestOf(owner, ctx[r])',
         \A a \in accessTokens' : a \in accessTokens \/ Consented(a)'
  PROVE  Owned(owner)'
<1>1. \A b : Consented(b) => Consented(b)'
  BY DEF Consented
<1>2. \A g, u : OfOwner(owner, g, u) => OfOwner(owner, g, u)'
  BY DEF OfOwner
<1>3. SessionOf(owner)'
  BY <1>2 DEF SessionOf, Owned
<1>4. \A i \in InteractionIds :
        oidc'[i] # None => InteractionOf(owner, oidc[i])'
  BY <1>2 DEF InteractionOf, Owned
<1>5. \A g \in GrantIds : oidc'[g] # None => GrantOf(owner, g, oidc[g])'
  BY <1>1, <1>2 DEF GrantOf, Owned
<1>6. \A t \in TokenIds : oidc'[t] # None => TokenOf(t, oidc[t])'
  BY <1>1 DEF TokenOf, Owned
<1>7. \A r \in Requests : RequestOf(owner, ctx[r])'
  <2> SUFFICES ASSUME NEW r \in Requests PROVE RequestOf(owner, ctx[r])'
    OBVIOUS
  <2>1. CASE ctx'[r] = ctx[r]
    <3>1. RequestOf(owner, ctx[r]) /\ ctx[r] \in Context
      BY DEF Owned, TypeOK
    <3>2. ctx[r].op \in {"save", "finish"} => ctx[r].uid \in InteractionIds
      BY <3>1 DEF Context, Idle
    <3>3. \A i \in InteractionIds : \A u : Asked(i, u) => Asked(i, u)'
      BY DEF Asked
    <3> QED
      BY <1>1, <1>2, <2>1, <3>1, <3>2, <3>3 DEF RequestOf, GrantOf, TokenOf,
         OfOwner
  <2>2. CASE ctx'[r] = Idle
    BY <2>2 DEF RequestOf, Idle
  <2> QED
    BY <2>1, <2>2
<1>8. \A a \in accessTokens' : Consented(a)'
  BY <1>1 DEF Owned
<1> QED
  BY <1>3, <1>4, <1>5, <1>6, <1>7, <1>8 DEF Owned
-----------------------------------------------------------------------------
(* Steps that only take rows away, and what they leave a request with.     *)
LEMMA RowsDroppedKeeps ==
  ASSUME TypeOK, NEW owner \in Owners, Owned(owner),
         UNCHANGED <<session, drawn, consented, accessTokens>>,
         revoked' \subseteq TokenIds,
         DOMAIN oidc' = Ids,
         \A id \in Ids : oidc'[id] = oidc[id] \/ oidc'[id] = None,
         ctx' \in [Requests -> Context],
         \A r \in Requests :
           ctx'[r] = ctx[r] \/ ctx'[r] = Idle \/ RequestOf(owner, ctx[r])'
  PROVE  IInv'
<1>1. TypeOK'
  BY IdsAreDistinct DEF TypeOK
<1>2. Owned(owner)'
  BY IdsAreDistinct, SameSessionKeeps
<1> QED
  BY <1>1, <1>2 DEF IInv

LEMMA ExpireKeeps ==
  ASSUME TypeOK, NEW owner \in Owners, Owned(owner),
         NEW id \in Ids, Expire(id)
  PROVE  IInv'
<1>1. /\ DOMAIN oidc' = Ids
      /\ \A x \in Ids : oidc'[x] = oidc[x] \/ oidc'[x] = None
  BY PutPuts DEF Expire, Gone
<1> QED
  BY <1>1, RowsDroppedKeeps DEF Expire, TypeOK, history

LEMMA DropExpiredKeeps ==
  ASSUME TypeOK, NEW owner \in Owners, Owned(owner),
         NEW t \in TokenIds, DropExpired(t)
  PROVE  IInv'
<1>1. /\ DOMAIN oidc' = Ids
      /\ \A x \in Ids : oidc'[x] = oidc[x] \/ oidc'[x] = None
  BY IdsAreDistinct, PutPuts DEF DropExpired, Gone
<1> QED
  BY <1>1, RowsDroppedKeeps DEF DropExpired, TypeOK, history

LEMMA CleanupKeeps ==
  ASSUME TypeOK, NEW owner \in Owners, Owned(owner), Cleanup
  PROVE  IInv'
<1>1. /\ DOMAIN oidc' = Ids
      /\ \A x \in Ids : oidc'[x] = oidc[x] \/ oidc'[x] = None
  BY DEF Cleanup
<1> QED
  BY <1>1, RowsDroppedKeeps DEF Cleanup, TypeOK, history

LEMMA RestartKeeps ==
  ASSUME TypeOK, NEW owner \in Owners, Owned(owner), Restart
  PROVE  IInv'
<1>1. /\ ctx' \in [Requests -> Context]
      /\ \A r \in Requests : ctx'[r] = Idle
  BY DEF Restart, Context
<1> QED
  BY <1>1, RowsDroppedKeeps DEF Restart, TypeOK, history

\* A revocation begins, goes on and ends.
LEMMA RevokeGrantKeeps ==
  ASSUME TypeOK, NEW owner \in Owners, Owned(owner),
         NEW r \in Requests, NEW g, RevokeGrant(r, g)
  PROVE  IInv'
<1> DEFINE q == [op |-> "revoke", ids |-> ByGrant(g), rest |-> ByGrant(g)]
<1>1. q \in Context /\ q.op = "revoke"
  BY DEF Context, ByGrant, Ids
<1>2. Serve(r, q)
  BY DEF RevokeGrant
<1> HIDE DEF q
<1>3. /\ ctx' \in [Requests -> Context]
      /\ \A p \in Requests : ctx'[p] = ctx[p] \/ ctx'[p].op = "revoke"
  BY <1>1, <1>2, ServeServes
<1>4. \A p \in Requests : ctx'[p] = ctx[p] \/ RequestOf(owner, ctx[p])'
  BY <1>3 DEF RequestOf
<1> QED
  BY <1>3, <1>4, RowsDroppedKeeps DEF RevokeGrant, TypeOK, history

LEMMA RevokeNextKeeps ==
  ASSUME TypeOK, NEW owner \in Owners, Owned(owner),
         NEW r \in Requests, NEW id \in Ids, RevokeNext(r, id)
  PROVE  IInv'
<1> DEFINE q == [ctx[r] EXCEPT !.rest = @ \ {id}]
<1>1. q \in Context /\ q.op = "revoke"
  BY DEF RevokeNext, TypeOK, Context, Idle
<1>2. Serve(r, q)
  BY DEF RevokeNext
<1> HIDE DEF q
<1>3. /\ ctx' \in [Requests -> Context]
      /\ \A p \in Requests : ctx'[p] = ctx[p] \/ ctx'[p].op = "revoke"
  BY <1>1, <1>2, ServeServes
<1>4. \A p \in Requests : ctx'[p] = ctx[p] \/ RequestOf(owner, ctx[p])'
  BY <1>3 DEF RequestOf
<1>5. /\ DOMAIN oidc' = Ids
      /\ \A x \in Ids : oidc'[x] = oidc[x] \/ oidc'[x] = None
  BY PutPuts DEF RevokeNext, Gone
<1> QED
  BY <1>3, <1>4, <1>5, RowsDroppedKeeps DEF RevokeNext, TypeOK, history

LEMMA RevokeEndKeeps ==
  ASSUME TypeOK, NEW owner \in Owners, Owned(owner),
         NEW r \in Requests, RevokeEnd(r)
  PROVE  IInv'
<1>1. /\ ctx' \in [Requests -> Context]
      /\ \A p \in Requests : ctx'[p] = ctx[p] \/ ctx'[p] = Idle
  <2>1. Idle \in Context
    BY DEF Context
  <2> QED
    BY <2>1, ServeServes DEF RevokeEnd, Done
<1> QED
  BY <1>1, RowsDroppedKeeps DEF RevokeEnd, TypeOK
-----------------------------------------------------------------------------
(* Steps of a request that only read.                                      *)
LEMMA ServedKeeps ==
  ASSUME TypeOK, NEW owner \in Owners, Owned(owner),
         NEW r \in Requests, NEW q \in Context, Serve(r, q),
         RequestOf(owner, q), UNCHANGED <<session, oidc, history>>
  PROVE  IInv'
<1>1. /\ ctx' \in [Requests -> Context]
      /\ \A p \in Requests : ctx'[p] = IF p = r THEN q ELSE ctx[p]
  BY ServeServes
<1>2. \A x : RequestOf(owner, x) <=> RequestOf(owner, x)'
  BY DEF RequestOf, GrantOf, TokenOf, OfOwner, Consented, Asked, history
<1>3. \A p \in Requests : ctx'[p] = ctx[p] \/ RequestOf(owner, ctx[p])'
  BY <1>1, <1>2
<1> QED
  BY <1>1, <1>3, RowsDroppedKeeps DEF TypeOK, history

\* What a redemption answers with is part of what was consented to.
LEMMA BearersAreConsented ==
  ASSUME TypeOK, NEW owner \in Owners, Owned(owner),
         NEW t \in TokenIds, Redeemable(t)
  PROVE  BearerOf(t) \in Bearer /\ Consented(BearerOf(t))
<1>1. oidc[t] \in Token /\ Consented(oidc[t].bearer)
  BY DEF Redeemable, Found, TypeOK, Owned, TokenOf
<1>2. oidc[t].bearer \in Bearer /\ oidc[t].grantId \in GrantIds
  BY <1>1 DEF Token
<1>3. oidc[oidc[t].grantId] \in Grant
  BY <1>2 DEF Redeemable, Found, TypeOK
<1> QED
  BY <1>1, <1>2, <1>3 DEF BearerOf, Bearer, Grant, Consented

LEMMA RedeemKeeps ==
  ASSUME TypeOK, NEW owner \in Owners, Owned(owner),
         NEW r \in Requests, NEW t \in TokenIds,
         RedeemOnce(r, t) \/ RedeemKept(r, t)
  PROVE  IInv'
<1>1. BearerOf(t) \in Bearer /\ Consented(BearerOf(t))
  BY BearersAreConsented DEF RedeemOnce, RedeemKept
<1> DEFINE b == BearerOf(t)
<1> HIDE DEF b
<1>2. CASE Serve(r, [op |-> "consume", id |-> t, bearer |-> b])
  <2>1. [op |-> "consume", id |-> t, bearer |-> b] \in Context
    BY <1>1 DEF Context, b
  <2>2. RequestOf(owner, [op |-> "consume", id |-> t, bearer |-> b])
    BY <1>1 DEF RequestOf, b
  <2> QED
    BY <1>2, <2>1, <2>2, ServedKeeps DEF RedeemOnce, RedeemKept
<1>3. CASE Serve(r, [op |-> "issue", bearer |-> b, renew |-> FALSE])
  <2>1. [op |-> "issue", bearer |-> b, renew |-> FALSE] \in Context
    BY <1>1 DEF Context, b
  <2>2. RequestOf(owner, [op |-> "issue", bearer |-> b, renew |-> FALSE])
    BY <1>1 DEF RequestOf, b
  <2> QED
    BY <1>3, <2>1, <2>2, ServedKeeps DEF RedeemOnce, RedeemKept
<1> QED
  BY <1>2, <1>3 DEF RedeemOnce, RedeemKept, b

LEMMA Issued ==
  ASSUME TypeOK, NEW owner \in Owners, Owned(owner),
         NEW r \in Requests, ctx[r].op \in {"consume", "consuming"}
  PROVE  /\ ctx[r].id \in TokenIds /\ ctx[r].bearer \in Bearer
         /\ [op |-> "issue", bearer |-> ctx[r].bearer, renew |-> TRUE] \in Context
         /\ Consented(ctx[r].bearer)
         /\ RequestOf(owner, [op |-> "issue", bearer |-> ctx[r].bearer,
                              renew |-> TRUE])
<1>1. ctx[r].id \in TokenIds /\ ctx[r].bearer \in Bearer
  BY DEF TypeOK, Context, Idle
<1>2. Consented(ctx[r].bearer)
  BY DEF Owned, RequestOf
<1> QED
  BY <1>1, <1>2 DEF Context, RequestOf

LEMMA ConsumeReadKeeps ==
  ASSUME TypeOK, NEW owner \in Owners, Owned(owner),
         NEW r \in Requests, ConsumeRead(r)
  PROVE  IInv'
<1>1. CASE Issue(r)
  BY <1>1, Issued, ServedKeeps DEF ConsumeRead, Issue
<1>2. CASE oidc[ctx[r].id] # None
  <2> DEFINE q == [op |-> "consuming", id |-> ctx[r].id,
                   bearer |-> ctx[r].bearer, read |-> oidc[ctx[r].id]]
  <2>1. /\ ctx[r].id \in TokenIds /\ ctx[r].bearer \in Bearer
        /\ Consented(ctx[r].bearer)
    BY Issued DEF ConsumeRead
  <2>2. /\ oidc[ctx[r].id] \in Token
        /\ TokenOf(ctx[r].id, oidc[ctx[r].id])
    BY <1>2, <2>1 DEF TypeOK, Owned
  <2>3. q \in Context
    BY <2>1, <2>2 DEF Context
  <2>4. RequestOf(owner, q)
    BY <2>1, <2>2 DEF RequestOf
  <2>5. Serve(r, q) /\ UNCHANGED <<session, oidc, history>>
    BY <1>2 DEF ConsumeRead
  <2> QED
    BY <2>3, <2>4, <2>5, ServedKeeps
<1> QED
  BY <1>1, <1>2 DEF ConsumeRead
-----------------------------------------------------------------------------
(* Steps that write the row of a token.                                    *)
LEMMA TokenWrittenKeeps ==
  ASSUME TypeOK, NEW owner \in Owners, Owned(owner),
         NEW t \in TokenIds, NEW x \in Token, oidc' = Put(t, x),
         TokenOf(t, x)',
         UNCHANGED <<session, consented, revoked>>,
         drawn \subseteq drawn', drawn' \subseteq Ids,
         ctx' \in [Requests -> Context],
         \A r \in Requests :
           ctx'[r] = ctx[r] \/ ctx'[r] = Idle \/ RequestOf(owner, ctx[r])',
         accessTokens' \subseteq [account : Users, client : Clients,
                                  scope : SUBSET Scopes],
         \A a \in accessTokens' : a \in accessTokens \/ Consented(a)'
  PROVE  IInv'
<1>1. /\ DOMAIN oidc' = Ids
      /\ \A y \in Ids : oidc'[y] = IF y = t THEN x ELSE oidc[y]
  BY IdsAreDistinct, PutPuts
<1>2. TypeOK'
  BY <1>1, IdsAreDistinct DEF TypeOK
<1>3. Owned(owner)'
  BY <1>1, IdsAreDistinct, SameSessionKeeps
<1> QED
  BY <1>2, <1>3 DEF IInv

LEMMA ConsumeSaveKeeps ==
  ASSUME TypeOK, NEW owner \in Owners, Owned(owner),
         NEW r \in Requests, ConsumeSave(r)
  PROVE  IInv'
<1> DEFINE x == [ctx[r].read EXCEPT !.consumed = TRUE]
           t == ctx[r].id
           q == [op |-> "issue", bearer |-> ctx[r].bearer, renew |-> TRUE]
<1>1. /\ t \in TokenIds /\ q \in Context
      /\ Consented(ctx[r].bearer)
  BY Issued DEF ConsumeSave
<1>2. ctx[r].read \in Token /\ TokenOf(t, ctx[r].read)
  BY DEF ConsumeSave, TypeOK, Context, Idle, Owned, RequestOf
<1>3. x \in Token /\ TokenOf(t, x)
  BY <1>2 DEF Token, TokenOf
<1>4. /\ oidc' = Put(t, x) /\ Serve(r, q)
      /\ UNCHANGED <<session, drawn, consented, accessTokens, revoked>>
  BY DEF ConsumeSave, Issue, history
<1>5. q.op = "issue" /\ q.bearer = ctx[r].bearer
  OBVIOUS
<1> HIDE DEF x, q
<1>6. /\ ctx' \in [Requests -> Context]
      /\ \A p \in Requests : ctx'[p] = IF p = r THEN q ELSE ctx[p]
  BY <1>1, <1>4, ServeServes
<1>7. \A b : Consented(b) <=> Consented(b)'
  BY <1>4 DEF Consented
<1>8. \A p \in Requests : ctx'[p] = ctx[p] \/ RequestOf(owner, ctx[p])'
  BY <1>1, <1>5, <1>6, <1>7 DEF RequestOf
<1> PICK y \in TokenIds, z \in Token : y = t /\ z = x
  BY <1>1, <1>3
<1>9. TokenOf(y, z)'
  BY <1>3, <1>4, <1>7 DEF TokenOf
<1>10. oidc' = Put(y, z)
  BY <1>4
<1>11. /\ drawn' \subseteq Ids /\ accessTokens' = accessTokens
       /\ accessTokens' \subseteq [account : Users, client : Clients,
                                   scope : SUBSET Scopes]
  BY <1>4 DEF TypeOK
<1> QED
  BY <1>4, <1>6, <1>8, <1>9, <1>10, <1>11, TokenWrittenKeeps

\* Who a code speaks for: a grant of the session covers it.
CodeBearer(c, scope) == [account |-> session.account, client |-> c,
                         grantId |-> session.grants[c], scope |-> scope]

LEMMA CodesAreConsented ==
  ASSUME TypeOK, NEW owner \in Owners, Owned(owner),
         NEW c \in Clients, NEW scope \in SUBSET Scopes, NEW t \in TokenIds,
         IssueCode(c, scope, t)
  PROVE  CodeBearer(c, scope) \in Bearer /\ Consented(CodeBearer(c, scope))
<1>1. /\ session # None /\ session \in Session /\ c \in session.clients
      /\ SessionOf(owner)
  BY DEF IssueCode, SignedIn, OfOtherClient, TypeOK, Owned
<1>2. /\ session.account \in Users /\ c = ClientOf[session.account]
  BY <1>1 DEF Session, SessionOf
<1>3. session.grants[c] \in GrantIds /\ oidc[session.grants[c]] # None
      /\ scope \subseteq oidc[session.grants[c]].scope
  BY <1>1 DEF IssueCode, Granted, Found, Session
<1>4. /\ GrantOf(owner, session.grants[c], oidc[session.grants[c]])
      /\ owner[session.grants[c]] = session.account
  BY <1>1, <1>3, RecordsAssumption DEF Owned, SessionOf, OfOwner, Ids
<1>5. CodeBearer(c, scope) \in Bearer
  BY <1>2, <1>3 DEF CodeBearer, Bearer
<1>6. Consented(CodeBearer(c, scope))
  BY <1>2, <1>3, <1>4 DEF CodeBearer, GrantOf, OfOwner, Consented
<1> QED
  BY <1>5, <1>6

LEMMA NewTokens ==
  ASSUME NEW b \in Bearer, NEW model \in {"AuthorizationCode", "RefreshToken"}
  PROVE  /\ NewToken(model, b) \in Token /\ NewToken(model, b).bearer = b
         /\ NewToken(model, b) # None
         /\ ~NewToken(model, b).consumed /\ ~NewToken(model, b).expired
<1>1. NewToken(model, b) \in Token
  BY DEF NewToken, Token, Bearer
<1> QED
  BY <1>1, RecordsAssumption DEF NewToken

LEMMA IssueCodeKeeps ==
  ASSUME TypeOK, NEW owner \in Owners, Owned(owner),
         NEW c \in Clients, NEW scope \in SUBSET Scopes, NEW t \in TokenIds,
         IssueCode(c, scope, t)
  PROVE  IInv'
<1> PICK b \in Bearer : b = CodeBearer(c, scope) /\ Consented(b)
  BY CodesAreConsented
<1> PICK x \in Token : x = NewToken("AuthorizationCode", b) /\ x.bearer = b
  BY NewTokens
<1>1. /\ oidc' = Put(t, x) /\ drawn' = drawn \cup {t}
      /\ UNCHANGED <<session, ctx, consented, accessTokens, revoked>>
  BY DEF IssueCode, Draw, CodeBearer
<1>2. TokenOf(t, x)'
  BY <1>1 DEF TokenOf, Consented
<1> QED
  BY <1>1, <1>2, IdsAreDistinct, TokenWrittenKeeps DEF TypeOK

LEMMA AnswerKeeps ==
  ASSUME TypeOK, NEW owner \in Owners, Owned(owner),
         NEW r \in Requests, NEW t \in TokenIds, Answer(r, t)
  PROVE  IInv'
<1> PICK b \in Bearer : b = ctx[r].bearer
  BY DEF Answer, TypeOK, Context, Idle
<1>1. Consented(b)
  BY DEF Answer, Owned, RequestOf
<1> PICK a \in [account : Users, client : Clients, scope : SUBSET Scopes] :
       a = AccessToken(b)
  BY DEF AccessToken, Bearer
<1>2. Consented(a)
  BY <1>1 DEF AccessToken, Consented
<1>3. /\ accessTokens' = accessTokens \cup {a}
      /\ UNCHANGED <<session, consented, revoked>>
  BY DEF Answer
<1>4. Consented(a)' /\ Consented(b)'
  BY <1>1, <1>2, <1>3 DEF Consented
<1>5. /\ ctx' \in [Requests -> Context]
      /\ \A p \in Requests : ctx'[p] = ctx[p] \/ ctx'[p] = Idle
  <2>1. Idle \in Context
    BY DEF Context
  <2> QED
    BY <2>1, ServeServes DEF Answer, Done
<1>6. /\ accessTokens' \subseteq [account : Users, client : Clients,
                                  scope : SUBSET Scopes]
      /\ \A x \in accessTokens' : x \in accessTokens \/ Consented(x)'
  BY <1>3, <1>4 DEF TypeOK
<1>7. CASE UNCHANGED <<oidc, drawn>>
  <2>1. TypeOK'
    BY <1>3, <1>5, <1>6, <1>7 DEF TypeOK
  <2>2. Owned(owner)'
    BY <1>3, <1>5, <1>6, <1>7, SameSessionKeeps
  <2> QED
    BY <2>1, <2>2 DEF IInv
<1>8. CASE Draw(t) /\ oidc' = Put(t, NewToken("RefreshToken", b))
  <2> PICK x \in Token : x = NewToken("RefreshToken", b) /\ x.bearer = b
    BY NewTokens
  <2>1. TokenOf(t, x)'
    BY <1>4, <1>8 DEF TokenOf, Draw
  <2>2. drawn \subseteq drawn' /\ drawn' \subseteq Ids
    BY <1>8, IdsAreDistinct DEF Draw, TypeOK
  <2> QED
    BY <1>3, <1>5, <1>6, <1>8, <2>1, <2>2, TokenWrittenKeeps
<1> QED
  BY <1>7, <1>8 DEF Answer

LEMMA ExpireTokenKeeps ==
  ASSUME TypeOK, NEW owner \in Owners, Owned(owner),
         NEW t \in TokenIds, ExpireToken(t)
  PROVE  IInv'
<1> DEFINE Late(x) == [x EXCEPT !.expired = TRUE]
<1>1. \A x \in Token : Late(x) \in Token /\ Late(x).bearer = x.bearer
  BY DEF Token
<1> HIDE DEF Late
<1>2. /\ oidc' = IF oidc[t] = None THEN oidc ELSE Put(t, Late(oidc[t]))
      /\ ctx' = [r \in Requests |->
                   IF ctx[r].op = "consuming" /\ ctx[r].id = t
                     THEN [ctx[r] EXCEPT !.read = Late(ctx[r].read)]
                     ELSE ctx[r]]
      /\ UNCHANGED <<session, history>>
  BY DEF ExpireToken, Late
<1>3. \A x : TokenOf(t, x) <=> TokenOf(t, x)'
  BY <1>2 DEF TokenOf, Consented, history
<1>4. \A r \in Requests :
        \/ ctx'[r] = ctx[r]
        \/ /\ ctx'[r] \in Context /\ ctx'[r].op = "consuming"
           /\ ctx'[r].bearer = ctx[r].bearer /\ Consented(ctx[r].bearer)
           /\ ctx'[r].id = t /\ TokenOf(t, ctx'[r].read)
  <2> SUFFICES ASSUME NEW r \in Requests,
                      ctx[r].op = "consuming", ctx[r].id = t
               PROVE  /\ ctx'[r] \in Context /\ ctx'[r].op = "consuming"
                      /\ ctx'[r].bearer = ctx[r].bearer
                      /\ Consented(ctx[r].bearer)
                      /\ ctx'[r].id = t /\ TokenOf(t, ctx'[r].read)
    BY <1>2
  <2>1. ctx[r] \in [op : {"consuming"}, id : TokenIds, bearer : Bearer,
                    read : Token]
    BY DEF TypeOK, Context, Idle
  <2>2. TokenOf(t, ctx[r].read) /\ Consented(ctx[r].bearer)
    BY DEF Owned, RequestOf
  <2>3. Late(ctx[r].read) \in Token
        /\ Late(ctx[r].read).bearer = ctx[r].read.bearer
    BY <1>1, <2>1
  <2>4. ctx'[r] = [ctx[r] EXCEPT !.read = Late(ctx[r].read)]
    BY <1>2
  <2>5. ctx'[r] \in [op : {"consuming"}, id : TokenIds, bearer : Bearer,
                     read : Token]
    BY <2>1, <2>3, <2>4
  <2>6. /\ ctx'[r].bearer = ctx[r].bearer /\ ctx'[r].id = t
        /\ ctx'[r].read = Late(ctx[r].read) /\ ctx'[r].op = "consuming"
    BY <2>1, <2>4
  <2>7. TokenOf(t, ctx'[r].read)
    BY <2>2, <2>3, <2>6 DEF TokenOf
  <2> QED
    BY <2>2, <2>5, <2>6, <2>7 DEF Context
<1>5. ctx' \in [Requests -> Context]
  BY <1>2, <1>4 DEF TypeOK
<1>6. \A b : Consented(b) <=> Consented(b)'
  BY <1>2 DEF Consented, history
<1>7. \A r \in Requests : ctx'[r] = ctx[r] \/ RequestOf(owner, ctx[r])'
  BY <1>3, <1>4, <1>6 DEF RequestOf
<1>8. CASE oidc[t] = None
  BY <1>2, <1>5, <1>7, <1>8, RowsDroppedKeeps DEF TypeOK, history
<1>9. CASE oidc[t] # None
  <2>1. oidc[t] \in Token /\ TokenOf(t, oidc[t])
    BY <1>9 DEF TypeOK, Owned
  <2> PICK x \in Token : x = Late(oidc[t])
    BY <1>1, <2>1
  <2>2. TokenOf(t, x)'
    BY <1>1, <1>3, <2>1 DEF TokenOf
  <2> QED
    BY <1>2, <1>5, <1>7, <1>9, <2>2, TokenWrittenKeeps DEF TypeOK, history
<1> QED
  BY <1>8, <1>9
-----------------------------------------------------------------------------
(* Steps that write the row of an interaction or of a grant.               *)
LEMMA InteractionWrittenKeeps ==
  ASSUME TypeOK, NEW owner \in Owners, Owned(owner),
         NEW i \in InteractionIds, NEW x \in Interaction,
         oidc[i] # None, x.account = oidc[i].account, oidc' = Put(i, x),
         InteractionOf(owner, x)', UNCHANGED <<session, history>>,
         ctx' \in [Requests -> Context],
         \A r \in Requests : ctx'[r] = ctx[r] \/ ctx'[r] = Idle
  PROVE  IInv'
<1>1. /\ DOMAIN oidc' = Ids
      /\ \A y \in Ids : oidc'[y] = IF y = i THEN x ELSE oidc[y]
  BY IdsAreDistinct, PutPuts
<1>2. TypeOK'
  BY <1>1, IdsAreDistinct DEF TypeOK, history
<1>3. Owned(owner)'
  BY <1>1, IdsAreDistinct, SameSessionKeeps DEF history
<1> QED
  BY <1>2, <1>3 DEF IInv

\* The result of an interaction is set: a refusal, or a grant of its account.
LEMMA ResultKeeps ==
  ASSUME TypeOK, NEW owner \in Owners, Owned(owner),
         NEW i \in InteractionIds, oidc[i] # None,
         NEW answer \in GrantIds \cup {"denied"},
         answer \in GrantIds => OfOwner(owner, answer, oidc[i].account),
         oidc' = [oidc EXCEPT ![i].result = answer],
         UNCHANGED <<session, history>>,
         ctx' \in [Requests -> Context],
         \A r \in Requests : ctx'[r] = ctx[r] \/ ctx'[r] = Idle
  PROVE  IInv'
<1>1. oidc[i] \in Interaction /\ InteractionOf(owner, oidc[i])
  BY DEF TypeOK, Owned
<1> PICK x \in Interaction : x = [oidc[i] EXCEPT !.result = answer]
  BY <1>1 DEF Interaction
<1>2. /\ x.account = oidc[i].account /\ x.client = oidc[i].client
      /\ x.current = oidc[i].current /\ x.grantId = oidc[i].grantId
      /\ x.result = answer
  BY <1>1 DEF Interaction
<1>3. InteractionOf(owner, x)'
  BY <1>1, <1>2 DEF InteractionOf, OfOwner, history
<1>4. oidc' = Put(i, x)
  BY IdsAreDistinct DEF Put, TypeOK
<1> QED
  BY <1>2, <1>3, <1>4, InteractionWrittenKeeps

LEMMA RejectConsentKeeps ==
  ASSUME TypeOK, NEW owner \in Owners, Owned(owner),
         NEW i \in InteractionIds, RejectConsent(i)
  PROVE  IInv'
  BY ResultKeeps, RecordsAssumption DEF RejectConsent, Found, TypeOK

LEMMA FinishConsentKeeps ==
  ASSUME TypeOK, NEW owner \in Owners, Owned(owner),
         NEW r \in Requests, FinishConsent(r)
  PROVE  IInv'
<1>1. /\ ctx[r].uid \in InteractionIds /\ ctx[r].id \in GrantIds
      /\ ctx[r].op = "finish"
  BY DEF FinishConsent, TypeOK, Context, Idle
<1>2. /\ ctx' \in [Requests -> Context]
      /\ \A p \in Requests : ctx'[p] = ctx[p] \/ ctx'[p] = Idle
  <2>1. Idle \in Context
    BY DEF Context
  <2> QED
    BY <2>1, ServeServes DEF FinishConsent, Done
<1>3. CASE UNCHANGED oidc
  BY <1>2, <1>3, RowsDroppedKeeps DEF FinishConsent, TypeOK, history
<1>4. CASE /\ oidc[ctx[r].uid] # None
           /\ oidc' = [oidc EXCEPT ![ctx[r].uid].result = ctx[r].id]
  <2>1. RequestOf(owner, ctx[r])
    BY DEF Owned
  <2>2. OfOwner(owner, ctx[r].id, oidc[ctx[r].uid].account)
    BY <1>1, <1>4, <2>1 DEF RequestOf, Asked, OfOwner
  <2> PICK i \in InteractionIds, g \in GrantIds :
         i = ctx[r].uid /\ g = ctx[r].id
    BY <1>1
  <2> QED
    BY <1>2, <1>4, <2>2, ResultKeeps DEF FinishConsent
<1> QED
  BY <1>3, <1>4 DEF FinishConsent, Found

LEMMA SaveGrantKeeps ==
  ASSUME TypeOK, NEW owner \in Owners, Owned(owner),
         NEW r \in Requests, SaveGrant(r)
  PROVE  IInv'
<1> PICK g \in GrantIds, x \in Grant, i \in InteractionIds :
       g = ctx[r].id /\ x = ctx[r].grant /\ i = ctx[r].uid
  BY DEF SaveGrant, TypeOK, Context, Idle
<1>1. GrantOf(owner, g, x) /\ Asked(i, x.account)
  BY DEF SaveGrant, Owned, RequestOf
<1> PICK q \in Context : q = [op |-> "finish", uid |-> i, id |-> g]
  BY DEF Context
<1>2. /\ Serve(r, q) /\ oidc' = Put(g, x) /\ UNCHANGED <<session, history>>
  BY DEF SaveGrant
<1>3. /\ DOMAIN oidc' = Ids
      /\ \A y \in Ids : oidc'[y] = IF y = g THEN x ELSE oidc[y]
  BY <1>2, IdsAreDistinct, PutPuts
<1>4. /\ ctx' \in [Requests -> Context]
      /\ \A p \in Requests : ctx'[p] = IF p = r THEN q ELSE ctx[p]
  BY <1>2, ServeServes
<1>5. GrantOf(owner, g, x)'
  BY <1>1, <1>2 DEF GrantOf, OfOwner, Consented, history
<1>6. RequestOf(owner, q)'
  BY <1>1, <1>2, <1>3, IdsAreDistinct
     DEF RequestOf, Asked, GrantOf, OfOwner, history
<1>7. TypeOK'
  BY <1>2, <1>3, <1>4, IdsAreDistinct DEF TypeOK, history
<1>8. \A p \in Requests : ctx'[p] = ctx[p] \/ RequestOf(owner, ctx[p])'
  BY <1>4, <1>6
<1>9. \A y \in GrantIds : oidc'[y] # None =>
        oidc'[y] = oidc[y] \/ GrantOf(owner, y, oidc[y])'
  BY <1>3, <1>5, IdsAreDistinct
<1>10. Owned(owner)'
  BY <1>2, <1>3, <1>8, <1>9, IdsAreDistinct, SameSessionKeeps DEF history
<1> QED
  BY <1>7, <1>10 DEF IInv

\* What the consent is going to save: scopes it covered before, and those the
\* user accepts now.
LEMMA CoveringIsConsented ==
  ASSUME TypeOK, NEW owner \in Owners, Owned(owner),
         NEW i \in InteractionIds, oidc[i] # None,
         consented' = consented \cup
           {<<oidc[i].account, oidc[i].client, s>> : s \in oidc[i].missing}
  PROVE  /\ Covering(i) \in Grant /\ Covering(i).account = oidc[i].account
         /\ \A x : x = Covering(i) => Consented(x)'
<1>1. oidc[i] \in Interaction /\ InteractionOf(owner, oidc[i])
  BY DEF TypeOK, Owned
<1>2. /\ oidc[i].account \in Users /\ oidc[i].client \in Clients
      /\ oidc[i].missing \subseteq Scopes
      /\ oidc[i].grantId \in GrantIds \cup {None}
  BY <1>1 DEF Interaction
<1> DEFINE g == oidc[i].grantId
<1>3. CASE ~Found(g)
  <2>1. Covering(i) = [account |-> oidc[i].account, client |-> oidc[i].client,
                       scope |-> oidc[i].missing]
    BY <1>3 DEF Covering
  <2> QED
    BY <1>1, <1>2, <2>1 DEF Grant, Consented, InteractionOf
<1>4. CASE Found(g)
  <2>1. g \in GrantIds /\ oidc[g] # None /\ oidc[g] \in Grant
    BY <1>2, <1>4 DEF Found, TypeOK
  <2>2. GrantOf(owner, g, oidc[g]) /\ oidc[g].account = oidc[i].account
    BY <1>1, <1>4, <2>1 DEF Owned, GrantOf, InteractionOf, OfOwner, Found
  <2>3. /\ oidc[g].scope \subseteq Scopes /\ oidc[g].client = oidc[i].client
        /\ \A s \in oidc[g].scope :
             <<oidc[i].account, oidc[i].client, s>> \in consented
    BY <1>1, <2>1, <2>2 DEF Grant, GrantOf, Consented, InteractionOf
  <2>4. Covering(i) = [oidc[g] EXCEPT !.scope = @ \cup oidc[i].missing]
    BY <1>4 DEF Covering
  <2>5. /\ Covering(i) \in Grant /\ Covering(i).account = oidc[i].account
        /\ Covering(i).client = oidc[i].client
        /\ Covering(i).scope = oidc[g].scope \cup oidc[i].missing
    BY <1>2, <2>1, <2>2, <2>3, <2>4 DEF Grant
  <2>6. \A s \in Covering(i).scope :
          <<oidc[i].account, oidc[i].client, s>> \in consented'
    BY <2>3, <2>5
  <2> QED
    BY <1>1, <2>5, <2>6 DEF Consented, InteractionOf
<1> QED
  BY <1>3, <1>4

LEMMA AcceptConsentKeeps ==
  ASSUME TypeOK, NEW owner \in Owners, Owned(owner),
         NEW r \in Requests, NEW i \in InteractionIds, NEW g \in GrantIds,
         AcceptConsent(r, i, g)
  PROVE  IInv'
<1>1. /\ oidc[i] # None /\ oidc[i] \in Interaction
      /\ InteractionOf(owner, oidc[i])
      /\ consented' = consented \cup
           {<<oidc[i].account, oidc[i].client, s>> : s \in oidc[i].missing}
  BY DEF AcceptConsent, Found, TypeOK, Owned
<1> PICK x \in Grant : x = Covering(i)
  BY <1>1, CoveringIsConsented
<1>2. x.account = oidc[i].account /\ Consented(x)'
  BY <1>1, CoveringIsConsented
<1> PICK q \in Context :
       q = [op |-> "save", uid |-> i, id |-> g, grant |-> x]
  BY DEF Context
<1>3. Serve(r, q) /\ UNCHANGED <<session, oidc, accessTokens, revoked>>
  BY DEF AcceptConsent
<1>4. /\ ctx' \in [Requests -> Context]
      /\ \A p \in Requests : ctx'[p] = IF p = r THEN q ELSE ctx[p]
  BY <1>3, ServeServes
<1>5. /\ drawn \subseteq drawn' /\ drawn' \subseteq drawn \cup {g}
      /\ consented \subseteq consented'
      /\ consented' \subseteq Users \X Clients \X Scopes
  <2>1. /\ oidc[i].account \in Users /\ oidc[i].client \in Clients
        /\ oidc[i].missing \subseteq Scopes
    BY <1>1 DEF Interaction
  <2>2. drawn \subseteq drawn' /\ drawn' \subseteq drawn \cup {g}
    BY DEF AcceptConsent, Draw
  <2>3. consented \subseteq Users \X Clients \X Scopes
    BY DEF TypeOK
  <2> QED
    BY <1>1, <2>1, <2>2, <2>3
<1>6. TypeOK'
  BY <1>3, <1>4, <1>5, IdsAreDistinct DEF TypeOK
<1>7. ASSUME NEW o \in Owners, Owned(o), OfOwner(o, g, x.account)'
      PROVE  Owned(o)'
  <2>1. RequestOf(o, q)'
    BY <1>2, <1>3, <1>7 DEF RequestOf, GrantOf, Asked
  <2>2. \A p \in Requests : ctx'[p] = ctx[p] \/ RequestOf(o, ctx[p])'
    BY <1>4, <2>1
  <2> QED
    BY <1>3, <1>5, <1>7, <2>2, SameSessionKeeps
<1>8. CASE Found(oidc[i].grantId) /\ g = oidc[i].grantId
  <2>1. OfOwner(owner, g, x.account)
    BY <1>1, <1>2, <1>8 DEF InteractionOf, Found
  <2>2. OfOwner(owner, g, x.account)'
    BY <1>5, <2>1 DEF OfOwner
  <2> QED
    BY <1>6, <1>7, <2>2 DEF IInv
<1>9. CASE Fresh(g) /\ Draw(g)
  <2> DEFINE o == [owner EXCEPT ![g] = x.account]
  <2>1. /\ o \in Owners /\ o[g] = x.account
        /\ \A h \in GrantIds \ {g} : o[h] = owner[h]
    BY DEF Owners, Grant
  <2> HIDE DEF o
  <2>2. \A h \in GrantIds : \A u : OfOwner(owner, h, u) => OfOwner(o, h, u)
    BY <1>9, <2>1 DEF Fresh, OfOwner
  <2>3. Owned(o)
    <3>1. SessionOf(o)
      BY <2>2 DEF Owned, SessionOf, TypeOK, Session
    <3>2. \A j \in InteractionIds :
            oidc[j] # None => InteractionOf(o, oidc[j])
      BY <2>2 DEF Owned, InteractionOf, TypeOK, Interaction
    <3>3. \A h \in GrantIds : oidc[h] # None => GrantOf(o, h, oidc[h])
      BY <2>2 DEF Owned, GrantOf
    <3>4. ASSUME NEW p \in Requests PROVE RequestOf(o, ctx[p])
      <4>1. /\ RequestOf(owner, ctx[p])
            /\ ctx[p].op \in {"save", "finish"} => ctx[p].id \in GrantIds
        BY DEF Owned, TypeOK, Context, Idle
      <4>2. ctx[p].op \in {"save", "finish"} => ctx[p].id # g
        BY <1>9, <4>1 DEF RequestOf, GrantOf, OfOwner, Fresh
      <4> QED
        BY <2>1, <2>2, <4>1, <4>2 DEF RequestOf, GrantOf
    <3> QED
      BY <3>1, <3>2, <3>3, <3>4 DEF Owned
  <2>4. OfOwner(o, g, x.account)'
    BY <1>9, <2>1 DEF OfOwner, Draw
  <2> QED
    BY <1>6, <1>7, <2>1, <2>3, <2>4 DEF IInv
<1> QED
  BY <1>8, <1>9 DEF AcceptConsent
-----------------------------------------------------------------------------
(* Steps that change the session, and the start of a consent.              *)
LEMMA StaleKeeps ==
  ASSUME TypeOK, NEW owner \in Owners, Owned(owner),
         session' \in Session \cup {None}, SessionOf(owner)',
         oidc' = Stale(oidc), UNCHANGED <<ctx, history>>
  PROVE  IInv'
<1>1. /\ DOMAIN oidc' = Ids
      /\ \A y \in Ids \ InteractionIds : oidc'[y] = oidc[y]
      /\ \A i \in InteractionIds :
           oidc'[i] = IF oidc[i] = None THEN None
                      ELSE [oidc[i] EXCEPT !.current = FALSE]
  BY IdsAreDistinct DEF Stale, TypeOK
<1>2. ASSUME NEW i \in InteractionIds, oidc[i] # None
      PROVE  /\ oidc'[i] \in Interaction /\ InteractionOf(owner, oidc[i])'
             /\ oidc'[i].account = oidc[i].account
  <2>1. oidc[i] \in Interaction /\ InteractionOf(owner, oidc[i])
    BY <1>2 DEF TypeOK, Owned
  <2>2. /\ oidc'[i] \in Interaction
        /\ oidc'[i].account = oidc[i].account
        /\ oidc'[i].client = oidc[i].client
        /\ oidc'[i].grantId = oidc[i].grantId
        /\ oidc'[i].result = oidc[i].result
        /\ oidc'[i].current = FALSE
    BY <1>1, <1>2, <2>1 DEF Interaction
  <2> QED
    BY <2>1, <2>2 DEF InteractionOf, OfOwner, history
<1>3. TypeOK'
  BY <1>1, <1>2, IdsAreDistinct DEF TypeOK, history
<1>4. \A b : Consented(b) <=> Consented(b)'
  BY DEF Consented, history
<1>5. \A g, u : OfOwner(owner, g, u) <=> OfOwner(owner, g, u)'
  BY DEF OfOwner, history
<1>6. \A g \in GrantIds : oidc'[g] # None => GrantOf(owner, g, oidc[g])'
  BY <1>1, <1>4, <1>5, IdsAreDistinct DEF Owned, GrantOf
<1>7. \A t \in TokenIds : oidc'[t] # None => TokenOf(t, oidc[t])'
  BY <1>1, <1>4, IdsAreDistinct DEF Owned, TokenOf, history
<1>8. ASSUME NEW r \in Requests PROVE RequestOf(owner, ctx[r])'
  <2>1. RequestOf(owner, ctx[r]) /\ ctx' = ctx
    BY DEF Owned
  <2>2. ctx[r].op \in {"save", "finish"} => ctx[r].uid \in InteractionIds
    BY DEF TypeOK, Context, Idle
  <2>3. \A i \in InteractionIds : \A u : Asked(i, u) => Asked(i, u)'
    BY <1>1, <1>2 DEF Asked
  <2> QED
    BY <1>4, <1>5, <2>1, <2>2, <2>3
       DEF RequestOf, GrantOf, TokenOf, history
<1>9. \A a \in accessTokens' : Consented(a)'
  BY <1>4 DEF Owned, history
<1>10. \A i \in InteractionIds : oidc'[i] # None => InteractionOf(owner, oidc[i])'
  BY <1>1, <1>2
<1>11. Owned(owner)'
  BY <1>6, <1>7, <1>8, <1>9, <1>10 DEF Owned
<1> QED
  BY <1>3, <1>11 DEF IInv

LEMMA SignOutKeeps ==
  ASSUME TypeOK, NEW owner \in Owners, Owned(owner),
         EndSession \/ \E c \in Clients : SwitchSession(c)
  PROVE  IInv'
<1>1. /\ session' = None /\ oidc' = Stale(oidc)
      /\ UNCHANGED <<ctx, history>>
  BY DEF EndSession, SwitchSession
<1>2. SessionOf(owner)'
  BY <1>1 DEF SessionOf
<1> QED
  BY <1>1, <1>2, StaleKeeps

LEMMA SignInKeeps ==
  ASSUME TypeOK, NEW owner \in Owners, Owned(owner),
         NEW c \in Clients, NEW u \in Users, SignIn(c, u)
  PROVE  IInv'
<1>1. CASE SignedIn /\ session.account = u
  <2>1. session \in Session /\ SessionOf(owner)
    BY <1>1 DEF SignedIn, TypeOK, Owned
  <2>2. /\ session' = [session EXCEPT !.clients = @ \cup {c}]
        /\ UNCHANGED <<oidc, ctx, history>> /\ ClientOf[u] = c
    BY <1>1 DEF SignIn
  <2>3. /\ session' \in Session /\ session'.account = session.account
        /\ session'.clients = session.clients \cup {c}
        /\ session'.grants = session.grants
    BY <2>1, <2>2 DEF Session
  <2>4. TypeOK'
    BY <2>2, <2>3 DEF TypeOK, history
  <2>5. \A b : Consented(b) <=> Consented(b)'
    BY <2>2 DEF Consented, history
  <2>6. \A g, v : OfOwner(owner, g, v) <=> OfOwner(owner, g, v)'
    BY <2>2 DEF OfOwner, history
  <2>7. SessionOf(owner)'
    BY <1>1, <2>1, <2>2, <2>3, <2>6 DEF SessionOf, SignedIn
  <2>8. \A x : InteractionOf(owner, x) => InteractionOf(owner, x)'
    BY <2>3, <2>6, RecordsAssumption DEF InteractionOf
  <2>9. \A x : RequestOf(owner, x) => RequestOf(owner, x)'
    BY <2>2, <2>5, <2>6
       DEF RequestOf, GrantOf, TokenOf, Asked, history
  <2>10. Owned(owner)'
    <3>1. /\ \A i \in InteractionIds :
               oidc'[i] # None => InteractionOf(owner, oidc[i])'
          /\ \A r \in Requests : RequestOf(owner, ctx[r])'
      BY <2>2, <2>8, <2>9 DEF Owned
    <3>2. /\ \A g \in GrantIds : oidc'[g] # None => GrantOf(owner, g, oidc[g])'
          /\ \A t \in TokenIds : oidc'[t] # None => TokenOf(t, oidc[t])'
          /\ \A a \in accessTokens' : Consented(a)'
      BY <2>2, <2>5, <2>6 DEF Owned, GrantOf, TokenOf, history
    <3> QED
      BY <2>7, <3>1, <3>2 DEF Owned
  <2> QED
    BY <2>4, <2>10 DEF IInv
<1>2. CASE ~(SignedIn /\ session.account = u)
  <2>1. /\ session' = [account |-> u, clients |-> {c},
                       grants |-> [d \in Clients |-> None]]
        /\ oidc' = Stale(oidc) /\ ClientOf[u] = c
        /\ UNCHANGED <<ctx, history>>
    BY <1>2 DEF SignIn
  <2>2. session' \in Session
    BY <2>1 DEF Session
  <2>3. SessionOf(owner)'
    BY <2>1 DEF SessionOf
  <2> QED
    BY <2>1, <2>2, <2>3, StaleKeeps
<1> QED
  BY <1>1, <1>2

LEMMA AskConsentKeeps ==
  ASSUME TypeOK, NEW owner \in Owners, Owned(owner),
         NEW c \in Clients, NEW scope \in SUBSET Scopes,
         NEW i \in InteractionIds, AskConsent(c, scope, i)
  PROVE  IInv'
<1>1. /\ session # None /\ session \in Session /\ c \in session.clients
      /\ SessionOf(owner)
  BY DEF AskConsent, SignedIn, OfOtherClient, TypeOK, Owned
<1>2. /\ session.account \in Users /\ c = ClientOf[session.account]
      /\ session.grants[c] \in GrantIds \cup {None}
      /\ session.grants[c] # None =>
           OfOwner(owner, session.grants[c], session.account)
  BY <1>1 DEF Session, SessionOf
<1> DEFINE n == [account |-> session.account, client |-> c,
                 current |-> TRUE, grantId |-> session.grants[c],
                 missing |-> scope \ Granted(c), result |-> None]
<1> PICK x \in Interaction : x = n
  <2>1. n \in Interaction
    BY <1>2 DEF Interaction
  <2> QED
    BY <2>1
<1>3. InteractionOf(owner, x)
  BY <1>1, <1>2, RecordsAssumption DEF InteractionOf, Ids
<1>4. oidc' = Put(i, x) /\ UNCHANGED <<session, ctx, history>> /\ Fresh(i)
  BY DEF AskConsent
<1>5. /\ DOMAIN oidc' = Ids
      /\ \A y \in Ids : oidc'[y] = IF y = i THEN x ELSE oidc[y]
  BY <1>4, IdsAreDistinct, PutPuts
<1>6. TypeOK'
  BY <1>4, <1>5, IdsAreDistinct DEF TypeOK, history
<1>7. \A b : Consented(b) <=> Consented(b)'
  BY <1>4 DEF Consented, history
<1>8. \A g, v : OfOwner(owner, g, v) <=> OfOwner(owner, g, v)'
  BY <1>4 DEF OfOwner, history
<1>9. SessionOf(owner)'
  BY <1>1, <1>4, <1>8 DEF SessionOf
<1>10. \A z : InteractionOf(owner, z) => InteractionOf(owner, z)'
  BY <1>4, <1>8 DEF InteractionOf
<1>11. \A j \in InteractionIds : oidc'[j] # None => InteractionOf(owner, oidc[j])'
  BY <1>3, <1>5, <1>10, IdsAreDistinct DEF Owned
<1>12. /\ \A g \in GrantIds : oidc'[g] # None => GrantOf(owner, g, oidc[g])'
       /\ \A t \in TokenIds : oidc'[t] # None => TokenOf(t, oidc[t])'
       /\ \A a \in accessTokens' : Consented(a)'
  BY <1>4, <1>5, <1>7, <1>8, IdsAreDistinct
     DEF Owned, GrantOf, TokenOf, history
<1>13. ASSUME NEW r \in Requests PROVE RequestOf(owner, ctx[r])'
  <2>1. RequestOf(owner, ctx[r]) /\ ctx' = ctx
    BY <1>4 DEF Owned
  <2>2. ctx[r].op \in {"save", "finish"} =>
          ctx[r].uid \in InteractionIds \ {i}
    BY <1>4 DEF TypeOK, Context, Idle, Fresh
  <2>3. \A j \in InteractionIds \ {i} : \A v : Asked(j, v) => Asked(j, v)'
    BY <1>5, IdsAreDistinct DEF Asked
  <2> QED
    BY <1>4, <1>7, <1>8, <2>1, <2>2, <2>3
       DEF RequestOf, GrantOf, TokenOf, history
<1>14. Owned(owner)'
  BY <1>9, <1>11, <1>12, <1>13 DEF Owned
<1> QED
  BY <1>6, <1>14 DEF IInv

LEMMA ResumeConsentKeeps ==
  ASSUME TypeOK, NEW owner \in Owners, Owned(owner),
         NEW i \in InteractionIds, ResumeConsent(i)
  PROVE  IInv'
<1>1. /\ oidc[i] # None /\ oidc[i] \in Interaction
      /\ InteractionOf(owner, oidc[i])
  BY DEF ResumeConsent, Found, TypeOK, Owned
<1>2. /\ DOMAIN oidc' = Ids
      /\ \A y \in Ids : oidc'[y] = oidc[y] \/ oidc'[y] = None
      /\ UNCHANGED <<ctx, history>>
  BY IdsAreDistinct, PutPuts DEF ResumeConsent, Gone
<1>3. CASE UNCHANGED session
  BY <1>2, <1>3, RowsDroppedKeeps DEF TypeOK, history
<1>4. CASE /\ oidc[i].current /\ oidc[i].result \in GrantIds
           /\ session' = [session EXCEPT !.grants[oidc[i].client] =
                            oidc[i].result]
  <2>1. /\ session # None /\ session \in Session /\ SessionOf(owner)
        /\ session.account = oidc[i].account
        /\ OfOwner(owner, oidc[i].result, session.account)
    BY <1>1, <1>4 DEF InteractionOf, TypeOK, Owned
  <2>2. oidc[i].client \in Clients
    BY <1>1 DEF Interaction
  <2>3. /\ session' \in Session /\ session'.account = session.account
        /\ session'.clients = session.clients
        /\ \A c \in Clients : session'.grants[c] = session.grants[c]
                              \/ session'.grants[c] = oidc[i].result
    BY <1>4, <2>1, <2>2 DEF Session
  <2>4. TypeOK'
    BY <1>2, <2>3, IdsAreDistinct DEF TypeOK, history
  <2>5. \A b : Consented(b) <=> Consented(b)'
    BY <1>2 DEF Consented, history
  <2>6. \A g, v : OfOwner(owner, g, v) <=> OfOwner(owner, g, v)'
    BY <1>2 DEF OfOwner, history
  <2>7. SessionOf(owner)'
    BY <2>1, <2>3, <2>6 DEF SessionOf
  <2>8. \A x : InteractionOf(owner, x) => InteractionOf(owner, x)'
    BY <2>3, <2>6, RecordsAssumption DEF InteractionOf
  <2>9. /\ \A j \in InteractionIds :
             oidc'[j] # None => InteractionOf(owner, oidc[j])'
        /\ \A g \in GrantIds : oidc'[g] # None => GrantOf(owner, g, oidc[g])'
        /\ \A t \in TokenIds : oidc'[t] # None => TokenOf(t, oidc[t])'
        /\ \A a \in accessTokens' : Consented(a)'
    BY <1>2, <2>5, <2>6, <2>8, IdsAreDistinct
       DEF Owned, GrantOf, TokenOf, history
  <2>10. ASSUME NEW r \in Requests PROVE RequestOf(owner, ctx[r])'
    <3>1. RequestOf(owner, ctx[r]) /\ ctx' = ctx
      BY <1>2 DEF Owned
    <3>2. ctx[r].op \in {"save", "finish"} => ctx[r].uid \in InteractionIds
      BY DEF TypeOK, Context, Idle
    <3>3. \A j \in InteractionIds : \A u : Asked(j, u) => Asked(j, u)'
      BY <1>2, IdsAreDistinct DEF Asked
    <3> QED
      BY <1>2, <2>5, <2>6, <3>1, <3>2, <3>3
         DEF RequestOf, GrantOf, TokenOf, history
  <2>11. Owned(owner)'
    BY <2>7, <2>9, <2>10 DEF Owned
  <2> QED
    BY <2>4, <2>11 DEF IInv
<1> QED
  BY <1>3, <1>4 DEF ResumeConsent
-----------------------------------------------------------------------------
LEMMA NextKeeps == IInv /\ [Next]_vars => IInv'
<1> SUFFICES ASSUME IInv, [Next]_vars PROVE IInv'
  OBVIOUS
<1> PICK owner \in Owners : Owned(owner)
  BY DEF IInv
<1>1. TypeOK
  BY DEF IInv
<1>2. CASE Browser
  BY <1>1, <1>2, SignOutKeeps, SignInKeeps, AskConsentKeeps, IssueCodeKeeps,
     RejectConsentKeeps, ResumeConsentKeeps
     DEF Browser
<1>3. CASE Serving
  <2> PICK r \in Requests :
         \/ \E i \in InteractionIds, g \in GrantIds : AcceptConsent(r, i, g)
         \/ SaveGrant(r) \/ FinishConsent(r)
         \/ \E t \in TokenIds : \/ RedeemOnce(r, t) \/ RedeemKept(r, t)
                                \/ Replay(r, t) \/ Revoke(r, t) \/ Answer(r, t)
         \/ ConsumeRead(r) \/ ConsumeSave(r)
         \/ \E id \in Ids : RevokeNext(r, id)
         \/ RevokeEnd(r)
    BY <1>3 DEF Serving
  <2>1. ASSUME NEW t \in TokenIds, Replay(r, t) \/ Revoke(r, t)
        PROVE  IInv'
    BY <1>1, <2>1, RevokeGrantKeeps DEF Replay, Revoke
  <2> QED
    BY <1>1, <2>1, AcceptConsentKeeps, SaveGrantKeeps, FinishConsentKeeps,
       RedeemKeeps, AnswerKeeps, ConsumeReadKeeps, ConsumeSaveKeeps,
       RevokeNextKeeps, RevokeEndKeeps
<1>4. CASE Time
  BY <1>1, <1>4, ExpireKeeps, ExpireTokenKeeps, DropExpiredKeeps, CleanupKeeps
     DEF Time
<1>5. CASE UNCHANGED vars
  BY <1>1, <1>5, RowsDroppedKeeps DEF vars, history, TypeOK
<1> QED
  BY <1>1, <1>2, <1>3, <1>4, <1>5, RestartKeeps DEF Next

THEOREM Inductive == Spec => []IInv
<1> QED
  BY InitHolds, NextKeeps, PTL DEF Spec

(* Session, rows, requests and what was issued keep their shape.           *)
THEOREM TypeCorrect == Spec => []TypeOK
<1>1. IInv => TypeOK
  BY DEF IInv
<1> QED
  BY <1>1, Inductive, PTL

(* Every access token is for an account at its own client and for scopes   *)
(* that this account accepted there.                                       *)
THEOREM AccessRestsOnConsent == Spec => []TokensRestOnConsent
<1>1. IInv => TokensRestOnConsent
  BY DEF IInv, Owned, Consented, TokensRestOnConsent
<1> QED
  BY <1>1, Inductive, PTL
-----------------------------------------------------------------------------
(* The life of a token.  A step either gives out one token and leaves the  *)
(* rows of all others alone, or makes no token usable.                     *)
Issuing(t) ==
  /\ t \notin drawn /\ drawn' = drawn \cup {t} /\ Usable(t)'
  /\ \A x \in TokenIds \ {t} : oidc'[x] = oidc[x]

Retiring ==
  /\ drawn' \cap TokenIds = drawn \cap TokenIds
  /\ \A t \in TokenIds : Usable(t)' => Usable(t)

Lives == Retiring \/ \E t \in TokenIds : Issuing(t)

\* Rows that are left, taken away or made later are used by nobody new.
LEMMA RowsRetire ==
  ASSUME drawn' \cap TokenIds = drawn \cap TokenIds,
         \A t \in TokenIds : \/ oidc'[t] = oidc[t] \/ oidc'[t] = None
                             \/ oidc'[t].consumed \/ oidc'[t].expired
  PROVE  Lives
  BY DEF Lives, Retiring, Usable, Found

LEMMA NewTokenLives ==
  ASSUME TypeOK, NEW t \in TokenIds, NEW b \in Bearer,
         NEW model \in {"AuthorizationCode", "RefreshToken"},
         Fresh(t), Draw(t), oidc' = Put(t, NewToken(model, b))
  PROVE  Lives
<1>1. \A x \in TokenIds :
        oidc'[x] = IF x = t THEN NewToken(model, b) ELSE oidc[x]
  BY PutPuts, IdsAreDistinct
<1>2. t # None
  BY RecordsAssumption DEF Ids
<1> QED
  BY <1>1, <1>2, NewTokens DEF Lives, Issuing, Usable, Found, Draw, Fresh

\* Steps that leave the rows of tokens alone, or take them away.
LEMMA BrowserLives ==
  ASSUME TypeOK, NEW owner \in Owners, Owned(owner), Browser
  PROVE  Lives
<1>1. ASSUME NEW c \in Clients, NEW scope \in SUBSET Scopes,
             NEW t \in TokenIds, IssueCode(c, scope, t)
      PROVE  Lives
  <2> PICK b \in Bearer : b = CodeBearer(c, scope)
    BY <1>1, CodesAreConsented
  <2> QED
    BY <1>1, NewTokenLives DEF IssueCode, CodeBearer
<1>2. CASE \/ EndSession
           \/ \E c \in Clients : SwitchSession(c)
           \/ \E c \in Clients, u \in Users : SignIn(c, u)
  <2>1. UNCHANGED drawn /\ (oidc' = oidc \/ oidc' = Stale(oidc))
    BY <1>2 DEF EndSession, SwitchSession, SignIn, history
  <2>2. \A t \in TokenIds : oidc'[t] = oidc[t]
    BY <2>1, IdsAreDistinct DEF Stale
  <2> QED
    BY <2>1, <2>2, RowsRetire
<1>3. ASSUME NEW i \in InteractionIds,
             \/ RejectConsent(i) \/ ResumeConsent(i)
             \/ \E c \in Clients, scope \in SUBSET Scopes :
                  AskConsent(c, scope, i)
      PROVE  Lives
  <2>1. UNCHANGED drawn
    BY <1>3 DEF RejectConsent, ResumeConsent, AskConsent, history
  <2>2. \A t \in TokenIds : oidc'[t] = oidc[t]
    BY <1>3, IdsAreDistinct
       DEF RejectConsent, ResumeConsent, AskConsent, Gone, Put, TypeOK
  <2> QED
    BY <2>1, <2>2, RowsRetire
<1> QED
  BY <1>1, <1>2, <1>3 DEF Browser

LEMMA ServingLives ==
  ASSUME TypeOK, NEW owner \in Owners, Owned(owner), Serving
  PROVE  Lives
<1> PICK r \in Requests :
       \/ \E i \in InteractionIds, g \in GrantIds : AcceptConsent(r, i, g)
       \/ SaveGrant(r) \/ FinishConsent(r)
       \/ \E t \in TokenIds : \/ RedeemOnce(r, t) \/ RedeemKept(r, t)
                              \/ Replay(r, t) \/ Revoke(r, t) \/ Answer(r, t)
       \/ ConsumeRead(r) \/ ConsumeSave(r)
       \/ \E id \in Ids : RevokeNext(r, id)
       \/ RevokeEnd(r)
  BY DEF Serving
<1>1. CASE \/ \E t \in TokenIds : \/ RedeemOnce(r, t) \/ RedeemKept(r, t)
                                  \/ Replay(r, t) \/ Revoke(r, t)
           \/ ConsumeRead(r) \/ RevokeEnd(r)
  <2>1. UNCHANGED <<oidc, drawn>>
    BY <1>1 DEF RedeemOnce, RedeemKept, Replay, Revoke, RevokeGrant,
                ConsumeRead, RevokeEnd, history
  <2> QED
    BY <2>1, RowsRetire
<1>2. ASSUME NEW i \in InteractionIds, NEW g \in GrantIds,
             AcceptConsent(r, i, g)
      PROVE  Lives
  <2>1. UNCHANGED oidc /\ drawn' \cap TokenIds = drawn \cap TokenIds
    BY <1>2, IdsAreDistinct DEF AcceptConsent, Draw
  <2> QED
    BY <2>1, RowsRetire
<1>3. CASE SaveGrant(r) \/ FinishConsent(r)
  <2>1. ctx[r].id \in GrantIds /\ ctx[r].uid \in InteractionIds
    BY <1>3 DEF SaveGrant, FinishConsent, TypeOK, Context, Idle
  <2>2. /\ UNCHANGED drawn
        /\ \A t \in TokenIds : oidc'[t] = oidc[t]
    BY <1>3, <2>1, IdsAreDistinct
       DEF SaveGrant, FinishConsent, Put, TypeOK, history
  <2> QED
    BY <2>2, RowsRetire
<1>4. CASE ConsumeSave(r)
  <2>1. ctx[r].id \in TokenIds /\ ctx[r].read \in Token
    BY <1>4 DEF ConsumeSave, TypeOK, Context, Idle
  <2>2. /\ UNCHANGED drawn
        /\ \A t \in TokenIds : oidc'[t] = oidc[t] \/ oidc'[t].consumed
    BY <1>4, <2>1, IdsAreDistinct DEF ConsumeSave, Put, TypeOK, Token, history
  <2> QED
    BY <2>2, RowsRetire
<1>5. ASSUME NEW t \in TokenIds, Answer(r, t) PROVE Lives
  <2> PICK b \in Bearer : b = ctx[r].bearer
    BY <1>5 DEF Answer, TypeOK, Context, Idle
  <2> QED
    BY <1>5, NewTokenLives, RowsRetire DEF Answer
<1>6. ASSUME NEW id \in Ids, RevokeNext(r, id) PROVE Lives
  <2>1. /\ UNCHANGED drawn
        /\ \A t \in TokenIds : oidc'[t] = oidc[t] \/ oidc'[t] = None
    BY <1>6, PutPuts, IdsAreDistinct DEF RevokeNext, Gone, history
  <2> QED
    BY <2>1, RowsRetire
<1> QED
  BY <1>1, <1>2, <1>3, <1>4, <1>5, <1>6

LEMMA TimeLives ==
  ASSUME TypeOK, Time
  PROVE  Lives
<1>1. UNCHANGED drawn
  BY DEF Time, Expire, ExpireToken, DropExpired, Cleanup, history
<1>2. ASSUME NEW t \in TokenIds, ExpireToken(t)
      PROVE  \A x \in TokenIds : oidc'[x] = oidc[x] \/ oidc'[x].expired
  BY <1>2, IdsAreDistinct DEF ExpireToken, Put, TypeOK, Token
<1>3. CASE \/ \E id \in Ids : Expire(id)
           \/ \E t \in TokenIds : DropExpired(t)
           \/ Cleanup
  <2>1. \A t \in TokenIds : oidc'[t] = oidc[t] \/ oidc'[t] = None
    BY <1>3, PutPuts, IdsAreDistinct DEF Expire, DropExpired, Cleanup, Gone
  <2> QED
    BY <1>1, <2>1, RowsRetire
<1> QED
  BY <1>1, <1>2, <1>3, RowsRetire DEF Time

LEMMA NextLives == IInv /\ [Next]_vars => Lives
<1> SUFFICES ASSUME IInv, [Next]_vars PROVE Lives
  OBVIOUS
<1> PICK owner \in Owners : Owned(owner)
  BY DEF IInv
<1>1. TypeOK
  BY DEF IInv
<1>2. CASE Restart \/ UNCHANGED vars
  BY <1>2, RowsRetire DEF Restart, vars, history
<1> QED
  BY <1>1, <1>2, BrowserLives, ServingLives, TimeLives DEF Next

(* The store of codes and refresh tokens implements TokenLife: each is     *)
(* issued once and is usable until it is used up, revoked or expired, and  *)
(* never again.                                                            *)
THEOREM StoreImplementsTokenLife == Spec => TokensLiveOnce
<1> DEFINE life == [t \in TokenIds |-> LifeOf(t)]
<1>1. Init => Life!Init
  BY DEF Init, Life!Init, LifeOf
<1>2. IInv /\ [Next]_vars => [Life!Next]_life
  <2> SUFFICES ASSUME Lives, ~UNCHANGED life PROVE Life!Next
    BY NextLives
  <2>1. CASE Retiring
    <3> DEFINE T == {t \in TokenIds : LifeOf(t) = "usable" /\ ~Usable(t)'}
    <3>1. Life!Retire(T)
      BY <2>1 DEF Life!Retire, Retiring, LifeOf
    <3> QED
      BY <3>1 DEF Life!Next
  <2>2. ASSUME NEW t \in TokenIds, Issuing(t) PROVE Life!Next
    <3>1. Life!Issue(t)
      BY <2>2 DEF Life!Issue, Issuing, LifeOf, Usable, Found
    <3> QED
      BY <3>1 DEF Life!Next
  <2> QED
    BY <2>1, <2>2 DEF Lives
<1> QED
  BY <1>1, <1>2, Inductive, PTL DEF Spec, TokensLiveOnce, Life!Spec
-----------------------------------------------------------------------------
(* What a revocation is through with has been given out and is not usable. *)
RevokesInv ==
  \A r \in Requests : ctx[r].op = "revoke" =>
    /\ ctx[r].ids \cap TokenIds \subseteq drawn
    /\ \A t \in (ctx[r].ids \cap TokenIds) \ ctx[r].rest : ~Usable(t)

RevokedInv == /\ revoked \subseteq drawn
              /\ RevokesInv
              /\ RevokedStaysRevoked

\* What has been given out and is not usable stays so.
LEMMA RetiredStays ==
  ASSUME Lives, NEW t \in TokenIds, t \in drawn, ~Usable(t)
  PROVE  t \in drawn' /\ ~Usable(t)'
  BY DEF Lives, Retiring, Issuing, Usable, Found

LEMMA RevokedKeeps ==
  ASSUME TypeOK, RevokedInv, Lives, UNCHANGED revoked,
         \A r \in Requests : \/ ctx'[r] = ctx[r]
                             \/ ctx'[r].op # "revoke"
                             \/ /\ ctx'[r].ids \cap TokenIds \subseteq drawn
                                /\ ctx'[r].rest = ctx'[r].ids
  PROVE  RevokedInv'
<1>1. revoked' \subseteq drawn' /\ RevokedStaysRevoked'
  BY RetiredStays DEF RevokedInv, RevokedStaysRevoked, TypeOK
<1>2. RevokesInv'
  <2> SUFFICES ASSUME NEW r \in Requests, ctx'[r].op = "revoke"
               PROVE  /\ ctx'[r].ids \cap TokenIds \subseteq drawn'
                      /\ \A t \in (ctx'[r].ids \cap TokenIds) \ ctx'[r].rest :
                           ~Usable(t)'
    BY DEF RevokesInv
  <2>1. drawn \cap TokenIds \subseteq drawn'
    BY DEF Lives, Retiring, Issuing
  <2>2. CASE ctx'[r] = ctx[r]
    BY <2>1, <2>2, RetiredStays DEF RevokedInv, RevokesInv
  <2>3. CASE ctx'[r] # ctx[r]
    BY <2>1, <2>3
  <2> QED
    BY <2>2, <2>3
<1> QED
  BY <1>1, <1>2 DEF RevokedInv

LEMMA RevokeNextRevokes ==
  ASSUME TypeOK, RevokedInv, Lives, NEW r \in Requests, NEW id \in Ids,
         RevokeNext(r, id)
  PROVE  RevokedInv'
<1>1. /\ ctx[r].op = "revoke" /\ ctx[r].ids \subseteq Ids
      /\ ctx'[r].op = "revoke" /\ ctx'[r].ids = ctx[r].ids
      /\ ctx'[r].rest = ctx[r].rest \ {id}
      /\ \A p \in Requests \ {r} : ctx'[p] = ctx[p]
  BY DEF RevokeNext, Serve, TypeOK, Context, Idle
<1>2. UNCHANGED <<revoked, drawn>> /\ oidc'[id] = None
  BY PutPuts DEF RevokeNext, Gone, history
<1>3. revoked' \subseteq drawn' /\ RevokedStaysRevoked'
  BY <1>2, RetiredStays DEF RevokedInv, RevokedStaysRevoked, TypeOK
<1>4. \A t \in (ctx[r].ids \cap TokenIds) \ ctx'[r].rest : ~Usable(t)'
  <2> SUFFICES ASSUME NEW t \in (ctx[r].ids \cap TokenIds) \ ctx'[r].rest
               PROVE  ~Usable(t)'
    OBVIOUS
  <2>1. CASE t = id
    BY <1>2, <2>1 DEF Usable, Found
  <2>2. CASE t # id
    BY <1>1, <2>2, RetiredStays DEF RevokedInv, RevokesInv
  <2> QED
    BY <2>1, <2>2
<1>5. RevokesInv'
  <2> SUFFICES ASSUME NEW p \in Requests, ctx'[p].op = "revoke"
               PROVE  RevokesInv!(p)'
    BY DEF RevokesInv
  <2>1. CASE p = r
    BY <1>1, <1>2, <1>4, <2>1 DEF RevokedInv, RevokesInv
  <2>2. CASE p # r
    BY <1>1, <1>2, <2>2, RetiredStays DEF RevokedInv, RevokesInv
  <2> QED
    BY <2>1, <2>2
<1> QED
  BY <1>3, <1>5 DEF RevokedInv

LEMMA RevokeEndRevokes ==
  ASSUME TypeOK, RevokedInv, Lives, NEW r \in Requests, RevokeEnd(r)
  PROVE  RevokedInv'
<1>1. /\ UNCHANGED <<oidc, drawn>>
      /\ revoked' = revoked \cup (ctx[r].ids \cap TokenIds)
      /\ ctx[r].op = "revoke" /\ ctx[r].rest = {}
  BY DEF RevokeEnd, LastRevoked
<1>2. /\ ctx'[r].op # "revoke"
      /\ \A p \in Requests \ {r} : ctx'[p] = ctx[p]
  BY DEF RevokeEnd, Done, Serve, TypeOK, Idle
<1>3. \A t : Usable(t)' <=> Usable(t)
  BY <1>1 DEF Usable, Found
<1>4. /\ ctx[r].ids \cap TokenIds \subseteq drawn
      /\ \A t \in ctx[r].ids \cap TokenIds : ~Usable(t)
  BY <1>1 DEF RevokedInv, RevokesInv
<1>5. revoked' \subseteq drawn' /\ RevokedStaysRevoked'
  BY <1>1, <1>3, <1>4 DEF RevokedInv, RevokedStaysRevoked
<1>6. RevokesInv'
  BY <1>1, <1>2, <1>3 DEF RevokedInv, RevokesInv
<1> QED
  BY <1>5, <1>6 DEF RevokedInv

LEMMA NextRevokes == IInv /\ RevokedInv /\ [Next]_vars => RevokedInv'
<1> SUFFICES ASSUME IInv, RevokedInv, [Next]_vars PROVE RevokedInv'
  OBVIOUS
<1> PICK owner \in Owners : Owned(owner)
  BY DEF IInv
<1>1. TypeOK /\ Lives
  BY NextLives DEF IInv
<1>2. \A t \in TokenIds : oidc[t] # None => t \in drawn
  BY DEF Owned, TokenOf
<1>3. ASSUME NEW r \in Requests, NEW t \in TokenIds, Replay(r, t) \/ Revoke(r, t)
      PROVE  RevokedInv'
  <2> PICK g : RevokeGrant(r, g)
    BY <1>3 DEF Replay, Revoke
  <2>1. /\ ctx'[r].ids = ByGrant(g) /\ ctx'[r].rest = ByGrant(g)
        /\ \A p \in Requests \ {r} : ctx'[p] = ctx[p]
        /\ UNCHANGED revoked
    BY <1>1 DEF RevokeGrant, Serve, TypeOK, history
  <2>2. ByGrant(g) \cap TokenIds \subseteq drawn
    BY <1>2 DEF ByGrant
  <2> QED
    BY <1>1, <2>1, <2>2, RevokedKeeps
<1>4. CASE Browser
  <2>1. UNCHANGED <<ctx, revoked>>
    BY <1>4 DEF Browser, SwitchSession, SignIn, AskConsent, IssueCode,
                RejectConsent, ResumeConsent, EndSession, history
  <2> QED
    BY <1>1, <2>1, RevokedKeeps
<1>5. CASE Time
  <2>1. UNCHANGED revoked
    BY <1>5 DEF Time, Expire, ExpireToken, DropExpired, Cleanup, history
  <2>2. ASSUME NEW t \in TokenIds, ExpireToken(t), NEW r \in Requests
        PROVE  ctx'[r] = ctx[r] \/ ctx'[r].op # "revoke"
    BY <1>1, <2>2 DEF ExpireToken, TypeOK, Context, Idle
  <2>3. \A r \in Requests : ctx'[r] = ctx[r] \/ ctx'[r].op # "revoke"
    BY <1>5, <2>2 DEF Time, Expire, DropExpired, Cleanup
  <2> QED
    BY <1>1, <2>1, <2>3, RevokedKeeps
<1>6. CASE Restart \/ UNCHANGED vars
  <2>1. UNCHANGED revoked
    BY <1>6 DEF Restart, vars, history
  <2>2. \A r \in Requests : ctx'[r] = ctx[r] \/ ctx'[r].op = "idle"
    BY <1>6 DEF Restart, vars, Idle
  <2> QED
    BY <1>1, <2>1, <2>2, RevokedKeeps
<1>7. ASSUME NEW r \in Requests,
             \/ \E i \in InteractionIds, g \in GrantIds : AcceptConsent(r, i, g)
             \/ SaveGrant(r) \/ FinishConsent(r)
             \/ \E t \in TokenIds : \/ RedeemOnce(r, t) \/ RedeemKept(r, t)
                                    \/ Answer(r, t)
             \/ ConsumeRead(r) \/ ConsumeSave(r)
      PROVE  RevokedInv'
  <2>1. UNCHANGED revoked
    BY <1>7 DEF AcceptConsent, SaveGrant, FinishConsent, RedeemOnce,
                RedeemKept, Answer, ConsumeRead, ConsumeSave, history
  <2>2. \E q : Serve(r, q) /\ q.op # "revoke"
    <3>1. CASE \E i \in InteractionIds, g \in GrantIds : AcceptConsent(r, i, g)
      BY <3>1 DEF AcceptConsent
    <3>2. CASE SaveGrant(r) \/ FinishConsent(r)
      BY <3>2 DEF SaveGrant, FinishConsent, Done, Idle
    <3>3. CASE \E t \in TokenIds : \/ RedeemOnce(r, t) \/ RedeemKept(r, t)
                                   \/ Answer(r, t)
      BY <3>3 DEF RedeemOnce, RedeemKept, Answer, Done, Idle
    <3>4. CASE ConsumeRead(r) \/ ConsumeSave(r)
      BY <3>4 DEF ConsumeRead, ConsumeSave, Issue
    <3> QED
      BY <1>7, <3>1, <3>2, <3>3, <3>4
  <2>3. \A p \in Requests : ctx'[p] = ctx[p] \/ ctx'[p].op # "revoke"
    BY <1>1, <2>2 DEF Serve, TypeOK
  <2> QED
    BY <1>1, <2>1, <2>3, RevokedKeeps
<1> QED
  BY <1>1, <1>3, <1>4, <1>5, <1>6, <1>7, RevokeNextRevokes, RevokeEndRevokes
     DEF Next, Serving

(* What a finished replay or revocation found of its grant cannot be used  *)
(* again, whatever redemptions were in flight.                             *)
THEOREM RevocationsHold == Spec => []RevokedStaysRevoked
<1>1. Init => RevokedInv
  BY DEF Init, RevokedInv, RevokesInv, RevokedStaysRevoked, Idle
<1>2. RevokedInv => RevokedStaysRevoked
  BY DEF RevokedInv
<1> QED
  BY <1>1, <1>2, Inductive, NextRevokes, PTL DEF Spec
=============================================================================
