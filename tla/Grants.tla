------------------------------- MODULE Grants -------------------------------
(***************************************************************************)
(* One browser's sign-on at the OIDC provider: the records the provider    *)
(* keeps through OidcAdapter, the change of client in a browser (a         *)
(* middleware of OidcOptionsService), the consent handler of               *)
(* OidcInteractionController, the redemption and revocation of codes and   *)
(* refresh tokens as the adapter's operations let them run, and the        *)
(* clean-up job.                                                           *)
(***************************************************************************)
EXTENDS FiniteSets

CONSTANTS Users, Clients,
          ClientOf,      \* the client an account belongs to
          Scopes,        \* the scopes a client may ask for
          InteractionIds, GrantIds, TokenIds,
          Requests, None

ASSUME GrantsAssumption == ClientOf \in [Users -> Clients]

VARIABLES
  session,       \* the Session record that the browser's cookie names
  oidc,          \* the other rows of the oidc table: one or None per id
  ctx            \* the requests in flight

(* History: ids of grants and tokens given out, scopes the users accepted, *)
(* access tokens issued, tokens that a finished revocation found.          *)
VARIABLES drawn, consented, accessTokens, revoked

history == <<drawn, consented, accessTokens, revoked>>
vars == <<session, oidc, ctx, history>>

Ids == InteractionIds \cup GrantIds \cup TokenIds

Session == [account : Users, clients : SUBSET Clients,
            grants : [Clients -> GrantIds \cup {None}]]
\* Interactions with the prompt "consent"; those with "login" are MfaLogin's.
Interaction ==
  [account : Users, client : Clients,
   current : BOOLEAN,    \* its session is still the one of the cookie
   grantId : GrantIds \cup {None}, missing : SUBSET Scopes,
   result : {None, "denied"} \cup GrantIds]
Grant == [account : Users, client : Clients, scope : SUBSET Scopes]
\* Who a token speaks for, and with which scopes.
Bearer == [account : Users, client : Clients, grantId : GrantIds,
           scope : SUBSET Scopes]
Token == [model : {"AuthorizationCode", "RefreshToken"}, bearer : Bearer,
          grantId : GrantIds, consumed : BOOLEAN, expired : BOOLEAN]

\* An id names one kind of row, and NULL is neither an id nor a record.
ASSUME RecordsAssumption ==
  /\ InteractionIds \cap GrantIds = {} /\ TokenIds \cap GrantIds = {}
  /\ InteractionIds \cap TokenIds = {}
  /\ None \notin Ids /\ "denied" \notin GrantIds
  /\ None \notin Session \cup Interaction \cup Grant \cup Token

Idle == [op |-> "idle"]
Context == {Idle}
  \cup [op : {"save"}, uid : InteractionIds, id : GrantIds, grant : Grant]
  \cup [op : {"finish"}, uid : InteractionIds, id : GrantIds]
  \cup [op : {"consume"}, id : TokenIds, bearer : Bearer]
  \cup [op : {"consuming"}, id : TokenIds, bearer : Bearer, read : Token]
  \cup [op : {"issue"}, bearer : Bearer, renew : BOOLEAN]
  \cup [op : {"revoke"}, ids : SUBSET Ids, rest : SUBSET Ids]

TypeOK ==
  /\ session \in Session \cup {None}
  /\ DOMAIN oidc = Ids
  /\ \A i \in InteractionIds : oidc[i] \in Interaction \cup {None}
  /\ \A g \in GrantIds : oidc[g] \in Grant \cup {None}
  /\ \A t \in TokenIds : oidc[t] \in Token \cup {None}
  /\ ctx \in [Requests -> Context]
  /\ drawn \subseteq Ids /\ revoked \subseteq TokenIds
  /\ consented \subseteq Users \X Clients \X Scopes
  /\ accessTokens \subseteq [account : Users, client : Clients,
                             scope : SUBSET Scopes]

Init ==
  /\ session = None
  /\ oidc = [id \in Ids |-> None]
  /\ ctx = [r \in Requests |-> Idle]
  /\ drawn = {} /\ consented = {} /\ accessTokens = {} /\ revoked = {}
-----------------------------------------------------------------------------
(* OidcAdapter on the table.  The time of an interaction, grant or session *)
(* is up: find does not return it, so it is as good as deleted.  Tokens are*)
(* also read without a look at their time, by consume.                     *)

\* find: a row whose time is up is no answer.
Found(id) == /\ id # None /\ oidc[id] # None
             /\ id \in TokenIds => ~oidc[id].expired

Put(id, record) == [oidc EXCEPT ![id] = record]
Gone(id) == Put(id, None)

\* A random id that nothing stored, and no request in flight, has.  Tokens
\* and grants are never drawn twice; uids of interactions are used again.
Fresh(id) ==
  /\ id \notin drawn /\ oidc[id] = None
  /\ \A r \in Requests : ctx[r].op \in {"save", "finish"} => ctx[r].uid # id
Draw(id) == drawn' = drawn \cup {id}

\* The rows with this value in their grantId column.
ByGrant(g) == {id \in InteractionIds \cup TokenIds :
                 oidc[id] # None /\ oidc[id].grantId = g}

Serve(r, c) == ctx' = [ctx EXCEPT ![r] = c]
Done(r) == Serve(r, Idle)

Expire(id) ==
  /\ id \notin TokenIds /\ oidc[id] # None
  /\ oidc' = Gone(id)
  /\ UNCHANGED <<session, ctx, history>>

\* A token's time is up, in the table and in what consume has read of it.
ExpireToken(t) ==
  LET Late(token) == [token EXCEPT !.expired = TRUE] IN
  /\ oidc' = IF oidc[t] = None THEN oidc ELSE Put(t, Late(oidc[t]))
  /\ ctx' = [r \in Requests |->
               IF ctx[r].op = "consuming" /\ ctx[r].id = t
                 THEN [ctx[r] EXCEPT !.read = Late(@)] ELSE ctx[r]]
  /\ UNCHANGED <<session, history>>

(* find of a record whose time is up deletes it. *)
DropExpired(t) ==
  /\ oidc[t] # None /\ ~Found(t)
  /\ oidc' = Gone(t)
  /\ UNCHANGED <<session, ctx, history>>

(* The cron job of OidcCleanupService deletes all of them. *)
Cleanup ==
  /\ oidc' = [id \in Ids |-> IF Found(id) THEN oidc[id] ELSE None]
  /\ UNCHANGED <<session, ctx, history>>
-----------------------------------------------------------------------------
(* GET /auth?client_id=c&scope=... of the browser. *)

SignedIn == session # None

\* The session ends or is replaced: what it was asked before is stale.
Stale(table) ==
  [id \in Ids |-> IF id \in InteractionIds /\ table[id] # None
                    THEN [table[id] EXCEPT !.current = FALSE] ELSE table[id]]

\* Faulty middleware: a session is good for every client.
OfOtherClientNever(c) == FALSE

\* session.sidFor(c): the session has not been used with client c.
OfOtherClient(c) == c \notin session.clients

(* Such a session is destroyed with its cookie; the browser is sent to the *)
(* same URL again.                                                         *)
SwitchSession(c) ==
  /\ SignedIn /\ OfOtherClient(c)
  /\ session' = None
  /\ oidc' = Stale(oidc)
  /\ UNCHANGED <<ctx, history>>

(* Without a session there is a login for c, which ends (module MfaLogin)  *)
(* with an account of c; by then another tab may have signed in, too, and  *)
(* the provider puts the new account's session in the place of that one.   *)
SignIn(c, u) ==
  /\ ClientOf[u] = c
  /\ IF SignedIn /\ session.account = u
       THEN /\ session' = [session EXCEPT !.clients = @ \cup {c}]
            /\ UNCHANGED oidc
       ELSE /\ session' = [account |-> u, clients |-> {c},
                           grants |-> [d \in Clients |-> None]]
            /\ oidc' = Stale(oidc)
  /\ UNCHANGED <<ctx, history>>

\* What the session's grant for c covers.
Granted(c) == LET g == session.grants[c] IN
              IF Found(g) THEN oidc[g].scope ELSE {}

\* With one, the user is asked for what the session's grant does not cover ...
AskConsent(c, scope, i) ==
  /\ SignedIn /\ ~OfOtherClient(c) /\ Fresh(i)
  /\ scope \ Granted(c) # {}
  /\ oidc' = Put(i, [account |-> session.account, client |-> c,
                     current |-> TRUE,
                     grantId |-> session.grants[c],
                     missing |-> scope \ Granted(c), result |-> None])
  /\ UNCHANGED <<session, ctx, history>>

\* Faulty upsert: the grantId is not copied into its column.
NewTokenUnfiled(model, b) == [model |-> model, bearer |-> b, grantId |-> None,
                              consumed |-> FALSE, expired |-> FALSE]

NewToken(model, b) == [model |-> model, bearer |-> b, grantId |-> b.grantId,
                       consumed |-> FALSE, expired |-> FALSE]

\* ... or there is an authorization code.
IssueCode(c, scope, t) ==
  /\ SignedIn /\ ~OfOtherClient(c) /\ Fresh(t)
  /\ scope # {} /\ scope \subseteq Granted(c)
  /\ oidc' = Put(t, NewToken("AuthorizationCode",
                             [account |-> session.account, client |-> c,
                              grantId |-> session.grants[c], scope |-> scope]))
  /\ Draw(t)
  /\ UNCHANGED <<session, ctx, consented, accessTokens, revoked>>

\* The session's time is up, or GET /session/end is confirmed.
EndSession ==
  /\ SignedIn
  /\ session' = None
  /\ oidc' = Stale(oidc)
  /\ UNCHANGED <<ctx, history>>
-----------------------------------------------------------------------------
(* POST /interaction/:uid/consent, and the end of the interaction. *)

RejectConsent(i) ==
  /\ Found(i)
  /\ oidc' = [oidc EXCEPT ![i].result = "denied"]
  /\ UNCHANGED <<session, ctx, history>>

\* The grant the interaction names, or a new one, with what was missing.
Covering(i) ==
  LET g == oidc[i].grantId IN
  IF Found(g) THEN [oidc[g] EXCEPT !.scope = @ \cup oidc[i].missing]
  ELSE [account |-> oidc[i].account, client |-> oidc[i].client,
        scope |-> oidc[i].missing]

(* The user accepts: the interaction and its grant are read.               *)
AcceptConsent(r, i, g) ==
  /\ ctx[r] = Idle
  /\ Found(i)
  /\ IF Found(oidc[i].grantId) THEN g = oidc[i].grantId /\ UNCHANGED drawn
                               ELSE Fresh(g) /\ Draw(g)
  /\ Serve(r, [op |-> "save", uid |-> i, id |-> g, grant |-> Covering(i)])
  /\ consented' = consented \cup
       {<<oidc[i].account, oidc[i].client, s>> : s \in oidc[i].missing}
  /\ UNCHANGED <<session, oidc, accessTokens, revoked>>

\* grant.save(), which writes the whole record.
SaveGrant(r) ==
  /\ ctx[r].op = "save"
  /\ oidc' = Put(ctx[r].id, ctx[r].grant)
  /\ Serve(r, [op |-> "finish", uid |-> ctx[r].uid, id |-> ctx[r].id])
  /\ UNCHANGED <<session, history>>

\* interaction.finished, which throws if the interaction has gone.
FinishConsent(r) ==
  /\ ctx[r].op = "finish"
  /\ IF Found(ctx[r].uid)
       THEN oidc' = [oidc EXCEPT ![ctx[r].uid].result = ctx[r].id]
       ELSE UNCHANGED oidc
  /\ Done(r)
  /\ UNCHANGED <<session, history>>

(* The provider resumes /auth/:uid: the grant joins the session, if it is  *)
(* still the one that was asked; otherwise, and after a refusal, the       *)
(* authorization ends.                                                     *)
ResumeConsent(i) ==
  /\ Found(i) /\ oidc[i].result \in GrantIds \cup {"denied"}
  /\ oidc' = Gone(i)
  /\ session' = IF oidc[i].current /\ oidc[i].result \in GrantIds
                  THEN [session EXCEPT !.grants[oidc[i].client] = oidc[i].result]
                  ELSE session
  /\ UNCHANGED <<ctx, history>>
-----------------------------------------------------------------------------
(* POST /token with a code or a refresh token, POST /token/revocation. *)

Redeemable(t) == Found(t) /\ Found(oidc[t].grantId)

\* What a token is good for: no more than its grant still covers.
BearerOf(t) ==
  [oidc[t].bearer EXCEPT !.scope = @ \cap oidc[oidc[t].grantId].scope]

\* A code, and a refresh token that is rotated, is consumed first.
RedeemOnce(r, t) ==
  /\ ctx[r] = Idle
  /\ Redeemable(t) /\ ~oidc[t].consumed
  /\ Serve(r, [op |-> "consume", id |-> t, bearer |-> BearerOf(t)])
  /\ UNCHANGED <<session, oidc, history>>

\* The provider rotates a refresh token only of some clients and ages.
RedeemKept(r, t) ==
  /\ ctx[r] = Idle
  /\ Redeemable(t) /\ ~oidc[t].consumed /\ oidc[t].model = "RefreshToken"
  /\ Serve(r, [op |-> "issue", bearer |-> BearerOf(t), renew |-> FALSE])
  /\ UNCHANGED <<session, oidc, history>>

RevokeGrant(r, g) ==
  /\ Serve(r, [op |-> "revoke", ids |-> ByGrant(g), rest |-> ByGrant(g)])
  /\ UNCHANGED <<session, oidc, history>>

\* A token that was consumed costs its grant all its tokens.
Replay(r, t) ==
  /\ ctx[r] = Idle
  /\ Redeemable(t) /\ oidc[t].consumed
  /\ RevokeGrant(r, oidc[t].grantId)

Revoke(r, t) ==
  /\ ctx[r] = Idle
  /\ Found(t) /\ oidc[t].model = "RefreshToken"
  /\ RevokeGrant(r, oidc[t].grantId)

Issue(r) == Serve(r, [op |-> "issue", bearer |-> ctx[r].bearer, renew |-> TRUE])

\* OidcAdapter.consume reads the row (a row that is gone: nothing to do) ...
ConsumeRead(r) ==
  /\ ctx[r].op = "consume"
  /\ IF oidc[ctx[r].id] = None THEN Issue(r)
     ELSE Serve(r, [op |-> "consuming", id |-> ctx[r].id,
                    bearer |-> ctx[r].bearer, read |-> oidc[ctx[r].id]])
  /\ UNCHANGED <<session, oidc, history>>

\* Faulty consume: the mark is not part of what is written back.
ConsumeSaveUnmarked(r) ==
  /\ ctx[r].op = "consuming"
  /\ oidc' = Put(ctx[r].id, ctx[r].read)
  /\ Issue(r)
  /\ UNCHANGED <<session, history>>

\* ... and saves it with its mark, also if it was deleted meanwhile.
ConsumeSave(r) ==
  /\ ctx[r].op = "consuming"
  /\ oidc' = Put(ctx[r].id, [ctx[r].read EXCEPT !.consumed = TRUE])
  /\ Issue(r)
  /\ UNCHANGED <<session, history>>

AccessToken(b) == [account |-> b.account, client |-> b.client, scope |-> b.scope]

(* The answer: an access token (a JWT, which is not stored) and, after     *)
(* something was consumed, a refresh token.                                *)
Answer(r, t) ==
  /\ ctx[r].op = "issue"
  /\ LET b == ctx[r].bearer IN
     /\ accessTokens' = accessTokens \cup {AccessToken(b)}
     /\ IF ctx[r].renew
          THEN Fresh(t) /\ Draw(t) /\ oidc' = Put(t, NewToken("RefreshToken", b))
          ELSE UNCHANGED <<oidc, drawn>>
  /\ Done(r)
  /\ UNCHANGED <<session, consented, revoked>>

\* Faulty revokeByGrantId: it is done after the first record.
LastRevokedFirst(r) == ctx[r].rest # ctx[r].ids

LastRevoked(r) == ctx[r].rest = {}

\* revokeByGrantId deletes what it found, one record after the other.
RevokeNext(r, id) ==
  /\ ctx[r].op = "revoke" /\ id \in ctx[r].rest
  /\ oidc' = Gone(id)
  /\ Serve(r, [ctx[r] EXCEPT !.rest = @ \ {id}])
  /\ UNCHANGED <<session, history>>

RevokeEnd(r) ==
  /\ ctx[r].op = "revoke" /\ LastRevoked(r)
  /\ revoked' = revoked \cup (ctx[r].ids \cap TokenIds)
  /\ Done(r)
  /\ UNCHANGED <<session, oidc, drawn, consented, accessTokens>>
-----------------------------------------------------------------------------
Restart ==
  /\ ctx' = [r \in Requests |-> Idle]
  /\ UNCHANGED <<session, oidc, history>>

Browser ==
  \/ \E c \in Clients : SwitchSession(c)
  \/ \E c \in Clients, u \in Users : SignIn(c, u)
  \/ \E c \in Clients, scope \in SUBSET Scopes, i \in InteractionIds :
       AskConsent(c, scope, i)
  \/ \E c \in Clients, scope \in SUBSET Scopes, t \in TokenIds :
       IssueCode(c, scope, t)
  \/ \E i \in InteractionIds : RejectConsent(i) \/ ResumeConsent(i)
  \/ EndSession

Serving ==
  \E r \in Requests :
    \/ \E i \in InteractionIds, g \in GrantIds : AcceptConsent(r, i, g)
    \/ SaveGrant(r) \/ FinishConsent(r)
    \/ \E t \in TokenIds : \/ RedeemOnce(r, t) \/ RedeemKept(r, t)
                           \/ Replay(r, t) \/ Revoke(r, t) \/ Answer(r, t)
    \/ ConsumeRead(r) \/ ConsumeSave(r)
    \/ \E id \in Ids : RevokeNext(r, id)
    \/ RevokeEnd(r)

Time == \/ \E id \in Ids : Expire(id)
        \/ \E t \in TokenIds : ExpireToken(t) \/ DropExpired(t)
        \/ Cleanup

Next == \/ Browser \/ Serving \/ Time
        \/ Restart

Spec == Init /\ [][Next]_vars
-----------------------------------------------------------------------------
(* Every access token was issued to an account of the token's client, for  *)
(* scopes that this account accepted for this client: although one cookie  *)
(* serves all clients of a browser, and grants are read, extended and      *)
(* written back by requests that overlap.                                  *)
TokensRestOnConsent ==
  \A t \in accessTokens :
    /\ ClientOf[t.account] = t.client
    /\ \A s \in t.scope : <<t.account, t.client, s>> \in consented

\* A redemption that begins now would be answered with tokens.
Usable(t) == Found(t) /\ ~oidc[t].consumed

(* A code or refresh token that was used up, revoked or has expired never  *)
(* becomes usable again, although consume writes back a row that may have  *)
(* been deleted after it was read: the store implements TokenLife.         *)
LifeOf(t) == CASE t \notin drawn -> "unissued"
               [] t \in drawn /\ Usable(t) -> "usable"
               [] OTHER -> "retired"
Life == INSTANCE TokenLife WITH Tokens <- TokenIds,
                                life <- [t \in TokenIds |-> LifeOf(t)]
TokensLiveOnce == Life!Spec

(* What a replay or a revocation found of its grant cannot be used once it *)
(* is answered, whatever redemptions of it were in flight.                 *)
RevokedStaysRevoked == \A t \in revoked : ~Usable(t)
=============================================================================
