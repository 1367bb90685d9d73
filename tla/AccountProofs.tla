--------------------------- MODULE AccountProofs ---------------------------
(***************************************************************************)
(* Theorems about Account: a replaced password never comes back, and a     *)
(* reset link is not lost, for any number of accounts, passwords, tokens   *)
(* and requests that overlap.                                              *)
(***************************************************************************)
EXTENDS Account, TLAPS

InFlight(r) == req[r].op # "idle"
Saving(r) == req[r].op \in {"change", "reset"}

(* Every password there is has been chosen, and a request in flight is the *)
(* only place for the one it will save.                                    *)
PasswordsInv ==
  /\ \A u \in Users : user[u] # None => user[u].password \in chosen
  /\ \A u \in Users, p \in Passwords : <<u, p>> \in retired => p \in chosen
  /\ \A r \in Requests : InFlight(r) =>
       /\ req[r].new \in chosen
       /\ \A u \in Users :
            /\ user[u] # None => user[u].password # req[r].new
            /\ <<u, req[r].new>> \notin retired
       /\ \A q \in Requests : InFlight(q) /\ req[q].new = req[r].new => q = r

\* The account that a request will save is there.
SavedExists ==
  \A r \in Requests : Saving(r) => user[req[r].user] # None

\* Only a password saved with it marks a token: the statement that would
\* invalidate earlier ones compares uuids with public ids.
TokensInv ==
  /\ client.id = "uuid" /\ client.clientId = "public"
  /\ \A t \in Tokens : token[t] # None =>
       /\ token[t].client = "uuid"
       /\ token[t].used => spent[t] > 0
  /\ \A r \in Requests : req[r].op = "reset" => token[req[r].token] # None

IInv == Typed /\ PasswordsInv /\ SavedExists /\ RetiredPasswordGone /\ TokensInv

\* The parts about passwords, which lemmas keep together.
Secure == PasswordsInv /\ SavedExists /\ RetiredPasswordGone

LEMMA InitHolds == Init => IInv
BY AccountAssumption
DEF Init, IInv, Typed, PasswordsInv, SavedExists, RetiredPasswordGone,
    TokensInv, InFlight, Saving, Client, Request, Idle

-----------------------------------------------------------------------------
(* Types.                                                                  *)

\* The fields of a request in flight.
LEMMA RequestFields ==
  ASSUME Typed, NEW r \in Requests
  PROVE  /\ req[r] \in Request
         /\ req[r].op \in {"idle", "create", "change", "reset"}
         /\ InFlight(r) => req[r].user \in Users /\ req[r].new \in Passwords
         /\ req[r].op = "create" => req[r].active \in BOOLEAN
         /\ Saving(r) => req[r].read \in Account
         /\ req[r].op = "reset" => req[r].token \in Tokens
BY DEF Typed, Request, Idle, InFlight, Saving

\* What is stored after a save, or was before it, is an account.
LEMMA SavedType ==
  ASSUME Typed, NEW u \in Users, NEW x \in Account,
         user' = [user EXCEPT ![u] = x]
  PROVE  user' \in [Users -> Account \cup {None}]
BY DEF Typed

\* Requests only end.
Ends(r) == /\ req' \in [Requests -> Request]
           /\ req'[r] = Idle
           /\ \A q \in Requests : req'[q] = req[q] \/ req'[q] = Idle

LEMMA DoneEnds ==
  ASSUME Typed, NEW r \in Requests, Done(r) \/ Forget
  PROVE  Ends(r)
BY DEF Typed, Ends, Done, Wait, Forget, Request, Idle

\* A new request is in flight, the others go on.
LEMMA WaitType ==
  ASSUME Typed, NEW r \in Requests, NEW q \in Request, Wait(r, q)
  PROVE  /\ req' \in [Requests -> Request]
         /\ req'[r] = q
         /\ \A s \in Requests \ {r} : req'[s] = req[s]
BY DEF Typed, Wait

-----------------------------------------------------------------------------
(* What the steps do to passwords.                                         *)

\* A request starts with a password nobody has chosen before.
LEMMA StartKeeps ==
  ASSUME Typed, Secure, NEW r \in Requests, NEW q \in Request, Wait(r, q),
         NEW p \in Passwords, Choose(p), UNCHANGED <<user, retired>>,
         q.op # "idle", q.new = p,
         q.op \in {"change", "reset"} => user[q.user] # None
  PROVE  Secure'
<1>1. /\ req'[r] = q
      /\ \A s \in Requests \ {r} : req'[s] = req[s]
  BY WaitType
<1>2. p \notin chosen /\ chosen' = chosen \cup {p}
  BY DEF Choose
<1>3. PasswordsInv'
  BY <1>1, <1>2 DEF Secure, PasswordsInv, InFlight
<1>4. SavedExists'
  BY <1>1 DEF Secure, SavedExists, Saving
<1>5. RetiredPasswordGone'
  BY DEF Secure, RetiredPasswordGone
<1> QED
  BY <1>3, <1>4, <1>5 DEF Secure

\* A request saves its password, which no account has or had.
LEMMA SaveKeeps ==
  ASSUME Typed, Secure, NEW r \in Requests, Saving(r), Ends(r),
         SavePassword(req[r].user, req[r].read, req[r].new),
         UNCHANGED chosen
  PROVE  /\ user' \in [Users -> Account \cup {None}]
         /\ retired' \subseteq Users \X Passwords
         /\ Secure'
<1> DEFINE u == req[r].user
           p == req[r].new
           x == [req[r].read EXCEPT !.password = p]
<1>1. InFlight(r) /\ u \in Users /\ p \in Passwords /\ req[r].read \in Account
  BY RequestFields DEF InFlight, Saving
<1>2. x \in Account /\ x.password = p
  BY <1>1 DEF Account
<1>3. user' = [user EXCEPT ![u] = x]
  BY DEF SavePassword
<1>4. retired' = retired \cup {<<u, user[u].password>>}
  BY DEF SavePassword
<1>5. user[u] # None /\ user[u] \in Account
  BY <1>1 DEF Secure, SavedExists, Typed
<1>6. user[u].password \in Passwords
  BY <1>5 DEF Account
<1>7. /\ p \in chosen /\ p # user[u].password
      /\ \A v \in Users : /\ user[v] # None => user[v].password # p
                          /\ <<v, p>> \notin retired
  BY <1>1, <1>5 DEF Secure, PasswordsInv
<1>8. user' \in [Users -> Account \cup {None}]
  BY <1>1, <1>2, <1>3, SavedType
<1>9. retired' \subseteq Users \X Passwords
  BY <1>1, <1>4, <1>6 DEF Typed
<1>10. /\ user'[u] = x
       /\ \A v \in Users \ {u} : user'[v] = user[v]
  BY <1>1, <1>3 DEF Typed
<1> HIDE DEF u, p, x
<1>11. RetiredPasswordGone'
  BY <1>1, <1>2, <1>4, <1>7, <1>10 DEF Secure, RetiredPasswordGone
<1>12. x # None
  BY <1>2, NullAssumption
<1>13. SavedExists'
  <2> SUFFICES ASSUME NEW q \in Requests, Saving(q)'
               PROVE  user'[req'[q].user] # None
    BY DEF SavedExists
  <2>1. req'[q] = req[q] /\ Saving(q)
    BY DEF Ends, Saving, Idle
  <2>2. req[q].user \in Users /\ user[req[q].user] # None
    BY <2>1, RequestFields DEF Secure, SavedExists, InFlight, Saving
  <2> QED
    BY <1>10, <1>12, <2>1, <2>2
<1>14. \A q \in Requests : InFlight(q)' =>
         InFlight(q) /\ req'[q] = req[q] /\ req[q].new # p
  <2> TAKE q \in Requests
  <2> HAVE InFlight(q)'
  <2>1. q # r /\ req'[q] = req[q] /\ InFlight(q)
    BY DEF Ends, InFlight, Idle
  <2> QED
    BY <1>1, <2>1 DEF Secure, PasswordsInv, p
<1>15. PasswordsInv'
  <2>1. \A v \in Users : user'[v] # None => user'[v].password \in chosen'
    BY <1>2, <1>7, <1>10 DEF Secure, PasswordsInv
  <2>2. user[u].password \in chosen
    BY <1>1, <1>5 DEF Secure, PasswordsInv
  <2>3. \A v \in Users, o \in Passwords : <<v, o>> \in retired' => o \in chosen'
    BY <1>4, <2>2 DEF Secure, PasswordsInv
  <2>4. ASSUME NEW q \in Requests, InFlight(q)'
        PROVE  /\ req'[q].new \in chosen'
               /\ \A v \in Users :
                    /\ user'[v] # None => user'[v].password # req'[q].new
                    /\ <<v, req'[q].new>> \notin retired'
               /\ \A s \in Requests :
                    (InFlight(s)' /\ req'[s].new = req'[q].new) => s = q
    <3>1. InFlight(q) /\ req'[q] = req[q] /\ req[q].new # p
      BY <1>14, <2>4
    <3>2. user[u].password # req[q].new
      BY <1>1, <1>5, <3>1 DEF Secure, PasswordsInv
    <3> QED
      BY <1>2, <1>4, <1>10, <1>14, <3>1, <3>2 DEF Secure, PasswordsInv
  <2> QED
    BY <2>1, <2>3, <2>4 DEF PasswordsInv, InFlight
<1> QED
  BY <1>8, <1>9, <1>11, <1>13, <1>15 DEF Secure

\* An account comes into being with the password of its request.
LEMMA CreateKeeps ==
  ASSUME Typed, Secure, NEW r \in Requests, req[r].op = "create", Ends(r),
         NEW enabled \in BOOLEAN, user[req[r].user] = None,
         Created(r, enabled), UNCHANGED <<chosen, retired>>
  PROVE  /\ user' \in [Users -> Account \cup {None}]
         /\ Secure'
<1> DEFINE u == req[r].user
           p == req[r].new
           x == [enabled |-> enabled, roles |-> {USER}, password |-> p]
<1>1. InFlight(r) /\ u \in Users /\ p \in Passwords
  BY RequestFields DEF InFlight
<1>2. x \in Account /\ x.password = p
  BY <1>1, AccountAssumption DEF Account
<1>3. user' = [user EXCEPT ![u] = x]
  BY DEF Created
<1>4. user' \in [Users -> Account \cup {None}]
  BY <1>1, <1>2, <1>3, SavedType
<1>5. /\ user'[u] = x /\ x # None
      /\ \A v \in Users \ {u} : user'[v] = user[v]
  BY <1>1, <1>2, <1>3, NullAssumption DEF Typed
<1>6. p \in chosen /\ \A v \in Users : <<v, p>> \notin retired
  BY <1>1 DEF Secure, PasswordsInv
<1> HIDE DEF u, p, x
<1>7. RetiredPasswordGone'
  BY <1>2, <1>5, <1>6 DEF Secure, RetiredPasswordGone
<1>8. \A q \in Requests : InFlight(q)' =>
        InFlight(q) /\ req'[q] = req[q] /\ req[q].new # p
  <2> TAKE q \in Requests
  <2> HAVE InFlight(q)'
  <2>1. q # r /\ req'[q] = req[q] /\ InFlight(q)
    BY DEF Ends, InFlight, Idle
  <2> QED
    BY <1>1, <2>1 DEF Secure, PasswordsInv, p
<1>9. SavedExists'
  <2> SUFFICES ASSUME NEW q \in Requests, Saving(q)'
               PROVE  user'[req'[q].user] # None
    BY DEF SavedExists
  <2>1. req'[q] = req[q] /\ Saving(q)
    BY DEF Ends, Saving, Idle
  <2>2. req[q].user \in Users /\ user[req[q].user] # None
    BY <2>1, RequestFields DEF Secure, SavedExists, InFlight, Saving
  <2> QED
    BY <1>5, <2>1, <2>2
<1>10. PasswordsInv'
  BY <1>2, <1>5, <1>6, <1>8 DEF Secure, PasswordsInv, InFlight
<1> QED
  BY <1>4, <1>7, <1>9, <1>10 DEF Secure

\* Administration leaves the passwords of an account alone.
LEMMA RowKeeps ==
  ASSUME Typed, Secure, NEW u \in Users, user[u] # None, NEW x \in Account,
         x.password = user[u].password, user' = [user EXCEPT ![u] = x],
         UNCHANGED <<req, chosen, retired>>
  PROVE  /\ user' \in [Users -> Account \cup {None}]
         /\ Secure'
<1>1. /\ user'[u] = x /\ x # None
      /\ \A v \in Users \ {u} : user'[v] = user[v]
  BY NullAssumption DEF Typed
<1>2. RetiredPasswordGone'
  BY <1>1 DEF Secure, RetiredPasswordGone
<1>3. SavedExists'
  <2> SUFFICES ASSUME NEW q \in Requests, Saving(q)
               PROVE  user'[req[q].user] # None
    BY DEF SavedExists, Saving
  <2>1. req[q].user \in Users /\ user[req[q].user] # None
    BY RequestFields DEF Secure, SavedExists, InFlight, Saving
  <2> QED
    BY <1>1, <2>1
<1>4. PasswordsInv'
  BY <1>1 DEF Secure, PasswordsInv, InFlight
<1> QED
  BY <1>2, <1>3, <1>4, SavedType DEF Secure

\* Requests that end without a save take nothing with them.
LEMMA EndKeeps ==
  ASSUME Secure, UNCHANGED <<user, chosen, retired>>,
         \A q \in Requests : req'[q] = req[q] \/ req'[q] = Idle
  PROVE  Secure'
<1>1. \A q \in Requests : InFlight(q)' => InFlight(q) /\ req'[q] = req[q]
  BY DEF InFlight, Idle
<1>2. \A q \in Requests : Saving(q)' => Saving(q) /\ req'[q] = req[q]
  BY DEF Saving, Idle
<1> QED
  BY <1>1, <1>2
  DEF Secure, PasswordsInv, SavedExists, RetiredPasswordGone, InFlight, Saving

-----------------------------------------------------------------------------
(* What the steps do to tokens.                                            *)

\* A token stays what it is, or is one a password was saved with.
LEMMA TokensKeep ==
  ASSUME TokensInv, client.id' = client.id, client.clientId' = client.clientId,
         \A t \in Tokens : token'[t] # None =>
           /\ token[t] # None /\ token'[t].client = token[t].client
           /\ token'[t].used => token[t].used \/ spent'[t] > 0,
         \A t \in Tokens : token[t] # None => token'[t] # None,
         \A t \in Tokens : spent[t] > 0 => spent'[t] > 0,
         \A r \in Requests : req'[r].op = "reset" =>
           req'[r].token \in Tokens /\ token[req'[r].token] # None
  PROVE  TokensInv'
BY DEF TokensInv

\* While tokens, clients and counts stay, so does what is known of them.
LEMMA TokensStay ==
  ASSUME TokensInv, UNCHANGED <<token, spent>>,
         client.id' = client.id, client.clientId' = client.clientId,
         \A r \in Requests : req'[r].op = "reset" => token[req'[r].token] # None
  PROVE  TokensInv'
BY DEF TokensInv

\* The save of a token that a password was saved with.
LEMMA TokenUsed ==
  ASSUME Typed, TokensInv, NEW t \in Tokens, token[t] # None
  PROVE  /\ [token EXCEPT ![t].used = TRUE] \in [Tokens -> Token \cup {None}]
         /\ \A s \in Tokens :
              LET new == [token EXCEPT ![t].used = TRUE][s] IN
              /\ new # None <=> token[s] # None
              /\ token[s] # None => /\ new.client = token[s].client
                                    /\ s # t => new = token[s]
<1> DEFINE x == [token[t] EXCEPT !.used = TRUE]
<1>1. token[t] \in Token
  BY DEF Typed
<1>2. x \in Token /\ x.client = token[t].client
  BY <1>1 DEF Token
<1>3. x # None
  BY <1>2, NullAssumption
<1>4. [token EXCEPT ![t].used = TRUE] = [token EXCEPT ![t] = x]
  OBVIOUS
<1> HIDE DEF x
<1> QED
  BY <1>2, <1>3, <1>4 DEF Typed

-----------------------------------------------------------------------------
(* The steps.                                                              *)

LEMMA BeginStep ==
  ASSUME IInv, NEW r \in Requests, NEW p \in Passwords, Begin(r, p)
  PROVE  IInv'
<1> USE DEF IInv
<1>1. Typed /\ Secure /\ TokensInv
  BY DEF Secure
<1>2. ASSUME NEW q \in Request, Wait(r, q), Choose(p), q.new = p,
             q.op # "idle",
             q.op \in {"change", "reset"} => user[q.user] # None,
             q.op = "reset" => token[q.token] # None,
             UNCHANGED <<user, client, token, retired, spent>>
      PROVE  IInv'
  <2>1. Secure'
    BY <1>1, <1>2, StartKeeps
  <2>2. /\ req' \in [Requests -> Request]
        /\ req'[r] = q
        /\ \A s \in Requests \ {r} : req'[s] = req[s]
    BY <1>1, <1>2, WaitType
  <2>3. chosen' \subseteq Passwords
    BY <1>1, <1>2 DEF Choose, Typed
  <2>4. Typed'
    BY <1>1, <1>2, <2>2, <2>3 DEF Typed
  <2>5. TokensInv'
    BY <1>1, <1>2, <2>2 DEF TokensInv
  <2> QED
    BY <2>1, <2>4, <2>5 DEF Secure
<1>3. ASSUME NEW u \in Users, NEW active \in BOOLEAN, CreateStart(r, u, active, p)
      PROVE  IInv'
  <2> DEFINE q == [op |-> "create", user |-> u, active |-> active, new |-> p]
  <2>1. q \in Request /\ q.op = "create" /\ q.new = p
    BY DEF Request
  <2>2. /\ Wait(r, q) /\ Choose(p)
        /\ UNCHANGED <<user, client, token, retired, spent>>
    BY <1>3 DEF CreateStart
  <2> HIDE DEF q
  <2> QED
    BY <1>2, <2>1, <2>2
<1>4. ASSUME NEW u \in Users, ChangeStart(r, u, p)
      PROVE  IInv'
  <2> DEFINE q == [op |-> "change", user |-> u, read |-> user[u], new |-> p]
  <2>1. user[u] # None /\ user[u] \in Account
    BY <1>1, <1>4 DEF ChangeStart, Found, Typed
  <2>2. q \in Request /\ q.op = "change" /\ q.new = p /\ q.user = u
    BY <2>1 DEF Request
  <2>3. /\ Wait(r, q) /\ Choose(p)
        /\ UNCHANGED <<user, client, token, retired, spent>>
    BY <1>4 DEF ChangeStart
  <2> HIDE DEF q
  <2> QED
    BY <1>2, <2>1, <2>2, <2>3
<1>5. ASSUME NEW t \in Tokens, ResetStart(r, t, p)
      PROVE  IInv'
  <2> DEFINE u == token[t].user
             q == [op |-> "reset", user |-> u, read |-> user[u], new |-> p,
                   token |-> t]
  <2>1. token[t] # None /\ user[u] # None
    BY <1>5 DEF ResetStart, Usable, Found
  <2>2. u \in Users
    BY <1>1, <2>1 DEF Typed, Token
  <2>3. user[u] \in Account
    BY <1>1, <2>1, <2>2 DEF Typed
  <2>4. /\ q \in Request /\ q.op = "reset" /\ q.new = p /\ q.user = u
        /\ q.token = t
    BY <2>2, <2>3 DEF Request
  <2>5. /\ Wait(r, q) /\ Choose(p)
        /\ UNCHANGED <<user, client, token, retired, spent>>
    BY <1>5 DEF ResetStart
  <2> HIDE DEF q, u
  <2> QED
    BY <1>2, <2>1, <2>4, <2>5
<1> QED
  BY <1>3, <1>4, <1>5 DEF Begin

LEMMA EndStep ==
  ASSUME IInv, NEW r \in Requests, End(r)
  PROVE  IInv'
<1>1. Typed /\ Secure /\ TokensInv
  BY DEF IInv, Secure
<1>2. SUFFICES Secure' /\ Typed' /\ TokensInv'
  BY DEF IInv, Secure
<1>3. Ends(r)
  BY <1>1, DoneEnds DEF End, CreateEnd, ChangeEnd, ResetEnd, CrashInReset,
     CrashInCreate
<1>4. \A q \in Requests : req'[q].op = "reset" =>
        req[q].token \in Tokens /\ req'[q].token = req[q].token
          /\ token[req[q].token] # None
  BY <1>1, <1>3, RequestFields DEF Ends, Idle, TokensInv
<1>5. CASE CreateEnd(r)
  <2>1. /\ UNCHANGED <<client, token, chosen, retired, spent>>
        /\ req[r].op = "create"
    BY <1>5 DEF CreateEnd, history
  <2>2. req[r].active \in BOOLEAN
    BY <1>1, <2>1, RequestFields
  <2>5. Secure' /\ user' \in [Users -> Account \cup {None}]
    <3>1. CASE user[req[r].user] = None /\ Created(r, req[r].active)
      BY <1>1, <1>3, <2>1, <2>2, <3>1, CreateKeeps
    <3>2. CASE UNCHANGED user
      BY <1>1, <1>3, <2>1, <3>2, EndKeeps DEF Ends, Typed
    <3> QED
      BY <1>5, <3>1, <3>2 DEF CreateEnd
  <2>6. Typed'
    BY <1>1, <1>3, <2>1, <2>5 DEF Typed, Ends
  <2>7. TokensInv'
    BY <1>1, <1>4, <2>1, TokensStay
  <2> QED
    BY <2>5, <2>6, <2>7
<1>6. CASE CrashInCreate(r)
  <2>1. /\ UNCHANGED <<client, token, chosen, retired, spent>>
        /\ req[r].op = "create" /\ user[req[r].user] = None
        /\ Created(r, TRUE)
    BY <1>6 DEF CrashInCreate, history
  <2>2. Secure' /\ user' \in [Users -> Account \cup {None}]
    BY <1>1, <1>3, <2>1, CreateKeeps
  <2>3. Typed'
    BY <1>1, <1>3, <2>1, <2>2 DEF Typed, Ends
  <2>4. TokensInv'
    BY <1>1, <1>4, <2>1, TokensStay
  <2> QED
    BY <2>2, <2>3, <2>4
<1>7. ASSUME ChangeEnd(r) \/ ResetEnd(r) \/ CrashInReset(r)
      PROVE  /\ Saving(r) /\ Secure'
             /\ user' \in [Users -> Account \cup {None}]
             /\ retired' \subseteq Users \X Passwords
             /\ UNCHANGED <<client, chosen>>
  <2>1. /\ Saving(r) /\ UNCHANGED <<client, chosen>>
        /\ SavePassword(req[r].user, req[r].read, req[r].new)
    BY <1>7 DEF ChangeEnd, ResetEnd, CrashInReset, Saving
  <2> QED
    BY <1>1, <1>3, <2>1, SaveKeeps
<1>8. CASE ChangeEnd(r)
  <2>1. UNCHANGED <<token, spent>>
    BY <1>8 DEF ChangeEnd
  <2>2. Typed'
    BY <1>1, <1>3, <1>7, <1>8, <2>1 DEF Typed, Ends
  <2>3. TokensInv'
    BY <1>1, <1>4, <1>7, <1>8, <2>1, TokensStay
  <2> QED
    BY <1>7, <1>8, <2>2, <2>3
<1>9. CASE ResetEnd(r) \/ CrashInReset(r)
  <2> DEFINE t == req[r].token
  <2>1. req[r].op = "reset" /\ spent' = [spent EXCEPT ![t] = @ + 1]
    BY <1>9 DEF ResetEnd, CrashInReset
  <2>2. t \in Tokens /\ token[t] # None
    BY <1>1, <2>1, RequestFields DEF TokensInv
  <2>3. /\ spent' \in [Tokens -> Nat] /\ spent'[t] > 0
        /\ \A s \in Tokens : spent[s] > 0 => spent'[s] > 0
    BY <1>1, <2>1, <2>2 DEF Typed
  <2>4. token' = token \/ token' = [token EXCEPT ![t].used = TRUE]
    BY <1>9 DEF ResetEnd, CrashInReset
  <2> HIDE DEF t
  <2>5. /\ token' \in [Tokens -> Token \cup {None}]
        /\ \A s \in Tokens :
             /\ token'[s] # None <=> token[s] # None
             /\ token[s] # None => /\ token'[s].client = token[s].client
                                   /\ s # t => token'[s] = token[s]
    <3>1. CASE token' = token
      BY <1>1, <3>1 DEF Typed
    <3>2. CASE token' = [token EXCEPT ![t].used = TRUE]
      BY <1>1, <2>2, <3>2, TokenUsed
    <3> QED
      BY <2>4, <3>1, <3>2
  <2>6. Typed'
    BY <1>1, <1>3, <1>7, <1>9, <2>3, <2>5 DEF Typed, Ends
  <2>7. TokensInv'
    BY <1>1, <1>4, <1>7, <1>9, <2>3, <2>5 DEF TokensInv
  <2> QED
    BY <1>7, <1>9, <2>6, <2>7
<1> QED
  BY <1>5, <1>6, <1>8, <1>9 DEF End

LEMMA AdministerStep ==
  ASSUME IInv, Administer
  PROVE  IInv'
<1>1. Typed /\ Secure /\ TokensInv
  BY DEF IInv, Secure
<1>2. ASSUME NEW u \in Users, user[u] # None, NEW x \in Account,
             x.password = user[u].password, user' = [user EXCEPT ![u] = x],
             UNCHANGED <<client, token, req, history>>
      PROVE  IInv'
  <2>1. Secure' /\ user' \in [Users -> Account \cup {None}]
    BY <1>1, <1>2, RowKeeps DEF history
  <2>2. Typed'
    BY <1>1, <1>2, <2>1 DEF Typed, history
  <2>3. TokensInv'
    BY <1>1, <1>2 DEF TokensInv, history
  <2> QED
    BY <2>1, <2>2, <2>3 DEF IInv, Secure
<1>3. ASSUME NEW u \in Users, NEW enabled \in BOOLEAN, UpdateUser(u, enabled)
      PROVE  IInv'
  <2> DEFINE x == [user[u] EXCEPT !.enabled = enabled]
  <2>1. user[u] # None /\ user[u] \in Account
    BY <1>1, <1>3 DEF UpdateUser, Administered, Typed
  <2>2. x \in Account /\ x.password = user[u].password
    BY <2>1 DEF Account
  <2>3. /\ user' = [user EXCEPT ![u] = x]
        /\ UNCHANGED <<client, token, req, history>>
    BY <1>3 DEF UpdateUser
  <2> HIDE DEF x
  <2> QED
    BY <1>2, <2>1, <2>2, <2>3
<1>4. ASSUME NEW u \in Users, NEW names \in SUBSET RoleNames, AssignRoles(u, names)
      PROVE  IInv'
  <2> DEFINE x == [user[u] EXCEPT !.roles = names \cap roles]
  <2>1. user[u] # None /\ user[u] \in Account
    BY <1>1, <1>4 DEF AssignRoles, Administered, Typed
  <2>2. x \in Account /\ x.password = user[u].password
    BY <2>1 DEF Account
  <2>3. /\ user' = [user EXCEPT ![u] = x]
        /\ UNCHANGED <<client, token, req, history>>
    BY <1>4 DEF AssignRoles
  <2> HIDE DEF x
  <2> QED
    BY <1>2, <2>1, <2>2, <2>3
<1>5. ASSUME NEW enabled \in BOOLEAN, UpdateClient(enabled)
      PROVE  IInv'
  <2>1. client' \in Client /\ client'.id = client.id
          /\ client'.clientId = client.clientId
    BY <1>1, <1>5 DEF UpdateClient, Typed, Client
  <2>2. Secure'
    BY <1>1, <1>5, EndKeeps DEF UpdateClient, history
  <2>3. Typed' /\ TokensInv'
    BY <1>1, <1>5, <2>1 DEF UpdateClient, history, Typed, TokensInv
  <2> QED
    BY <2>2, <2>3 DEF IInv, Secure
<1>6. ASSUME NEW name \in RoleNames, CreateRole(name)
      PROVE  IInv'
  <2>1. Secure'
    BY <1>1, <1>6, EndKeeps DEF CreateRole, history
  <2>2. Typed' /\ TokensInv'
    BY <1>1, <1>6 DEF CreateRole, history, Typed, TokensInv
  <2> QED
    BY <2>1, <2>2 DEF IInv, Secure
<1> QED
  BY <1>3, <1>4, <1>5, <1>6 DEF Administer

\* The statement of invalidateForUser finds no row.
LEMMA NothingInvalidated ==
  ASSUME TokensInv, NEW u \in Users
  PROVE  Invalidated(u, client.clientId) = {}
BY DEF TokensInv, Invalidated

LEMMA ForgotStep ==
  ASSUME IInv, NEW t \in Tokens, NEW u \in Users, ForgotPassword(t, u)
  PROVE  IInv'
<1> DEFINE x == [user |-> u, client |-> client.id, left |-> TokenTTL,
                 used |-> FALSE]
<1>1. Typed /\ Secure /\ TokensInv
  BY DEF IInv, Secure
<1>2. x \in Token /\ x.client = "uuid" /\ ~x.used
  BY <1>1, AccountAssumption DEF Token, TokensInv
<1>3. token' = [s \in Tokens |-> IF s = t THEN x ELSE token[s]]
  BY <1>1, NothingInvalidated DEF ForgotPassword
<1>4. UNCHANGED <<user, client, req, chosen, retired, spent>>
  BY DEF ForgotPassword, history
<1> HIDE DEF x
<1>5. Secure'
  BY <1>1, <1>4, EndKeeps
<1>6. Typed'
  BY <1>1, <1>2, <1>3, <1>4 DEF Typed
<1>7. x # None
  BY <1>2, NullAssumption
<1>8. \A r \in Requests : req[r].op = "reset" => req[r].token \in Tokens
  BY <1>1, RequestFields
<1>9. TokensInv'
  BY <1>1, <1>2, <1>3, <1>4, <1>7, <1>8 DEF TokensInv
<1> QED
  BY <1>5, <1>6, <1>9 DEF IInv, Secure

LEMMA TickStep ==
  ASSUME IInv, Tick
  PROVE  IInv'
<1>1. Typed /\ Secure /\ TokensInv
  BY DEF IInv, Secure
<1>2. UNCHANGED <<user, client, req, chosen, retired, spent>>
  BY DEF Tick, history
<1>3. ASSUME NEW s \in Tokens
      PROVE  /\ token'[s] \in Token \cup {None}
             /\ token'[s] # None <=> token[s] # None
             /\ token[s] # None => /\ token'[s].client = token[s].client
                                   /\ token'[s].used = token[s].used
  <2>1. CASE token[s] # None /\ token[s].left > 0
    <3> DEFINE x == [token[s] EXCEPT !.left = @ - 1]
    <3>1. token'[s] = x
      BY <2>1 DEF Tick
    <3>2. token[s] \in Token
      BY <1>1, <2>1 DEF Typed
    <3>3. x \in Token /\ x.client = token[s].client /\ x.used = token[s].used
      BY <2>1, <3>2, AccountAssumption DEF Token
    <3> HIDE DEF x
    <3> QED
      BY <2>1, <3>1, <3>3, NullAssumption
  <2>2. CASE ~(token[s] # None /\ token[s].left > 0)
    BY <1>1, <2>2 DEF Tick, Typed
  <2> QED
    BY <2>1, <2>2
<1>4. Secure'
  BY <1>1, <1>2, EndKeeps
<1>5. Typed'
  BY <1>1, <1>2, <1>3 DEF Typed, Tick
<1>6. \A r \in Requests : req[r].op = "reset" => req[r].token \in Tokens
  BY <1>1, RequestFields
<1>7. TokensInv'
  BY <1>1, <1>2, <1>3, <1>6 DEF TokensInv
<1> QED
  BY <1>4, <1>5, <1>7 DEF IInv, Secure

LEMMA RestartStep ==
  ASSUME IInv, Restart
  PROVE  IInv'
<1>1. Typed /\ Secure /\ TokensInv
  BY DEF IInv, Secure
<1>2. /\ UNCHANGED <<user, client, token, chosen, retired, spent>>
      /\ req' = [r \in Requests |-> Idle]
  BY DEF Restart, Forget, history
<1>3. Secure'
  BY <1>1, <1>2, EndKeeps
<1>4. Typed'
  BY <1>1, <1>2 DEF Typed, Request
<1>5. TokensInv'
  BY <1>1, <1>2 DEF TokensInv, Idle
<1> QED
  BY <1>3, <1>4, <1>5 DEF IInv, Secure

LEMMA InvIsInductive == IInv /\ [Next]_vars => IInv'
<1> SUFFICES ASSUME IInv, [Next]_vars PROVE IInv'
  OBVIOUS
<1>1. CASE Next
  BY <1>1, BeginStep, EndStep, AdministerStep, ForgotStep, TickStep,
     RestartStep DEF Next
<1>2. CASE UNCHANGED vars
  BY <1>2 DEF vars, history, IInv, Typed, PasswordsInv, SavedExists,
     RetiredPasswordGone, TokensInv, InFlight, Saving
<1> QED
  BY <1>1, <1>2

THEOREM Invariance == Spec => []IInv
BY InitHolds, InvIsInductive, PTL DEF Spec
-----------------------------------------------------------------------------
(* The roles of accounts, on top of what is known of the rows.             *)

\* Steps that leave the table of roles alone, and write one account at most.
LEMMA RolesKeep ==
  ASSUME IInv, RolesExist, UNCHANGED roles,
         \A u \in Users : user'[u] # None =>
           \/ user[u] # None /\ user'[u] = user[u]
           \/ user'[u].roles \subseteq roles,
         \A r \in Requests : req'[r].op \in {"change", "reset"} =>
           \/ req'[r] = req[r]
           \/ req'[r].read.roles \subseteq roles
  PROVE  RolesExist'
BY DEF RolesExist

LEMMA BeginRoles ==
  ASSUME IInv, RolesExist, NEW r \in Requests, NEW p \in Passwords, Begin(r, p)
  PROVE  RolesExist'
<1>1. ASSUME NEW q, Wait(r, q), UNCHANGED <<user, roles>>,
             q.op \in {"change", "reset"} => q.read.roles \subseteq roles
      PROVE  RolesExist'
  BY <1>1, RolesKeep DEF IInv, Typed, Wait
<1>2. ASSUME NEW u \in Users, NEW active \in BOOLEAN, CreateStart(r, u, active, p)
      PROVE  RolesExist'
  BY <1>1, <1>2 DEF CreateStart
<1>3. ASSUME NEW u \in Users, ChangeStart(r, u, p)
      PROVE  RolesExist'
  <2>1. user[u].roles \subseteq roles
    BY <1>3 DEF ChangeStart, Found, RolesExist
  <2> QED
    BY <1>1, <1>3, <2>1 DEF ChangeStart
<1>4. ASSUME NEW t \in Tokens, ResetStart(r, t, p)
      PROVE  RolesExist'
  <2>1. token[t].user \in Users /\ user[token[t].user] # None
    BY <1>4 DEF ResetStart, Usable, Found, IInv, Typed, Token
  <2>2. user[token[t].user].roles \subseteq roles
    BY <2>1 DEF RolesExist
  <2> QED
    BY <1>1, <1>4, <2>2 DEF ResetStart
<1> QED
  BY <1>2, <1>3, <1>4 DEF Begin

LEMMA EndRoles ==
  ASSUME IInv, RolesExist, NEW r \in Requests, End(r)
  PROVE  RolesExist'
<1>1. Ends(r) /\ UNCHANGED roles
  BY DoneEnds DEF End, CreateEnd, ChangeEnd, ResetEnd, CrashInReset,
     CrashInCreate, IInv
<1>2. \A q \in Requests : req'[q].op \in {"change", "reset"} => req'[q] = req[q]
  BY <1>1 DEF Ends, Idle
<1>3. \A u \in Users : user[u] # None => user[u].roles \subseteq roles
  BY DEF RolesExist
<1>4. ASSUME NEW enabled \in BOOLEAN, req[r].op = "create", Created(r, enabled)
      PROVE  RolesExist'
  <2>1. req[r].user \in Users
    BY <1>4, RequestFields DEF IInv, InFlight
  <2>2. \A u \in Users : user'[u] = user[u] \/ user'[u].roles = {USER}
    BY <1>4, <2>1 DEF Created, IInv, Typed
  <2> QED
    BY <1>1, <1>2, <1>3, <2>2, RolesKeep DEF RolesExist
<1>5. ASSUME Saving(r), SavePassword(req[r].user, req[r].read, req[r].new)
      PROVE  RolesExist'
  <2> DEFINE x == [req[r].read EXCEPT !.password = req[r].new]
  <2>1. req[r].user \in Users /\ req[r].read \in Account
    BY <1>5, RequestFields DEF IInv, InFlight, Saving
  <2>2. x.roles = req[r].read.roles /\ req[r].read.roles \subseteq roles
    BY <1>5, <2>1 DEF Account, RolesExist, Saving
  <2>3. user' = [user EXCEPT ![req[r].user] = x]
    BY <1>5 DEF SavePassword
  <2> HIDE DEF x
  <2>4. \A u \in Users : user'[u] = user[u] \/ user'[u] = x
    BY <2>1, <2>3 DEF IInv, Typed
  <2> QED
    BY <1>1, <1>2, <1>3, <2>2, <2>4, RolesKeep
<1>6. CASE CreateEnd(r)
  <2>1. CASE UNCHANGED user
    BY <1>1, <1>2, <1>3, <2>1, RolesKeep
  <2> QED
    BY <1>4, <1>6, <2>1, RequestFields DEF CreateEnd, IInv
<1>7. CASE CrashInCreate(r)
  BY <1>4, <1>7 DEF CrashInCreate
<1>8. CASE ChangeEnd(r) \/ ResetEnd(r) \/ CrashInReset(r)
  BY <1>5, <1>8 DEF ChangeEnd, ResetEnd, CrashInReset, Saving
<1> QED
  BY <1>6, <1>7, <1>8 DEF End

\* Only CreateRole changes the table, and it takes nothing out.
LEMMA AdministerRoles ==
  ASSUME IInv, RolesExist, Administer
  PROVE  RolesExist'
<1>1. \A u \in Users : user[u] # None => user[u].roles \subseteq roles
  BY DEF RolesExist
<1>2. ASSUME NEW u \in Users, user[u] # None, NEW x, x.roles \subseteq roles,
             user' = [user EXCEPT ![u] = x], UNCHANGED <<roles, req>>
      PROVE  RolesExist'
  BY <1>1, <1>2, RolesKeep DEF IInv, Typed
<1>3. ASSUME NEW u \in Users, NEW enabled \in BOOLEAN, UpdateUser(u, enabled)
      PROVE  RolesExist'
  <2> DEFINE x == [user[u] EXCEPT !.enabled = enabled]
  <2>1. user[u] # None /\ user[u] \in Account
    BY <1>3 DEF UpdateUser, Administered, IInv, Typed
  <2>2. x.roles \subseteq roles
    BY <1>1, <2>1 DEF Account
  <2>3. user' = [user EXCEPT ![u] = x] /\ UNCHANGED <<roles, req>>
    BY <1>3 DEF UpdateUser
  <2> HIDE DEF x
  <2> QED
    BY <1>2, <2>1, <2>2, <2>3
<1>4. ASSUME NEW u \in Users, NEW names \in SUBSET RoleNames, AssignRoles(u, names)
      PROVE  RolesExist'
  <2> DEFINE x == [user[u] EXCEPT !.roles = names \cap roles]
  <2>1. user[u] # None /\ user[u] \in Account
    BY <1>4 DEF AssignRoles, Administered, IInv, Typed
  <2>2. x.roles \subseteq roles
    BY <2>1 DEF Account
  <2>3. user' = [user EXCEPT ![u] = x] /\ UNCHANGED <<roles, req>>
    BY <1>4 DEF AssignRoles
  <2> HIDE DEF x
  <2> QED
    BY <1>2, <2>1, <2>2, <2>3
<1>5. ASSUME NEW name \in RoleNames, CreateRole(name)
      PROVE  RolesExist'
  BY <1>5 DEF CreateRole, RolesExist
<1>6. ASSUME NEW enabled \in BOOLEAN, UpdateClient(enabled)
      PROVE  RolesExist'
  BY <1>6 DEF UpdateClient, RolesExist
<1> QED
  BY <1>3, <1>4, <1>5, <1>6 DEF Administer

LEMMA RolesInductive == IInv /\ RolesExist /\ [Next]_vars => RolesExist'
<1> SUFFICES ASSUME IInv, RolesExist, [Next]_vars PROVE RolesExist'
  OBVIOUS
<1>1. ASSUME NEW t \in Tokens, NEW u \in Users, ForgotPassword(t, u)
      PROVE  RolesExist'
  BY <1>1 DEF ForgotPassword, RolesExist
<1>2. CASE Tick
  BY <1>2 DEF Tick, RolesExist
<1>3. CASE Restart
  BY <1>3 DEF Restart, Forget, Idle, RolesExist
<1>4. CASE UNCHANGED vars
  BY <1>4 DEF vars, RolesExist
<1> QED
  BY <1>1, <1>2, <1>3, <1>4, BeginRoles, EndRoles, AdministerRoles DEF Next

-----------------------------------------------------------------------------
(* Rows, tokens and requests in flight keep their shape: no save writes a  *)
(* role that is not in the table, not even one of an entity that was read  *)
(* before argon2, and no lifetime becomes negative.                        *)
THEOREM TypeCorrect == Spec => []TypeOK
<1>1. Init => RolesExist
  BY AccountAssumption DEF Init, RolesExist, Idle
<1>2. IInv => Typed
  BY DEF IInv
<1> QED
  BY <1>1, <1>2, RolesInductive, Invariance, PTL DEF Spec, TypeOK

(* A password that was replaced is nobody's again, however many changes    *)
(* and resets of an account wait for argon2 with an entity read before.    *)
THEOREM ReplacedPasswordsAreGone == Spec => []RetiredPasswordGone
<1>1. IInv => RetiredPasswordGone
  BY DEF IInv
<1> QED
  BY <1>1, Invariance, PTL

(* A reset link is marked as used only after a password was saved with it, *)
(* wherever in resetPassword the process dies: a user whose reset failed   *)
(* can follow the link again.                                              *)
THEOREM LinksAreNotLost == Spec => []LinkNotLost
<1>1. IInv => LinkNotLost
  BY DEF IInv, TokensInv, LinkNotLost
<1> QED
  BY <1>1, Invariance, PTL
=============================================================================
