------------------------------ MODULE MfaLogin ------------------------------
(***************************************************************************)
(* The hosted login: OidcInteractionController's login and verifyMfa, the  *)
(* end of the federation callback, OidcMfaChallengeService, and the        *)
(* interactions of the OIDC provider they answer.  Composed with Mfa, whose*)
(* requests run in the same process on the same tables.                    *)
(***************************************************************************)
EXTENDS Mfa

CONSTANTS Interactions,  \* uids of interactions with prompt "login"
          ChallengeTTL   \* MFA_CHALLENGE_TTL_SECONDS, in units of time

ASSUME LoginAssumption == ChallengeTTL \in Nat \ {0}

VARIABLES
  status,        \* of interaction i: "open", or how the provider ended it
  stored,        \* its Interaction record is in the oidc table
  result,        \* the result in that record
  challenge,     \* oidc_mfa_challenges: one row per interactionUid at most
  loginAttempts, \* the limiter's entries for oidc-mfa:<uid>:<userId>
  ctx            \* the login requests in flight

(* History: the evidence behind an answer, and the logins made of it. *)
VARIABLES first, exempt, second, sessions

evidence == <<first, exempt, second>>
loginVars == <<status, stored, result, challenge, loginAttempts, ctx, first,
               exempt, second, sessions>>
vars == <<mfaVars, loginVars>>

Methods == {"pwd", "federated"}
Answer == [account : Users, first : Methods, otp : BOOLEAN]
Challenge == [user : Users, method : Methods, left : 0..ChallengeTTL]
Context == {Idle}
  \cup [op : {"login", "callback"}, uid : Interactions, user : Users]
  \cup [op : {"verify"}, uid : Interactions, user : Users, method : Methods]

TypeOK ==
  /\ MfaTypeOK
  /\ status \in [Interactions -> {"open", "resumed", "expired"}]
  /\ stored \in [Interactions -> BOOLEAN]
  /\ result \in [Interactions -> Answer \cup {None}]
  /\ challenge \in [Interactions -> Challenge \cup {None}]
  /\ loginAttempts \in [Interactions \X Users -> AttemptState]
  /\ ctx \in [Requests -> Context]
  /\ first \subseteq Interactions \X Users \X Methods
  /\ exempt \subseteq Interactions \X Users
  /\ second \subseteq Interactions \X Users
  /\ sessions \subseteq Interactions \X Answer

LoginInit ==
  /\ status = [i \in Interactions |-> "open"]
  /\ stored = [i \in Interactions |-> TRUE]
  /\ result = [i \in Interactions |-> None]
  /\ challenge = [i \in Interactions |-> None]
  /\ loginAttempts = [k \in Interactions \X Users |-> NoAttempts]
  /\ ctx = [r \in Requests |-> Idle]
  /\ first = {} /\ exempt = {} /\ second = {} /\ sessions = {}

Init == MfaInit /\ LoginInit

Free(r) == req[r] = Idle /\ ctx[r] = Idle
Wait(r, c) == ctx' = [ctx EXCEPT ![r] = c]
Done(r) == Wait(r, Idle)

\* OidcMfaChallengeService.get finds a row that has not expired.
Live(i) == challenge[i] # None /\ challenge[i].left > 0

CreateChallenge(i, u, m) ==
  challenge' = [challenge EXCEPT ![i] = [user |-> u, method |-> m,
                                         left |-> ChallengeTTL]]
RemoveChallenge(i) == challenge' = [challenge EXCEPT ![i] = None]

Finish(i, u, m, otp) ==
  result' = [result EXCEPT ![i] = [account |-> u, first |-> m, otp |-> otp]]

Attempt(i, u, s) == loginAttempts' = [loginAttempts EXCEPT ![<<i, u>>] = s]
-----------------------------------------------------------------------------
(* POST /interaction/:uid/login, first half: the interaction is there, the *)
(* user is found, argon2 compares the password.  (A password that is wrong *)
(* or a role that is missing changes nothing and is left out.)             *)
LoginStart(r, i, u) ==
  /\ Free(r)
  /\ stored[i]
  /\ Wait(r, [op |-> "login", uid |-> i, user |-> u])
  /\ UNCHANGED <<mfaVars, status, stored, result, challenge, loginAttempts,
                 evidence, sessions>>

\* u is authenticated by method m in interaction i: the history of it.
FirstFactor(i, u, m) ==
  /\ first' = first \cup {<<i, u, m>>}
  /\ exempt' = IF row[u].enabled THEN exempt ELSE exempt \cup {<<i, u>>}

(* Second half: a user with MFA gets a challenge, any other is logged in;  *)
(* interaction.finished throws if the interaction has gone meanwhile.      *)
LoginEnd(r) ==
  /\ ctx[r].op = "login"
  /\ LET i == ctx[r].uid  u == ctx[r].user IN
     /\ FirstFactor(i, u, "pwd")
     /\ \/ row[u].enabled /\ CreateChallenge(i, u, "pwd") /\ UNCHANGED result
        \/ /\ ~row[u].enabled
           /\ \/ stored[i] /\ Finish(i, u, "pwd", FALSE)
              \/ ~stored[i] /\ UNCHANGED result
           /\ UNCHANGED challenge
  /\ Done(r)
  /\ UNCHANGED <<mfaVars, status, stored, loginAttempts, second, sessions>>

(* GET /federation/callback loads the interaction and waits for the        *)
(* upstream provider (what the callback checks is in module Federation)... *)
CallbackStart(r, i, u) ==
  /\ Free(r)
  /\ stored[i]
  /\ Wait(r, [op |-> "callback", uid |-> i, user |-> u])
  /\ UNCHANGED <<mfaVars, status, stored, result, challenge, loginAttempts,
                 evidence, sessions>>

\* Faulty end of the callback: MFA is not looked at.
CallbackEndNoMfa(r) ==
  /\ ctx[r].op = "callback"
  /\ LET i == ctx[r].uid  u == ctx[r].user IN
     /\ FirstFactor(i, u, "federated")
     /\ status[i] # "expired"
     /\ stored' = [stored EXCEPT ![i] = TRUE]
     /\ Finish(i, u, "federated", FALSE)
  /\ Done(r)
  /\ UNCHANGED <<mfaVars, status, challenge, loginAttempts, second, sessions>>

(* ... then creates a challenge, or saves the interaction object it loaded *)
(* with the result in it, unless the interaction's time is up: the record  *)
(* is written again even if it was destroyed meanwhile.                    *)
CallbackEnd(r) ==
  /\ ctx[r].op = "callback"
  /\ LET i == ctx[r].uid  u == ctx[r].user IN
     /\ FirstFactor(i, u, "federated")
     /\ \/ /\ row[u].enabled
           /\ CreateChallenge(i, u, "federated")
           /\ UNCHANGED <<stored, result>>
        \/ /\ ~row[u].enabled
           /\ status[i] # "expired"
           /\ stored' = [stored EXCEPT ![i] = TRUE]
           /\ Finish(i, u, "federated", FALSE)
           /\ UNCHANGED challenge
        \/ /\ ~row[u].enabled
           /\ status[i] = "expired"
           /\ UNCHANGED <<stored, result, challenge>>
  /\ Done(r)
  /\ UNCHANGED <<mfaVars, status, loginAttempts, second, sessions>>
-----------------------------------------------------------------------------
\* details() and require(): the interaction and its challenge are there, and
\* assertAllowed does not refuse the key oidc-mfa:<uid>:<userId>.
Open(i) == /\ stored[i]
           /\ Live(i)
           /\ ~Refused(loginAttempts[i, challenge[i].user])

\* The answer 401 'Invalid MFA code', which counts as a failure.
InvalidCode(i, u) == Attempt(i, u, Failed(Admitted(loginAttempts[i, u])))

\* verifyTotp or verifyRecoveryCode said yes: finished, reset, remove.
MfaFinish(i, u, m) ==
  /\ second' = second \cup {<<i, u>>}
  /\ Finish(i, u, m, TRUE)
  /\ Attempt(i, u, NoAttempts)
  /\ RemoveChallenge(i)

(* POST /interaction/:uid/mfa with a TOTP, in one turn. *)
VerifyTotp(i, totp) ==
  /\ Open(i)
  /\ LET u == challenge[i].user IN
     \/ TotpValid(u, totp) /\ MfaFinish(i, u, challenge[i].method)
     \/ /\ ~TotpValid(u, totp)
        /\ InvalidCode(i, u)
        /\ UNCHANGED <<second, result, challenge>>
  /\ UNCHANGED <<mfaVars, status, stored, ctx, first, exempt, sessions>>

(* The same with a recovery code: refused at once when MFA is off, else    *)
(* the challenge is kept in memory while argon2 compares the codes...      *)
VerifyRecovery(r, i, c) ==
  /\ Free(r)
  /\ Open(i)
  /\ LET u == challenge[i].user IN
     \/ /\ ~row[u].enabled
        /\ InvalidCode(i, u)
        /\ UNCHANGED <<mfaVars, ctx>>
     \/ /\ RecoverStart(r, u, c)
        /\ Attempt(i, u, Admitted(loginAttempts[i, u]))
        /\ Wait(r, [op |-> "verify", uid |-> i, user |-> u,
                    method |-> challenge[i].method])
  /\ UNCHANGED <<status, stored, result, challenge, evidence, sessions>>

\* Faulty verifyMfa: the challenge is read again after argon2.
RecoveryAcceptedReread(r) ==
  /\ ctx[r].op = "verify"
  /\ RecoverAccept(r)
  /\ LET i == ctx[r].uid IN
     /\ second' = second \cup {<<i, ctx[r].user>>}
     /\ \/ /\ stored[i] /\ challenge[i] # None
           /\ Finish(i, challenge[i].user, challenge[i].method, TRUE)
           /\ RemoveChallenge(i)
        \/ /\ ~stored[i] \/ challenge[i] = None
           /\ UNCHANGED <<result, challenge>>
  /\ Done(r)
  /\ UNCHANGED <<status, stored, loginAttempts, first, exempt, sessions>>

(* ... and used when they have been: the code is marked as used, then the  *)
(* interaction is finished, which throws when it has gone meanwhile.       *)
RecoveryAccepted(r) ==
  /\ ctx[r].op = "verify"
  /\ RecoverAccept(r)
  /\ LET i == ctx[r].uid  u == ctx[r].user IN
     \/ stored[i] /\ MfaFinish(i, u, ctx[r].method)
     \/ /\ ~stored[i]
        /\ second' = second \cup {<<i, u>>}
        /\ UNCHANGED <<result, challenge, loginAttempts>>
  /\ Done(r)
  /\ UNCHANGED <<status, stored, first, exempt, sessions>>

RecoveryRejected(r) ==
  /\ ctx[r].op = "verify"
  /\ RecoverReject(r)
  /\ Attempt(ctx[r].uid, ctx[r].user,
             Failed(loginAttempts[ctx[r].uid, ctx[r].user]))
  /\ Done(r)
  /\ UNCHANGED <<status, stored, result, challenge, evidence, sessions>>

(* GET /interaction/:uid, or POST .../mfa: get deletes an expired row. *)
DropChallenge(i) ==
  /\ stored[i]
  /\ challenge[i] # None /\ ~Live(i)
  /\ RemoveChallenge(i)
  /\ UNCHANGED <<mfaVars, status, stored, result, loginAttempts, ctx,
                 evidence, sessions>>

(* The provider resumes /auth/:uid once: the result becomes a session and  *)
(* the interaction is destroyed.                                           *)
Resume(i) ==
  /\ stored[i] /\ result[i] # None /\ status[i] # "resumed"
  /\ sessions' = sessions \cup {<<i, result[i]>>}
  /\ status' = [status EXCEPT ![i] = "resumed"]
  /\ stored' = [stored EXCEPT ![i] = FALSE]
  /\ result' = [result EXCEPT ![i] = None]
  /\ UNCHANGED <<mfaVars, challenge, loginAttempts, ctx, evidence>>

\* The interaction's time is up: the adapter no longer returns its record.
Expire(i) ==
  /\ status[i] # "expired"
  /\ status' = [status EXCEPT ![i] = "expired"]
  /\ stored' = [stored EXCEPT ![i] = FALSE]
  /\ result' = [result EXCEPT ![i] = None]
  /\ UNCHANGED <<mfaVars, challenge, loginAttempts, ctx, evidence, sessions>>

\* The signed-in users' requests of module Mfa.
Manage == /\ \/ \E r \in Requests : Free(r) /\ Begin(r)
             \/ \E r \in Requests : Commit(r)
             \/ \E u \in Users, totp \in Totp : Disable(u, totp)
          /\ UNCHANGED loginVars

\* Faulty clock: a challenge never expires.
TickNoExpiry ==
  /\ MfaTick
  /\ loginAttempts' = [k \in Interactions \X Users |-> Elapse(loginAttempts[k])]
  /\ UNCHANGED <<status, stored, result, challenge, ctx, evidence, sessions>>

Tick ==
  /\ MfaTick
  /\ loginAttempts' = [k \in Interactions \X Users |-> Elapse(loginAttempts[k])]
  /\ challenge' = [i \in Interactions |->
                     IF Live(i) THEN [challenge[i] EXCEPT !.left = @ - 1]
                                ELSE challenge[i]]
  /\ UNCHANGED <<status, stored, result, ctx, evidence, sessions>>

\* What a restart loses of the login: its requests and its limiter entries.
Forget == /\ ctx' = [r \in Requests |-> Idle]
          /\ loginAttempts' = [k \in Interactions \X Users |-> NoAttempts]

Restart ==
  /\ MfaRestart
  /\ Forget
  /\ UNCHANGED <<status, stored, result, challenge, evidence, sessions>>

(* The process dies inside verifyMfa, between finished and remove: the     *)
(* answer is stored, the challenge still there.                            *)
CrashAfterFinish(i, totp) ==
  /\ Open(i)
  /\ LET u == challenge[i].user IN
     /\ TotpValid(u, totp)
     /\ second' = second \cup {<<i, u>>}
     /\ Finish(i, u, challenge[i].method, TRUE)
  /\ MfaRestart
  /\ Forget
  /\ UNCHANGED <<status, stored, challenge, first, exempt, sessions>>

(* It dies on the recovery path, once the code is marked: before finished  *)
(* has stored the answer, or between finished and remove.                  *)
CrashInVerify(r) ==
  /\ ctx[r].op = "verify"
  /\ CrashAfterMark(r)
  /\ LET i == ctx[r].uid  u == ctx[r].user IN
     /\ second' = second \cup {<<i, u>>}
     /\ \/ stored[i] /\ Finish(i, u, ctx[r].method, TRUE)
        \/ UNCHANGED result
  /\ Forget
  /\ UNCHANGED <<status, stored, challenge, first, exempt, sessions>>

(* The process dies inside create, between the DELETE and the INSERT. *)
CrashInCreate(r) ==
  /\ ctx[r].op \in {"login", "callback"}
  /\ row[ctx[r].user].enabled
  /\ RemoveChallenge(ctx[r].uid)
  /\ MfaRestart
  /\ Forget
  /\ UNCHANGED <<status, stored, result, evidence, sessions>>

\* The requests of the login, and what the provider does to interactions.
LoginNext ==
  \/ \E r \in Requests, i \in Interactions :
       \/ \E u \in Users : LoginStart(r, i, u) \/ CallbackStart(r, i, u)
       \/ \E c \in Code \cup {None} : VerifyRecovery(r, i, c)
  \/ \E r \in Requests : \/ LoginEnd(r) \/ CallbackEnd(r)
                         \/ RecoveryAccepted(r) \/ RecoveryRejected(r)
  \/ \E i \in Interactions : \/ \E totp \in Totp : VerifyTotp(i, totp)
                             \/ Resume(i) \/ Expire(i)

\* Time passes, and challenges that have run out are dropped.
Time == Tick \/ \E i \in Interactions : DropChallenge(i)

Crash == \/ \E i \in Interactions, totp \in Totp : CrashAfterFinish(i, totp)
         \/ \E r \in Requests : CrashInVerify(r) \/ CrashInCreate(r)
         \/ Restart

Next == LoginNext \/ Manage \/ Time \/ Crash

Spec == Init /\ [][Next]_vars

\* Time passes.
FairSpec == Spec /\ WF_vars(Tick)
-----------------------------------------------------------------------------
(* Behind every login that came out of an interaction, and every answer    *)
(* waiting in one, is the evidence of that very interaction: the account   *)
(* passed the first factor the amr names, and then a second factor of its  *)
(* own, unless its MFA was off when the first was accepted.                *)
Justified(i, a) ==
  /\ <<i, a.account, a.first>> \in first
  /\ IF a.otp THEN <<i, a.account>> \in second
              ELSE <<i, a.account>> \in exempt

SessionJustified ==
  /\ \A i \in Interactions : result[i] # None => Justified(i, result[i])
  /\ \A s \in sessions : Justified(s[1], s[2])

(* The login implements its abstract promise: answers are given only on    *)
(* evidence, a second factor counts only after a first one, and an answer  *)
(* is never changed but to another one that is granted.                    *)
Gate == INSTANCE GatedLogin WITH
  Users <- Users, Interactions <- Interactions, Methods <- Methods,
  None <- None, result <- result, sessions <- sessions,
  first <- first, exempt <- exempt, second <- second
GatedLoginSpec == Gate!Spec

(* A recovery code logs in the account it was given out to, even when the  *)
(* challenge of the interaction is replaced by another user's while argon2 *)
(* compares the code.                                                      *)
RecoveryCodeOfAccount ==
  [][\A i \in Interactions, c \in Code :
       uses'[c] # uses[c] /\ result'[i] # result[i]
         => c \in CodesOf(latest[result'[i].account])]_vars

(* An interaction does not stay on an MFA page that no code can pass: when *)
(* the user's MFA is turned off under a pending challenge, the challenge   *)
(* runs out (or another user's takes its place).                           *)
Stuck(i) == stored[i] /\ Live(i) /\ ~row[challenge[i].user].enabled
StuckEnds == \A i \in Interactions : Stuck(i) ~> ~Stuck(i)
=============================================================================
