--------------------------- MODULE MfaLoginProofs ---------------------------
(***************************************************************************)
(* Theorems about Mfa and about the hosted login composed with it, for     *)
(* every number of users, secrets, code sets, interactions and requests in *)
(* flight.                                                                 *)
(*                                                                         *)
(* The first half is about Mfa alone.  The second half shows that MfaLogin *)
(* is still an Mfa, so that the first half holds of it as well, and proves *)
(* its own properties from both.                                           *)
(***************************************************************************)
EXTENDS MfaLogin, TLAPS

(* What recordFailure and the clock make of an entry is an entry again. *)
LEMMA AttemptStateClosed ==
  ASSUME NEW s \in AttemptState
  PROVE  /\ NoAttempts \in AttemptState
         /\ Admitted(s) \in AttemptState
         /\ Failed(s) \in AttemptState
         /\ Elapse(s) \in AttemptState
BY RateLimitAssumption
DEF AttemptState, NoAttempts, Admitted, Failed, Elapse

(* What a verification that waits for argon2 is going to save has been     *)
(* confirmed like what is saved already.                                   *)
Confirmed ==
  /\ VerifiedSecret
  /\ \A r \in Requests :
       req[r].op = "complete" => <<req[r].user, req[r].secret>> \in confirmed

(* A user's stored codes are of the set last given out to that user, and   *)
(* no two users were given the same one.                                   *)
Stored ==
  /\ \A u \in Users : latest[u] # None => latest[u] \in issued
  /\ \A u, v \in Users : latest[u] = latest[v] /\ latest[u] # None => u = v
  /\ \A u \in Users : \A c \in codes[u] : c.batch = latest[u]

(* An accepted code is of a set already given out, and no UPDATE finds it  *)
(* again: its row is marked, or has been deleted.                          *)
Spent ==
  \A c \in Code : /\ uses[c] <= 1
                  /\ uses[c] = 1 => c.batch \in issued /\ ~Consumable(c)

(* The codes a recovery compares with were given to its own user.          *)
Pools ==
  \A r \in Requests :
    req[r].op = "recover" =>
      \A c \in req[r].pool :
        /\ c.batch \in issued
        /\ \A v \in Users : latest[v] = c.batch => v = req[r].user

CodesInv == EnabledHasLatestSet /\ Stored /\ Spent /\ Pools

MfaInv == MfaTypeOK /\ Confirmed /\ CodesInv
-----------------------------------------------------------------------------
(* The union of record sets that a request is a member of, by its op. *)
LEMMA RequestOf ==
  ASSUME NEW q \in Request
  PROVE  /\ q.op = "enroll" => q.user \in Users /\ q.found \in BOOLEAN
         /\ q.op = "complete" => q.user \in Users /\ q.secret \in Secrets
         /\ q.op = "regenerate" => q.user \in Users
         /\ q.op = "recover" => /\ q.user \in Users
                                /\ q.pool \subseteq Code
                                /\ q.code \in Code \cup {None}
PROOF BY DEF Request, Idle

(* The tables are empty and nothing is in flight. *)
LEMMA MfaInvInit == MfaInit => MfaInv
PROOF
<1> SUFFICES ASSUME MfaInit PROVE MfaInv
  OBVIOUS
<1>1. MfaTypeOK
  BY AttemptStateClosed, RateLimitAssumption
  DEF MfaInit, MfaTypeOK, Row, NoRow, Request, Idle, NoAttempts,
      AttemptState
<1>2. Confirmed /\ EnabledHasLatestSet
  BY DEF MfaInit, Confirmed, VerifiedSecret, EnabledHasLatestSet, NoRow,
         Idle
<1>3. Stored /\ Spent /\ Pools
  BY DEF MfaInit, Stored, Spent, Pools, Idle
<1>4. QED
  BY <1>1, <1>2, <1>3 DEF MfaInv, CodesInv

(* A batch drawn for user u is one of the batches, and so are its codes. *)
LEMMA ReplaceType ==
  ASSUME MfaTypeOK, NEW u \in Users, NEW b \in Batches \ issued,
         ReplaceCodes(u, b)
  PROVE  /\ codes' \in [Users -> SUBSET Code]
         /\ used' \subseteq Code
         /\ issued' \subseteq Batches
         /\ latest' \in [Users -> Batches \cup {None}]
PROOF BY DEF MfaTypeOK, ReplaceCodes, CodesOf

(* Every request leaves the limiter's entries what the Map can hold. *)
LEMMA AttemptsType ==
  ASSUME MfaTypeOK, NEW u \in Users
  PROVE  /\ NotApplicable(u) => MfaTypeOK'
         /\ WrongTotp(u) => MfaTypeOK'
PROOF
<1>1. /\ Admitted(attempts[u]) \in AttemptState
      /\ Failed(Admitted(attempts[u])) \in AttemptState
  BY AttemptStateClosed DEF MfaTypeOK
<1>2. QED
  BY <1>1 DEF MfaTypeOK, NotApplicable, WrongTotp, tables, history

LEMMA MfaTypeStep ==
  ASSUME MfaTypeOK, [MfaNext]_mfaVars
  PROVE  MfaTypeOK'
PROOF
<1>0. \A r \in Requests : req[r] \in Request
  BY DEF MfaTypeOK
<1>a. \A u \in Users : /\ Admitted(attempts[u]) \in AttemptState
                       /\ Elapse(attempts[u]) \in AttemptState
                       /\ NoAttempts \in AttemptState
  BY AttemptStateClosed DEF MfaTypeOK
<1>i. Idle \in Request
  BY DEF Request
<1>1. ASSUME NEW r \in Requests, NEW u \in Users, EnrollStart(r, u)
      PROVE  MfaTypeOK'
  <2>1. [op |-> "enroll", user |-> u, found |-> row[u].exists] \in Request
    BY DEF MfaTypeOK, Row, Request
  <2>2. QED
    BY <1>1, <2>1 DEF MfaTypeOK, EnrollStart, MfaWait, tables, history
<1>2. ASSUME NEW r \in Requests, EnrollSave(r)
      PROVE  MfaTypeOK'
  <2>1. req[r].user \in Users
    BY <1>0, <1>2, RequestOf DEF EnrollSave
  <2>2. row' \in [Users -> Row] /\ drawn' \subseteq Secrets
    <3>1. CASE UNCHANGED <<row, drawn>>
      BY <3>1 DEF MfaTypeOK
    <3>2. CASE \E s \in Secrets :
                 /\ drawn' = drawn \cup {s}
                 /\ row' = [row EXCEPT ![req[r].user] =
                             [exists |-> TRUE, enabled |-> FALSE,
                              secret |-> s]]
      <4>1. \A s \in Secrets :
              [exists |-> TRUE, enabled |-> FALSE, secret |-> s] \in Row
        BY DEF Row
      <4>2. QED
        BY <2>1, <3>2, <4>1 DEF MfaTypeOK
    <3>3. QED
      BY <1>2, <3>1, <3>2 DEF EnrollSave
  <2>3. QED
    BY <1>2, <1>i, <2>2 DEF MfaTypeOK, EnrollSave, MfaDone, MfaWait
<1>3. ASSUME NEW r \in Requests, NEW u \in Users, NEW totp \in Totp,
             CompleteStart(r, u, totp)
      PROVE  MfaTypeOK'
  <2>1. CASE NotApplicable(u) \/ WrongTotp(u)
    BY <2>1, AttemptsType
  <2>2. CASE /\ Pending(u)
             /\ attempts' = [attempts EXCEPT ![u] = Admitted(@)]
             /\ confirmed' = confirmed \cup {<<u, row[u].secret>>}
             /\ MfaWait(r, [op |-> "complete", user |-> u,
                         secret |-> row[u].secret])
             /\ UNCHANGED <<tables, drawn, issued, latest, uses>>
    <3>1. row[u].secret \in Secrets
      BY <2>2 DEF MfaTypeOK, Row, Pending
    <3>2. [op |-> "complete", user |-> u, secret |-> row[u].secret]
            \in Request
      BY <3>1 DEF Request
    <3>3. QED
      BY <1>a, <2>2, <3>1, <3>2 DEF MfaTypeOK, MfaWait, tables
  <2>3. QED
    BY <1>3, <2>1, <2>2 DEF CompleteStart
<1>4. ASSUME NEW r \in Requests, CompleteCommit(r)
      PROVE  MfaTypeOK'
  <2>1. req[r].user \in Users /\ req[r].secret \in Secrets
    BY <1>0, <1>4, RequestOf DEF CompleteCommit
  <2>2. PICK b \in Batches \ issued : ReplaceCodes(req[r].user, b)
    BY <1>4 DEF CompleteCommit
  <2>3. /\ codes' \in [Users -> SUBSET Code]
        /\ used' \subseteq Code
        /\ issued' \subseteq Batches
        /\ latest' \in [Users -> Batches \cup {None}]
    BY <2>1, <2>2, ReplaceType
  <2>4. row' \in [Users -> Row]
    BY <1>4, <2>1 DEF MfaTypeOK, CompleteCommit, Row
  <2>5. QED
    BY <1>4, <1>a, <1>i, <2>1, <2>3, <2>4 DEF MfaTypeOK, CompleteCommit,
                                              MfaDone, MfaWait
<1>5. ASSUME NEW r \in Requests, NEW u \in Users, NEW totp \in Totp,
             RegenerateStart(r, u, totp)
      PROVE  MfaTypeOK'
  <2>1. CASE NotApplicable(u) \/ WrongTotp(u)
    BY <2>1, AttemptsType
  <2>2. CASE /\ attempts' = [attempts EXCEPT ![u] = Admitted(@)]
             /\ MfaWait(r, [op |-> "regenerate", user |-> u])
             /\ UNCHANGED <<tables, history>>
    <3>1. [op |-> "regenerate", user |-> u] \in Request
      BY DEF Request
    <3>2. QED
      BY <1>a, <2>2, <3>1 DEF MfaTypeOK, MfaWait, tables, history
  <2>3. QED
    BY <1>5, <2>1, <2>2 DEF RegenerateStart
<1>6. ASSUME NEW r \in Requests, RegenerateCommit(r)
      PROVE  MfaTypeOK'
  <2>1. req[r].user \in Users
    BY <1>0, <1>6, RequestOf DEF RegenerateCommit
  <2>2. PICK b \in Batches \ issued : ReplaceCodes(req[r].user, b)
    BY <1>6 DEF RegenerateCommit
  <2>3. /\ codes' \in [Users -> SUBSET Code]
        /\ used' \subseteq Code
        /\ issued' \subseteq Batches
        /\ latest' \in [Users -> Batches \cup {None}]
    BY <2>1, <2>2, ReplaceType
  <2>4. QED
    BY <1>6, <1>a, <1>i, <2>1, <2>3 DEF MfaTypeOK, RegenerateCommit, MfaDone,
                                        MfaWait
<1>7. ASSUME NEW u \in Users, NEW totp \in Totp, Disable(u, totp)
      PROVE  MfaTypeOK'
  <2>1. CASE NotApplicable(u) \/ WrongTotp(u)
    BY <2>1, AttemptsType
  <2>2. CASE /\ row' = [row EXCEPT ![u] = [exists |-> TRUE, enabled |-> FALSE,
                                           secret |-> None]]
             /\ codes' = [codes EXCEPT ![u] = {}]
             /\ used' = used \ codes[u]
             /\ attempts' = [attempts EXCEPT ![u] = NoAttempts]
             /\ UNCHANGED <<req, history>>
    BY <1>a, <2>2 DEF MfaTypeOK, Row, history
  <2>3. QED
    BY <1>7, <2>1, <2>2 DEF Disable
<1>8. ASSUME NEW r \in Requests, NEW u \in Users, NEW c \in Code \cup {None},
             RecoverStart(r, u, c)
      PROVE  MfaTypeOK'
  <2>1. [op |-> "recover", user |-> u, pool |-> codes[u] \ used, code |-> c]
          \in Request
    BY DEF MfaTypeOK, Request
  <2>2. QED
    BY <1>8, <2>1 DEF MfaTypeOK, RecoverStart, MfaWait, tables, history
<1>f. MfaForget => /\ req' \in [Requests -> Request]
                   /\ attempts' \in [Users -> AttemptState]
  BY <1>a, <1>i DEF MfaForget
<1>9. ASSUME NEW r \in Requests, RecoverAccept(r) \/ CrashAfterMark(r)
      PROVE  MfaTypeOK'
  <2>1. MarkUsed(r)
    BY <1>9 DEF RecoverAccept, CrashAfterMark
  <2>2. req[r].code \in Code
    BY <1>0, <2>1, RequestOf DEF MarkUsed, RecoverAccepts
  <2>3. uses' \in [Code -> Nat]
    BY <2>1, <2>2 DEF MfaTypeOK, MarkUsed
  <2>4. /\ req' \in [Requests -> Request]
        /\ attempts' \in [Users -> AttemptState]
    BY <1>9, <1>f, <1>i
    DEF MfaTypeOK, RecoverAccept, CrashAfterMark, MfaDone, MfaWait
  <2>5. QED
    BY <2>1, <2>2, <2>3, <2>4 DEF MfaTypeOK, MarkUsed
<1>10. ASSUME NEW r \in Requests, RecoverReject(r)
       PROVE  MfaTypeOK'
  BY <1>10, <1>i DEF MfaTypeOK, RecoverReject, MfaDone, MfaWait, tables,
                     history
<1>11. CASE MfaTick
  BY <1>11, <1>a DEF MfaTypeOK, MfaTick, tables, history
<1>12. CASE MfaRestart
  BY <1>12, <1>f DEF MfaTypeOK, MfaRestart, tables, history
<1>13. CASE UNCHANGED mfaVars
  BY <1>13 DEF MfaTypeOK, mfaVars
<1>14. QED
  BY <1>1, <1>2, <1>3, <1>4, <1>5, <1>6, <1>7, <1>8, <1>9, <1>10, <1>11,
     <1>12, <1>13
  DEF MfaNext, Begin, Commit
-----------------------------------------------------------------------------
(* A secret is saved with the flag only when it has been confirmed. *)
LEMMA ConfirmedStep ==
  ASSUME MfaTypeOK, Confirmed, [MfaNext]_mfaVars
  PROVE  Confirmed'
PROOF
<1> USE DEF Confirmed, VerifiedSecret
<1>0. \A r \in Requests : req[r] \in Request
  BY DEF MfaTypeOK
<1>1. ASSUME NEW r \in Requests, NEW u \in Users, EnrollStart(r, u)
      PROVE  Confirmed'
  BY <1>1 DEF MfaTypeOK, EnrollStart, MfaWait, tables, history
<1>2. ASSUME NEW r \in Requests, EnrollSave(r)
      PROVE  Confirmed'
  <2>1. req' = [req EXCEPT ![r] = Idle] /\ confirmed' = confirmed
    BY <1>2 DEF EnrollSave, MfaDone, MfaWait
  <2>2. \A u \in Users : row'[u].enabled => row'[u] = row[u]
    <3>1. CASE UNCHANGED row
      BY <3>1
    <3>2. CASE \E s \in Secrets :
                 row' = [row EXCEPT ![req[r].user] =
                           [exists |-> TRUE, enabled |-> FALSE, secret |-> s]]
      BY <3>2 DEF MfaTypeOK
    <3>3. QED
      BY <1>2, <3>1, <3>2 DEF EnrollSave
  <2>3. QED
    BY <2>1, <2>2 DEF MfaTypeOK, Idle
<1>3. ASSUME NEW r \in Requests, NEW u \in Users, NEW totp \in Totp,
             CompleteStart(r, u, totp)
      PROVE  Confirmed'
  BY <1>3 DEF MfaTypeOK, CompleteStart, NotApplicable, WrongTotp, MfaWait,
              tables,
              history
<1>4. ASSUME NEW r \in Requests, CompleteCommit(r)
      PROVE  Confirmed'
  <2>1. <<req[r].user, req[r].secret>> \in confirmed
    BY <1>4 DEF CompleteCommit
  <2>2. /\ row' = [row EXCEPT ![req[r].user] =
                     [exists |-> TRUE, enabled |-> TRUE,
                      secret |-> req[r].secret]]
        /\ req' = [req EXCEPT ![r] = Idle]
        /\ confirmed' = confirmed
    BY <1>4 DEF CompleteCommit, MfaDone, MfaWait
  <2>3. QED
    BY <2>1, <2>2 DEF MfaTypeOK, Idle
<1>5. ASSUME NEW r \in Requests, NEW u \in Users, NEW totp \in Totp,
             RegenerateStart(r, u, totp)
      PROVE  Confirmed'
  BY <1>5 DEF MfaTypeOK, RegenerateStart, NotApplicable, WrongTotp,
              MfaWait, tables,
              history
<1>6. ASSUME NEW r \in Requests, RegenerateCommit(r)
      PROVE  Confirmed'
  BY <1>6 DEF MfaTypeOK, RegenerateCommit, MfaDone, MfaWait, Idle
<1>7. ASSUME NEW u \in Users, NEW totp \in Totp, Disable(u, totp)
      PROVE  Confirmed'
  BY <1>7 DEF MfaTypeOK, Disable, NotApplicable, WrongTotp, tables,
              history
<1>8. ASSUME NEW r \in Requests, NEW u \in Users, NEW c \in Code \cup {None},
             RecoverStart(r, u, c)
      PROVE  Confirmed'
  BY <1>8 DEF MfaTypeOK, RecoverStart, MfaWait, tables, history
<1>9. ASSUME NEW r \in Requests, RecoverAccept(r) \/ RecoverReject(r)
      PROVE  Confirmed'
  BY <1>9 DEF MfaTypeOK, RecoverAccept, MarkUsed, RecoverReject, MfaDone,
              MfaWait, Idle, tables, history
<1>10. CASE MfaTick \/ UNCHANGED mfaVars
  BY <1>10 DEF MfaTick, mfaVars, tables, history
<1>11. ASSUME MfaRestart \/ \E r \in Requests : CrashAfterMark(r)
       PROVE  Confirmed'
  BY <1>11 DEF MfaRestart, CrashAfterMark, MarkUsed, MfaForget, Idle, tables,
               history
<1>12. QED
  BY <1>1, <1>2, <1>3, <1>4, <1>5, <1>6, <1>7, <1>8, <1>9, <1>10, <1>11
  DEF MfaNext, Begin, Commit
-----------------------------------------------------------------------------
\* A recovery that starts compares with codes of its own user.
OwnPool(q) == q.user \in Users /\ q.pool \subseteq codes[q.user]

(* A step that leaves the codes and what is known of them alone. *)
LEMMA QuietStep ==
  ASSUME MfaTypeOK, CodesInv,
         UNCHANGED <<codes, used, issued, latest, uses>>,
         \A u \in Users : row'[u].enabled => row[u].enabled,
         \A r \in Requests : req'[r].op = "recover" =>
                               req'[r] = req[r] \/ OwnPool(req'[r])
  PROVE  CodesInv'
PROOF
<1>1. EnabledHasLatestSet' /\ Stored' /\ Spent'
  BY DEF CodesInv, EnabledHasLatestSet, Stored, Spent, Consumable
<1>2. Pools'
  <2>1. SUFFICES ASSUME NEW r \in Requests, req'[r].op = "recover",
                        NEW c \in req'[r].pool
                 PROVE  /\ c.batch \in issued
                        /\ \A v \in Users : latest[v] = c.batch
                                             => v = req'[r].user
    BY DEF Pools
  <2>2. CASE req'[r] = req[r]
    BY <2>1, <2>2 DEF CodesInv, Pools
  <2>3. CASE OwnPool(req'[r])
    <3>1. c \in codes[req'[r].user] /\ req'[r].user \in Users
      BY <2>1, <2>3 DEF OwnPool
    <3>2. c \in Code /\ c.batch # None
      BY <3>1, MfaAssumption DEF MfaTypeOK, Code
    <3>3. c.batch = latest[req'[r].user]
      BY <3>1 DEF CodesInv, Stored
    <3>4. QED
      BY <3>1, <3>2, <3>3 DEF CodesInv, Stored
  <2>4. QED
    BY <2>1, <2>2, <2>3
<1>3. QED
  BY <1>1, <1>2 DEF CodesInv

(* Replacing a user's codes by a new set keeps the books. *)
LEMMA ReplaceKeeps ==
  ASSUME MfaTypeOK, CodesInv, NEW u \in Users, NEW b \in Batches \ issued,
         ReplaceCodes(u, b), uses' = uses,
         \A v \in Users : v # u /\ row'[v].enabled => row[v].enabled,
         \A r \in Requests : req'[r].op = "recover" => req'[r] = req[r]
  PROVE  CodesInv'
PROOF
<1>1. /\ codes' = [codes EXCEPT ![u] = CodesOf(b)]
      /\ latest' = [latest EXCEPT ![u] = b]
      /\ issued' = issued \cup {b}
      /\ used' = used \ codes[u]
  BY DEF ReplaceCodes
<1>2. b # None
  BY MfaAssumption
<1>3. \A v \in Users : /\ codes'[v] = IF v = u THEN CodesOf(b) ELSE codes[v]
                       /\ latest'[v] = IF v = u THEN b ELSE latest[v]
  BY <1>1 DEF MfaTypeOK
<1>4. EnabledHasLatestSet'
  BY <1>2, <1>3 DEF CodesInv, EnabledHasLatestSet
<1>5. Stored'
  <2>1. \A v \in Users : latest'[v] # None => latest'[v] \in issued'
    BY <1>1, <1>3 DEF CodesInv, Stored
  <2>2. \A v, w \in Users :
          latest'[v] = latest'[w] /\ latest'[v] # None => v = w
    BY <1>3 DEF CodesInv, Stored
  <2>3. \A v \in Users : \A c \in codes'[v] : c.batch = latest'[v]
    BY <1>3 DEF CodesInv, Stored, CodesOf
  <2>4. QED
    BY <2>1, <2>2, <2>3 DEF Stored
<1>6. Spent'
  <2>1. SUFFICES ASSUME NEW c \in Code, uses[c] = 1
                 PROVE  c.batch \in issued' /\ ~Consumable(c)'
    BY DEF CodesInv, Spent
  <2>2. c.batch \in issued /\ ~Consumable(c)
    BY <2>1 DEF CodesInv, Spent
  <2>3. c \notin CodesOf(b)
    BY <2>2 DEF CodesOf
  <2>4. SUFFICES ASSUME NEW v \in Users, c \in codes'[v]
                 PROVE  c \in used'
    BY <1>1, <2>2 DEF Consumable
  <2>5. v # u /\ c \in codes[v]
    BY <1>3, <2>3, <2>4
  <2>6. c \in used
    BY <2>2, <2>5 DEF Consumable
  <2>7. c \notin codes[u]
    <3>1. SUFFICES ASSUME c \in codes[u] PROVE FALSE
      OBVIOUS
    <3>2. c.batch = latest[u] /\ c.batch = latest[v]
      BY <2>5, <3>1 DEF CodesInv, Stored
    <3>3. c.batch # None
      BY MfaAssumption DEF Code
    <3>4. QED
      BY <2>5, <3>2, <3>3 DEF CodesInv, Stored
  <2>8. QED
    BY <1>1, <2>6, <2>7
<1>7. Pools'
  <2>1. SUFFICES ASSUME NEW r \in Requests, req'[r].op = "recover",
                        NEW c \in req'[r].pool
                 PROVE  /\ c.batch \in issued'
                        /\ \A v \in Users : latest'[v] = c.batch
                                             => v = req'[r].user
    BY DEF Pools
  <2>2. /\ c.batch \in issued
        /\ \A v \in Users : latest[v] = c.batch => v = req'[r].user
    BY <2>1 DEF CodesInv, Pools
  <2>3. QED
    BY <1>1, <1>3, <2>2
<1>8. QED
  BY <1>4, <1>5, <1>6, <1>7 DEF CodesInv

(* Deleting a user's codes, with the flag, keeps the books. *)
LEMMA DisableKeeps ==
  ASSUME MfaTypeOK, CodesInv, NEW u \in Users,
         row' = [row EXCEPT ![u] = [exists |-> TRUE, enabled |-> FALSE,
                                    secret |-> None]],
         codes' = [codes EXCEPT ![u] = {}],
         used' = used \ codes[u],
         UNCHANGED <<req, history>>
  PROVE  CodesInv'
PROOF
<1>1. \A v \in Users : codes'[v] = IF v = u THEN {} ELSE codes[v]
  BY DEF MfaTypeOK
<1>2. EnabledHasLatestSet'
  BY <1>1 DEF MfaTypeOK, CodesInv, EnabledHasLatestSet, history
<1>3. Stored' /\ Pools'
  BY <1>1 DEF CodesInv, Stored, Pools, history
<1>4. Spent'
  <2>1. SUFFICES ASSUME NEW c \in Code, uses[c] = 1,
                        NEW v \in Users, c \in codes'[v]
                 PROVE  c \in used'
    BY DEF CodesInv, Spent, Consumable, history
  <2>2. v # u /\ c \in codes[v]
    BY <1>1, <2>1
  <2>3. c \in used
    BY <2>1, <2>2 DEF CodesInv, Spent, Consumable
  <2>4. c \notin codes[u]
    <3>1. SUFFICES ASSUME c \in codes[u] PROVE FALSE
      OBVIOUS
    <3>2. c.batch = latest[u] /\ c.batch = latest[v]
      BY <2>2, <3>1 DEF CodesInv, Stored
    <3>3. c.batch # None
      BY MfaAssumption DEF Code
    <3>4. QED
      BY <2>2, <3>2, <3>3 DEF CodesInv, Stored
  <2>5. QED
    BY <2>3, <2>4
<1>5. QED
  BY <1>2, <1>3, <1>4 DEF CodesInv

(* The UPDATE that accepts a code makes it unavailable to any other. *)
LEMMA AcceptKeeps ==
  ASSUME MfaTypeOK, CodesInv, NEW r \in Requests, MarkUsed(r),
         \A q \in Requests : req'[q].op = "recover" => req'[q] = req[q]
  PROVE  CodesInv'
PROOF
<1> DEFINE c == req[r].code
<1>1. c \in Code /\ Consumable(c)
  BY RequestOf DEF MfaTypeOK, MarkUsed, RecoverAccepts
<1>2. /\ used' = used \cup {c}
      /\ uses' = [uses EXCEPT ![c] = @ + 1]
      /\ UNCHANGED <<row, codes, issued, latest>>
  BY DEF MarkUsed
<1>3. EnabledHasLatestSet' /\ Stored'
  BY <1>2 DEF CodesInv, EnabledHasLatestSet, Stored
<1>4. Pools'
  BY <1>2 DEF CodesInv, Pools
<1>5. Spent'
  <2>1. uses[c] = 0 /\ c.batch \in issued
    <3>1. PICK u \in Users : c \in codes[u]
      BY <1>1 DEF Consumable
    <3>2. c.batch \in issued
      <4>1. c.batch # None /\ c.batch = latest[u]
        BY <1>1, <3>1, MfaAssumption DEF Code, CodesInv, Stored
      <4>2. QED
        BY <4>1 DEF CodesInv, Stored
    <3>3. uses[c] \in Nat /\ uses[c] <= 1 /\ uses[c] # 1
      BY <1>1 DEF MfaTypeOK, CodesInv, Spent
    <3>4. QED
      BY <3>2, <3>3
  <2>2. \A d \in Code : uses'[d] = IF d = c THEN 1 ELSE uses[d]
    BY <1>1, <1>2, <2>1 DEF MfaTypeOK
  <2>3. SUFFICES ASSUME NEW d \in Code
                 PROVE  /\ uses'[d] <= 1
                        /\ uses'[d] = 1
                             => d.batch \in issued /\ ~Consumable(d)'
    BY <1>2 DEF Spent
  <2>4. CASE d = c
    BY <1>2, <2>1, <2>2, <2>4 DEF Consumable
  <2>5. CASE d # c
    BY <1>2, <2>2, <2>5 DEF CodesInv, Spent, Consumable
  <2>6. QED
    BY <2>4, <2>5
<1>6. QED
  BY <1>3, <1>4, <1>5 DEF CodesInv

LEMMA CodesStep ==
  ASSUME MfaTypeOK, CodesInv, [MfaNext]_mfaVars
  PROVE  CodesInv'
PROOF
<1>0. \A r \in Requests : req[r] \in Request
  BY DEF MfaTypeOK
<1>1. ASSUME NEW r \in Requests, NEW u \in Users, EnrollStart(r, u)
      PROVE  CodesInv'
  BY <1>1, QuietStep DEF MfaTypeOK, EnrollStart, MfaWait, tables, history
<1>2. ASSUME NEW r \in Requests, EnrollSave(r)
      PROVE  CodesInv'
  <2>1. req' = [req EXCEPT ![r] = Idle]
    BY <1>2 DEF EnrollSave, MfaDone, MfaWait
  <2>2. \A u \in Users : row'[u].enabled => row[u].enabled
    <3>1. CASE UNCHANGED row
      BY <3>1
    <3>2. CASE \E s \in Secrets :
                 row' = [row EXCEPT ![req[r].user] =
                           [exists |-> TRUE, enabled |-> FALSE, secret |-> s]]
      BY <3>2 DEF MfaTypeOK
    <3>3. QED
      BY <1>2, <3>1, <3>2 DEF EnrollSave
  <2>3. UNCHANGED <<codes, used, issued, latest, uses>>
    BY <1>2 DEF EnrollSave
  <2>4. QED
    BY <2>1, <2>2, <2>3, QuietStep DEF MfaTypeOK, Idle
<1>3. ASSUME NEW r \in Requests, NEW u \in Users, NEW totp \in Totp,
             \/ CompleteStart(r, u, totp)
             \/ RegenerateStart(r, u, totp)
      PROVE  CodesInv'
  <2>1. UNCHANGED <<row, codes, used, issued, latest, uses>>
    BY <1>3 DEF CompleteStart, RegenerateStart, NotApplicable,
                WrongTotp,
                tables, history
  <2>2. \A q \in Requests : req'[q].op = "recover" => req'[q] = req[q]
    BY <1>3 DEF MfaTypeOK, CompleteStart, RegenerateStart, NotApplicable,
                WrongTotp, MfaWait
  <2>3. QED
    BY <2>1, <2>2, QuietStep
<1>4. ASSUME NEW r \in Requests, CompleteCommit(r)
      PROVE  CodesInv'
  <2>1. req[r].user \in Users
    BY <1>0, <1>4, RequestOf DEF CompleteCommit
  <2>2. PICK b \in Batches \ issued : ReplaceCodes(req[r].user, b)
    BY <1>4 DEF CompleteCommit
  <2>3. \A v \in Users : v # req[r].user /\ row'[v].enabled => row[v].enabled
    BY <1>4 DEF MfaTypeOK, CompleteCommit
  <2>4. \A q \in Requests : req'[q].op = "recover" => req'[q] = req[q]
    BY <1>4 DEF MfaTypeOK, CompleteCommit, MfaDone, MfaWait, Idle
  <2>5. uses' = uses
    BY <1>4 DEF CompleteCommit
  <2>6. QED
    BY <2>1, <2>2, <2>3, <2>4, <2>5, ReplaceKeeps
<1>5. ASSUME NEW r \in Requests, RegenerateCommit(r)
      PROVE  CodesInv'
  <2>1. req[r].user \in Users
    BY <1>0, <1>5, RequestOf DEF RegenerateCommit
  <2>2. PICK b \in Batches \ issued : ReplaceCodes(req[r].user, b)
    BY <1>5 DEF RegenerateCommit
  <2>3. \A q \in Requests : req'[q].op = "recover" => req'[q] = req[q]
    BY <1>5 DEF MfaTypeOK, RegenerateCommit, MfaDone, MfaWait, Idle
  <2>4. uses' = uses /\ row' = row
    BY <1>5 DEF RegenerateCommit
  <2>5. QED
    BY <2>1, <2>2, <2>3, <2>4, ReplaceKeeps
<1>6. ASSUME NEW u \in Users, NEW totp \in Totp, Disable(u, totp)
      PROVE  CodesInv'
  <2>1. CASE NotApplicable(u) \/ WrongTotp(u)
    BY <2>1, QuietStep DEF NotApplicable, WrongTotp, tables, history
  <2>2. CASE TotpValid(u, totp)
    BY <1>6, <2>2, DisableKeeps
    DEF Disable, TotpValid, NotApplicable, WrongTotp
  <2>3. QED
    BY <1>6, <2>1, <2>2 DEF Disable
<1>7. ASSUME NEW r \in Requests, NEW u \in Users, NEW c \in Code \cup {None},
             RecoverStart(r, u, c)
      PROVE  CodesInv'
  <2>1. OwnPool([op |-> "recover", user |-> u, pool |-> codes[u] \ used,
                 code |-> c])
    BY DEF OwnPool
  <2>2. UNCHANGED <<row, codes, used, issued, latest, uses>>
    BY <1>7 DEF RecoverStart, tables, history
  <2>3. \A q \in Requests : req'[q] = req[q] \/ OwnPool(req'[q])
    BY <1>7, <2>1 DEF MfaTypeOK, RecoverStart, MfaWait
  <2>4. QED
    BY <2>2, <2>3, QuietStep
<1>8. ASSUME NEW r \in Requests, RecoverAccept(r) \/ CrashAfterMark(r)
      PROVE  CodesInv'
  <2>1. \A q \in Requests : req'[q].op = "recover" => req'[q] = req[q]
    BY <1>8 DEF MfaTypeOK, RecoverAccept, CrashAfterMark, MfaForget, MfaDone,
                MfaWait, Idle
  <2>2. QED
    BY <1>8, <2>1, AcceptKeeps DEF RecoverAccept, CrashAfterMark
<1>9. ASSUME NEW r \in Requests, RecoverReject(r)
      PROVE  CodesInv'
  BY <1>9, QuietStep DEF MfaTypeOK, RecoverReject, MfaDone, MfaWait, Idle,
                         tables, history
<1>10. CASE MfaTick \/ UNCHANGED mfaVars
  BY <1>10, QuietStep DEF MfaTick, mfaVars, tables, history
<1>11. CASE MfaRestart
  BY <1>11, QuietStep DEF MfaRestart, MfaForget, Idle, tables, history
<1>12. QED
  BY <1>1, <1>2, <1>3, <1>4, <1>5, <1>6, <1>7, <1>8, <1>9, <1>10, <1>11
  DEF MfaNext, Begin, Commit
-----------------------------------------------------------------------------
(* The conjuncts are invariants together: what the tables hold is right    *)
(* because what the requests in flight are going to write is.              *)
THEOREM MfaInvariance == MfaSpec => []MfaInv
PROOF
<1>1. MfaInv /\ [MfaNext]_mfaVars => MfaInv'
  BY MfaTypeStep, ConfirmedStep, CodesStep DEF MfaInv
<1>2. QED
  BY <1>1, MfaInvInit, PTL DEF MfaSpec, mfaVars

(* The tables, the limiter and the requests hold what they are meant to. *)
THEOREM MfaTypeCorrect == MfaSpec => []MfaTypeOK
PROOF BY MfaInvariance, PTL DEF MfaInv

(* completeEnrollment: MFA is on only with a secret its user confirmed,    *)
(* however many enrolments and verifications overlap.                      *)
THEOREM SecretsAreVerified == MfaSpec => []VerifiedSecret
PROOF BY MfaInvariance, PTL DEF MfaInv, Confirmed

(* consumeCode: no recovery code is accepted twice, whatever the number of *)
(* requests that present it at the same time.                              *)
THEOREM CodesAreAcceptedOnce == MfaSpec => []AcceptedOnce
PROOF
<1>1. MfaInv => AcceptedOnce
  BY DEF MfaInv, CodesInv, Spent, AcceptedOnce
<1>2. QED
  BY <1>1, MfaInvariance, PTL

(* completeEnrollment and regenerate: while MFA is on the stored codes are *)
(* exactly the last set given out.                                         *)
THEOREM StoredCodesAreLatest == MfaSpec => []EnabledHasLatestSet
PROOF BY MfaInvariance, PTL DEF MfaInv, CodesInv

(* The code that consumeCode accepts is of the set last given to its user. *)
LEMMA AcceptedIsLatest ==
  ASSUME MfaInv, NEW r \in Requests, MarkUsed(r)
  PROVE  req[r].code \in CodesOf(latest[req[r].user])
PROOF
<1>1. /\ req[r].op = "recover" /\ req[r].code \in req[r].pool
      /\ Consumable(req[r].code)
  BY DEF MarkUsed, RecoverAccepts
<1>2. PICK v \in Users : req[r].code \in codes[v]
  BY <1>1 DEF Consumable
<1>3. req[r].code.batch = latest[v] /\ req[r].code \in Code
  BY <1>2 DEF MfaInv, MfaTypeOK, CodesInv, Stored
<1>4. v = req[r].user
  BY <1>1, <1>3 DEF MfaInv, CodesInv, Pools
<1>5. QED
  BY <1>3, <1>4 DEF CodesOf

(* consumeCode: the code accepted is of the set last given to the user who *)
(* presented it, however the set was replaced while argon2 compared it.    *)
THEOREM AcceptedCodesAreLatest == MfaSpec => OnlyLatestCodes
PROOF
<1>1. MfaInv /\ [MfaNext]_mfaVars =>
        [\A r \in Requests : MarkUsed(r) =>
           req[r].code \in CodesOf(latest[req[r].user])]_mfaVars
  BY AcceptedIsLatest
<1>2. QED
  BY <1>1, MfaInvariance, PTL
  DEF MfaSpec, OnlyLatestCodes, mfaVars
-----------------------------------------------------------------------------
(***************************************************************************)
(* The hosted login.                                                       *)
(***************************************************************************)
(* Whoever a challenge names has passed the first factor it names, in the  *)
(* interaction it belongs to...                                            *)
Challenged ==
  \A i \in Interactions :
    challenge[i] # None
      => <<i, challenge[i].user, challenge[i].method>> \in first

(* ... and so has the user whose recovery code argon2 is comparing for a   *)
(* login: what was read from the challenge stays true when the challenge   *)
(* is replaced or gone.                                                    *)
Verifying ==
  \A r \in Requests :
    ctx[r].op = "verify" =>
      /\ <<ctx[r].uid, ctx[r].user, ctx[r].method>> \in first
      /\ req[r].op = "recover" /\ req[r].user = ctx[r].user

LoginInv == TypeOK /\ Challenged /\ Verifying

(* The union of record sets that a login request is a member of. *)
LEMMA ContextOf ==
  ASSUME NEW c \in Context
  PROVE  /\ c.op \in {"login", "callback", "verify"} =>
              c.uid \in Interactions /\ c.user \in Users
         /\ c.op = "verify" => c.method \in Methods
PROOF BY DEF Context, Idle

(* The same of the entries for oidc-mfa:<uid>:<userId>. *)
LEMMA LoginAttemptsClosed ==
  ASSUME NEW s \in AttemptState
  PROVE  /\ NoAttempts \in AttemptState
         /\ Admitted(s) \in AttemptState
         /\ Failed(s) \in AttemptState
         /\ Elapse(s) \in AttemptState
PROOF BY RateLimitAssumption
      DEF AttemptState, NoAttempts, Admitted, Failed, Elapse

(* What every action of the login does to the state of Mfa is a step of    *)
(* Mfa, or nothing.                                                        *)
LEMMA MfaSteps ==
  ASSUME TypeOK, [Next]_vars
  PROVE  [MfaNext]_mfaVars
PROOF
<1>1. CASE LoginNext
  <2>1. ASSUME NEW r \in Requests, NEW i \in Interactions,
               NEW c \in Code \cup {None}, VerifyRecovery(r, i, c)
        PROVE  UNCHANGED mfaVars \/ \E u \in Users : RecoverStart(r, u, c)
    <3>1. challenge[i].user \in Users
      BY <2>1 DEF TypeOK, VerifyRecovery, Open, Live, Challenge
    <3>2. QED
      BY <2>1, <3>1 DEF VerifyRecovery
  <2>2. QED
    BY <1>1, <2>1
    DEF LoginNext, LoginStart, CallbackStart, LoginEnd, CallbackEnd,
        RecoveryAccepted, RecoveryRejected, VerifyTotp, Resume, Expire, MfaNext
<1>2. CASE Manage
  BY <1>2 DEF Manage, MfaNext
<1>3. CASE Time \/ Crash
  BY <1>3 DEF Time, Crash, Tick, DropChallenge, CrashAfterFinish,
              CrashInVerify, CrashInCreate, Restart, MfaNext
<1>4. CASE UNCHANGED vars
  BY <1>4 DEF vars
<1>5. QED
  BY <1>1, <1>2, <1>3, <1>4 DEF Next

(* A row of the challenge table is of a user, and its method one of two. *)
LEMMA ChallengeOf ==
  ASSUME TypeOK, NEW i \in Interactions, challenge[i] # None
  PROVE  /\ challenge[i] \in Challenge
         /\ challenge[i].user \in Users /\ challenge[i].method \in Methods
PROOF BY DEF TypeOK, Challenge

(* Answers and challenges that are written have the columns they need, and *)
(* what is written to the limiter is an entry.                             *)
LEMMA Written ==
  ASSUME TypeOK, NEW i \in Interactions, NEW u \in Users, NEW m \in Methods
  PROVE  /\ CreateChallenge(i, u, m) \/ RemoveChallenge(i)
              => challenge' \in [Interactions -> Challenge \cup {None}]
         /\ \A otp \in BOOLEAN :
              Finish(i, u, m, otp)
                => result' \in [Interactions -> Answer \cup {None}]
         /\ InvalidCode(i, u) \/ Attempt(i, u, NoAttempts)
              \/ Attempt(i, u, Admitted(loginAttempts[i, u]))
              \/ Attempt(i, u, Failed(loginAttempts[i, u]))
              => loginAttempts' \in [Interactions \X Users -> AttemptState]
         /\ FirstFactor(i, u, m)
              => /\ first' \subseteq Interactions \X Users \X Methods
                 /\ exempt' \subseteq Interactions \X Users
PROOF
<1>1. [user |-> u, method |-> m, left |-> ChallengeTTL] \in Challenge
  BY LoginAssumption DEF Challenge
<1>2. \A otp \in BOOLEAN : [account |-> u, first |-> m, otp |-> otp] \in Answer
  BY DEF Answer
<1>3. loginAttempts[i, u] \in AttemptState
  BY DEF TypeOK
<1>4. /\ NoAttempts \in AttemptState
      /\ Admitted(loginAttempts[i, u]) \in AttemptState
      /\ Failed(loginAttempts[i, u]) \in AttemptState
      /\ Failed(Admitted(loginAttempts[i, u])) \in AttemptState
  BY <1>3, LoginAttemptsClosed
<1>5. CreateChallenge(i, u, m) \/ RemoveChallenge(i)
        => challenge' \in [Interactions -> Challenge \cup {None}]
  BY <1>1 DEF TypeOK, CreateChallenge, RemoveChallenge
<1>6. \A otp \in BOOLEAN :
        Finish(i, u, m, otp)
          => result' \in [Interactions -> Answer \cup {None}]
  BY <1>2 DEF TypeOK, Finish
<1>7. InvalidCode(i, u) \/ Attempt(i, u, NoAttempts)
        \/ Attempt(i, u, Admitted(loginAttempts[i, u]))
        \/ Attempt(i, u, Failed(loginAttempts[i, u]))
        => loginAttempts' \in [Interactions \X Users -> AttemptState]
  BY <1>4 DEF TypeOK, InvalidCode, Attempt
<1>8. FirstFactor(i, u, m)
        => /\ first' \subseteq Interactions \X Users \X Methods
           /\ exempt' \subseteq Interactions \X Users
  BY DEF TypeOK, FirstFactor
<1>9. QED
  BY <1>5, <1>6, <1>7, <1>8

(* No action writes anything but rows, records and requests. *)
LEMMA LoginTypeStep ==
  ASSUME TypeOK, [Next]_vars
  PROVE  TypeOK'
PROOF
<1>0. MfaTypeOK'
  BY MfaTypeStep, MfaSteps DEF TypeOK
<1>1. \A r \in Requests : ctx[r] \in Context
  BY DEF TypeOK
<1>2. Idle \in Context
  BY DEF Context
<1>3. ASSUME NEW r \in Requests, NEW i \in Interactions, NEW u \in Users,
             LoginStart(r, i, u) \/ CallbackStart(r, i, u)
      PROVE  TypeOK'
  <2>1. \A op \in {"login", "callback"} :
          [op |-> op, uid |-> i, user |-> u] \in Context
    BY DEF Context
  <2>2. ctx' \in [Requests -> Context]
    BY <1>3, <2>1 DEF TypeOK, LoginStart, CallbackStart, Wait
  <2>3. QED
    BY <1>0, <1>3, <2>2 DEF TypeOK, LoginStart, CallbackStart, evidence
<1>4. ASSUME NEW r \in Requests, LoginEnd(r) \/ CallbackEnd(r)
      PROVE  TypeOK'
  <2> DEFINE i == ctx[r].uid  u == ctx[r].user
  <2>1. i \in Interactions /\ u \in Users
    BY <1>1, <1>4, ContextOf DEF LoginEnd, CallbackEnd
  <2>2. PICK m \in Methods : FirstFactor(i, u, m)
                 /\ (CreateChallenge(i, u, m) \/ UNCHANGED challenge)
                 /\ (Finish(i, u, m, FALSE) \/ UNCHANGED result)
    BY <1>4 DEF LoginEnd, CallbackEnd, Methods
  <2>3. ctx' \in [Requests -> Context]
    BY <1>2, <1>4 DEF TypeOK, LoginEnd, CallbackEnd, Done, Wait
  <2>4. /\ stored' \in [Interactions -> BOOLEAN]
        /\ UNCHANGED <<status, loginAttempts, second, sessions>>
    BY <1>4 DEF TypeOK, LoginEnd, CallbackEnd
  <2>5. /\ challenge' \in [Interactions -> Challenge \cup {None}]
        /\ result' \in [Interactions -> Answer \cup {None}]
        /\ first' \subseteq Interactions \X Users \X Methods
        /\ exempt' \subseteq Interactions \X Users
    BY <2>1, <2>2, Written DEF TypeOK
  <2>6. QED
    BY <1>0, <2>3, <2>4, <2>5 DEF TypeOK
<1>5. ASSUME NEW i \in Interactions, NEW totp \in Totp, VerifyTotp(i, totp)
      PROVE  TypeOK'
  <2> DEFINE u == challenge[i].user
  <2>1. u \in Users /\ challenge[i].method \in Methods
    BY <1>5, ChallengeOf DEF VerifyTotp, Open, Live
  <2>2. CASE MfaFinish(i, u, challenge[i].method)
    <3>1. /\ challenge' \in [Interactions -> Challenge \cup {None}]
          /\ result' \in [Interactions -> Answer \cup {None}]
          /\ loginAttempts' \in [Interactions \X Users -> AttemptState]
      BY <2>1, <2>2, Written DEF MfaFinish
    <3>2. second' \subseteq Interactions \X Users
      BY <2>1, <2>2 DEF TypeOK, MfaFinish
    <3>3. QED
      BY <1>0, <1>5, <3>1, <3>2 DEF TypeOK, VerifyTotp
  <2>3. CASE InvalidCode(i, u) /\ UNCHANGED <<second, result, challenge>>
    BY <1>0, <1>5, <2>1, <2>3, Written DEF TypeOK, VerifyTotp
  <2>4. QED
    BY <1>5, <2>2, <2>3 DEF VerifyTotp
<1>6. ASSUME NEW r \in Requests, NEW i \in Interactions,
             NEW c \in Code \cup {None}, VerifyRecovery(r, i, c)
      PROVE  TypeOK'
  <2> DEFINE u == challenge[i].user
  <2>1. u \in Users /\ challenge[i].method \in Methods
    BY <1>6, ChallengeOf DEF VerifyRecovery, Open, Live
  <2>2. [op |-> "verify", uid |-> i, user |-> u,
         method |-> challenge[i].method] \in Context
    BY <2>1 DEF Context
  <2>3. ctx' \in [Requests -> Context]
    BY <1>6, <2>2 DEF TypeOK, VerifyRecovery, Wait
  <2>4. loginAttempts' \in [Interactions \X Users -> AttemptState]
    BY <1>6, <2>1, Written DEF VerifyRecovery
  <2>5. QED
    BY <1>0, <1>6, <2>3, <2>4 DEF TypeOK, VerifyRecovery, evidence
<1>7. ASSUME NEW r \in Requests, RecoveryAccepted(r) \/ RecoveryRejected(r)
      PROVE  TypeOK'
  <2> DEFINE i == ctx[r].uid  u == ctx[r].user
  <2>1. i \in Interactions /\ u \in Users /\ ctx[r].method \in Methods
    BY <1>1, <1>7, ContextOf DEF RecoveryAccepted, RecoveryRejected
  <2>2. ctx' \in [Requests -> Context]
    BY <1>2, <1>7 DEF TypeOK, RecoveryAccepted, RecoveryRejected, Done, Wait
  <2>3. CASE RecoveryAccepted(r) /\ MfaFinish(i, u, ctx[r].method)
    <3>1. /\ challenge' \in [Interactions -> Challenge \cup {None}]
          /\ result' \in [Interactions -> Answer \cup {None}]
          /\ loginAttempts' \in [Interactions \X Users -> AttemptState]
      BY <2>1, <2>3, Written DEF MfaFinish
    <3>2. second' \subseteq Interactions \X Users
      BY <2>1, <2>3 DEF TypeOK, MfaFinish
    <3>3. QED
      BY <1>0, <2>2, <2>3, <3>1, <3>2 DEF TypeOK, RecoveryAccepted
  <2>4. CASE /\ RecoveryAccepted(r)
             /\ second' = second \cup {<<i, u>>}
             /\ UNCHANGED <<result, challenge, loginAttempts>>
    BY <1>0, <2>1, <2>2, <2>4 DEF TypeOK, RecoveryAccepted
  <2>5. CASE RecoveryRejected(r)
    <3>1. loginAttempts' \in [Interactions \X Users -> AttemptState]
      BY <2>1, <2>5, Written DEF RecoveryRejected
    <3>2. QED
      BY <1>0, <2>2, <2>5, <3>1 DEF TypeOK, RecoveryRejected, evidence
  <2>6. QED
    BY <1>7, <2>3, <2>4, <2>5 DEF RecoveryAccepted
<1>8. ASSUME NEW i \in Interactions, Resume(i) \/ Expire(i) \/ DropChallenge(i)
      PROVE  TypeOK'
  <2>1. /\ status' \in [Interactions -> {"open", "resumed", "expired"}]
        /\ stored' \in [Interactions -> BOOLEAN]
        /\ result' \in [Interactions -> Answer \cup {None}]
        /\ challenge' \in [Interactions -> Challenge \cup {None}]
    BY <1>8 DEF TypeOK, Resume, Expire, DropChallenge, RemoveChallenge
  <2>2. sessions' \subseteq Interactions \X Answer
    BY <1>8 DEF TypeOK, Resume, Expire, DropChallenge
  <2>3. QED
    BY <1>0, <1>8, <2>1, <2>2
    DEF TypeOK, Resume, Expire, DropChallenge, evidence
<1>9. CASE Tick
  <2>1. loginAttempts' \in [Interactions \X Users -> AttemptState]
    BY <1>9, LoginAttemptsClosed DEF TypeOK, Tick
  <2>2. challenge' \in [Interactions -> Challenge \cup {None}]
    <3>1. ASSUME NEW i \in Interactions, Live(i)
          PROVE  [challenge[i] EXCEPT !.left = @ - 1] \in Challenge
      BY <3>1, ChallengeOf, LoginAssumption DEF Live, Challenge
    <3>2. QED
      BY <1>9, <3>1 DEF TypeOK, Tick
  <2>3. QED
    BY <1>0, <1>9, <2>1, <2>2 DEF TypeOK, Tick, evidence
<1>10. ASSUME Forget
       PROVE  /\ ctx' \in [Requests -> Context]
              /\ loginAttempts' \in [Interactions \X Users -> AttemptState]
  BY <1>2, <1>10, RateLimitAssumption DEF Forget, NoAttempts, AttemptState
<1>11. ASSUME NEW i \in Interactions, NEW totp \in Totp,
              CrashAfterFinish(i, totp)
       PROVE  TypeOK'
  <2>1. challenge[i].user \in Users /\ challenge[i].method \in Methods
    BY <1>11, ChallengeOf DEF CrashAfterFinish, Open, Live
  <2>2. result' \in [Interactions -> Answer \cup {None}]
    BY <1>11, <2>1, Written DEF CrashAfterFinish
  <2>3. second' \subseteq Interactions \X Users
    BY <1>11, <2>1 DEF TypeOK, CrashAfterFinish
  <2>4. QED
    BY <1>0, <1>10, <1>11, <2>2, <2>3 DEF TypeOK, CrashAfterFinish
<1>12. ASSUME NEW r \in Requests, CrashInCreate(r)
       PROVE  TypeOK'
  BY <1>0, <1>10, <1>12 DEF TypeOK, CrashInCreate, RemoveChallenge, evidence
<1>13. ASSUME NEW r \in Requests, CrashInVerify(r)
      PROVE  TypeOK'
  <2>1. /\ ctx[r].uid \in Interactions /\ ctx[r].user \in Users
        /\ ctx[r].method \in Methods
    BY <1>1, <1>13, ContextOf DEF CrashInVerify
  <2>2. result' \in [Interactions -> Answer \cup {None}]
    BY <1>13, <2>1, Written DEF CrashInVerify, TypeOK
  <2>3. second' \subseteq Interactions \X Users
    BY <1>13, <2>1 DEF TypeOK, CrashInVerify
  <2>4. QED
    BY <1>0, <1>10, <1>13, <2>2, <2>3 DEF TypeOK, CrashInVerify
<1>14. CASE Restart \/ Manage \/ UNCHANGED vars
  BY <1>0, <1>10, <1>14 DEF TypeOK, Restart, Manage, loginVars, evidence, vars
<1>15. QED
  BY <1>3, <1>4, <1>5, <1>6, <1>7, <1>8, <1>9, <1>11, <1>12, <1>13, <1>14
  DEF Next, LoginNext, Time, Crash
-----------------------------------------------------------------------------
(* Evidence is never taken back. *)
LEMMA EvidenceGrows ==
  ASSUME TypeOK, [Next]_vars
  PROVE  first \subseteq first' /\ exempt \subseteq exempt'
           /\ second \subseteq second'
PROOF
<1>1. CASE LoginNext
  BY <1>1
  DEF LoginNext, LoginStart, CallbackStart, VerifyRecovery, LoginEnd,
      CallbackEnd, RecoveryAccepted, RecoveryRejected, VerifyTotp, Resume,
      Expire, FirstFactor, MfaFinish, evidence
<1>2. CASE Manage \/ Time \/ Crash \/ UNCHANGED vars
  BY <1>2
  DEF Manage, Time, Crash, Tick, DropChallenge, CrashAfterFinish,
      CrashInVerify, CrashInCreate, Restart, loginVars, evidence, vars
<1>3. QED
  BY <1>1, <1>2 DEF Next

(* A step that leaves each challenge, drops it, or writes one on evidence. *)
LEMMA ChallengedStep ==
  ASSUME TypeOK, Challenged, [Next]_vars
  PROVE  Challenged'
PROOF
<1>0. first \subseteq first'
  BY EvidenceGrows
<1>1. ASSUME \A i \in Interactions :
               \/ challenge'[i] = None
               \/ /\ challenge[i] # None
                  /\ challenge'[i].user = challenge[i].user
                  /\ challenge'[i].method = challenge[i].method
      PROVE  Challenged'
  BY <1>0, <1>1 DEF Challenged
<1>2. ASSUME NEW r \in Requests, LoginEnd(r) \/ CallbackEnd(r)
      PROVE  Challenged'
  <2>1. PICK m : /\ FirstFactor(ctx[r].uid, ctx[r].user, m)
                 /\ \/ CreateChallenge(ctx[r].uid, ctx[r].user, m)
                    \/ UNCHANGED challenge
    BY <1>2 DEF LoginEnd, CallbackEnd
  <2>2. CASE CreateChallenge(ctx[r].uid, ctx[r].user, m)
    BY <1>0, <2>1, <2>2
    DEF TypeOK, Challenged, CreateChallenge, FirstFactor
  <2>3. CASE UNCHANGED challenge
    BY <1>1, <2>3
  <2>4. QED
    BY <2>1, <2>2, <2>3
<1>3. ASSUME NEW i \in Interactions, RemoveChallenge(i)
      PROVE  Challenged'
  BY <1>1, <1>3 DEF TypeOK, RemoveChallenge
<1>4. ASSUME NEW r \in Requests, RecoveryAccepted(r)
      PROVE  Challenged'
  <2>1. ctx[r].uid \in Interactions
    BY <1>4, ContextOf DEF TypeOK, RecoveryAccepted
  <2>2. QED
    BY <1>1, <1>3, <1>4, <2>1 DEF RecoveryAccepted, MfaFinish
<1>5. ASSUME NEW r \in Requests, CrashInCreate(r)
      PROVE  Challenged'
  <2>1. ctx[r].uid \in Interactions
    BY <1>5, ContextOf DEF TypeOK, CrashInCreate
  <2>2. QED
    BY <1>3, <1>5, <2>1 DEF CrashInCreate
<1>6. CASE Tick
  <2>1. ASSUME NEW i \in Interactions, Live(i)
        PROVE  challenge'[i] = [challenge[i] EXCEPT !.left = @ - 1]
    BY <1>6, <2>1 DEF TypeOK, Tick
  <2>2. ASSUME NEW i \in Interactions, Live(i)
        PROVE  /\ challenge[i] # None
               /\ challenge'[i].user = challenge[i].user
               /\ challenge'[i].method = challenge[i].method
    BY <2>1, <2>2, ChallengeOf DEF Live, Challenge
  <2>3. ASSUME NEW i \in Interactions, ~Live(i)
        PROVE  challenge'[i] = challenge[i]
    BY <1>6, <2>3 DEF TypeOK, Tick
  <2>4. QED
    BY <1>1, <2>2, <2>3
<1>7. CASE UNCHANGED challenge
  BY <1>1, <1>7
<1>8. CASE LoginNext
  BY <1>2, <1>3, <1>4, <1>7, <1>8
  DEF LoginNext, LoginStart, CallbackStart, VerifyRecovery, RecoveryRejected,
      VerifyTotp, MfaFinish, Resume, Expire
<1>9. CASE Manage \/ Time \/ Crash \/ UNCHANGED vars
  BY <1>3, <1>5, <1>6, <1>7, <1>9
  DEF Manage, Time, Crash, DropChallenge, CrashAfterFinish, CrashInVerify,
      Restart,
      loginVars, vars
<1>10. QED
  BY <1>8, <1>9 DEF Next

(* A request that verifies for a login is the recovery it started in Mfa,  *)
(* until that answers: nothing else of Mfa touches it.                     *)
LEMMA VerifyingStep ==
  ASSUME TypeOK, Challenged, Verifying, [Next]_vars
  PROVE  Verifying'
PROOF
<1>0. first \subseteq first'
  BY EvidenceGrows
<1>1. ASSUME \A q \in Requests :
               ctx'[q].op = "verify" => ctx'[q] = ctx[q] /\ req'[q] = req[q]
      PROVE  Verifying'
  BY <1>0, <1>1 DEF Verifying
<1>2. Idle.op # "verify"
  BY DEF Idle
<1>3. ASSUME NEW r \in Requests, NEW i \in Interactions, NEW u \in Users,
             LoginStart(r, i, u) \/ CallbackStart(r, i, u)
      PROVE  Verifying'
  BY <1>1, <1>3 DEF TypeOK, LoginStart, CallbackStart, Wait, mfaVars
<1>4. ASSUME NEW r \in Requests, LoginEnd(r) \/ CallbackEnd(r)
      PROVE  Verifying'
  BY <1>1, <1>2, <1>4 DEF TypeOK, LoginEnd, CallbackEnd, Done, Wait, mfaVars
<1>5. ASSUME NEW r \in Requests, RecoveryAccepted(r) \/ RecoveryRejected(r)
      PROVE  Verifying'
  <2>1. Done(r) /\ MfaDone(r)
    BY <1>5 DEF RecoveryAccepted, RecoveryRejected, RecoverAccept,
                RecoverReject
  <2>2. QED
    BY <1>1, <1>2, <2>1 DEF TypeOK, MfaTypeOK, Done, Wait, MfaDone, MfaWait
<1>6. ASSUME NEW r \in Requests, NEW i \in Interactions,
             NEW c \in Code \cup {None}, VerifyRecovery(r, i, c)
      PROVE  Verifying'
  <2> DEFINE u == challenge[i].user
  <2>1. CASE UNCHANGED <<mfaVars, ctx>>
    BY <1>1, <2>1 DEF mfaVars
  <2>2. CASE /\ RecoverStart(r, u, c)
             /\ Wait(r, [op |-> "verify", uid |-> i, user |-> u,
                         method |-> challenge[i].method])
    <3>1. <<i, u, challenge[i].method>> \in first
      BY <1>6 DEF VerifyRecovery, Open, Live, Challenged
    <3>2. /\ req' = [req EXCEPT ![r] = [op |-> "recover", user |-> u,
                        pool |-> codes[u] \ used, code |-> c]]
          /\ ctx' = [ctx EXCEPT ![r] = [op |-> "verify", uid |-> i, user |-> u,
                         method |-> challenge[i].method]]
      BY <2>2 DEF RecoverStart, MfaWait, Wait
    <3>3. QED
      BY <1>0, <3>1, <3>2 DEF TypeOK, MfaTypeOK, Verifying
  <2>3. QED
    BY <1>6, <2>1, <2>2 DEF VerifyRecovery
<1>7. CASE Manage
  <2>1. \A r \in Requests :
          ctx[r].op = "verify" => req[r].op = "recover" /\ ctx[r] # Idle
    BY <1>2 DEF Verifying
  <2>2. UNCHANGED ctx
    BY <1>7 DEF Manage, loginVars
  <2>3. ASSUME NEW r \in Requests, Free(r), Begin(r)
        PROVE  \A q \in Requests : req'[q] = req[q] \/ q = r
    BY <2>3 DEF TypeOK, MfaTypeOK, Begin, EnrollStart, CompleteStart,
                RegenerateStart, NotApplicable, WrongTotp, MfaWait
  <2>4. ASSUME NEW r \in Requests, Commit(r)
        PROVE  /\ req[r].op # "recover"
               /\ \A q \in Requests : req'[q] = req[q] \/ q = r
    BY <2>4 DEF TypeOK, MfaTypeOK, Commit, EnrollSave, CompleteCommit,
                RegenerateCommit, MfaDone, MfaWait
  <2>5. ASSUME NEW u \in Users, NEW totp \in Totp, Disable(u, totp)
        PROVE  UNCHANGED req
    BY <2>5 DEF Disable, NotApplicable, WrongTotp
  <2>6. QED
    BY <1>1, <1>7, <2>1, <2>2, <2>3, <2>4, <2>5 DEF Manage, Free
<1>8. CASE UNCHANGED <<req, ctx>>
  BY <1>1, <1>8
<1>9. ASSUME Forget PROVE Verifying'
  BY <1>2, <1>9 DEF Forget, Verifying
<1>10. CASE LoginNext
  BY <1>3, <1>4, <1>5, <1>6, <1>8, <1>10
  DEF LoginNext, VerifyTotp, Resume, Expire, mfaVars
<1>11. CASE Time \/ Crash \/ UNCHANGED vars
  BY <1>8, <1>9, <1>11
  DEF Time, Crash, Tick, DropChallenge, CrashAfterFinish, CrashInVerify,
      CrashInCreate, Restart, MfaTick, mfaVars, loginVars, vars
<1>12. QED
  BY <1>7, <1>10, <1>11 DEF Next
-----------------------------------------------------------------------------
(* Every step gathers evidence in the order the promise asks for, answers  *)
(* on evidence that is there, hands an answer over, drops one, or leaves   *)
(* all of that alone.                                                      *)
LEMMA GateStep ==
  ASSUME LoginInv, [Next]_vars
  PROVE  [Gate!Next]_(Gate!gateVars)
PROOF
<1>0. TypeOK /\ TypeOK'
  BY LoginTypeStep DEF LoginInv
<1>1. /\ first \subseteq first'
      /\ first' \subseteq Interactions \X Users \X Methods
      /\ exempt \subseteq exempt' /\ exempt' \subseteq Interactions \X Users
      /\ second \subseteq second'
  BY <1>0, EvidenceGrows DEF TypeOK
<1>2. ASSUME UNCHANGED <<second, sessions>>,
             \/ UNCHANGED result
             \/ \E i \in Interactions, u \in Users, m \in Methods :
                  /\ Finish(i, u, m, FALSE)
                  /\ <<i, u, m>> \in first' /\ <<i, u>> \in exempt'
      PROVE  Gate!Answers
  <2>1. Gate!Evidence
    BY <1>1, <1>2 DEF Gate!Evidence
  <2>2. ASSUME NEW i \in Interactions, NEW u \in Users, NEW m \in Methods,
               Finish(i, u, m, FALSE),
               <<i, u, m>> \in first', <<i, u>> \in exempt'
        PROVE  \E a \in Gate!Answer : /\ result' = [result EXCEPT ![i] = a]
                                      /\ Gate!Granted(i, a)'
    <3> DEFINE a == [account |-> u, first |-> m, otp |-> FALSE]
    <3>1. a \in Gate!Answer /\ Gate!Granted(i, a)'
      BY <2>2 DEF Gate!Answer, Gate!Granted
    <3>2. QED
      BY <2>2, <3>1 DEF Finish
  <2>3. QED
    BY <1>2, <2>1, <2>2 DEF Gate!Answers
<1>3. ASSUME NEW i \in Interactions, NEW u \in Users, NEW m \in Methods,
             <<i, u, m>> \in first,
             second' = second \cup {<<i, u>>},
             Finish(i, u, m, TRUE) \/ UNCHANGED result,
             UNCHANGED sessions
      PROVE  Gate!Answers
  <2>1. Gate!Evidence
    BY <1>1, <1>3 DEF Gate!Evidence
  <2>2. CASE Finish(i, u, m, TRUE)
    <3> DEFINE a == [account |-> u, first |-> m, otp |-> TRUE]
    <3>1. a \in Gate!Answer /\ Gate!Granted(i, a)'
      BY <1>1, <1>3 DEF Gate!Answer, Gate!Granted
    <3>2. QED
      BY <1>3, <2>1, <2>2, <3>1 DEF Gate!Answers, Finish
  <2>3. QED
    BY <1>3, <2>1, <2>2 DEF Gate!Answers
<1>4. ASSUME NEW r \in Requests, LoginEnd(r) \/ CallbackEnd(r)
      PROVE  Gate!Answers
  <2> DEFINE i == ctx[r].uid  u == ctx[r].user
  <2>1. i \in Interactions /\ u \in Users
    BY <1>0, <1>4, ContextOf DEF TypeOK, LoginEnd, CallbackEnd
  <2>2. PICK m \in Methods :
          /\ FirstFactor(i, u, m)
          /\ \/ UNCHANGED result
             \/ ~row[u].enabled /\ Finish(i, u, m, FALSE)
    <3>1. CASE LoginEnd(r)
      <4>1. /\ FirstFactor(i, u, "pwd")
            /\ \/ UNCHANGED result
               \/ ~row[u].enabled /\ Finish(i, u, "pwd", FALSE)
        BY <3>1 DEF LoginEnd
      <4>2. QED
        BY <4>1 DEF Methods
    <3>2. CASE CallbackEnd(r)
      <4>1. /\ FirstFactor(i, u, "federated")
            /\ \/ UNCHANGED result
               \/ ~row[u].enabled /\ Finish(i, u, "federated", FALSE)
        BY <3>2 DEF CallbackEnd
      <4>2. QED
        BY <4>1 DEF Methods
    <3>3. QED
      BY <1>4, <3>1, <3>2
  <2>3. <<i, u, m>> \in first' /\ (~row[u].enabled => <<i, u>> \in exempt')
    BY <2>2 DEF FirstFactor
  <2>4. QED
    BY <1>2, <1>4, <2>1, <2>2, <2>3 DEF LoginEnd, CallbackEnd
<1>5. ASSUME NEW i \in Interactions, NEW totp \in Totp,
             VerifyTotp(i, totp) \/ CrashAfterFinish(i, totp)
      PROVE  Gate!Answers \/ UNCHANGED Gate!gateVars
  <2> DEFINE u == challenge[i].user  m == challenge[i].method
  <2>1. challenge[i] # None
    BY <1>5 DEF VerifyTotp, CrashAfterFinish, Open, Live
  <2>2. u \in Users /\ m \in Methods /\ <<i, u, m>> \in first
    BY <1>0, <2>1, ChallengeOf DEF LoginInv, Challenged
  <2>3. UNCHANGED sessions
    BY <1>5 DEF VerifyTotp, CrashAfterFinish
  <2>4. CASE MfaFinish(i, u, m) \/ CrashAfterFinish(i, totp)
    BY <1>3, <2>2, <2>3, <2>4 DEF MfaFinish, CrashAfterFinish
  <2>5. CASE VerifyTotp(i, totp) /\ UNCHANGED <<second, result>>
    BY <2>5 DEF VerifyTotp, Gate!gateVars
  <2>6. QED
    BY <1>5, <2>4, <2>5 DEF VerifyTotp
<1>6. ASSUME NEW r \in Requests, RecoveryAccepted(r) \/ CrashInVerify(r)
      PROVE  Gate!Answers
  <2> DEFINE i == ctx[r].uid  u == ctx[r].user  m == ctx[r].method
  <2>0. ctx[r].op = "verify"
    BY <1>6 DEF RecoveryAccepted, CrashInVerify
  <2>1. i \in Interactions /\ u \in Users /\ m \in Methods
    BY <1>0, <2>0, ContextOf DEF TypeOK
  <2>2. <<i, u, m>> \in first
    BY <2>0 DEF LoginInv, Verifying
  <2>3. QED
    BY <1>3, <1>6, <2>1, <2>2 DEF RecoveryAccepted, CrashInVerify, MfaFinish
<1>7. ASSUME NEW i \in Interactions, Resume(i) \/ Expire(i)
      PROVE  Gate!Next
  BY <1>7 DEF Resume, Expire, evidence, Gate!Next, Gate!Resume, Gate!Drop
<1>8. CASE UNCHANGED <<first, exempt, second, result, sessions>>
  BY <1>8 DEF Gate!gateVars
<1>9. CASE LoginNext
  BY <1>4, <1>5, <1>6, <1>7, <1>8, <1>9
  DEF LoginNext, LoginStart, CallbackStart, VerifyRecovery, RecoveryRejected,
      evidence, Gate!Next
<1>10. CASE Manage \/ Time \/ Crash \/ UNCHANGED vars
  BY <1>5, <1>6, <1>8, <1>10
  DEF Manage, Time, Crash, Tick, DropChallenge, CrashInCreate, Restart,
      loginVars, evidence, vars, Gate!Next
<1>11. QED
  BY <1>9, <1>10 DEF Next

(* The promise keeps every answer and login justified, whatever keeps it.  *)
LEMMA GateKeepsJustified ==
  ASSUME result \in [Interactions -> Answer \cup {None}],
         SessionJustified, [Gate!Next]_(Gate!gateVars)
  PROVE  SessionJustified'
PROOF
<1>1. CASE Gate!Answers
  <2>1. /\ first \subseteq first' /\ exempt \subseteq exempt'
        /\ second \subseteq second' /\ sessions' = sessions
    BY <1>1 DEF Gate!Answers, Gate!Evidence
  <2>2. \A s \in sessions' : Justified(s[1], s[2])'
    BY <2>1 DEF SessionJustified, Justified
  <2>3. ASSUME NEW i \in Interactions, result'[i] # None
        PROVE  Justified(i, result[i])'
    <3>1. CASE result'[i] = result[i]
      BY <2>1, <2>3, <3>1 DEF SessionJustified, Justified
    <3>2. CASE result'[i] # result[i]
      <4>1. PICK j \in Interactions, a \in Gate!Answer :
              result' = [result EXCEPT ![j] = a] /\ Gate!Granted(j, a)'
        BY <1>1, <3>2 DEF Gate!Answers
      <4>2. j = i /\ result'[i] = a
        BY <3>2, <4>1
      <4>3. QED
        BY <4>1, <4>2 DEF Gate!Granted, Justified
    <3>3. QED
      BY <3>1, <3>2
  <2>4. QED
    BY <2>2, <2>3 DEF SessionJustified
<1>2. ASSUME NEW i \in Interactions, Gate!Resume(i) \/ Gate!Drop(i)
      PROVE  SessionJustified'
  <2>1. UNCHANGED <<first, exempt, second>>
          /\ result' = [result EXCEPT ![i] = None]
    BY <1>2 DEF Gate!Resume, Gate!Drop
  <2>2. \A s \in sessions' : \/ s \in sessions
                             \/ result[i] # None /\ s = <<i, result[i]>>
    BY <1>2 DEF Gate!Resume, Gate!Drop
  <2>3. \A s \in sessions' : Justified(s[1], s[2])
    BY <2>2 DEF SessionJustified
  <2>4. \A j \in Interactions : result'[j] # None => Justified(j, result'[j])
    <3>1. ASSUME NEW j \in Interactions, result'[j] # None
          PROVE  result'[j] = result[j]
      BY <2>1, <3>1
    <3>2. QED
      BY <3>1 DEF SessionJustified, Justified
  <2>5. QED
    BY <2>1, <2>3, <2>4 DEF SessionJustified, Justified
<1>3. CASE UNCHANGED Gate!gateVars
  BY <1>3 DEF Gate!gateVars, SessionJustified, Justified
<1>4. QED
  BY <1>1, <1>2, <1>3 DEF Gate!Next

(* Nothing is answered, pending or in flight when the first process starts. *)
LEMMA LoginInitInv == Init => LoginInv /\ SessionJustified /\ Gate!Init
PROOF
<1> SUFFICES ASSUME Init
             PROVE  LoginInv /\ SessionJustified /\ Gate!Init
  OBVIOUS
<1>1. MfaTypeOK
  BY MfaInvInit DEF Init, MfaInv
<1>2. TypeOK
  BY <1>1, RateLimitAssumption
  DEF Init, LoginInit, TypeOK, Context, NoAttempts, AttemptState
<1>3. Challenged /\ Verifying
  BY DEF Init, LoginInit, Challenged, Verifying, Idle
<1>4. SessionJustified
  BY DEF Init, LoginInit, SessionJustified
<1>5. Gate!Init
  BY DEF Init, LoginInit, Gate!Init
<1>6. QED
  BY <1>2, <1>3, <1>4, <1>5 DEF LoginInv

(* Challenges and verifications under way rest on evidence at every step.  *)
THEOREM LoginInvariance == Spec => []LoginInv
PROOF
<1>1. LoginInv /\ [Next]_vars => LoginInv'
  BY LoginTypeStep, ChallengedStep, VerifyingStep DEF LoginInv
<1>2. QED
  BY <1>1, LoginInitInv, PTL DEF Spec

(* Interactions, challenges, the limiter's entries, requests and evidence  *)
(* keep their shape for any number of users, interactions and requests.    *)
THEOREM LoginTypeCorrect == Spec => []TypeOK
PROOF BY LoginInvariance, PTL DEF LoginInv

(* The login uses the tables, the limiter and the requests of Mfa only as  *)
(* Mfa does: with it and its crashes running, Mfa is still itself, and all *)
(* that is proved of Mfa above holds.                                      *)
THEOREM LoginKeepsMfa == Spec => MfaSpec
PROOF
<1>1. LoginInv /\ [Next]_vars => [MfaNext]_mfaVars
  BY MfaSteps DEF LoginInv
<1>2. Init => MfaInit
  BY DEF Init
<1>3. QED
  BY <1>1, <1>2, LoginInvariance, PTL DEF Spec, MfaSpec, mfaVars

(* login, callback and verifyMfa implement the promise of GatedLogin: an   *)
(* interaction is answered on evidence gathered in that very interaction.  *)
THEOREM LoginIsGated == Spec => GatedLoginSpec
PROOF
<1>1. LoginInv /\ [Next]_vars => [Gate!Next]_(Gate!gateVars)
  BY GateStep
<1>2. Init => Gate!Init
  BY LoginInitInv
<1>3. QED
  BY <1>1, <1>2, LoginInvariance, PTL DEF Spec, GatedLoginSpec, Gate!Spec

(* Behind every answer and every login is a first factor of its account    *)
(* and a second one, or MFA was off when the first was accepted, however   *)
(* logins, callbacks, MFA changes, time-outs and crashes interleave.       *)
THEOREM SessionsAreJustified == Spec => []SessionJustified
PROOF
<1>1. Init => SessionJustified
  BY LoginInitInv
<1>2. TypeOK /\ SessionJustified /\ [Gate!Next]_(Gate!gateVars)
        => SessionJustified'
  BY GateKeepsJustified DEF TypeOK
<1>3. QED
  BY <1>1, <1>2, LoginTypeCorrect, LoginIsGated, PTL
  DEF Spec, GatedLoginSpec, Gate!Spec

(* verifyMfa: an accepted recovery code answers the interaction for the    *)
(* account whose set it is of, whoever's challenge the interaction shows   *)
(* by the time argon2 has compared it.                                     *)
THEOREM RecoveryCodesStayWithAccount == Spec => RecoveryCodeOfAccount
PROOF
<1> DEFINE OfAccount ==
      \A i \in Interactions, c \in Code :
        uses'[c] # uses[c] /\ result'[i] # result[i]
          => c \in CodesOf(latest[result'[i].account])
<1>1. ASSUME LoginInv, MfaInv, [Next]_vars
      PROVE  OfAccount
  <2>1. ASSUME NEW r \in Requests, RecoveryAccepted(r) \/ CrashInVerify(r)
        PROVE  OfAccount
    <3>0. ctx[r].op = "verify" /\ MarkUsed(r)
      BY <2>1 DEF RecoveryAccepted, CrashInVerify, RecoverAccept,
                  CrashAfterMark
    <3>1. ctx[r].uid \in Interactions /\ ctx[r].user \in Users
      BY <1>1, <3>0, ContextOf DEF LoginInv, TypeOK
    <3>2. req[r].user = ctx[r].user
      BY <1>1, <3>0 DEF LoginInv, Verifying
    <3>3. req[r].code \in CodesOf(latest[ctx[r].user])
      BY <1>1, <3>0, <3>2, AcceptedIsLatest
    <3>4. \A c \in Code : uses'[c] # uses[c] => c = req[r].code
      BY <1>1, <3>0 DEF MfaInv, MfaTypeOK, MarkUsed
    <3>5. ASSUME NEW i \in Interactions, result'[i] # result[i]
          PROVE  result'[i].account = ctx[r].user
      BY <1>1, <2>1, <3>1, <3>5
      DEF LoginInv, TypeOK, RecoveryAccepted, CrashInVerify, MfaFinish, Finish
    <3>6. QED
      BY <3>3, <3>4, <3>5
  <2>2. ASSUME UNCHANGED uses \/ UNCHANGED result
        PROVE  OfAccount
    BY <2>2
  <2>3. CASE LoginNext
    BY <2>1, <2>2, <2>3
    DEF LoginNext, LoginStart, CallbackStart, VerifyRecovery, LoginEnd,
        CallbackEnd, RecoveryRejected, VerifyTotp, Resume, Expire, mfaVars
  <2>4. CASE Manage \/ UNCHANGED vars
    BY <2>2, <2>4 DEF Manage, loginVars, vars
  <2>5. CASE Time \/ Crash
    BY <2>1, <2>2, <2>5
    DEF Time, Crash, Tick, DropChallenge, CrashAfterFinish, CrashInCreate,
        Restart, MfaRestart, history
  <2>6. QED
    BY <1>1, <2>3, <2>4, <2>5 DEF Next
<1>2. LoginInv /\ MfaInv /\ [Next]_vars => [OfAccount]_vars
  BY <1>1
<1>3. QED
  BY <1>2, LoginInvariance, LoginKeepsMfa, MfaInvariance, PTL
  DEF Spec, RecoveryCodeOfAccount
=============================================================================
