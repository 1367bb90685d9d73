-------------------------------- MODULE Mfa --------------------------------
(***************************************************************************)
(* TOTP enrolment and recovery codes: the tables user_mfa and              *)
(* user_mfa_recovery_codes, and the requests of MfaController, MfaService  *)
(* and MfaRecoveryCodeService that work on them.                           *)
(*                                                                         *)
(* A step of the model is what one request does between two points where   *)
(* it leaves the event loop's turn: it waits for the QR code, for argon2   *)
(* to hash the ten new codes, or for argon2 to compare a presented code.   *)
(* What a request read before such a wait it uses after it, in req.  The   *)
(* database statements themselves run synchronously in better-sqlite3.     *)
(***************************************************************************)
EXTENDS RateLimit, FiniteSets

CONSTANTS Users,      \* accounts (User.id)
          Secrets,    \* TOTP secrets generateSecret can return, each once
          Batches,    \* recovery-code sets generateCodes can return, each once
          CodeCount,  \* RECOVERY_CODE_COUNT
          Requests,   \* requests that can be in flight at the same time
          None        \* SQL NULL, and "no such value"

ASSUME MfaAssumption ==
  /\ CodeCount \in Nat \ {0}
  /\ None \notin Secrets
  /\ None \notin Batches

\* The n-th code of a batch.
Code == [batch : Batches, n : 1..CodeCount]
CodesOf(b) == {c \in Code : c.batch = b}

VARIABLES
  row,      \* user_mfa: one row per user at most (userId is unique)
  codes,    \* user_mfa_recovery_codes: the rows of a user
  used,     \* the rows with usedAt set
  attempts, \* the limiter's entry for mfa:user:<id>
  req       \* what each request in flight has read, and waits for

(* History: what the users and the clients have seen. *)
VARIABLES
  confirmed,  \* <<u, s>>: u has presented a TOTP of secret s to enroll/verify
  drawn,      \* secrets already generated
  issued,     \* batches already generated
  latest,     \* the batch most recently committed for a user
  uses        \* how many times a code has been accepted

tables == <<row, codes, used>>
history == <<confirmed, drawn, issued, latest, uses>>
mfaVars == <<row, codes, used, attempts, req, confirmed, drawn, issued, latest,
             uses>>

Row == [exists : BOOLEAN, enabled : BOOLEAN, secret : Secrets \cup {None}]
NoRow == [exists |-> FALSE, enabled |-> FALSE, secret |-> None]

Idle == [op |-> "idle"]
Request ==
  {Idle}
  \cup [op : {"enroll"}, user : Users, found : BOOLEAN]
  \cup [op : {"complete"}, user : Users, secret : Secrets]
  \cup [op : {"regenerate"}, user : Users]
  \cup [op : {"recover"}, user : Users, pool : SUBSET Code,
        code : Code \cup {None}]

MfaTypeOK ==
  /\ row \in [Users -> Row]
  /\ codes \in [Users -> SUBSET Code]
  /\ used \subseteq Code
  /\ attempts \in [Users -> AttemptState]
  /\ req \in [Requests -> Request]
  /\ confirmed \subseteq Users \X Secrets
  /\ drawn \subseteq Secrets
  /\ issued \subseteq Batches
  /\ latest \in [Users -> Batches \cup {None}]
  /\ uses \in [Code -> Nat]

MfaInit ==
  /\ row = [u \in Users |-> NoRow]
  /\ codes = [u \in Users |-> {}]
  /\ used = {}
  /\ attempts = [u \in Users |-> NoAttempts]
  /\ req = [r \in Requests |-> Idle]
  /\ confirmed = {}
  /\ drawn = {}
  /\ issued = {}
  /\ latest = [u \in Users |-> None]
  /\ uses = [c \in Code |-> 0]

MfaWait(r, q) == req' = [req EXCEPT ![r] = q]
MfaDone(r) == MfaWait(r, Idle)

\* A presented TOTP is named by the secret it was computed from.
Totp == Secrets \cup {None}
TotpOpen(u) == row[u].enabled /\ row[u].secret # None
TotpValid(u, totp) == TotpOpen(u) /\ totp = row[u].secret
-----------------------------------------------------------------------------
(* POST /mfa/enroll: startEnrollment reads the row, refuses when MFA is    *)
(* enabled, and waits for the QR code...                                   *)
EnrollStart(r, u) ==
  /\ req[r] = Idle
  /\ ~row[u].enabled
  /\ MfaWait(r, [op |-> "enroll", user |-> u, found |-> row[u].exists])
  /\ UNCHANGED <<tables, attempts, history>>

(* ... then saves what it read with the new secret in it: an INSERT, which *)
(* fails when the row has appeared since, or an overwrite of every column. *)
EnrollSave(r) ==
  /\ req[r].op = "enroll"
  /\ LET u == req[r].user IN
     \/ /\ ~req[r].found
        /\ row[u].exists
        /\ UNCHANGED <<row, drawn>>
     \/ /\ req[r].found \/ ~row[u].exists
        /\ \E s \in Secrets \ drawn :
             /\ drawn' = drawn \cup {s}
             /\ row' = [row EXCEPT ![u] = [exists |-> TRUE, enabled |-> FALSE,
                                           secret |-> s]]
  /\ MfaDone(r)
  /\ UNCHANGED <<codes, used, attempts, confirmed, issued, latest, uses>>

\* assertAllowed lets the request through and the handler answers 400 before
\* any code is checked.
NotApplicable(u) ==
  /\ attempts' = [attempts EXCEPT ![u] = Admitted(@)]
  /\ UNCHANGED <<tables, req, history>>

\* 'Invalid MFA verification code': the controller records the failure.
WrongTotp(u) ==
  /\ attempts' = [attempts EXCEPT ![u] = Failed(Admitted(@))]
  /\ UNCHANGED <<tables, req, history>>

Pending(u) == row[u].secret # None /\ ~row[u].enabled

(* POST /mfa/enroll/verify: the TOTP is checked against the pending        *)
(* secret, then the request waits for argon2 to hash the new codes...      *)
CompleteStart(r, u, totp) ==
  /\ req[r] = Idle
  /\ ~Refused(attempts[u])
  /\ \/ ~Pending(u) /\ NotApplicable(u)
     \/ Pending(u) /\ totp # row[u].secret /\ WrongTotp(u)
     \/ /\ Pending(u)
        /\ totp = row[u].secret
        /\ attempts' = [attempts EXCEPT ![u] = Admitted(@)]
        /\ confirmed' = confirmed \cup {<<u, row[u].secret>>}
        /\ MfaWait(r, [op |-> "complete", user |-> u, secret |-> row[u].secret])
        /\ UNCHANGED <<tables, drawn, issued, latest, uses>>

\* Faulty replacement: the old codes are not deleted.
ReplaceCodesKeeping(u, b) ==
  /\ issued' = issued \cup {b}
  /\ codes' = [codes EXCEPT ![u] = @ \cup CodesOf(b)]
  /\ used' = used
  /\ latest' = [latest EXCEPT ![u] = b]

\* DELETE the user's codes, INSERT a new batch.
ReplaceCodes(u, b) ==
  /\ issued' = issued \cup {b}
  /\ codes' = [codes EXCEPT ![u] = CodesOf(b)]
  /\ used' = used \ codes[u]
  /\ latest' = [latest EXCEPT ![u] = b]

\* Faulty commit: the flag is set on the row as it is now.
CompleteCommitReread(r) ==
  /\ req[r].op = "complete"
  /\ LET u == req[r].user IN
     /\ row' = [row EXCEPT ![u].exists = TRUE, ![u].enabled = TRUE]
     /\ \E b \in Batches \ issued : ReplaceCodes(u, b)
     /\ attempts' = [attempts EXCEPT ![u] = NoAttempts]
  /\ MfaDone(r)
  /\ UNCHANGED <<confirmed, drawn, uses>>

(* ... and one transaction saves the row as it was read, enabled, and      *)
(* replaces the codes; the controller resets the limiter.                  *)
CompleteCommit(r) ==
  /\ req[r].op = "complete"
  /\ LET u == req[r].user IN
     /\ row' = [row EXCEPT ![u] = [exists |-> TRUE, enabled |-> TRUE,
                                   secret |-> req[r].secret]]
     /\ \E b \in Batches \ issued : ReplaceCodes(u, b)
     /\ attempts' = [attempts EXCEPT ![u] = NoAttempts]
  /\ MfaDone(r)
  /\ UNCHANGED <<confirmed, drawn, uses>>

(* POST /mfa/disable: no wait between the check and the transaction. *)
Disable(u, totp) ==
  /\ ~Refused(attempts[u])
  /\ \/ ~TotpOpen(u) /\ NotApplicable(u)
     \/ TotpOpen(u) /\ totp # row[u].secret /\ WrongTotp(u)
     \/ /\ TotpValid(u, totp)
        /\ row' = [row EXCEPT ![u] = [exists |-> TRUE, enabled |-> FALSE,
                                      secret |-> None]]
        /\ codes' = [codes EXCEPT ![u] = {}]
        /\ used' = used \ codes[u]
        /\ attempts' = [attempts EXCEPT ![u] = NoAttempts]
        /\ UNCHANGED <<req, history>>

(* POST /mfa/recovery-codes/regenerate: checks the TOTP, waits for argon2, *)
RegenerateStart(r, u, totp) ==
  /\ req[r] = Idle
  /\ ~Refused(attempts[u])
  /\ \/ ~TotpOpen(u) /\ NotApplicable(u)
     \/ TotpOpen(u) /\ totp # row[u].secret /\ WrongTotp(u)
     \/ /\ TotpValid(u, totp)
        /\ attempts' = [attempts EXCEPT ![u] = Admitted(@)]
        /\ MfaWait(r, [op |-> "regenerate", user |-> u])
        /\ UNCHANGED <<tables, history>>

(* then replaces the codes, whatever has become of the user_mfa row.       *)
RegenerateCommit(r) ==
  /\ req[r].op = "regenerate"
  /\ LET u == req[r].user IN
     /\ \E b \in Batches \ issued : ReplaceCodes(u, b)
     /\ attempts' = [attempts EXCEPT ![u] = NoAttempts]
  /\ MfaDone(r)
  /\ UNCHANGED <<row, confirmed, drawn, uses>>

(* verifyRecoveryCode and the first half of consumeCode: the unused codes  *)
(* of an enabled row are read, and argon2 compares them with the code.     *)
RecoverStart(r, u, c) ==
  /\ req[r] = Idle
  /\ row[u].enabled
  /\ MfaWait(r, [op |-> "recover", user |-> u, pool |-> codes[u] \ used,
              code |-> c])
  /\ UNCHANGED <<tables, attempts, history>>

\* Faulty UPDATE: without usedAt IS NULL.
ConsumableAgain(c) == c \in UNION {codes[u] : u \in Users}

\* Faulty UPDATE: its affected rows are not looked at.
ConsumableGone(c) == c \notin used

\* UPDATE ... SET usedAt WHERE id AND usedAt IS NULL changes one row.
Consumable(c) == c \in UNION {codes[u] : u \in Users} /\ c \notin used

\* The second half of consumeCode finds the code and marks it.
RecoverAccepts(r) == /\ req[r].op = "recover"
                     /\ req[r].code \in req[r].pool
                     /\ Consumable(req[r].code)

MarkUsed(r) ==
  /\ RecoverAccepts(r)
  /\ used' = used \cup {req[r].code}
  /\ uses' = [uses EXCEPT ![req[r].code] = @ + 1]
  /\ UNCHANGED <<row, codes, confirmed, drawn, issued, latest>>

RecoverAccept(r) ==
  /\ MarkUsed(r)
  /\ MfaDone(r)
  /\ UNCHANGED attempts

RecoverReject(r) ==
  /\ req[r].op = "recover"
  /\ ~RecoverAccepts(r)
  /\ MfaDone(r)
  /\ UNCHANGED <<tables, attempts, history>>

MfaTick ==
  /\ attempts' = [u \in Users |-> Elapse(attempts[u])]
  /\ UNCHANGED <<tables, req, history>>

\* What every restart loses: the requests in flight and the limiter's Map.
MfaForget == /\ req' = [r \in Requests |-> Idle]
             /\ attempts' = [u \in Users |-> NoAttempts]

\* The process restarts; the tables are not lost.
MfaRestart == MfaForget /\ UNCHANGED <<tables, history>>

(* It dies in a login after the UPDATE of consumeCode: the code is used up *)
(* before, or after, what it was accepted for has been done.               *)
CrashAfterMark(r) == MarkUsed(r) /\ MfaForget

\* The signed-in user's requests to MfaController, before and after the wait.
Begin(r) == \E u \in Users : \/ EnrollStart(r, u)
                             \/ \E totp \in Totp : \/ CompleteStart(r, u, totp)
                                                   \/ RegenerateStart(r, u, totp)
Commit(r) == EnrollSave(r) \/ CompleteCommit(r) \/ RegenerateCommit(r)

MfaNext ==
  \/ \E r \in Requests : \/ Begin(r)
                         \/ Commit(r)
                         \/ \E u \in Users, c \in Code \cup {None} :
                              RecoverStart(r, u, c)
                         \/ RecoverAccept(r)
                         \/ RecoverReject(r)
                         \/ CrashAfterMark(r)
  \/ \E u \in Users, totp \in Totp : Disable(u, totp)
  \/ MfaTick
  \/ MfaRestart

MfaSpec == MfaInit /\ [][MfaNext]_mfaVars
-----------------------------------------------------------------------------
(* A user's MFA is on only with a secret the user has proved to hold by a  *)
(* TOTP of it, though enrolments and verifications of several secrets can  *)
(* be in flight: completeEnrollment saves the secret it checked with the   *)
(* flag, and startEnrollment never saves an enabled row.                   *)
VerifiedSecret ==
  \A u \in Users : row[u].enabled => <<u, row[u].secret>> \in confirmed

(* A recovery code is accepted at most once, however many requests present *)
(* it at the same time (consumeCode's conditional UPDATE).                 *)
AcceptedOnce == \A c \in Code : uses[c] <= 1

(* While MFA is on the user's stored codes are exactly the set last given  *)
(* out: two verifications, or two regenerations, that overlap never leave  *)
(* a mixture or an empty set.                                              *)
EnabledHasLatestSet ==
  \A u \in Users :
    row[u].enabled => latest[u] # None /\ codes[u] = CodesOf(latest[u])

(* A code is accepted only from the set last given to that very user: a    *)
(* comparison under way while the set is replaced or deleted fails, and so *)
(* does one whose code another request has used.                           *)
OnlyLatestCodes ==
  [][\A r \in Requests :
       MarkUsed(r) => req[r].code \in CodesOf(latest[req[r].user])]_mfaVars

(* MFA goes from on to off only by POST /mfa/disable with a valid TOTP     *)
(* (mfa.controller.ts: "Disables TOTP MFA ... after verifying the current  *)
(* TOTP code"; startEnrollment answers 'MFA is already enabled').  The     *)
(* code does not keep this: an enrolment that read the row before MFA was  *)
(* turned on saves it, disabled, afterwards.                               *)
OffOnlyByTotp ==
  [][\A u \in Users : row[u].enabled /\ ~row'[u].enabled
       => \E totp \in Totp : Disable(u, totp)]_mfaVars
=============================================================================
