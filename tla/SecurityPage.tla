---------------------------- MODULE SecurityPage ---------------------------
(***************************************************************************)
(* security.html of the consoles (security.js): enrolling, disabling and   *)
(* regenerating recovery codes from one page.  The server is what module   *)
(* Mfa says of requests that do not overlap: they take effect in the order *)
(* they are sent.  Their answers arrive in any order, or are lost.         *)
(***************************************************************************)
CONSTANTS Secrets, CodeSets,   \* a set of recovery codes each
          Nothing

ASSUME NothingAssumption ==
  Nothing \notin Secrets \cup CodeSets /\ Nothing \notin {"disable", "regenerate"}

VARIABLES
  mfa,            \* the server: the account's second factor
  panels,         \* the panels that are not hidden
  qrCode,         \* the secret the page shows
  recoveryCodes,  \* the variable of security.js, and what the page shows
  confirmAction,  \* what the modal asks about; Nothing while it is closed
  disabled,       \* the disabled buttons
  arriving,       \* answers that have not arrived
  missed          \* the answer to a change was lost since the page was loaded

securityVars == <<mfa, panels, qrCode, recoveryCodes, confirmAction, disabled,
                  arriving, missed>>
shownVars == <<panels, qrCode, recoveryCodes>>

Arrival == [do : {"status", "disable"}, ok : BOOLEAN]
  \cup [do : {"enroll"}, secret : Secrets \cup {Nothing}]
  \cup [do : {"verify", "regenerate"}, codes : CodeSets \cup {Nothing}]

SecurityTypeOK ==
  /\ mfa \in [enabled : BOOLEAN, secret : Secrets \cup {Nothing},
              codes : CodeSets \cup {Nothing}]
  /\ panels \subseteq {"setup", "verification", "manage", "recovery"}
  /\ qrCode \in Secrets \cup {Nothing}
  /\ recoveryCodes \in CodeSets \cup {Nothing}
  /\ confirmAction \in {"disable", "regenerate", Nothing}
  /\ disabled \subseteq {"start", "verify", "confirm"}
  /\ arriving \subseteq Arrival /\ missed \in BOOLEAN

\* Random values: none that is stored, shown or on its way.
FreshSecret(s) == s \notin {mfa.secret, qrCode} \cup
                    {q.secret : q \in {p \in arriving : p.do = "enroll"}}
FreshCodes(c) ==
  c \notin {mfa.codes, recoveryCodes} \cup
    {q.codes : q \in {p \in arriving : p.do \in {"verify", "regenerate"}}}

SecurityInit ==
  /\ mfa = [enabled |-> FALSE, secret |-> Nothing, codes |-> Nothing]
  /\ panels = {"setup"} /\ qrCode = Nothing /\ recoveryCodes = Nothing
  /\ confirmAction = Nothing /\ disabled = {} /\ missed = FALSE
  /\ arriving = {[do |-> "status", ok |-> FALSE]}

(* The page is loaded, or loaded again, also by whoever was sent to the    *)
(* login by the failure of a request; loadStatus asks at once.             *)
LoadSecurity ==
  /\ panels' = {"setup"} /\ qrCode' = Nothing /\ recoveryCodes' = Nothing
  /\ confirmAction' = Nothing /\ disabled' = {} /\ missed' = FALSE
  /\ arriving' = {[do |-> "status", ok |-> mfa.enabled]}
  /\ UNCHANGED mfa

\* setStatus, on panels that may have been changed already.
WithStatus(enabled, shown) ==
  IF enabled THEN (shown \ {"setup", "verification"}) \cup {"manage"}
             ELSE (shown \ {"manage"}) \cup {"setup"}

StatusLoaded(q) ==
  /\ q \in arriving /\ q.do = "status"
  /\ panels' = WithStatus(q.ok, panels)
  /\ arriving' = arriving \ {q}
  /\ UNCHANGED <<mfa, qrCode, recoveryCodes, confirmAction, disabled, missed>>

\* The modal's backdrop covers the page's own buttons.
Uncovered == confirmAction = Nothing

\* A button sends its request, which the server answers with q.
Sending(button, q) ==
  /\ button \notin disabled
  /\ disabled' = disabled \cup {button}
  /\ arriving' = arriving \cup {q}
  /\ UNCHANGED <<confirmAction, missed>> /\ UNCHANGED shownVars

StartEnrollment(s) ==
  /\ "setup" \in panels /\ Uncovered /\ FreshSecret(s)
  /\ Sending("start", [do |-> "enroll",
                       secret |-> IF mfa.enabled THEN Nothing ELSE s])
  /\ mfa' = IF mfa.enabled THEN mfa ELSE [mfa EXCEPT !.secret = s]

EnrollmentStarted(q) ==
  /\ q \in arriving /\ q.do = "enroll" /\ q.secret # Nothing
  /\ qrCode' = q.secret
  /\ panels' = panels \cup {"verification"}
  /\ disabled' = disabled \ {"start"}
  /\ arriving' = arriving \ {q}
  /\ UNCHANGED <<mfa, recoveryCodes, confirmAction, missed>>

\* A code of the secret that is shown, or a wrong one.
VerifyEnrollment(right, c) ==
  LET ok == right /\ ~mfa.enabled /\ qrCode # Nothing /\ qrCode = mfa.secret IN
  /\ "verification" \in panels /\ Uncovered /\ FreshCodes(c)
  /\ Sending("verify", [do |-> "verify", codes |-> IF ok THEN c ELSE Nothing])
  /\ mfa' = IF ok THEN [mfa EXCEPT !.enabled = TRUE, !.codes = c] ELSE mfa

EnrollmentVerified(q) ==
  /\ q \in arriving /\ q.do = "verify" /\ q.codes # Nothing
  /\ recoveryCodes' = q.codes
  /\ panels' = WithStatus(TRUE, panels \cup {"recovery"})
  /\ disabled' = disabled \ {"verify"}
  /\ arriving' = arriving \ {q}
  /\ missed' = FALSE
  /\ UNCHANGED <<mfa, qrCode, confirmAction>>

\* Faulty modal: each time it is opened its button works.
OpenConfirmModalEnabling(action) ==
  /\ "manage" \in panels /\ Uncovered
  /\ confirmAction' = action /\ disabled' = disabled \ {"confirm"}
  /\ UNCHANGED <<mfa, arriving, missed>> /\ UNCHANGED shownVars

\* The button of the modal stays as it is.
OpenConfirmModal(action) ==
  /\ "manage" \in panels /\ Uncovered
  /\ confirmAction' = action
  /\ UNCHANGED <<mfa, disabled, arriving, missed>> /\ UNCHANGED shownVars

\* Cancel, Escape or a click beside it, also while a request is in flight.
CloseConfirmModal ==
  /\ confirmAction # Nothing
  /\ confirmAction' = Nothing
  /\ UNCHANGED <<mfa, disabled, arriving, missed>> /\ UNCHANGED shownVars

DisableMfa(right) ==
  LET ok == right /\ mfa.enabled IN
  /\ confirmAction = "disable"
  /\ Sending("confirm", [do |-> "disable", ok |-> ok])
  /\ mfa' = IF ok THEN [enabled |-> FALSE, secret |-> Nothing, codes |-> Nothing]
            ELSE mfa

MfaDisabled(q) ==
  /\ q \in arriving /\ q.do = "disable" /\ q.ok
  /\ confirmAction' = Nothing
  /\ recoveryCodes' = Nothing
  /\ panels' = WithStatus(FALSE, panels \ {"recovery", "verification"})
  /\ disabled' = disabled \ {"confirm"}
  /\ arriving' = arriving \ {q}
  /\ missed' = FALSE
  /\ UNCHANGED <<mfa, qrCode>>

RegenerateRecoveryCodes(right, c) ==
  LET ok == right /\ mfa.enabled IN
  /\ confirmAction = "regenerate" /\ FreshCodes(c)
  /\ Sending("confirm", [do |-> "regenerate", codes |-> IF ok THEN c ELSE Nothing])
  /\ mfa' = IF ok THEN [mfa EXCEPT !.codes = c] ELSE mfa

RecoveryCodesRegenerated(q) ==
  /\ q \in arriving /\ q.do = "regenerate" /\ q.codes # Nothing
  /\ recoveryCodes' = q.codes
  /\ panels' = WithStatus(TRUE, panels \cup {"recovery"})
  /\ confirmAction' = Nothing
  /\ disabled' = disabled \ {"confirm"}
  /\ arriving' = arriving \ {q}
  /\ missed' = FALSE
  /\ UNCHANGED <<mfa, qrCode>>

ButtonOf(q) == CASE q.do = "enroll" -> {"start"} [] q.do = "verify" -> {"verify"}
                 [] q.do \in {"disable", "regenerate"} -> {"confirm"}
                 [] OTHER -> {}
\* What q answers has changed the recovery codes.
Changed(q) == \/ q.do = "disable" /\ q.ok
              \/ q.do \in {"verify", "regenerate"} /\ q.codes # Nothing

(* The catch and finally blocks: a refusal, or an answer that is lost.  At *)
(* a 401, for a client's administrator also at a 403, the browser leaves   *)
(* for the login as well: the page goes on until the browser has left, and *)
(* LoadSecurity is the next thing anyone sees of it.                       *)
RequestFailed(q) ==
  /\ q \in arriving
  /\ disabled' = disabled \ ButtonOf(q)
  /\ arriving' = arriving \ {q}
  /\ missed' = (missed \/ Changed(q))
  /\ UNCHANGED <<mfa, confirmAction>> /\ UNCHANGED shownVars

SecurityNext ==
  \/ LoadSecurity \/ CloseConfirmModal
  \/ \E s \in Secrets : StartEnrollment(s)
  \/ \E right \in BOOLEAN : DisableMfa(right)
  \/ \E right \in BOOLEAN, c \in CodeSets :
       VerifyEnrollment(right, c) \/ RegenerateRecoveryCodes(right, c)
  \/ \E action \in {"disable", "regenerate"} : OpenConfirmModal(action)
  \/ \E q \in arriving :
       \/ StatusLoaded(q) \/ EnrollmentStarted(q) \/ EnrollmentVerified(q)
       \/ MfaDisabled(q) \/ RecoveryCodesRegenerated(q) \/ RequestFailed(q)

SecuritySpec == SecurityInit /\ [][SecurityNext]_securityVars
-----------------------------------------------------------------------------
(* The recovery codes on the page are the ones the server accepts, once no *)
(* answer is outstanding: of several answers the page must show the codes  *)
(* of the last change, although modals are closed and opened over requests *)
(* in flight.  Only the answer to a change that was lost makes it stale.   *)
CodesShownAreStored ==
  ("recovery" \in panels /\ ~missed /\ \A q \in arriving : ~Changed(q))
    => mfa.codes = recoveryCodes
=============================================================================
