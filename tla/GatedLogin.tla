----------------------------- MODULE GatedLogin -----------------------------
(***************************************************************************)
(* What the login of TSCloak promises, without saying how: an interaction  *)
(* is answered for an account only on evidence gathered in that very       *)
(* interaction, a first factor and, unless the account had no MFA when the *)
(* first factor was accepted, a second one.                                *)
(***************************************************************************)
CONSTANTS Users, Interactions, Methods, None

VARIABLES first,     \* <<i, u, m>>: u was authenticated by method m in i
          exempt,    \* <<i, u>>: u had no MFA when that happened
          second,    \* <<i, u>>: a TOTP or recovery code of u was accepted in i
          result,    \* the answer stored in interaction i, or None
          sessions   \* <<i, answer>>: the logins that came out of it

gateVars == <<first, exempt, second, result, sessions>>

\* The login result: accountId and amr, which is <<first>> or <<first, "otp">>.
Answer == [account : Users, first : Methods, otp : BOOLEAN]

Init == /\ first = {}
        /\ exempt = {}
        /\ second = {}
        /\ result = [i \in Interactions |-> None]
        /\ sessions = {}

Granted(i, a) ==
  /\ <<i, a.account, a.first>> \in first
  /\ IF a.otp THEN <<i, a.account>> \in second
              ELSE <<i, a.account>> \in exempt

\* Evidence only accumulates, and a second factor comes after a first one.
Evidence ==
  /\ first \subseteq first' /\ first' \subseteq Interactions \X Users \X Methods
  /\ exempt \subseteq exempt' /\ exempt' \subseteq Interactions \X Users
  /\ second \subseteq second'
  /\ \A p \in second' \ second : \E m \in Methods : <<p[1], p[2], m>> \in first

\* An interaction may be answered, on the evidence there is after the step.
Answers ==
  /\ Evidence
  /\ \/ UNCHANGED result
     \/ \E i \in Interactions, a \in Answer :
          /\ result' = [result EXCEPT ![i] = a]
          /\ Granted(i, a)'
  /\ UNCHANGED sessions

\* The provider resumes an answered interaction, or drops an old one.
Resume(i) ==
  /\ result[i] # None
  /\ sessions' = sessions \cup {<<i, result[i]>>}
  /\ result' = [result EXCEPT ![i] = None]
  /\ UNCHANGED <<first, exempt, second>>

Drop(i) == /\ result' = [result EXCEPT ![i] = None]
           /\ UNCHANGED <<first, exempt, second, sessions>>

Next == Answers \/ \E i \in Interactions : Resume(i) \/ Drop(i)

Spec == Init /\ [][Next]_gateVars
=============================================================================
