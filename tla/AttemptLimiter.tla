--------------------------- MODULE AttemptLimiter ---------------------------
(***************************************************************************)
(* One key of the MFA attempt limiter and the requests that use it.        *)
(*                                                                         *)
(* Every endpoint that checks a code does assertAllowed, then the check,   *)
(* then recordFailure or reset.  A TOTP is checked without leaving the     *)
(* turn of the event loop; a recovery code waits for argon2, so several    *)
(* requests can be past assertAllowed at once and record their outcome     *)
(* when they come back.                                                    *)
(***************************************************************************)
EXTENDS RateLimit, FiniteSets

CONSTANT Requests   \* requests that can be in flight at the same time

\* A first failure never starts a block, so a limit of 1 would act as one of 2.
ASSUME LimiterAssumption == IsFiniteSet(Requests) /\ MaxFailures > 1

VARIABLES entry,    \* the key's entry in the Map
          checking  \* requests past assertAllowed whose code is being checked

vars == <<entry, checking>>

TypeOK == /\ entry \in AttemptState
          /\ checking \subseteq Requests

Init == /\ entry = NoAttempts
        /\ checking = {}

\* assertAllowed lets request r through to the (asynchronous) check.
Admit(r) ==
  /\ r \notin checking
  /\ ~Refused(entry)
  /\ entry' = Admitted(entry)
  /\ checking' = checking \cup {r}

\* Faulty assertAllowed: a refused request starts the block again.
RefuseExtending(r) ==
  /\ r \notin checking
  /\ Refused(entry)
  /\ entry' = [entry EXCEPT !.blockLeft = Block]
  /\ UNCHANGED checking

\* assertAllowed answers 429 to request r.
Refuse(r) ==
  /\ r \notin checking
  /\ Refused(entry)
  /\ UNCHANGED vars

\* The code of request r turned out wrong.
WrongCode(r) ==
  /\ r \in checking
  /\ entry' = Failed(entry)
  /\ checking' = checking \ {r}

\* The code of request r was right: the key is reset.
RightCode(r) ==
  /\ r \in checking
  /\ entry' = NoAttempts
  /\ checking' = checking \ {r}

\* The request ended in an error other than a wrong code.
Abandon(r) ==
  /\ r \in checking
  /\ checking' = checking \ {r}
  /\ UNCHANGED entry

Tick == /\ entry' = Elapse(entry)
        /\ UNCHANGED checking

\* The process restarts: the Map is in memory.
Restart == /\ entry' = NoAttempts
           /\ checking' = {}

Answer(r) == WrongCode(r) \/ RightCode(r) \/ Abandon(r)

Next == \/ \E r \in Requests : Admit(r) \/ Refuse(r) \/ Answer(r)
        \/ Tick
        \/ Restart

Spec == Init /\ [][Next]_vars

\* Time passes, and argon2 answers every check that was started.
FairSpec == Spec /\ WF_vars(Tick) /\ \A r \in Requests : WF_vars(Answer(r))
-----------------------------------------------------------------------------
(* A key is blocked only if its window holds MaxFailures failures, and a   *)
(* key with fewer failures in its window is never blocked: recordFailure   *)
(* sets failures and blockedUntil together, assertAllowed and reset clear  *)
(* them together.                                                          *)
BlockJustified == Refused(entry) => entry.failures >= MaxFailures

(* A window cannot take more wrong codes than its blocks allow: the        *)
(* requests that were past assertAllowed when the block started, and one   *)
(* such group each time a block ends inside the window.                    *)
GuessBudget ==
  entry.failures <= MaxFailures - 1
                    + Cardinality(Requests) * (1 + (Window - 1) \div Block)

(* Whoever is blocked gets another attempt: refused requests do not extend *)
(* the block, only codes that were already being checked do.               *)
BlockedKeyFreed == Refused(entry) ~> ~Refused(entry)
=============================================================================
