----------------------------- MODULE RateLimit -----------------------------
(***************************************************************************)
(* The attempt counter of MfaAttemptRateLimitService, as functions on the  *)
(* entry the service's Map holds for one key.                              *)
(*                                                                         *)
(* The code stores absolute times (firstFailureAt, blockedUntil) and only  *)
(* ever compares them with Date.now(); the model stores the differences:   *)
(* age is now - firstFailureAt (it stops at Window, the only value it is   *)
(* compared with) and blockLeft is blockedUntil - now (never below 0).     *)
(* Elapse moves them by one unit of time.                                  *)
(***************************************************************************)
EXTENDS Naturals

CONSTANTS MaxFailures,  \* MAX_FAILURES
          Window,       \* WINDOW_MS, in units of time
          Block         \* BLOCK_MS, in units of time

ASSUME RateLimitAssumption ==
  /\ MaxFailures \in Nat \ {0}
  /\ Window \in Nat \ {0}
  /\ Block \in Nat \ {0}

\* An entry with no failures stands for a key that is not in the Map.
AttemptState == [failures : Nat, age : 0..Window, blockLeft : 0..Block]

NoAttempts == [failures |-> 0, age |-> 0, blockLeft |-> 0]

\* assertAllowed answers 429: the block has not ended.
Refused(s) == s.blockLeft > 0

\* What assertAllowed leaves when it does not refuse: a window that has
\* elapsed is forgotten.
Admitted(s) == IF s.age >= Window THEN NoAttempts ELSE s

\* Faulty recordFailure: a new block is added to what is left of the old one.
FailedAccumulating(s) ==
  IF s.failures = 0 \/ s.age >= Window
  THEN [failures |-> 1, age |-> 0, blockLeft |-> 0]
  ELSE [failures |-> s.failures + 1,
        age |-> s.age,
        blockLeft |-> IF s.failures + 1 >= MaxFailures
                      THEN s.blockLeft + Block ELSE s.blockLeft]

\* Faulty recordFailure: the count is compared before it is increased.
FailedEarly(s) ==
  IF s.failures = 0 \/ s.age >= Window
  THEN [failures |-> 1, age |-> 0, blockLeft |-> 0]
  ELSE [failures |-> s.failures + 1,
        age |-> s.age,
        blockLeft |-> IF s.failures + 2 >= MaxFailures
                      THEN Block ELSE s.blockLeft]

\* Faulty recordFailure: only the MaxFailures-th failure blocks.
FailedOnce(s) ==
  IF s.failures = 0 \/ s.age >= Window
  THEN [failures |-> 1, age |-> 0, blockLeft |-> 0]
  ELSE [failures |-> s.failures + 1,
        age |-> s.age,
        blockLeft |-> IF s.failures + 1 = MaxFailures
                      THEN Block ELSE s.blockLeft]

\* recordFailure: a first failure, or one after the window, opens a window
\* with no block; the MaxFailures-th and every later one starts a block.
Failed(s) ==
  IF s.failures = 0 \/ s.age >= Window
  THEN [failures |-> 1, age |-> 0, blockLeft |-> 0]
  ELSE [failures |-> s.failures + 1,
        age |-> s.age,
        blockLeft |-> IF s.failures + 1 >= MaxFailures
                      THEN Block ELSE s.blockLeft]

\* One unit of time passes.
Elapse(s) ==
  IF s.failures = 0 THEN s
  ELSE [failures |-> s.failures,
        age |-> IF s.age < Window THEN s.age + 1 ELSE s.age,
        blockLeft |-> IF s.blockLeft > 0 THEN s.blockLeft - 1 ELSE 0]
=============================================================================
