----------------------------- MODULE TokenLife ------------------------------
(***************************************************************************)
(* What the store of codes and refresh tokens promises: a token is issued  *)
(* once, is usable, and when it has been used up, revoked or has expired   *)
(* it stays so.                                                            *)
(***************************************************************************)
CONSTANT Tokens

VARIABLE life

Init == life = [t \in Tokens |-> "unissued"]

Issue(t) ==
  /\ life[t] = "unissued"
  /\ life' = [life EXCEPT ![t] = "usable"]

\* One request, or the clean-up job, may end the life of many tokens.
Retire(T) ==
  /\ \A t \in T : life[t] = "usable"
  /\ life' = [t \in Tokens |-> IF t \in T THEN "retired" ELSE life[t]]

Next == \/ \E t \in Tokens : Issue(t)
        \/ \E T \in SUBSET Tokens : Retire(T)

Spec == Init /\ [][Next]_life
=============================================================================
