----------------------------- MODULE MCAccount -----------------------------
(***************************************************************************)
(* Account for TLC.  Accounts, passwords, reset tokens and requests are    *)
(* told apart by nothing but their rows: none is in an initial state, none *)
(* is ordered.  Only invariants are checked with the symmetry.             *)
(***************************************************************************)
EXTENDS Account, TLC

MCSymmetry == Permutations(Users) \cup Permutations(Passwords)
                \cup Permutations(Tokens) \cup Permutations(Requests)
=============================================================================
