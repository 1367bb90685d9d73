------------------------------ MODULE MCGrants ------------------------------
(***************************************************************************)
(* Two clients with an account each, one browser.                          *)
(***************************************************************************)
EXTENDS Grants, TLC

CONSTANTS u1, u2, c1, c2

MCClientOf == u1 :> c1 @@ u2 :> c2

\* Requests, grants and tokens are alike, and so are the two clients.
Alike == {p @@ q @@ g : p \in Permutations(Requests), q \in Permutations(TokenIds),
                        g \in Permutations(GrantIds)}
Swap == u1 :> u2 @@ u2 :> u1 @@ c1 :> c2 @@ c2 :> c1
Symmetry == Alike \cup {Swap @@ p : p \in Alike}
=============================================================================
