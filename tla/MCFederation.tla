---------------------------- MODULE MCFederation ----------------------------
(***************************************************************************)
(* The clients and interactions of the small instance of Federation.       *)
(***************************************************************************)
EXTENDS Federation, TLC

CONSTANTS i1, i2, c1, c2

\* Two clients, an interaction of each.
TwoClients == {c1, c2}
TwoInteractions == {i1, i2}
TwoClientOf == [i \in TwoInteractions |-> IF i = i1 THEN c1 ELSE c2]

\* Accounts, addresses, states and requests are alike, and so are the clients.
Alike == {p @@ q @@ g @@ h :
            p \in Permutations(Users), q \in Permutations(Emails),
            g \in Permutations(States), h \in Permutations(Requests)}
Swap == c1 :> c2 @@ c2 :> c1 @@ i1 :> i2 @@ i2 :> i1
Symmetry == Alike \cup {Swap @@ p : p \in Alike}
=============================================================================
