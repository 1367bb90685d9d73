----------------------------- MODULE MCClients ------------------------------
(***************************************************************************)
(* An instance of Clients: lists of methods in which a public, a secret    *)
(* and a key based method occur alone and together.                        *)
(***************************************************************************)
EXTENDS Clients, TLC

MCMethodLists == {{"none"}, {"client_secret_basic"},
                  {"none", "client_secret_post"},
                  {"client_secret_jwt", "private_key_jwt"}}
\* The values of each kind are interchangeable.
Symmetry == Permutations(Secrets) \cup Permutations(AppUris)
              \cup Permutations(Issuers) \cup Permutations(Requests)
=============================================================================
