----------------------------- MODULE MCMfaLogin -----------------------------
(***************************************************************************)
(* Two instances of MfaLogin.  EnrolledSpec begins with a process start at *)
(* which two users have already enrolled: the tables are as MfaLogin itself*)
(* leaves them after one enrolment of each, nothing is in flight, and no   *)
(* secret or code set is left to draw.                                     *)
(***************************************************************************)
EXTENDS MfaLogin, TLC

CONSTANTS u1, u2, s1, s2, b1, b2

MCUsers == {u1, u2}
MCSecrets == {s1, s2}
MCBatches == {b1, b2}
SecretOf == u1 :> s1 @@ u2 :> s2
BatchOf == u1 :> b1 @@ u2 :> b2

EnrolledInit ==
  /\ row = [u \in Users |-> [exists |-> TRUE, enabled |-> TRUE,
                             secret |-> SecretOf[u]]]
  /\ codes = [u \in Users |-> CodesOf(BatchOf[u])]
  /\ used = {}
  /\ attempts = [u \in Users |-> NoAttempts]
  /\ req = [r \in Requests |-> Idle]
  /\ confirmed = {<<u, SecretOf[u]>> : u \in Users}
  /\ drawn = Secrets
  /\ issued = Batches
  /\ latest = BatchOf
  /\ uses = [c \in Code |-> 0]
  /\ LoginInit

\* The two users' overlapping logins, time standing still.
EnrolledSpec == EnrolledInit /\ [][LoginNext]_vars

(* One request of the login and one of the MFA pages at a time, with time  *)
(* and crashes: the interleavings of the two, which liveness and the       *)
(* refinement are about.  Two logins at a time are in EnrolledSpec.        *)
CONSTANTS r1, r2
Divided == ctx[r2] = Idle /\ req[r1].op \in {"idle", "recover"}
DividedSpec == Init /\ [][Next /\ Divided']_vars /\ WF_vars(Tick)

\* Requests are alike, and in EnrolledSpec the two users are as well.
RequestSymmetry == Permutations(Requests)
Swap == u1 :> u2 @@ u2 :> u1 @@ s1 :> s2 @@ s2 :> s1 @@ b1 :> b2 @@ b2 :> b1
Symmetry == RequestSymmetry \cup {Swap @@ p : p \in RequestSymmetry}
=============================================================================
