--------------------------- MODULE MCAuthenticator ---------------------------
(* Bounds for model checking Authenticator. *)
EXTENDS Authenticator, TLC

\* Calls are interchangeable: the safety runs identify permuted states.
Symmetry == Permutations(Attempts)
=============================================================================
