----------------------- MODULE MCRuntimeCredentials -----------------------
(* RuntimeCredentials on a small instance. *)
EXTENDS RuntimeCredentials, TLC

BoxSymmetry == Permutations(Sandbox)
=============================================================================
