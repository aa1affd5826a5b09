---------------------------- MODULE MCPrivateCA ----------------------------
(* Two requests at a time, one certificate and up to three roots.          *)
EXTENDS PrivateCA, TLC

Symmetry == Permutations(Admins) \cup Permutations(Jobs)
=============================================================================
