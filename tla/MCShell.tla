--------------------------- MODULE MCShell ---------------------------
(* The instance of Shell that TLC checks. *)
EXTENDS Shell, TLC

\* Passwords are only compared.
Symmetry == Permutations(Words)
=============================================================================
