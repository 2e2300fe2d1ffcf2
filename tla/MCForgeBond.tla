---------------------------- MODULE MCForgeBond ----------------------------
(* Model-checking instances of ForgeBond. *)
EXTENDS ForgeBond, TLC

CONSTANTS issuer, alice, bob, registrar, settler

\* Investors differ only by name, and so do the ids.
Symmetry ==
    Permutations(Accounts \ {issuer}) \cup Permutations(TxIds) \cup Permutations(OperationIds)
=============================================================================
