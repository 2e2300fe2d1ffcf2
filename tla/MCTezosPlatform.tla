-------------------------- MODULE MCTezosPlatform --------------------------
(* Model-checking instance of TezosPlatform. *)
EXTENDS TezosPlatform, TLC

\* Ids, names and ISINs differ only by name.
Symmetry == Permutations(TxIds) \cup Permutations(Names) \cup Permutations(Isins)
=============================================================================
