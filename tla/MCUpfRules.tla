------------------------------ MODULE MCUpfRules ------------------------------
(***************************************************************************)
(* UpfRules for TLC: the ids of PDRs and of URRs are interchangeable.      *)
(***************************************************************************)
EXTENDS UpfRules, TLC

Symmetry == Permutations(PdrIds) \cup Permutations(UrrIds)

=============================================================================
