-------------------------- MODULE MCTenantChanges --------------------------
(***************************************************************************)
(* TenantChanges on a small instance: the runs, the members and nothing    *)
(* else are interchangeable.                                               *)
(***************************************************************************)
EXTENDS TenantChanges, TLC

Symmetry == Permutations(Runs) \cup Permutations(Members)
=============================================================================
