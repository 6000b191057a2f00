----------------------------- MODULE MCTenants ------------------------------
(* The instances of Tenants that TLC checks. *)
EXTENDS Tenants, TLC

\* The run slots are interchangeable, and so are the guids: no definition orders them (a create of
\* these instances replaces at most one tenant).
Symmetry == Permutations(Runs) \cup Permutations(Guids)
=============================================================================
