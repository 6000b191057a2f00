---------------------------- MODULE MCRelocation ----------------------------
(* The instances of Relocation that TLC checks. *)
EXTENDS Relocation, TLC

CONSTANTS west

\* A consumer that moves and is backed up at night; one that is restored over itself; an
\* offboarded one that is restored; a tenant that moves; one that is restored and backed up.
Beginnings ==
    {[unit |-> "consumer", kinds |-> {"migrate", "nightly"}, to |-> {home, west}, gone |-> FALSE],
     [unit |-> "consumer", kinds |-> {"restore", "nightly"}, to |-> {home}, gone |-> FALSE],
     [unit |-> "consumer", kinds |-> {"restore"}, to |-> {west}, gone |-> TRUE],
     [unit |-> "tenant", kinds |-> {"migrate"}, to |-> {west}, gone |-> FALSE],
     [unit |-> "tenant", kinds |-> {"restore", "backup"}, to |-> {home}, gone |-> FALSE]}

Symmetry == Permutations(Runs) \cup Permutations(Stores)
=============================================================================
