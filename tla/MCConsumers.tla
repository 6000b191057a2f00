---------------------------- MODULE MCConsumers -----------------------------
(* The instances of Consumers that TLC checks. *)
EXTENDS Consumers, TLC

CONSTANTS dev, prod

\* A fresh unit, one that stands at one stage or at both, and one whose row was lost, each with the
\* runs whose order matters there.
Beginnings ==
    {[kinds |-> {"onboard", "offboard"}, plans |-> 2, at |-> {dev}, rels |-> {1}, forms |-> {FALSE}, on |-> {}, lost |-> {}, zones |-> {}],
     [kinds |-> {"onboard", "purge"}, plans |-> 2, at |-> {dev}, rels |-> {1}, forms |-> {TRUE}, on |-> {dev, prod}, lost |-> {}, zones |-> {}],
     [kinds |-> {"build-only", "standing-build", "ci-only", "ci-offboard"}, plans |-> 2, at |-> {dev}, rels |-> {1},
      forms |-> {FALSE}, on |-> {}, lost |-> {}, zones |-> {}],
     [kinds |-> {"suspend", "resume", "offboard"}, plans |-> 2, at |-> {dev, prod}, rels |-> {1}, forms |-> {FALSE},
      on |-> {dev, prod}, lost |-> {}, zones |-> {}],
     [kinds |-> {"domain"}, plans |-> 4, at |-> {dev, prod}, rels |-> {1}, forms |-> {FALSE}, on |-> {dev, prod}, lost |-> {}, zones |-> {1}],
     [kinds |-> {"domain"}, plans |-> 3, at |-> {dev, prod}, rels |-> {1}, forms |-> {FALSE}, on |-> {dev, prod}, lost |-> {}, zones |-> {1, 2}],
     [kinds |-> {"adopt", "purge"}, plans |-> 2, at |-> {dev}, rels |-> {1}, forms |-> {FALSE}, on |-> {dev}, lost |-> {dev}, zones |-> {}],
     [kinds |-> {"release", "secrets", "restart", "size"}, plans |-> 2, at |-> {dev}, rels |-> {1, 2}, forms |-> {FALSE},
      on |-> {dev}, lost |-> {}, zones |-> {}]}

Symmetry == Permutations(Runs)
=============================================================================
