-------------------------- MODULE MCRegistryCleanup --------------------------
(* The books and the reaper on a small instance: four tags, one of them the *)
(* stable rebuild of another (they share a manifest), one tag kept a pot.  *)
EXTENDS RegistryCleanup

MCDigest == [t \in Tags |-> IF t = 4 THEN 2 ELSE t]
\* The product's default moves with the trunk; the version changed by hand names none.
MCChartTag == [v \in 0..MaxTrunk + 1 |-> IF v <= MaxTrunk THEN v + 1 ELSE 0]
Budget(faults, outside, asks, reaps, images) ==
    [faults |-> faults, outside |-> outside, asks |-> asks, reaps |-> reaps, images |-> images]
\* Writers with faults and outside writes; the reaper with moving pins and a run's write.
MCBudgets == {Budget(1, 1, 2, 0, 0), Budget(0, 2, 1, 0, 0), Budget(1, 2, 0, 2, 1), Budget(0, 0, 1, 1, 1)}
=============================================================================
