CONSTANTS
  Runs = {r1, r2}
  Guids = {g1, g2}
  Apps = {a1}
  Idp = idp
  Kinds = {"create", "add-app", "offboard", "suspend", "remove-app", "purge"}
  MaxMints = 2
  MaxFails = 2
  MaxPlans = 3
SPECIFICATION Spec
SYMMETRY Symmetry
INVARIANTS TenantInv PurgedLeavesNoIdentity
PROPERTIES UndeployedOnlyByItsRemoval
CHECK_DEADLOCK FALSE
