SPECIFICATION Spec
CONSTANTS
    Runs = {r1, r2}
    Members = {m1}
    Values = {0, 1, 2}
    Versions = {11, 12, 21}
    Customer = {1}
    CustomerCname = {}
    KindGroups = {{"own-domain"}, {"sender-domain"}, {"display-name", "size"}, {"demo"}, {"website-main"}, {"google", "restart"}, {"versions", "website-site", "line-move"}, {"restore"}}
    MaxPlans = 2
    MaxFails = 2
SYMMETRY Symmetry
INVARIANTS ChangesInv
PROPERTIES SenderCanSend EndedRunStands
CHECK_DEADLOCK FALSE
