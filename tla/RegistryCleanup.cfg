CONSTANTS
    Tags = {1, 2, 3, 4}
    CarriesTrunk = TRUE
    MaxRetries = 1
    MaxTrunk = 1
    Budgets <- MCBudgets
    Stable = {4}
    Digest <- MCDigest
    Keep = 1
    ChartTag <- MCChartTag
    PlatformTag = 1
    FirstTags = {1, 2, 3}
SPECIFICATION Spec
INVARIANTS BooksInv
PROPERTIES PublishesItsOwn ReapSpares TurnsSettle
CHECK_DEADLOCK FALSE
