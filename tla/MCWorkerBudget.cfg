CONSTANTS
  s1 = s1
  s2 = s2
  s3 = s3
  k1 = k1
  k2 = k2
  k3 = k3
  NoToken = NoToken
  Session <- Sessions
  Token <- Tokens
  Budgets = {1, 2}
  MaxWorkers = 2
  MaxTicket = 2
  Faults = {"misread", "lost_budget", "failed_write", "early_release"}
SYMMETRY Symmetric
SPECIFICATION Spec
INVARIANTS WithinBudget GrantsAreSound
PROPERTY PoolSpec
CHECK_DEADLOCK FALSE
