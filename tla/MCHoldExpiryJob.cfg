SPECIFICATION Spec
CONSTANTS
  Runs = {r1, r2}
  NTenants = 2
  NHolds = 3
  TenantOf <- SecondTenant
  Limit = 2
  Troubled = {1}
  Leaving = {2}
  MaxDisturbances = 1
INVARIANTS
  AuditedOnce
PROPERTIES
  LaterCommandWins
  EveryDueHoldExpires
