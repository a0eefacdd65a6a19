SPECIFICATION Spec
CONSTANTS
  Runs = 4
  Baseline = 1
  Attempt = 2
  Origin <- MCOrigin
  Horizon = 9
  Poweroff = 2
  MaxFails = 2
INVARIANTS
  FrozenIsReal
  VerdictIsEarned
  IterNotOverstated
  OneGuest
PROPERTY HealthyRunEnds
