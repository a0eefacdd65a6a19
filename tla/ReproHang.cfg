SPECIFICATION Spec
CONSTANTS
  Runs = 1
  Baseline = 1
  Attempt = 1
  Origin <- MCOrigin
  Horizon = 9
  Poweroff = 2
  MaxFails = 0
PROPERTY ObservationEnds
