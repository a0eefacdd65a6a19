SPECIFICATION Spec
CONSTANTS
  MaxFails = 2
  MaxCrashes = 2
INVARIANTS
  SuccessIsFresh
  RestartIsNew
  SuccessIsServed
  NoFalseAlarm
