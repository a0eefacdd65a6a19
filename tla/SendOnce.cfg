SPECIFICATION Spec
CONSTANTS
  MaxFails = 2
  MaxDeaths = 1
INVARIANTS
  PassIsSound
  PassIsClean
  AccusationIsJustified
PROPERTY
  ImplementsContract
