SPECIFICATION Spec
CONSTANTS
  MaxFails = 0
  MaxDeaths = 0
INVARIANT
  PassMeansOneShot
