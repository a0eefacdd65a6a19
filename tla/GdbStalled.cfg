SPECIFICATION Spec
CONSTANTS
  Soak = 45
  BeatTimes <- MCBeatTimes
  MaxWait = 60
INVARIANT AttachMeansStalled
