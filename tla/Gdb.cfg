SPECIFICATION Spec
CONSTANTS
  Soak = 45
  BeatTimes <- MCBeatTimes
  MaxWait = 60
INVARIANTS
  NoCaptureBelowGate
  SilentIsCaught
  ReaderIsBehind
PROPERTY DetectorEnds
