SPECIFICATION Spec
CONSTANTS
  Probes <- MCProbes
  MaxRuns = 2
INVARIANTS
  ZeroMeansGreen
  CompletedIsFresh
  BooksBalance
PROPERTIES
  ResultsSurviveRefusal
  EveryRunEnds
