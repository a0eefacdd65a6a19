SPECIFICATION RecvSpec
CONSTANTS
  MaxFires = 3
  CallsFail = TRUE
INVARIANTS
  PassIsSound
  ServicedWasReceived
PROPERTY Ends
