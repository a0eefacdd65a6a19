SPECIFICATION Spec
CONSTANTS
  MaxFails = 1
  MaxDeaths = 1
INVARIANTS
  TypeOK
  PassIsSound
  PassIsClean
  NoOrphanAtVerdict
  AccusationIsJustified
  DescriptorStaysPrivate
PROPERTY
  ImplementsContract
