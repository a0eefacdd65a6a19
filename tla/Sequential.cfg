SPECIFICATION Spec
CONSTANT MaxFails = 2
INVARIANTS
  TypeOK
  PassIsSound
  PassIsClean
  NoFalseAlarm
PROPERTY
  ImplementsContract
