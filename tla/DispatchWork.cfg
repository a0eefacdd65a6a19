SPECIFICATION Spec
CONSTANT Items = {i1, i2, i3, i4}
INVARIANTS
  PassIsServiced
  ContextOutlivesWork
PROPERTY
  EveryWaitEnds
CHECK_DEADLOCK FALSE
