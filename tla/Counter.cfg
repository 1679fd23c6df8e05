SPECIFICATION Spec
CONSTANTS
  NoSem = NoSem
  HOLD = 2
  Rounds = 3
INVARIANT OneInSection
INVARIANT DeletedUnused
PROPERTY TallyImplemented
PROPERTY ResultsPrinted
