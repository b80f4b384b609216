\* Three threads race the accept thread on one recycled slot of a grouped server.
SPECIFICATION Spec
CONSTANTS
  Workers = {w1, w2, w3}
  Acceptor = acc
  MaxSession = 1
  Groups = {0}
  MaxKey = 3
  MaxUsage = 5
INVARIANTS
  TypeOK
  CountIsReferences
  HeldIsCurrent
  CompletionFindsSession
  ReleaseIsExclusive
  NoLostRelease
  PopFindsIndex
  NotifiedOnce
PROPERTY
  ImplementsSessionLife
