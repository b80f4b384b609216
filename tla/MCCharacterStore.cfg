\* Two sessions, two accounts, two ids, one field (left for itself too); saves, logins and creations race.
\* Levels and ids are bounded: with the bounds reached everything may stop.
SPECIFICATION Spec
CHECK_DEADLOCK FALSE
CONSTANTS
  Sessions = {s1, s2}
  Accounts = {a, b}
  Fields = {f1}
  MaxId = 1
  MaxCharacters = 2
  Fresh = {0}
  MaxLogins = 2
  MaxLevel = 1
  MaxJobs = 2
  None = None
INVARIANTS
  CharactersAreStored
  ListIsWhole
  WriterIsWoken
PROPERTY
  ProgressIsKept
SYMMETRY Symmetry
