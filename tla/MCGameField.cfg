SPECIFICATION Spec
CONSTANTS
  Players = {p1, p2}
  p1 = p1
  p2 = p2
  CharacterSlots = {c1, c2, c3}
  c1 = c1
  c2 = c2
  c3 = c3
  MonsterSlots = {m1}
  m1 = m1
  Height = 3
  Width = 3
  Walkable <- MCWalkable
  Section <- MCSection
  EntrySectors <- MCEntry
  SpawnSector <- MCSpawn
  MaxHp = 1
  MaxStep = 1
  MaxIds = 4
  MaxPending = 2
  None = None
SYMMETRY MCSymmetry
CHECK_DEADLOCK FALSE
INVARIANTS
  SeesWhatIsAround
  SectorsFollowObjects
  OneMonster
