\* Two players on two objects, three sessions; packets, jobs and closings race.
\* A thread may wait for a lock it holds (ChatServer deadlocks), so runs may stop.
SPECIFICATION Spec
CHECK_DEADLOCK FALSE
CONSTANTS
  Workers = {w1, w2}
  DbThreads = {d1}
  Acceptor = acc
  Players = {a, b}
  Names = {n}
  Fields = {0, 1}
  MaxKey = 3
  MaxCalls = 3
  None = None
INVARIANTS
  HandlersFindPlayer
  FieldsMatchPlayers
  LockKeepsSession
  StuckByClosingOnly
SYMMETRY Symmetry
