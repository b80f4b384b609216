\* HeteroServerBase: a sender, a group's frames, two workers; the frame's
\* notification repairs a missed one.  A packet that cannot be extracted
\* leaks a reference, after which the system may stop.
SPECIFICATION HeteroFairSpec
CHECK_DEADLOCK FALSE
CONSTANTS
  Callers = {c1, g1}
  GroupThreads = {g1}
  Workers = {w1, w2}
  Acceptor = acc
  Packets = {p1, p2}
  MaxBatch = 1
  MaxRecv = 1
  MaxDisconnect = 0
  Malformed = TRUE
  MaxPosts = 1
INVARIANTS
  SessionOutlivesUse
  OneSendAtATime
  WireInOrder

  
