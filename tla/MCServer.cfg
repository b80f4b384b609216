\* ServerBase: a caller, two workers, sends, receives and one Disconnect, a
\* packet that cannot be extracted among what the client may send.
SPECIFICATION FairSpec
CHECK_DEADLOCK FALSE
CONSTANTS
  Callers = {c1}
  Workers = {w1, w2}
  Acceptor = acc
  Packets = {p1, p2}
  MaxBatch = 1
  MaxRecv = 1
  MaxDisconnect = 1
  Malformed = TRUE
PROPERTY
  DisconnectCloses
