\* Two threads push, one pops: enough to recycle a node under a stalled pusher.
SPECIFICATION FairSpec
CONSTANTS
  Pushers = {a, b}
  Popper = c
  MaxPush = 3
  TagMod = 8
INVARIANTS
  NothingLostOrSwapped
  PopFindsUnlessDisplaced
PROPERTY
  PushedIsPopped
