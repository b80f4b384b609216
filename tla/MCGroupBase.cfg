\* One slot, used twice; two groups that move sessions to each other.
SPECIFICATION FairSpec
CONSTANTS
  Groups = {0, 1}
  Login = 0
  Routes <- Fields
  Slots = {0}
  MaxKey = 2
  MaxMsgs = 4
INVARIANTS
  HandlersFindPlayer
  OneGroupAtATime
  HandledInOrder
  PopFindsPacketUnlessRushed
PROPERTIES
  PacketsAreHandled
  PlayersAreReported
