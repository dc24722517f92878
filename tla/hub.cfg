SPECIFICATION FairSpec
CONSTANTS
  Clients = {c1, c2}
  Broadcasters = {b1, b2}
  Buffer = 1
INVARIANT NeverSendsOnClosed
PROPERTIES BroadcastEnds QueueDrains LostClientsGo
