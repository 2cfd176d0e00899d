SPECIFICATION FairSpec
CONSTANTS
  n1 = n1
  n2 = n2
  c1 = c1
  c2 = c2
  k1 = k1
  k2 = k2
  Router = Router
  NoThread = NoThread
  NoPacket = NoPacket
  End = End
  Notifiers <- TwoNotifiers
  Controllers <- TwoControllers
  Packets <- TwoPackets
  Listeners <- ThreeListeners
  InitStayAlive <- AnyBoolean
  ControllerCalls <- AllMethods
  Registration <- NotSelf
INVARIANT TypeOK
INVARIANT NoMissedStop
PROPERTY DeliversInOrder
CHECK_DEADLOCK FALSE
