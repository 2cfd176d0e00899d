SPECIFICATION FairSpec
CONSTANTS
  n1 = n1
  n2 = n2
  c1 = c1
  c2 = c2
  k1 = k1
  k2 = k2
  Router = Router
  NoThread = NoThread
  NoPacket = NoPacket
  End = End
  Notifiers <- TwoNotifiers
  Controllers <- OneController
  Packets <- TwoPackets
  Listeners <- OneListener
  InitStayAlive <- AnyBoolean
  ControllerCalls <- AllMethods
  Registration <- Quiescent
PROPERTY SignalDrainsQueue
PROPERTY DestructorReturns
CHECK_DEADLOCK FALSE
