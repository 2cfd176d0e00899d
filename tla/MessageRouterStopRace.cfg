SPECIFICATION FairSpec
CONSTANTS
  n1 = n1
  n2 = n2
  c1 = c1
  c2 = c2
  k1 = k1
  k2 = k2
  Router = Router
  NoThread = NoThread
  NoPacket = NoPacket
  End = End
  Notifiers <- NoNotifiers
  Controllers <- TwoControllers
  Packets <- NoPackets
  Listeners <- NoListeners
  InitStayAlive <- OnlyFalse
  ControllerCalls <- StartAndJoin
  Registration <- Quiescent
PROPERTY StopReturns
CHECK_DEADLOCK FALSE
