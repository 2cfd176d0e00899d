SPECIFICATION Spec
CONSTANTS
  s1 = s1
  s2 = s2
  s3 = s3
  testModule = testModule
  CV3_MSG_ROUTER = CV3_MSG_ROUTER
  NoReceiver = NoReceiver
  NoPacket = NoPacket
  Senders <- ThreeSenders
  Receivers <- TwoReceivers
  KeyIds = 8
  WriteErrors = TRUE
  WireIds = 4
  MaxRequests = 3
INVARIANT TypeOK
INVARIANT ReplyToRequester
INVARIANT RegisteredBeforeSent
INVARIANT NotifyFindsPacket
CHECK_DEADLOCK FALSE
