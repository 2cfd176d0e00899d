SPECIFICATION Spec
CONSTANTS
  s1 = s1
  s2 = s2
  s3 = s3
  testModule = testModule
  CV3_MSG_ROUTER = CV3_MSG_ROUTER
  NoReceiver = NoReceiver
  NoPacket = NoPacket
  Senders <- TwoSenders
  Receivers <- TwoReceivers
  KeyIds = 8
  WriteErrors = FALSE
  WireIds = 4
  MaxRequests = 5
INVARIANT ReplyToRequester
CHECK_DEADLOCK FALSE
