SPECIFICATION FairSpec
CONSTANTS
  HeaderLength = 2
  BodyLengths <- ThreeParts
  MaxPackets = 3
INVARIANT TypeOK
INVARIANT DeliversReplies
PROPERTY AtMostOneMore
PROPERTY RepliesDelivered
PROPERTY TerminateReturns
CHECK_DEADLOCK FALSE
