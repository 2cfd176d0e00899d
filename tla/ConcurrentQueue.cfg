SPECIFICATION FairSpec
CONSTANTS
  p1 = p1
  p2 = p2
  c1 = c1
  c2 = c2
  e1 = e1
  e2 = e2
  Producers <- TwoProducers
  Consumers <- TwoConsumers
  Elements <- TwoElements
  NoElement = NoElement
  NoThread = NoThread
INVARIANT TypeOK
INVARIANT TestStillValid
INVARIANT NoLostWakeup
PROPERTY LinearizableFifo
PROPERTY SleepersServed
