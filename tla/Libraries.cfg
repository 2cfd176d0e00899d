SPECIFICATION LibSpec
CONSTANTS
    RWThreads = {r1, r2, r3, r4}
    MonThreads = {m1, m2}
    NoOwner = NoOwner
    MaxDepth = 3
    MaxNotify = 2
    Workers = {w1, w2}
    Main = Main
    NoThread = NoThread
    Microseconds <- MCMicroseconds
    Millis <- MCMillis
    Nanos <- MCNanos
    Lengths <- MCLengths
    Offsets <- MCOffsets
    WordSize = 1024
    MaxLength = 40
    MaxCalls = 3
    Radix = 2
    ParamIds = {0, 1, 3}
    Bodies <- MCBodies
    Versions = {11, 12}
    MaxParams = 2
INVARIANTS
    RWTypeOK WriterAlone NoSleeperForgotten
    MonTypeOK MonitorHeld NotifiesAreSent LockOrder
    ThrTypeOK NoneOutlivesTermination HandlesKeepObject
    BufTypeOK BufInBounds ReadBack
    ParTypeOK ReplyRoundTrip CutsAreSeen
    DeadlineExact
PROPERTIES
    JoinReturns TerminationReturns
CHECK_DEADLOCK FALSE
