SPECIFICATION Spec
CONSTANT MaxRequests = 2
INVARIANT NoUseAfterDelete
CHECK_DEADLOCK FALSE
