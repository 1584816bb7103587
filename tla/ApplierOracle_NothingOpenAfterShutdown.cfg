CONSTANTS
  NMsgs <- MCNMsgs
  NSegs <- MCNSegs
  QueueCap <- MCQueueCap
  MaxFaults <- MCMaxFaults
  WaitCap <- MCWaitCap
  EarlySender = FALSE
SPECIFICATION Spec
INVARIANT NothingOpenAfterShutdown
CHECK_DEADLOCK FALSE
