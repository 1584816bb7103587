CONSTANTS
  NMsgs <- MCNMsgs
  NSegs <- MCNSegs
  QueueCap <- MCQueueCap
  MaxFaults <- MCMaxFaults
  WaitCap <- MCWaitCap
  EarlySender = TRUE
SPECIFICATION Spec
INVARIANT NoNilIncrQueue
CHECK_DEADLOCK FALSE
