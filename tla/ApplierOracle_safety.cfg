CONSTANTS
  NMsgs <- MCNMsgs
  NSegs <- MCNSegs
  QueueCap <- MCQueueCap
  MaxFaults <- MCMaxFaults
  WaitCap <- MCWaitCap
  EarlySender = TRUE
SPECIFICATION Spec
INVARIANT TypeOK
PROPERTY IngestRefinement
PROPERTY Progress
\* The task stops: after Shutdown, after the panic, or once every message
\* is consumed.
CHECK_DEADLOCK FALSE
