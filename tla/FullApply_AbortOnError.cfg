\* ApplyEventQueries under failed calls, failed commits and a restart.
CONSTANTS
  Dumps <- MCDumps
  NConns = 2
  BufSizeLimit = 10
  HeaderLen = 3
  MaxFaults = 1
  MaxRestarts = 0
SPECIFICATION Spec
INVARIANT AbortOnError
\* A job ends: done, or dead with no restart left.
CHECK_DEADLOCK FALSE
