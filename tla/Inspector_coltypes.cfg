CONSTANTS
  Sources <- MCSources
  KeyNames <- MCKeyNames
  MaxKeys = 2
  MaxDDLs = 1
  MaxRestarts = 0
  MaxValidations = 2
  MaxTypeFaults = 1
SPECIFICATION Spec
INVARIANT KeySelectionRule
\* A job ends: torn down with Close, or out of restarts and validations.
CHECK_DEADLOCK FALSE
