CONSTANTS
  Sources <- MCSources
  KeyNames <- MCKeyNames
  MaxKeys = 2
  MaxDDLs = 1
  MaxRestarts = 1
  MaxValidations = 2
  MaxTypeFaults = 0
SPECIFICATION Spec
INVARIANT TypeOK
INVARIANT KeySelectionRule
\* A job ends: torn down with Close, or out of restarts and validations.
CHECK_DEADLOCK FALSE
