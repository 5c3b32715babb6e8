CONSTANTS
  feed1 = feed1
  feed2 = feed2
  Instances <- MCInstances
  Ttl = 5
  Renew = 2
  MaxFails = 1
  MaxTokens = 3
SPECIFICATION Spec
CHECK_DEADLOCK FALSE
INVARIANTS ReleaseFreesKey
