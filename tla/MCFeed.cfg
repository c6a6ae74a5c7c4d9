SPECIFICATION FairSpec
CONSTANTS
  s1 = s1
  s2 = s2
  s3 = s3
  Subs = {s1, s2, s3}
  Early <- MCEarly
  Cap = 1
  MaxSends = 2
INVARIANTS
  ListedOnce
PROPERTIES
  ImplementsBroadcast
  LeaversReturn
  SendReturns
\* The goroutines stop when the bounded number of sends is used up.
CHECK_DEADLOCK FALSE
