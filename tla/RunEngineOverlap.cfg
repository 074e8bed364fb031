\* Requests are made once each, so the system may come to rest.
CHECK_DEADLOCK FALSE
SPECIFICATION FairSpec
CONSTANTS
  r1 = r1
  r2 = r2
  r3 = r3
  Requests <- MCRequests
  Keys <- MCKeys
  Locks <- MCLocks
  KeyOf <- MCKeyOf
  LockOf <- MCLockOf
  OutputLen <- MCOutputLen
  LogCap = 2
  PipeCap = 2
INVARIANT NoTwoProcesses
