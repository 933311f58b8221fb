\* Three threads, so that two can compete for the mutex a third holds.
SPECIFICATION Spec
CONSTANTS
  Threads = {t1, t2, t3}
  NoThread = NoThread
  NoRequest = NoRequest
  Requests <- MCRequests
  PrefixOf <- MCPrefixOf
  UrlOf <- MCUrlOf
  CodeOf <- MCCodeOf
INVARIANT IInv
PROPERTY RefinesLedger
