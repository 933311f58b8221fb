\* One thread is enough.
SPECIFICATION Spec
CONSTANTS
  Threads = {t1}
  Conns = {c1, c2, c3}
  NoConn = NoConn
SYMMETRY Symmetry
INVARIANT FailedAcceptCleanedUp
