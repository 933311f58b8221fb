\* Two threads, as with "threads 2" in the configuration.
SPECIFICATION Spec
CONSTANTS
  Threads = {t1, t2}
  Conns = {c1, c2, c3}
  NoConn = NoConn
SYMMETRY Symmetry
INVARIANT NoDanglingUse
