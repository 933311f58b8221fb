\* One thread, the default of main.cc, and four connections.
SPECIFICATION Spec
CONSTANTS
  Threads = {t1}
  Conns = {c1, c2, c3, c4}
  NoConn = NoConn
SYMMETRY Symmetry
INVARIANTS NoDanglingUse RegistryExact CountedExactly
