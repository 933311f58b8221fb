\* Three threads and three connections: while a connection is answered another is
\* read and a third accepted.
SPECIFICATION Spec
CONSTANTS
  Threads = {t1, t2, t3}
  Conns = {c1, c2, c3}
  NoConn = NoConn
SYMMETRY Symmetry
INVARIANTS OneOwner AcceptChain StateReported NotForgotten IInv
PROPERTY StateAdvances
