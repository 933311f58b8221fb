\* Two threads: one can wait for a body while the other serves.
SPECIFICATION FairSpec
CONSTANTS
  Threads = {t1, t2}
  Conns = {1, 2, 3}
  NoConn = NoConn
CONSTRAINT Explored
PROPERTIES AnsweredFreed AcceptsAgain NoHandlerStarves
