SPECIFICATION FairSpec
CONSTANTS
  c1 = c1
  c2 = c2
  t1 = t1
  t2 = t2
  t3 = t3
  None = None
  Conns <- MCConns
  Threads <- MCThreads
INVARIANTS Conserved IdleIsClean OneShotOutsideTx NoLostWakeup
PROPERTIES ImplementsContract AcquireReturns
