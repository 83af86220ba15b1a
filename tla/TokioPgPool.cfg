SPECIFICATION FairSpec
CONSTANTS
  c1 = c1
  c2 = c2
  c3 = c3
  u1 = u1
  u2 = u2
  u3 = u3
  None = None
  Conns <- ThreeConns
  Users <- ThreeUsers
  MaxSize = 2
  Cancelling = {TRUE, FALSE}
INVARIANTS IdleIsClean NoneLeaked TxNotAutocommitted
PROPERTIES PermitsReturn ImplementsContract
