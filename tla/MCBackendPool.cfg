SPECIFICATION PoolSpec
CONSTANTS
  Conns = {c1, c2, c3, c4}
  PoolEndpoints = {e1, e2}
  Users = {u1, u2}
  NoEp = NoEp
  MaxIdle = 2
SYMMETRY PoolSymmetry
INVARIANTS OneOwner NoLeak IdleBounded
