SPECIFICATION PoolSpec
CONSTANTS
  Conns = {c1, c2}
  PoolEndpoints = {e1, e2}
  Users = {u1, u2}
  NoEp = NoEp
  MaxIdle = 0
SYMMETRY PoolSymmetry
INVARIANTS IdleWithinLimit
