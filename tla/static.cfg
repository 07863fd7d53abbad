CONSTANTS
  Node <- MCNode
  Operand = {x, y, z}
  Addr = {1, 2, 3}
  None = None
  Programs <- MCPrograms
  Function = {m, f, g, h}
  ForkSite = {s1, s2, s3}
  JoinSite = {j1, j2}
  NoSite = NoSite
  ForkCap = 4
  RCUCap = 1
  Trees <- MCTrees
  Systems <- MCSystems
  x = x
  y = y
  z = z
  m = m
  f = f
  g = g
  h = h
  s1 = s1
  s2 = s2
  s3 = s3
  j1 = j1
  j2 = j2
SPECIFICATION StaticSpec
INVARIANTS NoHeldLockMissed AlwaysProtectedFound HeldOnlyDownstream UnlockRecorded LockEdgesBounded ForksCovered OrderedByJoin
PROPERTIES StaticEnds
