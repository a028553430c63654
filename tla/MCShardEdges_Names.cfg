CONSTANTS
  Dirs = {root}
  Root = root
  Names = {n1, n2}
  LocalFiles = {f1, f2}
  RemoteFiles = {r1}
  MaxTime = 4
  Skew = 1
  NULL = NULL
  NULL_INODE = NULL_INODE
SYMMETRY MCSymmetry
SPECIFICATION Spec
INVARIANTS CurrentEdgeNewest
PROPERTIES UnlinkLeavesSnapshot SnapshotEdgesStable
CHECK_DEADLOCK FALSE
