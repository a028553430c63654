\* The root and a subdirectory with one name and a remote file as the only
\* target.  MaxTime 5 without lag is long enough for a subdirectory to be
\* created, get an edge, lose it to a moving unlock that leaves snapshot
\* edges, lose its owner and be removed.
CONSTANTS
  Dirs = {root, d1}
  Root = root
  Names = {n1}
  LocalFiles = {}
  RemoteFiles = {r1}
  MaxTime = 5
  Skew = 0
  NULL = NULL
  NULL_INODE = NULL_INODE
SYMMETRY MCSymmetry
SPECIFICATION Spec
INVARIANTS TypeOK CurrentEdgeNewest SnapshotDirsHaveNoCurrentEdges NoEdgesInMissingDir
CHECK_DEADLOCK FALSE
