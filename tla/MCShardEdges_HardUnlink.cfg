CONSTANTS
  Dirs = {root}
  Root = root
  Names = {n1}
  LocalFiles = {f1}
  RemoteFiles = {}
  MaxTime = 3
  Skew = 1
  NULL = NULL
  NULL_INODE = NULL_INODE
SYMMETRY MCSymmetry
SPECIFICATION Spec
INVARIANTS NoUndefinedRead
CHECK_DEADLOCK FALSE
