CONSTANTS
  Dirs = {root, d1}
  Root = root
  Names = {n1}
  LocalFiles = {f1}
  RemoteFiles = {}
  MaxTime = 4
  Skew = 1
  NULL = NULL
  NULL_INODE = NULL_INODE
SYMMETRY MCSymmetry
SPECIFICATION Spec
PROPERTIES DirMtimeMonotonic
CHECK_DEADLOCK FALSE
