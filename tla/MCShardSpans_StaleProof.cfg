\* AddSpanCertify with an add proof of another written block of the same
\* block service, which _checkBlockAddProof accepts.
CONSTANTS
  Files = {f1}
  BlockServices = {b1, b2}
  Locations = {l0}
  InlineSizes = {}
  MaxFileSize = 2
  MaxTime = 5
  Skew = 0
  DeadlineInterval = 2
  MaxBlockId = 6
  TailOnlyAddSpanLocation = TRUE
  StaleAddProofs = TRUE
  SpanEndIsSpanSize = TRUE
  FailureDomain <- MCFailureDomain
  NBlocks = 2
  SpanSizes = {1}
  Crcs = {10}
  NULL = NULL
SPECIFICATION Spec
SYMMETRY MCSymmetry
CHECK_DEADLOCK FALSE
INVARIANT CertifiedBlocksWritten
