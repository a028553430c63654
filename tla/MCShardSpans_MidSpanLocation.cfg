\* AddSpanLocation asked to move a span that is not the tail of the
\* transient source file, which _applyAddSpanLocation does not refuse.
\* One block per span location is enough for the question.
CONSTANTS
  Files = {f1, f2}
  BlockServices = {b1}
  Locations = {l0, l1}
  InlineSizes = {1}
  MaxFileSize = 2
  MaxTime = 5
  Skew = 0
  DeadlineInterval = 1
  MaxBlockId = 5
  TailOnlyAddSpanLocation = FALSE
  StaleAddProofs = FALSE
  SpanEndIsSpanSize = TRUE
  FailureDomain <- MCFailureDomain
  NBlocks = 1
  SpanSizes = {1}
  Crcs = {10}
  NULL = NULL
SPECIFICATION Spec
SYMMETRY MCSymmetry
CHECK_DEADLOCK FALSE
INVARIANT SpansTileFile
