\* Two files exchanging spans: MoveSpan, SwapBlocks, SwapSpans and
\* AddSpanLocation between files with one span each, next to the whole
\* lifecycle, with clients that move only tail spans and present the add
\* proofs of their own blocks.  Inline spans are left to the lifecycle run.
CONSTANTS
  Files = {f1, f2}
  BlockServices = {b1, b2}
  FailureDomain <- MCFailureDomain
  Locations = {l0, l1}
  NBlocks = 2
  SpanSizes = {1}
  InlineSizes = {}
  Crcs = {10}
  MaxFileSize = 1
  MaxTime = 4
  Skew = 0
  DeadlineInterval = 1
  MaxBlockId = 5
  TailOnlyAddSpanLocation = TRUE
  StaleAddProofs = FALSE
  SpanEndIsSpanSize = TRUE
  NULL = NULL
SPECIFICATION Spec
SYMMETRY MCSymmetry
\* The shard accepts an entry in every state (a failing one is rolled back),
\* so a state with no successor is only the end of the time and id bounds.
CHECK_DEADLOCK FALSE
INVARIANTS
  BlockCountsExact
  SpansTileFile
  NoErasedBlockInLiveSpan
  CertifiedBlocksWritten
  NoAssertFailure
