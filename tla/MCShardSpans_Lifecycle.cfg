\* One file through its whole lifecycle with up to two spans, inline and
\* blocked, and a leader clock that may lag by one: ingest, certify, link,
\* make transient again, condemn and reclaim, scrap and remove, with
\* clients that present the add proofs of their own blocks.
CONSTANTS
  Files = {f1}
  BlockServices = {b1, b2, b3}
  FailureDomain <- MCFailureDomain
  Locations = {l0, l1}
  NBlocks = 2
  SpanSizes = {1}
  InlineSizes = {1}
  Crcs = {10}
  MaxFileSize = 2
  MaxTime = 6
  Skew = 1
  DeadlineInterval = 2
  MaxBlockId = 8
  TailOnlyAddSpanLocation = TRUE
  StaleAddProofs = FALSE
  SpanEndIsSpanSize = TRUE
  NULL = NULL
SPECIFICATION Spec
SYMMETRY MCSymmetry
\* The shard accepts an entry in every state (a failing one is rolled back),
\* so a state with no successor is only the end of the time and id bounds.
CHECK_DEADLOCK FALSE
INVARIANTS
  TypeOK
  BlockCountsExact
  SpansTileFile
  NoErasedBlockInLiveSpan
  CertifiedBlocksWritten
  BlockIdsUnique
