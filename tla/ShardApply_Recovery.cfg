\* Two entry bodies, so that a repeated entry fails; a log of four entries
\* and two crashes, so that a crash can lose batches written after a flush
\* and hit a recovered shard again.  The log version and the time are
\* values that need more than one byte.
CONSTANTS
  Entries <- MCEntries
  ShardLogProtocolVersion = 258
  EntryTime = 70000
  MaxIndex = 4
  MaxCrashes = 2
  NULL = NULL
SPECIFICATION FairSpec
INVARIANTS TypeOK ReadConsistent ReadSeesFlushedApplies
  LogRecordsRoundTrip TornRecordsRejected
PROPERTIES AbsSpec ReadsEventuallySeeLog
