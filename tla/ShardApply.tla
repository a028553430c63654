----------------------------- MODULE ShardApply -----------------------------
(***************************************************************************)
(* Log application, the read snapshot and crash recovery of a shard        *)
(* (ShardDBImpl::applyLogEntry, read, flush, the constructor).             *)
(*                                                                         *)
(* `data` is the committed database as the apply path reads it; handlers   *)
(* are abstracted to ShardLog's Step, whose outcome depends on the data.   *)
(* The write-ahead log holds the batches written since the last FlushWAL;  *)
(* a crash keeps a prefix of them (RocksDB's point-in-time recovery).  The *)
(* caller, outside this code, hands entries to applyLogEntry one index at  *)
(* a time and resumes after a restart from lastAppliedLogEntry().          *)
(*                                                                         *)
(* The log holds the bytes of ShardLogEntry::pack (Bincode): the protocol  *)
(* version, the index, the time and the body, which is an entry's bytes    *)
(* here.  The caller unpacks a record with ShardLogEntry::unpack before it *)
(* hands it to applyLogEntry.                                              *)
(***************************************************************************)
EXTENDS Naturals, Sequences, Bincode

CONSTANTS
  Entries,     \* log entry bodies, as byte strings
  ShardLogProtocolVersion, \* SHARD_LOG_PROTOCOL_VERSION
  EntryTime,   \* the TernTime prepareLogEntry stamps
  MaxIndex,    \* bound on the length of the log
  MaxCrashes,  \* bound on the number of crashes
  NULL

VARIABLES
  log,          \* the replicated log: packed ShardLogEntry records
  lastApplied,  \* LAST_APPLIED_LOG_ENTRY_KEY in the committed database
  data,         \* the rest of the committed database
  wal,          \* batches written since the last FlushWAL: [index, data]
  durIndex,     \* LAST_APPLIED_LOG_ENTRY_KEY as of the last FlushWAL
  durData,      \* the data as of the last FlushWAL
  snap,         \* _currentReadSnapshot: [index, data]
  flushing,     \* the index FlushWAL covered while flush() is between it and
                \* _updateCurrentReadSnapshot, NULL otherwise
  flushedThrough, \* the index the last completed flush() covered (auxiliary)
  up,           \* the process is running
  crashes,      \* crashes so far
  callerNext,   \* the index the caller passes to the next applyLogEntry
  lastRead      \* what the last read returned, and lastApplied when it began

vars == <<log, lastApplied, data, wal, durIndex, durData, snap, flushing,
          flushedThrough, up, crashes, callerNext, lastRead>>

\* The generated ShardLogEntryContainer body, reduced to its kind byte and
\* two fields of the shapes the handlers' bodies have: a BincodeBytes name
\* and a BincodeList<uint64_t> of ids, packed in declaration order
BodyPackedSize(body) ==
  1 + BytesPackedSize(body.name) + ListPackedSize(body.ids, 8)
PackBody(b, body) ==
  PackList(PackBytes(PackScalar(b, body.kind, 1), body.name), body.ids, 8)
UnpackBody(b) ==
  LET k == UnpackScalar(b, 1)
      n == UnpackBytes(k.buf)
      l == UnpackList(n.buf, 8)
  IN [buf |-> l.buf,
      val |-> [kind |-> FromLE(k.val), name |-> n.val,
               ids |-> [j \in DOMAIN l.val |-> FromLE(l.val[j])]]]

\* ShardLogEntry::pack, into a buffer of its packed size
PackLogEntry(idx, time, body) ==
  LET b == PackBuf(4 + 8 + 8 + BodyPackedSize(body)) IN
  PackBody(PackScalar(PackScalar(PackScalar(b, ShardLogProtocolVersion, 4),
                                 idx, 8), time, 8), body)

\* Mutant: unpack skips the time field
UnpackLogEntry_NoTime(s) ==
  LET v == UnpackScalar(UnpackBuf(s), 4)
      i == UnpackScalar(v.buf, 8)
      d == UnpackBody(i.buf)
  IN [buf |-> d.buf, idx |-> i.val, time |-> <<>>, body |-> d.val]

\* ShardLogEntry::unpack: a record of another protocol version fails the
\* ALWAYS_ASSERT and aborts the process
UnpackLogEntry(s) ==
  LET v == UnpackScalar(UnpackBuf(s), 4)
      i == UnpackScalar(v.buf, 8)
      t == UnpackScalar(i.buf, 8)
      d == UnpackBody(t.buf)
  IN IF ~Failed(v.buf) /\ v.val # LE(ShardLogProtocolVersion, 4)
     THEN [buf |-> [v.buf EXCEPT !.abort = TRUE], idx |-> <<>>, time |-> <<>>,
           body |-> <<>>]
     ELSE [buf |-> d.buf, idx |-> i.val, time |-> t.val, body |-> d.val]

\* The records the log can hold, and what unpack makes of each, tabulated
\* once: these are constants, so TLC evaluates them at startup.
Records == [i \in 1..MaxIndex, e \in Entries |-> PackLogEntry(i, EntryTime, e).bytes]
RecordSet == {Records[x] : x \in DOMAIN Records}
Unpacked == [r \in RecordSet |-> UnpackLogEntry(r)]

\* the entry bodies the log's records decode to
DecodedLog == [i \in DOMAIN log |-> Unpacked[log[i]].body]

Abs == INSTANCE ShardLog WITH log <- DecodedLog, applied <- lastApplied,
                              durable <- durIndex, state <- data

Indices == 0..MaxIndex
Datas == {s \in Seq(Entries) : Len(s) <= MaxIndex}
Version == [index : Indices, data : Datas]

Init ==
  /\ log = <<>>
  /\ lastApplied = 0
  /\ data = <<>>
  /\ wal = <<>>
  /\ durIndex = 0
  /\ durData = <<>>
  /\ snap = [index |-> 0, data |-> <<>>]
  /\ flushing = NULL
  /\ flushedThrough = 0
  /\ up = TRUE
  /\ crashes = 0
  /\ callerNext = 1
  /\ lastRead = NULL

\* the replication layer commits another entry
AppendEntry(e) ==
  /\ Len(log) < MaxIndex
  /\ log' = Append(log, Records[Len(log) + 1, e])
  /\ UNCHANGED <<lastApplied, data, wal, durIndex, durData, snap, flushing,
                 flushedThrough, up, crashes, callerNext, lastRead>>

\* The batch a handler leaves: its writes past the savepoint, or none when
\* it returned an error and the batch was rolled back to the savepoint.
ApplyBatch_NoRollback(d, e) == Append(d, e)
ApplyBatch(d, e) == IF Abs!Fails(d, e) THEN d ELSE Append(d, e)

\* _advanceLastAppliedLogEntry: the index put.  Its ALWAYS_ASSERT that the
\* index follows the committed one holds because the caller resumes from
\* lastAppliedLogEntry() (Restart); AbsSpec checks the order of applies.
AdvanceLastAppliedLogEntry(index) == lastApplied' = index

\* applyLogEntry(callerNext, log[callerNext]): the index put, the handler
\* and the rollback go into one batch, written atomically.
ApplyLogEntry_OffByOne ==
  /\ up
  /\ callerNext < Len(log)
  /\ AdvanceLastAppliedLogEntry(callerNext)
  /\ data' = ApplyBatch(data, Unpacked[log[callerNext]].body)
  /\ wal' = Append(wal, [index |-> callerNext, data |-> data'])
  /\ callerNext' = callerNext + 1
  /\ UNCHANGED <<log, durIndex, durData, snap, flushing, flushedThrough,
                 up, crashes, lastRead>>
ApplyLogEntry ==
  /\ up
  /\ callerNext <= Len(log)
  /\ AdvanceLastAppliedLogEntry(callerNext)
  /\ data' = ApplyBatch(data, Unpacked[log[callerNext]].body)
  /\ wal' = Append(wal, [index |-> callerNext, data |-> data'])
  /\ callerNext' = callerNext + 1
  /\ UNCHANGED <<log, durIndex, durData, snap, flushing, flushedThrough,
                 up, crashes, lastRead>>

\* FlushWAL that leaves the written batches in the WAL buffer
FlushWAL_NoSync ==
  /\ up
  /\ flushing = NULL
  /\ flushing' = lastApplied
  /\ UNCHANGED <<log, lastApplied, data, wal, durIndex, durData, snap,
                 flushedThrough, up, crashes, callerNext, lastRead>>
\* flush(sync), first step: FlushWAL makes every written batch durable.
\* It does not take the apply lock, so applies may run before the second.
FlushWAL ==
  /\ up
  /\ flushing = NULL
  /\ durIndex' = lastApplied
  /\ durData' = data
  /\ wal' = <<>>
  /\ flushing' = lastApplied
  /\ UNCHANGED <<log, lastApplied, data, snap, flushedThrough, up, crashes,
                 callerNext, lastRead>>

\* flush(sync), second step: _updateCurrentReadSnapshot takes a snapshot of
\* the committed database as it is now and swaps it in.
UpdateCurrentReadSnapshot ==
  /\ up
  /\ flushing # NULL
  /\ snap' = [index |-> lastApplied, data |-> data]
  /\ flushedThrough' = flushing
  /\ flushing' = NULL
  /\ UNCHANGED <<log, lastApplied, data, wal, durIndex, durData, up, crashes,
                 callerNext, lastRead>>

\* The process dies.  The database reopens at the last FlushWAL plus a
\* prefix of the batches written after it.
Crash ==
  /\ up
  /\ crashes < MaxCrashes
  /\ \E k \in 0..Len(wal) :
       LET rec == IF k = 0 THEN [index |-> durIndex, data |-> durData]
                  ELSE wal[k]
       IN /\ lastApplied' = rec.index
          /\ data' = rec.data
          /\ durIndex' = rec.index
          /\ durData' = rec.data
  /\ wal' = <<>>
  /\ up' = FALSE
  /\ flushing' = NULL
  /\ crashes' = crashes + 1
  /\ UNCHANGED <<log, snap, flushedThrough, callerNext, lastRead>>

\* The constructor (_initDb, _updateCurrentReadSnapshot); the caller then
\* resumes from lastAppliedLogEntry().
Restart_OffByOne ==
  /\ ~up
  /\ up' = TRUE
  /\ snap' = [index |-> lastApplied, data |-> data]
  /\ callerNext' = lastApplied
  /\ UNCHANGED <<log, lastApplied, data, wal, durIndex, durData, flushing,
                 flushedThrough, crashes, lastRead>>
Restart ==
  /\ ~up
  /\ up' = TRUE
  /\ snap' = [index |-> lastApplied, data |-> data]
  /\ callerNext' = lastApplied + 1
  /\ UNCHANGED <<log, lastApplied, data, wal, durIndex, durData, flushing,
                 flushedThrough, crashes, lastRead>>

\* read(): the handlers and _lastAppliedLogEntry read the current snapshot.
Read_CommittedIndex ==
  /\ up
  /\ lastRead' = [index |-> lastApplied, data |-> snap.data,
                  flushed |-> flushedThrough]
  /\ UNCHANGED <<log, lastApplied, data, wal, durIndex, durData, snap,
                 flushing, flushedThrough, up, crashes, callerNext>>
Read ==
  /\ up
  /\ lastRead' = [index |-> snap.index, data |-> snap.data,
                  flushed |-> flushedThrough]
  /\ UNCHANGED <<log, lastApplied, data, wal, durIndex, durData, snap,
                 flushing, flushedThrough, up, crashes, callerNext>>

Next ==
  \/ \E e \in Entries : AppendEntry(e)
  \/ ApplyLogEntry
  \/ FlushWAL
  \/ UpdateCurrentReadSnapshot
  \/ Crash
  \/ Restart
  \/ Read

\* The apply thread, the flusher and the supervisor that restarts the shard
\* keep running; reads and crashes need not happen.
Fairness ==
  /\ WF_vars(ApplyLogEntry)
  /\ WF_vars(FlushWAL)
  /\ WF_vars(UpdateCurrentReadSnapshot)
  /\ WF_vars(Restart)

Spec == Init /\ [][Next]_vars
FairSpec == Spec /\ Fairness

-----------------------------------------------------------------------------

TypeOK ==
  /\ log \in Seq(Seq(0..255)) /\ Len(log) <= MaxIndex
  /\ lastApplied \in Indices /\ durIndex \in Indices
  /\ data \in Datas /\ durData \in Datas
  /\ wal \in Seq(Version)
  /\ snap \in Version
  /\ flushing \in {NULL} \cup Indices /\ flushedThrough \in Indices
  /\ up \in BOOLEAN
  /\ crashes \in 0..MaxCrashes
  /\ callerNext \in 1..Len(log) + 1
  /\ lastRead \in {NULL} \cup [index : Indices, data : Datas, flushed : Indices]

\* The shard implements ShardLog: every committed state, and every state a
\* crash recovers, is the log prefix up to LAST_APPLIED_LOG_ENTRY_KEY
\* applied in order, failed entries rolled back (applyLogEntry's savepoint,
\* flush, WAL recovery).
AbsSpec == Abs!Spec

\* What read() returns is consistent: the data it saw is the log prefix up
\* to the index it reports as last applied (the snapshot covers both).
ReadConsistent ==
  lastRead # NULL =>
    lastRead.data = Abs!ApplyAll(SubSeq(DecodedLog, 1, lastRead.index))

\* Every committed log entry is eventually visible to reads: the apply
\* thread applies it and a later flush refreshes the read snapshot, even
\* after crashes that lose it.
ReadsEventuallySeeLog ==
  \A i \in 1..MaxIndex : (Len(log) >= i) ~> (up /\ snap.index >= i)

\* Spec 5: a read that begins after a flush() completed reports a last
\* applied index at least the one that flush covered, even after a crash
\* and restart in between (FlushWAL made those batches durable).  Applies
\* after the flush may be missing: the snapshot refresh cadence.
ReadSeesFlushedApplies ==
  lastRead # NULL => lastRead.index >= lastRead.flushed

\* Every committed record unpacks, without an exception, a read past its
\* end or the version assert, to the index it was committed at and an
\* entry of the log, consuming all its bytes, and packs back to exactly
\* those bytes: ShardLogEntry::pack, its packedSize and unpack agree field
\* by field, so the entry applied is the entry prepared.
RoundTrips(r, i) ==
  LET u == UnpackLogEntry(r) IN
  /\ ~Failed(u.buf) /\ Left(u.buf) = 0
  /\ u.idx = LE(i, 8)
  /\ u.body \in Entries
  /\ PackLogEntry(i, FromLE(u.time), u.body).bytes = r
RoundTripTable == [x \in DOMAIN Records |-> RoundTrips(Records[x], x[1])]
LogRecordsRoundTrip ==
  \A i \in DOMAIN log : \E e \in Entries :
    log[i] = Records[i, e] /\ RoundTripTable[i, e]

\* A record cut short anywhere (a torn or truncated buffer) is refused by
\* ShardLogEntry::unpack with a BincodeException: every length prefix, the
\* name's u8 and the ids' u16, is checked against the remaining bytes
\* before the memcpy, so nothing is read past the end.
TornRejected(r) ==
  \A j \in 0..Len(r) - 1 :
    LET u == UnpackLogEntry(SubSeq(r, 1, j)) IN
    u.buf.exc /\ ~u.buf.ub /\ ~u.buf.abort
TornTable == [r \in RecordSet |-> TornRejected(r)]
TornRecordsRejected == \A i \in DOMAIN log : TornTable[log[i]]

====
