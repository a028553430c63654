----------------------------- MODULE ShardSpans -----------------------------
(***************************************************************************)
(* The span and transient-file lifecycle of one TernFS shard, as applied   *)
(* by ShardDBImpl::applyLogEntry (src/cpp/shard/ShardDB.cpp).              *)
(*                                                                         *)
(* Every action is the success path of one _apply* handler for a log entry *)
(* carrying time t: a handler that returns an error rolls its write batch  *)
(* back to the savepoint, which leaves this state unchanged (the log index *)
(* advance is modelled in ShardApply).  Handlers read the committed        *)
(* state, never their own batch, which is what the unprimed variables are. *)
(*                                                                         *)
(* The block services are the environment: they write a block once the     *)
(* shard has handed out a write certificate for it, and erase it once the  *)
(* shard has handed out an erase certificate; a client holds an add proof  *)
(* for every written block and a delete proof for every erased one.        *)
(***************************************************************************)
EXTENDS Integers, Sequences, FiniteSets

CONSTANTS
  Files,           \* the file ids ConstructFile may hand out
  BlockServices,   \* block service ids
  FailureDomain,   \* [BlockServices -> domains]
  Locations,       \* location ids a span may be stored at
  NBlocks,         \* blocks per span location, parity D+P with D = 1
  SpanSizes,       \* sizes of blocked spans, in pages
  InlineSizes,     \* sizes of inline spans, in pages (0 is an EMPTY span)
  Crcs,            \* abstract span checksums
  MaxFileSize,     \* bound on file size, in pages
  MaxTime,         \* bound on log entry time
  Skew,            \* how far a log entry time may lag the newest one
  DeadlineInterval,\* _transientDeadlineInterval
  MaxBlockId,      \* bound on next_block_id
  TailOnlyAddSpanLocation, \* clients only move the tail span of a file
  StaleAddProofs,  \* clients may send an add proof of another block
  SpanEndIsSpanSize, \* span().size() at _fetchSpanState calls is spanSize()
  NULL

ASSUME NBlocks \in Nat \ {0}
ASSUME Cardinality(BlockServices) >= NBlocks
ASSUME MaxTime \in Nat /\ Skew \in Nat /\ DeadlineInterval \in Nat
ASSUME TailOnlyAddSpanLocation \in BOOLEAN /\ StaleAddProofs \in BOOLEAN
ASSUME SpanEndIsSpanSize \in BOOLEAN

Offsets == 0..MaxFileSize
Times   == 0..MaxTime
BlockIds == 0..MaxBlockId

CLEAN == "CLEAN"
DIRTY == "DIRTY"
CONDEMNED == "CONDEMNED"
SpanStates == {CLEAN, DIRTY, CONDEMNED}

Block == [bs : BlockServices, id : BlockIds]
LocationBlocks == [loc : Locations, blocks : Seq(Block)]
Span == [size : Nat, crc : Crcs, inline : BOOLEAN, locs : Seq(LocationBlocks)]
TransientFileBody == [size : Offsets, mtime : Times, deadline : Nat, state : SpanStates]
FileBody == [size : Offsets, mtime : Times]

VARIABLES
  transient,   \* transient CF: file id -> TransientFileBody or NULL
  files,       \* files CF: file id -> FileBody or NULL
  spans,       \* spans CF: file id -> offset -> Span or NULL
  bs2f,        \* blockServicesToFiles CF: <<bs, file>> -> count, or NULL
  usedFileIds, \* the ids below NEXT_FILE_ID_KEY: handed out already
  nextBlockId, \* NEXT_BLOCK_ID_KEY
  clock,       \* the newest log entry time applied so far
  writeCerts,  \* <<bs, id>> the shard issued a write certificate for
  written,     \* <<bs, id>> a block service has written
  eraseCerts,  \* <<bs, id>> the shard issued an erase certificate for
  erased,      \* <<bs, id>> a block service has erased
  halted       \* an ALWAYS_ASSERT fired and the process aborted

shardVars == <<transient, files, spans, bs2f, usedFileIds, nextBlockId>>
envVars   == <<writeCerts, written, eraseCerts, erased>>
vars == <<shardVars, clock, envVars, halted>>

-----------------------------------------------------------------------------
(* Helpers                                                                 *)

\* the blocks of a span, over all of its locations
SpanBlocks(s) == UNION { { s.locs[l].blocks[i] : i \in 1..Len(s.locs[l].blocks) }
                         : l \in 1..Len(s.locs) }

SpanOffsets(f) == { o \in Offsets : spans[f][o] # NULL }

\* the positions <<file, offset, location index, block index>> holding a block
BlocksOf(sp) ==
  UNION { UNION { { [f |-> f, o |-> o, l |-> l, i |-> i] :
                      i \in 1..Len(sp[f][o].locs[l].blocks) }
                  : l \in 1..Len(sp[f][o].locs) }
          : <<f, o>> \in { fo \in Files \X Offsets : sp[fo[1]][fo[2]] # NULL } }
BlockAt(sp, p) == sp[p.f][p.o].locs[p.l].blocks[p.i]

\* the count a blockServicesToFiles key reads as (a deleted key reads as 0)
Count(c) == IF c = NULL THEN 0 ELSE c

\* _addBlockServicesToFiles once for each block of the given locations
MergeLocs(m, locs, f, delta) ==
  [k \in DOMAIN m |->
     LET n == Cardinality({ <<l, i>> \in (1..Len(locs)) \X (1..NBlocks) :
                              /\ i <= Len(locs[l].blocks)
                              /\ <<locs[l].blocks[i].bs, f>> = k })
     IN IF n = 0 THEN m[k] ELSE Count(m[k]) + n * delta]

\* Log entry times: the leader clock may lag the newest entry by Skew.
EntryTimes == { x \in 1..MaxTime : x >= clock - Skew /\ x <= clock + 1 }
AdvanceClock(t) == clock' = IF t > clock THEN t ELSE clock

\* _getTransientFile: found, and not past its deadline unless allowed
TransientVisible(f, t, allowPastDeadline) ==
  /\ transient[f] # NULL
  /\ allowPastDeadline \/ ~(t > transient[f].deadline)

\* _initiateTransientFileModification: the guard and the body it writes
TransientModOk(f, t, allowPastDeadline) ==
  /\ TransientVisible(f, t, allowPastDeadline)
  /\ transient[f].mtime < t
TransientMod(f, t, allowPastDeadline) ==
  [transient[f] EXCEPT !.mtime = t,
                       !.deadline = IF allowPastDeadline THEN @
                                    ELSE t + DeadlineInterval]

\* Mutant: the counter is not advanced past the last id it handed out
UpdateNextBlockId_NoIncrement(prev, t) == IF prev > t THEN prev ELSE t

\* _updateNextBlockId, in units of 0x100 (the shard byte is left out)
UpdateNextBlockId(prev, t) == IF prev + 1 > t THEN prev + 1 ELSE t

\* _fetchSpanState for the span of file f ending at spanEnd
FetchSpanState(f, spanEnd) ==
  IF files[f] # NULL THEN CLEAN
  ELSE IF spanEnd = transient[f].size THEN transient[f].state ELSE CLEAN

\* Mutant: every span reads as CLEAN
SpanStateAt_AlwaysClean(f, o) == CLEAN

\* The state SwapBlocks, SwapSpans and AddSpanLocation read for the span at
\* <<f, o>>: they pass byteOffset + span().size().  If size() is the span's
\* size this is the tail state; if it is the length of the encoded SpanBody
\* the end never meets the file size and every span reads as CLEAN.
SpanStateAt(f, o) ==
  IF SpanEndIsSpanSize THEN FetchSpanState(f, o + spans[f][o].size) ELSE CLEAN

\* the block services prepareLogEntry may pick for one span location: one
\* per failure domain (_prepareAddSpanInitiate grows its blacklist by the
\* failure domain of every pick)
Placements ==
  { p \in [1..NBlocks -> BlockServices] :
      \A i, j \in 1..NBlocks : i # j => FailureDomain[p[i]] # FailureDomain[p[j]] }

\* the transient file's body after the handler wrote `body` over it
SetTransient(f, body) == transient' = [transient EXCEPT ![f] = body]

\* an idempotent NO_ERROR path: only the mtime (and deadline) bump of
\* _initiateTransientFileModification reaches the batch
TouchTransient(f, t, allowPastDeadline) ==
  /\ SetTransient(f, TransientMod(f, t, allowPastDeadline))
  /\ UNCHANGED <<files, spans, bs2f, usedFileIds, nextBlockId, envVars, halted>>

\* an ALWAYS_ASSERT failed: the process aborts before the batch is written
Abort ==
  /\ halted' = TRUE
  /\ UNCHANGED <<shardVars, envVars>>

-----------------------------------------------------------------------------
(* _initDb: no files, no spans, counters at their start                    *)

Init ==
  /\ transient = [f \in Files |-> NULL]
  /\ files = [f \in Files |-> NULL]
  /\ spans = [f \in Files |-> [o \in Offsets |-> NULL]]
  /\ bs2f = [k \in BlockServices \X Files |-> NULL]
  /\ usedFileIds = {}
  /\ nextBlockId = 0
  /\ clock = 0
  /\ writeCerts = {} /\ written = {} /\ eraseCerts = {} /\ erased = {}
  /\ halted = FALSE

-----------------------------------------------------------------------------
(* Handlers.  t is the log entry time.                                     *)

\* _applyConstructFile: the next file id (one never handed out before; the
\* order of ids matters to nothing modelled), a CLEAN empty transient file
\* whose deadline _prepareConstructFile set to t + the deadline interval
ConstructFile(t) ==
  /\ \E f \in Files \ usedFileIds :
       /\ usedFileIds' = usedFileIds \cup {f}
       /\ SetTransient(f,
            [size |-> 0, mtime |-> t, deadline |-> t + DeadlineInterval, state |-> CLEAN])
  /\ UNCHANGED <<files, spans, bs2f, nextBlockId, envVars, halted>>

\* _applyAddSpanInitiate: a new DIRTY tail span whose blocks get fresh ids
\* and write certificates, or the retry of the span already at the tail
AddSpanInitiate(f, t) ==
  /\ TransientModOk(f, t, FALSE)
  /\ LET tf == transient[f] IN
     \/ /\ tf.state = CLEAN
        /\ \E sz \in SpanSizes, crc \in Crcs, loc \in Locations, p \in Placements :
             LET base == UpdateNextBlockId(nextBlockId, t)
                 blocks == [i \in 1..NBlocks |-> [bs |-> p[i], id |-> base + i - 1]]
             IN /\ tf.size + sz <= MaxFileSize
                /\ base + NBlocks - 1 <= MaxBlockId
                /\ SetTransient(f, [TransientMod(f, t, FALSE) EXCEPT
                                      !.size = tf.size + sz, !.state = DIRTY])
                /\ spans' = [spans EXCEPT ![f][tf.size] =
                               [size |-> sz, crc |-> crc, inline |-> FALSE,
                                locs |-> << [loc |-> loc, blocks |-> blocks] >>]]
                /\ bs2f' = MergeLocs(bs2f, spans'[f][tf.size].locs, f, 1)
                /\ nextBlockId' = base + NBlocks - 1
                /\ writeCerts' = writeCerts \cup
                                 { <<blocks[i].bs, blocks[i].id>> : i \in 1..NBlocks }
                /\ UNCHANGED <<files, usedFileIds, written, eraseCerts, erased, halted>>
     \/ \E o \in SpanOffsets(f) :
          /\ o + spans[f][o].size = tf.size
          /\ ~spans[f][o].inline
          /\ Len(spans[f][o].locs) = 1
          /\ TouchTransient(f, t, FALSE)

\* Mutant: the proofs are not checked
AddProofAccepted_Unchecked(blk) == TRUE

\* an add proof the client can present for block blk: one the block service
\* returned for a block it wrote; the code checks the MAC over the proof's
\* own block id, never that it is blk's id
AddProofAccepted(blk) ==
  IF StaleAddProofs THEN \E id \in BlockIds : <<blk.bs, id>> \in written
                    ELSE <<blk.bs, blk.id>> \in written

\* _applyAddSpanCertify: the DIRTY tail becomes CLEAN once every block has
\* an add proof; a span already past or a CLEAN tail is NO_ERROR
AddSpanCertify(f, t) ==
  /\ TransientModOk(f, t, FALSE)
  /\ \E o \in SpanOffsets(f) :
       LET tf == transient[f]
           s == spans[f][o]
       IN \/ /\ tf.size > o + s.size \/ tf.state = CLEAN
             /\ TouchTransient(f, t, FALSE)
          \/ /\ ~(tf.size > o + s.size) /\ tf.state = DIRTY /\ ~s.inline
             /\ Len(s.locs) # 1
             /\ Abort
          \/ /\ ~(tf.size > o + s.size) /\ tf.state = DIRTY /\ ~s.inline
             /\ Len(s.locs) = 1
             /\ \A i \in 1..Len(s.locs[1].blocks) : AddProofAccepted(s.locs[1].blocks[i])
             /\ SetTransient(f, [TransientMod(f, t, FALSE) EXCEPT !.state = CLEAN])
             /\ UNCHANGED <<files, spans, bs2f, usedFileIds, nextBlockId, envVars, halted>>

\* Mutant: the tail is not set to CONDEMNED
RemoveSpanInitiate_NoCondemn(f, t) ==
  /\ TransientModOk(f, t, TRUE)
  /\ transient[f].size # 0
  /\ LET tf == transient[f]
         below == { o \in SpanOffsets(f) : o <= tf.size }
     IN IF below = {} THEN Abort
        ELSE LET o == CHOOSE x \in below : \A y \in below : y <= x
                 s == spans[f][o]
             IN \/ /\ s.inline
                   /\ SetTransient(f, [TransientMod(f, t, TRUE) EXCEPT !.size = o])
                   /\ spans' = [spans EXCEPT ![f][o] = NULL]
                   /\ UNCHANGED <<files, bs2f, usedFileIds, nextBlockId, envVars, halted>>
                \/ /\ ~s.inline
                   /\ SetTransient(f, TransientMod(f, t, TRUE))
                   /\ eraseCerts' = eraseCerts \cup { <<b.bs, b.id>> : b \in SpanBlocks(s) }
                   /\ UNCHANGED <<files, spans, bs2f, usedFileIds, nextBlockId,
                                  writeCerts, written, erased, halted>>

\* _applyRemoveSpanInitiate: SeekForPrev(<<f, size>>) finds the last span;
\* an inline one is deleted, a blocked one is CONDEMNED and erase
\* certificates are issued for the blocks of every location
RemoveSpanInitiate(f, t) ==
  /\ TransientModOk(f, t, TRUE)
  /\ transient[f].size # 0
  /\ LET tf == transient[f]
         below == { o \in SpanOffsets(f) : o <= tf.size }
     IN IF below = {} THEN Abort
        ELSE LET o == CHOOSE x \in below : \A y \in below : y <= x
                 s == spans[f][o]
             IN \/ /\ s.inline
                   /\ SetTransient(f, [TransientMod(f, t, TRUE) EXCEPT !.size = o])
                   /\ spans' = [spans EXCEPT ![f][o] = NULL]
                   /\ UNCHANGED <<files, bs2f, usedFileIds, nextBlockId, envVars, halted>>
                \/ /\ ~s.inline
                   /\ SetTransient(f, [TransientMod(f, t, TRUE) EXCEPT !.state = CONDEMNED])
                   /\ eraseCerts' = eraseCerts \cup { <<b.bs, b.id>> : b \in SpanBlocks(s) }
                   /\ UNCHANGED <<files, spans, bs2f, usedFileIds, nextBlockId,
                                  writeCerts, written, erased, halted>>

\* Mutant: the block counts are not decremented
RemoveSpanCertify_NoMerge(f, t) ==
  /\ TransientModOk(f, t, TRUE)
  /\ \E o \in Offsets :
       \/ /\ spans[f][o] = NULL
          /\ TouchTransient(f, t, TRUE)
       \/ /\ spans[f][o] # NULL
          /\ ~spans[f][o].inline
          /\ transient[f].state = CONDEMNED
          /\ \A b \in SpanBlocks(spans[f][o]) : <<b.bs, b.id>> \in erased
          /\ SetTransient(f, [TransientMod(f, t, TRUE) EXCEPT !.state = CLEAN, !.size = o])
          /\ spans' = [spans EXCEPT ![f][o] = NULL]
          /\ UNCHANGED <<bs2f, files, usedFileIds, nextBlockId, envVars, halted>>

\* Mutant: the file is not shrunk to the span offset
RemoveSpanCertify_NoShrink(f, t) ==
  /\ TransientModOk(f, t, TRUE)
  /\ \E o \in Offsets :
       \/ /\ spans[f][o] = NULL
          /\ TouchTransient(f, t, TRUE)
       \/ /\ spans[f][o] # NULL
          /\ ~spans[f][o].inline
          /\ transient[f].state = CONDEMNED
          /\ \A b \in SpanBlocks(spans[f][o]) : <<b.bs, b.id>> \in erased
          /\ SetTransient(f, [TransientMod(f, t, TRUE) EXCEPT !.state = CLEAN])
          /\ spans' = [spans EXCEPT ![f][o] = NULL]
          /\ bs2f' = MergeLocs(bs2f, spans[f][o].locs, f, -1)
          /\ UNCHANGED <<files, usedFileIds, nextBlockId, envVars, halted>>

\* _applyRemoveSpanCertify: with a delete proof (for the block's own id) of
\* every block of every location the CONDEMNED span is deleted and the file
\* shrinks to its offset; a span that is gone already is NO_ERROR
RemoveSpanCertify(f, t) ==
  /\ TransientModOk(f, t, TRUE)
  /\ \E o \in Offsets :
       \/ /\ spans[f][o] = NULL
          /\ TouchTransient(f, t, TRUE)
       \/ /\ spans[f][o] # NULL
          /\ ~spans[f][o].inline
          /\ transient[f].state = CONDEMNED
          /\ \A b \in SpanBlocks(spans[f][o]) : <<b.bs, b.id>> \in erased
          /\ SetTransient(f, [TransientMod(f, t, TRUE) EXCEPT !.state = CLEAN, !.size = o])
          /\ spans' = [spans EXCEPT ![f][o] = NULL]
          /\ bs2f' = MergeLocs(bs2f, spans[f][o].locs, f, -1)
          /\ UNCHANGED <<files, usedFileIds, nextBlockId, envVars, halted>>

\* _applyAddInlineSpan: a body-less request (an EMPTY span, or an INLINE
\* span whose body is all zeros) returns NO_ERROR at once; otherwise a new
\* inline span at the CLEAN tail, or the retry of the inline span there
AddInlineSpan(f, t) ==
  /\ TransientModOk(f, t, FALSE)
  /\ \E sz \in InlineSizes, crc \in Crcs, bodyEmpty \in BOOLEAN :
       LET tf == transient[f] IN
       /\ sz = 0 => bodyEmpty                 \* _prepareAddInlineSpan
       /\ \/ /\ bodyEmpty
             /\ TouchTransient(f, t, FALSE)
          \/ /\ ~bodyEmpty
             /\ tf.state = CLEAN
             /\ tf.size + sz <= MaxFileSize
             /\ SetTransient(f, [TransientMod(f, t, FALSE) EXCEPT !.size = tf.size + sz])
             /\ spans' = [spans EXCEPT ![f][tf.size] =
                            [size |-> sz, crc |-> crc, inline |-> TRUE, locs |-> <<>>]]
             /\ UNCHANGED <<files, bs2f, usedFileIds, nextBlockId, envVars, halted>>
          \/ /\ ~bodyEmpty
             /\ \E o \in SpanOffsets(f) :
                  /\ o + sz = tf.size
                  /\ spans[f][o].inline /\ spans[f][o].size = sz /\ spans[f][o].crc = crc
             /\ TouchTransient(f, t, FALSE)

\* Mutant: the transient file is not deleted
LinkFile_KeepsTransient(f, t) ==
  /\ TransientVisible(f, t, FALSE)
  /\ transient[f].state = CLEAN
  /\ files' = [files EXCEPT ![f] = [size |-> transient[f].size, mtime |-> t]]
  /\ UNCHANGED <<transient, spans, bs2f, usedFileIds, nextBlockId, envVars, halted>>

\* _applyLinkFile, the file part: a CLEAN transient file not past its
\* deadline moves to the files CF with mtime t (the edge it gets is
\* ShardEdges' business; when that fails the whole entry rolls back)
LinkFile(f, t) ==
  /\ TransientVisible(f, t, FALSE)
  /\ transient[f].state = CLEAN
  /\ files' = [files EXCEPT ![f] = [size |-> transient[f].size, mtime |-> t]]
  /\ SetTransient(f, NULL)
  /\ UNCHANGED <<spans, bs2f, usedFileIds, nextBlockId, envVars, halted>>

\* _applyMakeFileTransient: a linked file becomes a CLEAN transient file
\* whose deadline is the entry time; an already transient one is NO_ERROR
MakeFileTransient(f, t) ==
  /\ files[f] # NULL
  /\ files' = [files EXCEPT ![f] = NULL]
  /\ SetTransient(f, [size |-> files[f].size, mtime |-> t, deadline |-> t, state |-> CLEAN])
  /\ UNCHANGED <<spans, bs2f, usedFileIds, nextBlockId, envVars, halted>>

\* _applyScrapTransientFile: the deadline becomes the entry time, with no
\* mtime check
ScrapTransientFile(f, t) ==
  /\ transient[f] # NULL
  /\ SetTransient(f, [transient[f] EXCEPT !.deadline = t])
  /\ UNCHANGED <<files, spans, bs2f, usedFileIds, nextBlockId, envVars, halted>>

\* _applyRemoveFileInode: a transient file past its deadline with no span
\* left is deleted
RemoveFileInode(f, t) ==
  /\ transient[f] # NULL
  /\ ~(transient[f].deadline >= t)
  /\ SpanOffsets(f) = {}
  /\ SetTransient(f, NULL)
  /\ UNCHANGED <<files, spans, bs2f, usedFileIds, nextBlockId, envVars, halted>>

\* Mutant: the moved span arrives as a CLEAN tail
MoveSpan_DestClean(f1, f2, t) ==
  /\ TransientModOk(f1, t, TRUE) /\ TransientModOk(f2, t, TRUE)
  /\ LET tf1 == transient[f1]
         tf2 == transient[f2]
     IN \E o1, o2 \in Offsets, sz \in SpanSizes :
          \/ /\ tf1.size = o1 /\ tf1.state = CLEAN
             /\ tf2.size = o2 + sz /\ tf2.state = DIRTY
             /\ transient' = [transient EXCEPT ![f1] = TransientMod(f1, t, TRUE),
                                               ![f2] = TransientMod(f2, t, TRUE)]
             /\ UNCHANGED <<files, spans, bs2f, usedFileIds, nextBlockId, envVars, halted>>
          \/ /\ ~(tf1.size = o1 /\ tf1.state = CLEAN /\ tf2.size = o2 + sz /\ tf2.state = DIRTY)
             /\ tf1.state = DIRTY /\ tf1.size = o1 + sz
             /\ tf2.state = CLEAN /\ tf2.size = o2
             /\ spans[f1][o1] # NULL /\ spans[f1][o1].size = sz
             /\ o2 + sz <= MaxFileSize
             /\ IF Len(spans[f1][o1].locs) # 1 THEN Abort
                ELSE /\ transient' = [transient EXCEPT
                          ![f1] = [TransientMod(f1, t, TRUE) EXCEPT !.size = o1, !.state = CLEAN],
                          ![f2] = [TransientMod(f2, t, TRUE) EXCEPT !.size = o2 + sz, !.state = CLEAN]]
                     /\ spans' = [spans EXCEPT ![f1][o1] = NULL, ![f2][o2] = spans[f1][o1]]
                     /\ bs2f' = MergeLocs(MergeLocs(bs2f, spans[f1][o1].locs, f1, -1),
                                          spans[f1][o1].locs, f2, 1)
                     /\ UNCHANGED <<files, usedFileIds, nextBlockId, envVars, halted>>

\* _applyMoveSpan: the DIRTY tail of f1 becomes the DIRTY tail of f2, whose
\* tail was CLEAN; both files get the mtime bump, neither a new deadline
MoveSpan(f1, f2, t) ==
  /\ TransientModOk(f1, t, TRUE) /\ TransientModOk(f2, t, TRUE)
  /\ LET tf1 == transient[f1]
         tf2 == transient[f2]
     IN \E o1, o2 \in Offsets, sz \in SpanSizes :
          \/ /\ tf1.size = o1 /\ tf1.state = CLEAN
             /\ tf2.size = o2 + sz /\ tf2.state = DIRTY
             /\ transient' = [transient EXCEPT ![f1] = TransientMod(f1, t, TRUE),
                                               ![f2] = TransientMod(f2, t, TRUE)]
             /\ UNCHANGED <<files, spans, bs2f, usedFileIds, nextBlockId, envVars, halted>>
          \/ /\ ~(tf1.size = o1 /\ tf1.state = CLEAN /\ tf2.size = o2 + sz /\ tf2.state = DIRTY)
             /\ tf1.state = DIRTY /\ tf1.size = o1 + sz
             /\ tf2.state = CLEAN /\ tf2.size = o2
             /\ spans[f1][o1] # NULL /\ spans[f1][o1].size = sz
             /\ o2 + sz <= MaxFileSize
             /\ IF Len(spans[f1][o1].locs) # 1 THEN Abort
                ELSE /\ transient' = [transient EXCEPT
                          ![f1] = [TransientMod(f1, t, TRUE) EXCEPT !.size = o1, !.state = CLEAN],
                          ![f2] = [TransientMod(f2, t, TRUE) EXCEPT !.size = o2 + sz, !.state = DIRTY]]
                     /\ spans' = [spans EXCEPT ![f1][o1] = NULL, ![f2][o2] = spans[f1][o1]]
                     /\ bs2f' = MergeLocs(MergeLocs(bs2f, spans[f1][o1].locs, f1, -1),
                                          spans[f1][o1].locs, f2, 1)
                     /\ UNCHANGED <<files, usedFileIds, nextBlockId, envVars, halted>>

\* the checks of checkNoDuplicateBlockServicesOrFailureDomains: blk may
\* replace block i of a location's blocks
NoDuplicateBlockServices(blocks, i, blk) ==
  \A j \in 1..Len(blocks) : j # i =>
     /\ blocks[j].bs # blk.bs
     /\ FailureDomain[blocks[j].bs] # FailureDomain[blk.bs]

\* _applySwapBlocks: two blocks of equal size, crc and location, in spans
\* whose states read equal, trade places
SwapBlocks(f1, f2) ==
  /\ f1 # f2                                     \* _prepareSwapBlocks
  /\ \E o1 \in SpanOffsets(f1), o2 \in SpanOffsets(f2) :
       LET s1 == spans[f1][o1]
           s2 == spans[f2][o2]
       IN /\ ~s1.inline /\ ~s2.inline
          /\ SpanStateAt(f1, o1) = SpanStateAt(f2, o2)
          /\ \E l1 \in 1..Len(s1.locs), l2 \in 1..Len(s2.locs),
                i1 \in 1..NBlocks, i2 \in 1..NBlocks :
               LET b1 == s1.locs[l1].blocks[i1]
                   b2 == s2.locs[l2].blocks[i2]
               IN /\ s1.size = s2.size /\ s1.crc = s2.crc
                  /\ s1.locs[l1].loc = s2.locs[l2].loc
                  /\ NoDuplicateBlockServices(s1.locs[l1].blocks, i1, b2)
                  /\ NoDuplicateBlockServices(s2.locs[l2].blocks, i2, b1)
                  /\ spans' = [spans EXCEPT ![f1][o1].locs[l1].blocks[i1] = b2,
                                            ![f2][o2].locs[l2].blocks[i2] = b1]
                  /\ bs2f' = MergeLocs(MergeLocs(MergeLocs(MergeLocs(bs2f,
                               <<[loc |-> s1.locs[l1].loc, blocks |-> <<b1>>]>>, f1, -1),
                               <<[loc |-> s1.locs[l1].loc, blocks |-> <<b2>>]>>, f1, 1),
                               <<[loc |-> s1.locs[l1].loc, blocks |-> <<b1>>]>>, f2, 1),
                               <<[loc |-> s1.locs[l1].loc, blocks |-> <<b2>>]>>, f2, -1)
  /\ UNCHANGED <<transient, files, usedFileIds, nextBlockId, envVars, halted>>

\* Mutant: only the first span's blocks are counted over
SwapSpans_OneSidedCounts(f1, f2) ==
  /\ f1 # f2                                     \* _prepareSwapSpans
  /\ \E o1 \in SpanOffsets(f1), o2 \in SpanOffsets(f2) :
       LET s1 == spans[f1][o1]
           s2 == spans[f2][o2]
       IN /\ ~s1.inline /\ ~s2.inline
          /\ s1.size = s2.size /\ s1.crc = s2.crc
          /\ SpanStateAt(f1, o1) = CLEAN /\ SpanStateAt(f2, o2) = CLEAN
          /\ Len(s1.locs) = 1 /\ Len(s2.locs) = 1
          /\ spans' = [spans EXCEPT ![f1][o1] = s2, ![f2][o2] = s1]
          /\ bs2f' = MergeLocs(MergeLocs(bs2f, s1.locs, f2, 1), s1.locs, f1, -1)
  /\ UNCHANGED <<transient, files, usedFileIds, nextBlockId, envVars, halted>>

\* _applySwapSpans: two blocked spans of equal size and crc, both reading
\* CLEAN, trade bodies.  blocksMatch walks block(i) for i below the client's
\* list length in each location, so a span of more than one location never
\* matches and the swap fails with SWAP_SPANS_MISMATCHING_BLOCKS.
SwapSpans(f1, f2) ==
  /\ f1 # f2                                     \* _prepareSwapSpans
  /\ \E o1 \in SpanOffsets(f1), o2 \in SpanOffsets(f2) :
       LET s1 == spans[f1][o1]
           s2 == spans[f2][o2]
       IN /\ ~s1.inline /\ ~s2.inline
          /\ s1.size = s2.size /\ s1.crc = s2.crc
          /\ SpanStateAt(f1, o1) = CLEAN /\ SpanStateAt(f2, o2) = CLEAN
          /\ Len(s1.locs) = 1 /\ Len(s2.locs) = 1
          /\ spans' = [spans EXCEPT ![f1][o1] = s2, ![f2][o2] = s1]
          /\ bs2f' = MergeLocs(MergeLocs(MergeLocs(MergeLocs(bs2f,
                       s1.locs, f2, 1), s1.locs, f1, -1), s2.locs, f1, 1), s2.locs, f2, -1)
  /\ UNCHANGED <<transient, files, usedFileIds, nextBlockId, envVars, halted>>

\* Mutant: the source file keeps its size
AddSpanLocation_NoShrink(f1, f2, t) ==
  /\ f1 # f2                                     \* _prepareAddSpanLocation
  /\ files[f2] # NULL
  /\ TransientModOk(f1, t, FALSE)
  /\ transient[f1].state = CLEAN
  /\ \E o2 \in SpanOffsets(f2), o1 \in Offsets :
       LET dst == spans[f2][o2]
           src == spans[f1][o1]
       IN /\ ~dst.inline
          /\ \/ /\ src = NULL                    \* retry: blocks1 already there
                /\ TouchTransient(f1, t, FALSE)
             \/ /\ src # NULL /\ ~src.inline
                /\ TailOnlyAddSpanLocation => o1 + src.size = transient[f1].size
                /\ src.size = dst.size /\ src.crc = dst.crc
                /\ SpanStateAt(f1, o1) = CLEAN
                /\ Len(src.locs) = 1
                /\ \A l \in 1..Len(dst.locs) : dst.locs[l].loc # src.locs[1].loc
                /\ bs2f' = MergeLocs(MergeLocs(bs2f, src.locs, f2, 1), src.locs, f1, -1)
                /\ SetTransient(f1, TransientMod(f1, t, FALSE))
                /\ spans' = [spans EXCEPT ![f2][o2].locs = Append(@, src.locs[1]),
                                          ![f1][o1] = NULL]
                /\ UNCHANGED <<files, usedFileIds, nextBlockId, envVars, halted>>

\* Mutant: the destination may be a transient file
AddSpanLocation_AnyDestination(f1, f2, t) ==
  /\ f1 # f2                                     \* _prepareAddSpanLocation
  /\ TransientModOk(f1, t, FALSE)
  /\ transient[f1].state = CLEAN
  /\ \E o2 \in SpanOffsets(f2), o1 \in Offsets :
       LET dst == spans[f2][o2]
           src == spans[f1][o1]
       IN /\ ~dst.inline
          /\ \/ /\ src = NULL                    \* retry: blocks1 already there
                /\ TouchTransient(f1, t, FALSE)
             \/ /\ src # NULL /\ ~src.inline
                /\ TailOnlyAddSpanLocation => o1 + src.size = transient[f1].size
                /\ src.size = dst.size /\ src.crc = dst.crc
                /\ SpanStateAt(f1, o1) = CLEAN
                /\ Len(src.locs) = 1
                /\ \A l \in 1..Len(dst.locs) : dst.locs[l].loc # src.locs[1].loc
                /\ bs2f' = MergeLocs(MergeLocs(bs2f, src.locs, f2, 1), src.locs, f1, -1)
                /\ SetTransient(f1, [TransientMod(f1, t, FALSE) EXCEPT
                                       !.size = transient[f1].size - src.size])
                /\ spans' = [spans EXCEPT ![f2][o2].locs = Append(@, src.locs[1]),
                                          ![f1][o1] = NULL]
                /\ UNCHANGED <<files, usedFileIds, nextBlockId, envVars, halted>>

\* _applyAddSpanLocation: the only location of span <<f1, o1>> of the CLEAN
\* transient file f1 is appended to the span <<f2, o2>> of the linked file
\* f2; f1 shrinks by the span's size, whatever offset the span had
AddSpanLocation(f1, f2, t) ==
  /\ f1 # f2                                     \* _prepareAddSpanLocation
  /\ files[f2] # NULL
  /\ TransientModOk(f1, t, FALSE)
  /\ transient[f1].state = CLEAN
  /\ \E o2 \in SpanOffsets(f2), o1 \in Offsets :
       LET dst == spans[f2][o2]
           src == spans[f1][o1]
       IN /\ ~dst.inline
          /\ \/ /\ src = NULL                    \* retry: blocks1 already there
                /\ TouchTransient(f1, t, FALSE)
             \/ /\ src # NULL /\ ~src.inline
                /\ TailOnlyAddSpanLocation => o1 + src.size = transient[f1].size
                /\ src.size = dst.size /\ src.crc = dst.crc
                /\ SpanStateAt(f1, o1) = CLEAN
                /\ Len(src.locs) = 1
                /\ \A l \in 1..Len(dst.locs) : dst.locs[l].loc # src.locs[1].loc
                /\ bs2f' = MergeLocs(MergeLocs(bs2f, src.locs, f2, 1), src.locs, f1, -1)
                /\ SetTransient(f1, [TransientMod(f1, t, FALSE) EXCEPT
                                       !.size = transient[f1].size - src.size])
                /\ spans' = [spans EXCEPT ![f2][o2].locs = Append(@, src.locs[1]),
                                          ![f1][o1] = NULL]
                /\ UNCHANGED <<files, usedFileIds, nextBlockId, envVars, halted>>

\* _applyRemoveZeroBlockServiceFiles from the first key: every key of count
\* 0 is deleted (the scan stops after 1000 keys, more than a model has; a
\* scan resumed from a later start key is not modelled, since the key order
\* of block services and files is abstracted away)
RemoveZeroBlockServiceFiles ==
  /\ \E k \in DOMAIN bs2f : bs2f[k] = 0
  /\ bs2f' = [k \in DOMAIN bs2f |-> IF bs2f[k] = 0 THEN NULL ELSE bs2f[k]]
  /\ UNCHANGED <<transient, files, spans, usedFileIds, nextBlockId, envVars, halted>>

-----------------------------------------------------------------------------
(* The block services                                                      *)

\* a block service writes a block it holds a write certificate for
BlockServiceWrite ==
  /\ \E c \in writeCerts \ (written \cup erased) : written' = written \cup {c}
  /\ UNCHANGED <<writeCerts, eraseCerts, erased>>

\* a block service erases a block it holds an erase certificate for
BlockServiceErase ==
  /\ \E c \in eraseCerts \ erased : erased' = erased \cup {c}
  /\ UNCHANGED <<writeCerts, written, eraseCerts>>

-----------------------------------------------------------------------------
(* One log entry is applied at a time (applyLogEntry holds the apply lock);*)
(* the block services act in between.                                      *)

\* every log entry: the apply lock is held, no assert has fired, and the
\* entry's time is one the leader's clock may produce
Entry(t) == ~halted /\ AdvanceClock(t)

\* an entry of the block services, which do not touch the shard
EnvStep == UNCHANGED <<shardVars, clock, halted>>

Next ==
  \/ \E t \in EntryTimes : Entry(t) /\ ConstructFile(t)
  \/ \E t \in EntryTimes, f \in Files : Entry(t) /\ AddSpanInitiate(f, t)
  \/ \E t \in EntryTimes, f \in Files : Entry(t) /\ AddSpanCertify(f, t)
  \/ \E t \in EntryTimes, f \in Files : Entry(t) /\ AddInlineSpan(f, t)
  \/ \E t \in EntryTimes, f \in Files : Entry(t) /\ RemoveSpanInitiate(f, t)
  \/ \E t \in EntryTimes, f \in Files : Entry(t) /\ RemoveSpanCertify(f, t)
  \/ \E t \in EntryTimes, f \in Files : Entry(t) /\ LinkFile(f, t)
  \/ \E t \in EntryTimes, f \in Files : Entry(t) /\ MakeFileTransient(f, t)
  \/ \E t \in EntryTimes, f \in Files : Entry(t) /\ ScrapTransientFile(f, t)
  \/ \E t \in EntryTimes, f \in Files : Entry(t) /\ RemoveFileInode(f, t)
  \/ \E t \in EntryTimes, f1, f2 \in Files : Entry(t) /\ MoveSpan(f1, f2, t)
  \/ \E t \in EntryTimes, f1, f2 \in Files : Entry(t) /\ SwapBlocks(f1, f2)
  \/ \E t \in EntryTimes, f1, f2 \in Files : Entry(t) /\ SwapSpans(f1, f2)
  \/ \E t \in EntryTimes, f1, f2 \in Files : Entry(t) /\ AddSpanLocation(f1, f2, t)
  \/ \E t \in EntryTimes : Entry(t) /\ RemoveZeroBlockServiceFiles
  \/ BlockServiceWrite /\ EnvStep
  \/ BlockServiceErase /\ EnvStep

Spec == Init /\ [][Next]_vars

-----------------------------------------------------------------------------
(* Properties                                                              *)

IsTail(f, o) == transient[f] # NULL /\ o + spans[f][o].size = transient[f].size
FileSize(f) ==
  IF transient[f] # NULL THEN transient[f].size
  ELSE IF files[f] # NULL THEN files[f].size ELSE 0

TypeOK ==
  /\ transient \in [Files -> TransientFileBody \cup {NULL}]
  /\ files \in [Files -> FileBody \cup {NULL}]
  /\ spans \in [Files -> [Offsets -> Span \cup {NULL}]]
  /\ bs2f \in [BlockServices \X Files -> Int \cup {NULL}]
  /\ usedFileIds \subseteq Files /\ nextBlockId \in BlockIds /\ clock \in Times
  /\ \A c \in writeCerts \cup written \cup eraseCerts \cup erased :
       c \in BlockServices \X BlockIds
  /\ halted \in BOOLEAN
  /\ \A f \in Files : ~(transient[f] # NULL /\ files[f] # NULL)

\* The blockServicesToFiles count of every <<block service, file>> equals the
\* number of blocks of the file's spans on that block service: every handler
\* that adds, moves, swaps or removes blocks (AddSpanInitiate, MoveSpan,
\* SwapBlocks, SwapSpans, AddSpanLocation, RemoveSpanCertify) merges exactly
\* the +1/-1s of the blocks it moves, and RemoveZeroBlockServiceFiles only
\* drops zero counts (spec: the count never goes below 0).
BlockCountsExact ==
  LET held == BlocksOf(spans) IN
  \A b \in BlockServices, f \in Files :
     Count(bs2f[<<b, f>>]) =
       Cardinality({ p \in held : p.f = f /\ BlockAt(spans, p).bs = b })

\* The spans of every file tile [0, file size) without gap or overlap: the
\* size checks of AddSpanInitiate/AddInlineSpan, the shrink to the span's
\* offset in RemoveSpanInitiate/RemoveSpanCertify, MoveSpan's size moves and
\* AddSpanLocation's shrink of the source file keep span keys and file size
\* in step.  A removed file keeps no span.
SpansTileFile ==
  \A f \in Files :
     LET offs == SpanOffsets(f) IN
     /\ FileSize(f) > 0 => 0 \in offs
     /\ \A o \in offs :
          /\ o < FileSize(f)
          /\ o + spans[f][o].size = FileSize(f) \/ o + spans[f][o].size \in offs
     /\ \A o1, o2 \in offs : o1 < o2 => o1 + spans[f][o1].size <= o2

\* A block an erase certificate was issued for sits only in the CONDEMNED
\* tail span of a transient file: RemoveSpanInitiate issues the certificates
\* and condemns the tail in one entry, and nothing moves a condemned block
\* into a span that is kept (SwapBlocks/SwapSpans require matching or CLEAN
\* span states, MoveSpan a DIRTY tail).
NoErasedBlockInLiveSpan ==
  \A p \in BlocksOf(spans) :
     LET blk == BlockAt(spans, p) IN
     <<blk.bs, blk.id>> \in eraseCerts =>
        /\ IsTail(p.f, p.o)
        /\ transient[p.f].state = CONDEMNED

\* Every block of a span other than a DIRTY or CONDEMNED tail has been
\* written by its block service: AddSpanCertify turns the DIRTY tail CLEAN
\* only with add proofs, and MoveSpan, SwapBlocks, SwapSpans and
\* AddSpanLocation never bring an unwritten block out of a DIRTY tail.
CertifiedBlocksWritten ==
  \A p \in BlocksOf(spans) :
     LET blk == BlockAt(spans, p) IN
     ~(IsTail(p.f, p.o) /\ transient[p.f].state \in {DIRTY, CONDEMNED}) =>
        <<blk.bs, blk.id>> \in written

\* No two blocks in the shard share a block id, although entry times may go
\* backwards: _updateNextBlockId takes max(previous + 1, time), and the
\* swaps and moves only relocate blocks.
BlockIdsUnique ==
  \A p, q \in BlocksOf(spans) :
     p # q => BlockAt(spans, p).id # BlockAt(spans, q).id

\* No ALWAYS_ASSERT of an apply handler fires (RemoveSpanInitiate's "the
\* file isn't empty, we must have a span", AddSpanCertify's and MoveSpan's
\* single location): one that does aborts the shard on every replay.
NoAssertFailure == ~halted

=============================================================================
