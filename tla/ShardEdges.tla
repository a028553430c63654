----------------------------- MODULE ShardEdges -----------------------------
(***************************************************************************)
(* Directories and edges of one TernFS shard, as applied by                *)
(* ShardDBImpl::applyLogEntry (src/cpp/shard/ShardDB.cpp).                 *)
(*                                                                         *)
(* A directory has an owner (NULL_INODE for a snapshot directory, and for  *)
(* the root) and an mtime.  A name of a directory has at most one current  *)
(* edge (target, locked, creation time) and any number of snapshot edges   *)
(* keyed by creation time (target, owned); a snapshot edge whose target is *)
(* NULL_INODE marks a deletion.  Every action is the whole success path of *)
(* one _apply* handler at log entry time t: an error rolls the write batch *)
(* back to its savepoint, which leaves this state unchanged.  Handlers     *)
(* read the committed state (the unprimed variables) and compose their     *)
(* writes in one batch, later puts winning.                                *)
(*                                                                         *)
(* Files are kept only as far as edges see them: their spans, size and     *)
(* deadline are ShardSpans' business, so LinkFile's CLEAN check and        *)
(* RemoveFileInode's deadline and emptiness checks are free choices here.  *)
(***************************************************************************)
EXTENDS Integers, FiniteSets

CONSTANTS
  Dirs,          \* directory ids of this shard, Root among them
  Root,          \* ROOT_DIR_INODE_ID
  Names,         \* edge names
  LocalFiles,    \* file ids this shard hands out
  RemoteFiles,   \* file ids of other shards, linked here by the CDC
  MaxTime,       \* bound on log entry time
  Skew,          \* how far a log entry time may lag the newest one
  NULL,          \* an absent key
  NULL_INODE     \* NULL_INODE_ID

ASSUME Root \in Dirs
ASSUME MaxTime \in Nat /\ Skew \in Nat

Times == 0..MaxTime
\* what an edge may point at: the root has no parent edge
Targets == (Dirs \ {Root}) \cup LocalFiles \cup RemoteFiles
IsDir(x) == x \in Dirs

NONE == "NONE"
TRANSIENT == "TRANSIENT"
LINKED == "LINKED"
GONE == "GONE"

DirectoryBody == [owner : Dirs \cup {NULL_INODE}, mtime : Times]
CurrentEdgeBody == [target : Targets, locked : BOOLEAN, ct : Times]
SnapshotEdgeBody == [target : Targets \cup {NULL_INODE}, owned : BOOLEAN]

VARIABLES
  directories, \* directories CF: dir -> DirectoryBody or NULL
  current,     \* edges CF, current=true: <<dir, name>> -> CurrentEdgeBody or NULL
  snapshot,    \* edges CF, current=false: <<dir, name, ct>> -> SnapshotEdgeBody or NULL
  fileState,   \* local file id: NONE, TRANSIENT (transientFiles CF), LINKED (files CF) or GONE
  clock,       \* the newest log entry time applied so far
  halted,      \* the process aborted
  undefinedRead \* SameShardHardFileUnlink went on after its directory lookup failed

shardVars == <<directories, current, snapshot, fileState>>
vars == <<shardVars, clock, halted, undefinedRead>>

-----------------------------------------------------------------------------
(* Helpers                                                                 *)

EntryTimes == { x \in 1..MaxTime : x >= clock - Skew /\ x <= clock + 1 }
AdvanceClock(t) == clock' = IF t > clock THEN t ELSE clock

\* _getDirectory: found, and not a snapshot directory unless allowed
DirVisible(d, allowSnapshot) ==
  /\ directories[d] # NULL
  /\ allowSnapshot \/ directories[d].owner # NULL_INODE \/ d = Root

\* a mutant of _initiateDirectoryModification without the backwards-in-time check
DirModOk_NoMtimeCheck(d, t, allowSnapshot) == DirVisible(d, allowSnapshot)

\* _initiateDirectoryModification: the directory may be modified at t
DirModOk(d, t, allowSnapshot) ==
  DirVisible(d, allowSnapshot) /\ directories[d].mtime < t

\* ... and the mtime it then puts in the batch
DirMod(d, t) == [directories EXCEPT ![d].mtime = t]

\* the creation times of the snapshot edges of a name
SnapshotTimes(d, n) == { c \in Times : snapshot[<<d, n, c>>] # NULL }

DeletionMarker == [target |-> NULL_INODE, owned |-> FALSE]

\* _createCurrentEdge, its early returns
CreateEdgeOk(d, n, target, locked, oldCt, t) ==
  LET e == current[<<d, n>>] IN
  /\ DirModOk(d, t, FALSE)
  /\ \/ e = NULL /\ \A c \in SnapshotTimes(d, n) : c < t
     \/ e # NULL /\ e.locked /\ locked /\ e.target = target /\ e.ct = oldCt
     \/ e # NULL /\ ~e.locked /\ e.ct < t /\ ~IsDir(target) /\ ~IsDir(e.target)

\* ... the current edge it puts over cur0, the batch so far
CreateEdgeCur(cur0, d, n, target, locked, t) ==
  LET e == current[<<d, n>>] IN
  [cur0 EXCEPT ![<<d, n>>] =
     [target |-> target, locked |-> locked,
      ct |-> IF e # NULL /\ e.locked THEN e.ct ELSE t]]

\* ... and the snapshot edge an unlocked current edge it kicks out becomes
CreateEdgeSnap(snap0, d, n) ==
  LET e == current[<<d, n>>] IN
  IF e # NULL /\ ~e.locked
  THEN [snap0 EXCEPT ![<<d, n, e.ct>>] = [target |-> e.target, owned |-> TRUE]]
  ELSE snap0

\* _softUnlinkCurrentEdge, its early returns
SoftUnlinkOk(d, n, ct, target, t) ==
  LET e == current[<<d, n>>] IN
  /\ DirModOk(d, t, FALSE)
  /\ e # NULL /\ e.target = target /\ e.ct = ct /\ ~e.locked

\* ... the current edge it deletes and the two snapshot edges it puts
\* a mutant that puts the deletion marker into the current edge's key
SoftUnlinkCur_Tombstone(cur0, d, n) == [cur0 EXCEPT ![<<d, n>>] = DeletionMarker]
SoftUnlinkCur(cur0, d, n) == [cur0 EXCEPT ![<<d, n>>] = NULL]
SoftUnlinkSnap(snap0, d, n, ct, target, owned, t) ==
  [snap0 EXCEPT ![<<d, n, ct>>] = [target |-> target, owned |-> owned],
                ![<<d, n, t>>] = DeletionMarker]

\* RemoveDirectoryOwner's seek from <<d, current=true>>: a current edge of d
HasCurrentEdges(d) == \E n \in Names : current[<<d, n>>] # NULL
\* a snapshot edge of d
HasSnapshotEdges(d) == \E n \in Names : SnapshotTimes(d, n) # {}
\* RemoveDirectoryInode's seek from <<d, current=false>>.  Within a directory
\* snapshot edges sort before current ones (the iteration bounds of _readDir
\* and _fullReadDirNormal rely on it), so the seek finds any edge of d.
HasEdges_FromCurrent(d) == HasCurrentEdges(d)
HasEdges(d) == HasSnapshotEdges(d) \/ HasCurrentEdges(d)

-----------------------------------------------------------------------------
(* _initDb: the root directory, owner NULL, mtime 0                        *)

Init ==
  /\ directories = [d \in Dirs |->
                      IF d = Root THEN [owner |-> NULL_INODE, mtime |-> 0] ELSE NULL]
  /\ current = [k \in Dirs \X Names |-> NULL]
  /\ snapshot = [k \in Dirs \X Names \X Times |-> NULL]
  /\ fileState = [f \in LocalFiles |-> NONE]
  /\ clock = 0
  /\ halted = FALSE
  /\ undefinedRead = FALSE

-----------------------------------------------------------------------------
(* File handlers, as far as edges see them                                 *)

\* _applyConstructFile: a fresh id becomes a transient file
ConstructFile(f, t) ==
  /\ fileState[f] = NONE
  /\ fileState' = [fileState EXCEPT ![f] = TRANSIENT]
  /\ UNCHANGED <<directories, current, snapshot>>

\* _applyLinkFile: the transient file becomes a file with a current edge;
\* a retry that finds that edge already there returns NO_ERROR unchanged
LinkFile(f, d, n, t) ==
  /\ fileState[f] = TRANSIENT
  /\ CreateEdgeOk(d, n, f, FALSE, 0, t)
  /\ fileState' = [fileState EXCEPT ![f] = LINKED]
  /\ directories' = DirMod(d, t)
  /\ current' = CreateEdgeCur(current, d, n, f, FALSE, t)
  /\ snapshot' = CreateEdgeSnap(snapshot, d, n)

\* _applyMakeFileTransient: the CDC hands a file back to GC; edges stay
MakeFileTransient(f, t) ==
  /\ fileState[f] = LINKED
  /\ fileState' = [fileState EXCEPT ![f] = TRANSIENT]
  /\ UNCHANGED <<directories, current, snapshot>>

\* _applyRemoveFileInode: a transient file past its deadline, with no spans
RemoveFileInode(f, t) ==
  /\ fileState[f] = TRANSIENT
  /\ fileState' = [fileState EXCEPT ![f] = GONE]
  /\ UNCHANGED <<directories, current, snapshot>>

\* _applySameShardHardFileUnlink: GC removes the owned snapshot edge <<d, n, ct>>
\* and makes f transient.  The error of _initiateDirectoryModification is
\* ignored, and dir().hashMode() is then read from a value never assigned:
\* the process may crash, or the hash may come out right and the handler
\* go on with no mtime bump (or come out wrong, an EDGE_NOT_FOUND).
SameShardHardFileUnlink(f, d, n, ct, t) ==
  LET s == snapshot[<<d, n, ct>>]
      dirOk == DirModOk(d, t, TRUE)
      proceed ==
        /\ s # NULL /\ s.owned
        /\ snapshot' = [snapshot EXCEPT ![<<d, n, ct>>] = NULL]
        /\ fileState' = [fileState EXCEPT ![f] = TRANSIENT]
        /\ UNCHANGED current
  IN
  /\ fileState[f] = LINKED
  /\ \/ dirOk /\ proceed /\ directories' = DirMod(d, t)
        /\ UNCHANGED <<halted, undefinedRead>>
     \/ ~dirOk /\ proceed /\ UNCHANGED <<directories, halted>>
        /\ undefinedRead' = TRUE
     \/ ~dirOk /\ halted' = TRUE /\ undefinedRead' = TRUE /\ UNCHANGED shardVars

-----------------------------------------------------------------------------
(* Edge handlers                                                           *)

\* _applySameDirectoryRename: soft unlink of old (not owned), create new
SameDirectoryRename(d, old, new, oldCt, target, t) ==
  /\ old # new
  /\ SoftUnlinkOk(d, old, oldCt, target, t)
  /\ CreateEdgeOk(d, new, target, FALSE, 0, t)
  /\ directories' = DirMod(d, t)
  /\ current' = CreateEdgeCur(SoftUnlinkCur(current, d, old), d, new, target, FALSE, t)
  /\ snapshot' = CreateEdgeSnap(SoftUnlinkSnap(snapshot, d, old, oldCt, target, FALSE, t), d, new)
  /\ UNCHANGED fileState

\* a mutant of SameDirectoryRenameSnapshot without the MISMATCHING_TARGET check
SameDirectoryRenameSnapshot_NoTargetCheck(d, old, new, oldCt, target, t) ==
  LET s == snapshot[<<d, old, oldCt>>] IN
  /\ DirModOk(d, t, FALSE)
  /\ s # NULL /\ s.owned
  /\ CreateEdgeOk(d, new, target, FALSE, 0, t)
  /\ directories' = DirMod(d, t)
  /\ current' = CreateEdgeCur(current, d, new, target, FALSE, t)
  /\ snapshot' = CreateEdgeSnap([snapshot EXCEPT ![<<d, old, oldCt>>] =
                                   [target |-> target, owned |-> FALSE]], d, new)
  /\ UNCHANGED fileState

\* _applySameDirectoryRenameSnapshot: disown the snapshot edge, create new
SameDirectoryRenameSnapshot(d, old, new, oldCt, target, t) ==
  LET s == snapshot[<<d, old, oldCt>>] IN
  /\ DirModOk(d, t, FALSE)
  /\ s # NULL /\ s.target = target /\ s.owned
  /\ CreateEdgeOk(d, new, target, FALSE, 0, t)
  /\ directories' = DirMod(d, t)
  /\ current' = CreateEdgeCur(current, d, new, target, FALSE, t)
  /\ snapshot' = CreateEdgeSnap([snapshot EXCEPT ![<<d, old, oldCt>>] =
                                   [target |-> target, owned |-> FALSE]], d, new)
  /\ UNCHANGED fileState

\* _applySoftUnlinkFile: the current edge becomes an owned snapshot edge
SoftUnlinkFile(d, n, ct, f, t) ==
  /\ SoftUnlinkOk(d, n, ct, f, t)
  /\ directories' = DirMod(d, t)
  /\ current' = SoftUnlinkCur(current, d, n)
  /\ snapshot' = SoftUnlinkSnap(snapshot, d, n, ct, f, TRUE, t)
  /\ UNCHANGED fileState

\* _applyCreateLockedCurrentEdge
CreateLockedCurrentEdge(d, n, target, oldCt, t) ==
  /\ CreateEdgeOk(d, n, target, TRUE, oldCt, t)
  /\ directories' = DirMod(d, t)
  /\ current' = CreateEdgeCur(current, d, n, target, TRUE, t)
  /\ snapshot' = CreateEdgeSnap(snapshot, d, n)
  /\ UNCHANGED fileState

\* a mutant of UnlockCurrentEdge whose wasMoved branch forgets the Delete
UnlockCurrentEdge_KeepsEdge(d, n, ct, target, wasMoved, t) ==
  LET e == current[<<d, n>>]
      unlocked == IF e.locked THEN [e EXCEPT !.target = target, !.locked = FALSE] ELSE e
  IN
  /\ DirModOk(d, t, FALSE)
  /\ e # NULL /\ e.ct = ct
  /\ directories' = DirMod(d, t)
  /\ current' = [current EXCEPT ![<<d, n>>] = unlocked]
  /\ snapshot' = IF wasMoved THEN SoftUnlinkSnap(snapshot, d, n, e.ct, target, FALSE, t)
                 ELSE snapshot
  /\ UNCHANGED fileState

\* _applyUnlockCurrentEdge: the CDC unlocks the edge, setting its target, and
\* when the target was moved away deletes it as soft unlink does (not owned)
UnlockCurrentEdge(d, n, ct, target, wasMoved, t) ==
  LET e == current[<<d, n>>]
      unlocked == IF e.locked THEN [e EXCEPT !.target = target, !.locked = FALSE] ELSE e
  IN
  /\ DirModOk(d, t, FALSE)
  /\ e # NULL /\ e.ct = ct
  /\ directories' = DirMod(d, t)
  /\ \/ ~wasMoved /\ current' = [current EXCEPT ![<<d, n>>] = unlocked]
        /\ UNCHANGED snapshot
     \/ wasMoved /\ current' = SoftUnlinkCur(current, d, n)
        /\ snapshot' = SoftUnlinkSnap(snapshot, d, n, e.ct, target, FALSE, t)
  /\ UNCHANGED fileState

\* _applyLockCurrentEdge: the CDC locks the edge, setting its target
LockCurrentEdge(d, n, ct, target, t) ==
  LET e == current[<<d, n>>] IN
  /\ DirModOk(d, t, FALSE)
  /\ e # NULL /\ e.ct = ct
  /\ directories' = DirMod(d, t)
  /\ current' = IF e.locked THEN current
                ELSE [current EXCEPT ![<<d, n>>] = [e EXCEPT !.target = target, !.locked = TRUE]]
  /\ UNCHANGED <<snapshot, fileState>>

-----------------------------------------------------------------------------
(* Directory handlers                                                      *)

\* _applyCreateDirectoryInode: a directory _getDirectory(allowSnapshot=false)
\* does not find, a missing or a snapshot one, is put afresh with no mtime
\* check; one it finds is left alone (NO_ERROR or MISMATCHING_OWNER)
CreateDirectoryInode(d, owner, t) ==
  /\ ~DirVisible(d, FALSE)
  /\ directories' = [directories EXCEPT ![d] = [owner |-> owner, mtime |-> t]]
  /\ UNCHANGED <<current, snapshot, fileState>>

\* a mutant of RemoveDirectoryOwner without the DIRECTORY_NOT_EMPTY seek
RemoveDirectoryOwner_NoEmptyCheck(d, t) ==
  /\ d # Root
  /\ DirModOk(d, t, TRUE)
  /\ directories' = [directories EXCEPT ![d] = [owner |-> NULL_INODE, mtime |-> t]]
  /\ UNCHANGED <<current, snapshot, fileState>>

\* _applyRemoveDirectoryOwner: rmdir; a directory already without owner only
\* gets its mtime bump.  Preparation asserts d is not the root.
RemoveDirectoryOwner(d, t) ==
  /\ d # Root
  /\ DirModOk(d, t, TRUE)
  /\ \/ directories[d].owner = NULL_INODE /\ directories' = DirMod(d, t)
     \/ /\ directories[d].owner # NULL_INODE
        /\ ~HasCurrentEdges(d)
        /\ directories' = [directories EXCEPT ![d] = [owner |-> NULL_INODE, mtime |-> t]]
  /\ UNCHANGED <<current, snapshot, fileState>>

\* _applyRemoveDirectoryInode: GC deletes a snapshot directory with no
\* edges left; a missing one is NO_ERROR.  Preparation refuses the root.
RemoveDirectoryInode(d, t) ==
  /\ d # Root
  /\ DirModOk(d, t, TRUE)
  /\ directories[d].owner = NULL_INODE
  /\ ~HasEdges(d)
  /\ directories' = [directories EXCEPT ![d] = NULL]
  /\ UNCHANGED <<current, snapshot, fileState>>

\* _applySetDirectoryOwner.  The CDC never gives the root an owner (the root
\* "never has an owner", _getDirectory), though preparation does not refuse it.
SetDirectoryOwner(d, owner, t) ==
  /\ d # Root
  /\ DirModOk(d, t, TRUE)
  /\ directories' = [directories EXCEPT ![d] = [owner |-> owner, mtime |-> t]]
  /\ UNCHANGED <<current, snapshot, fileState>>

\* _applySetDirectoryInfo: the info is data; what is left is the mtime bump
SetDirectoryInfo(d, t) ==
  /\ DirModOk(d, t, TRUE)
  /\ directories' = DirMod(d, t)
  /\ UNCHANGED <<current, snapshot, fileState>>

-----------------------------------------------------------------------------
(* Snapshot edge GC                                                        *)

\* _applyRemoveNonOwnedEdge: a missing edge is NO_ERROR, an owned one an error
RemoveNonOwnedEdge(d, n, ct, t) ==
  LET s == snapshot[<<d, n, ct>>] IN
  /\ DirModOk(d, t, TRUE)
  /\ s = NULL \/ (s # NULL /\ ~s.owned)
  /\ directories' = DirMod(d, t)
  /\ snapshot' = [snapshot EXCEPT ![<<d, n, ct>>] = NULL]
  /\ UNCHANGED <<current, fileState>>

\* _applyRemoveOwnedSnapshotFileEdge: deletes the key, whatever it holds
RemoveOwnedSnapshotFileEdge(d, n, ct, t) ==
  /\ DirModOk(d, t, TRUE)
  /\ directories' = DirMod(d, t)
  /\ snapshot' = [snapshot EXCEPT ![<<d, n, ct>>] = NULL]
  /\ UNCHANGED <<current, fileState>>

-----------------------------------------------------------------------------
(* The log: one handler per entry, each at an entry time                   *)

Entry(t) == ~halted /\ AdvanceClock(t)
Faults == UNCHANGED <<halted, undefinedRead>>

Next ==
  \/ \E t \in EntryTimes, f \in LocalFiles :
       Entry(t) /\ Faults /\ (ConstructFile(f, t) \/ MakeFileTransient(f, t) \/ RemoveFileInode(f, t))
  \/ \E t \in EntryTimes, f \in LocalFiles, d \in Dirs, n \in Names :
       Entry(t) /\ Faults /\ LinkFile(f, d, n, t)
  \/ \E t \in EntryTimes, f \in LocalFiles, d \in Dirs, n \in Names, ct \in Times :
       Entry(t) /\ SameShardHardFileUnlink(f, d, n, ct, t)
  \/ \E t \in EntryTimes, d \in Dirs, old, new \in Names, ct \in Times, x \in Targets :
       Entry(t) /\ Faults /\ SameDirectoryRename(d, old, new, ct, x, t)
  \/ \E t \in EntryTimes, d \in Dirs, old, new \in Names, ct \in Times, x \in Targets :
       Entry(t) /\ Faults /\ SameDirectoryRenameSnapshot(d, old, new, ct, x, t)
  \/ \E t \in EntryTimes, d \in Dirs, n \in Names, ct \in Times, f \in LocalFiles \cup RemoteFiles :
       Entry(t) /\ Faults /\ SoftUnlinkFile(d, n, ct, f, t)
  \/ \E t \in EntryTimes, d \in Dirs, n \in Names, ct \in Times, x \in Targets :
       Entry(t) /\ Faults /\ CreateLockedCurrentEdge(d, n, x, ct, t)
  \/ \E t \in EntryTimes, d \in Dirs, n \in Names, ct \in Times, x \in Targets, moved \in BOOLEAN :
       Entry(t) /\ Faults /\ UnlockCurrentEdge(d, n, ct, x, moved, t)
  \/ \E t \in EntryTimes, d \in Dirs, n \in Names, ct \in Times, x \in Targets :
       Entry(t) /\ Faults /\ LockCurrentEdge(d, n, ct, x, t)
  \/ \E t \in EntryTimes, d \in Dirs : \E o \in Dirs \ {d} :
       Entry(t) /\ Faults /\ (CreateDirectoryInode(d, o, t) \/ SetDirectoryOwner(d, o, t))
  \/ \E t \in EntryTimes, d \in Dirs :
       Entry(t) /\ Faults
       /\ (RemoveDirectoryOwner(d, t) \/ RemoveDirectoryInode(d, t) \/ SetDirectoryInfo(d, t))
  \/ \E t \in EntryTimes, d \in Dirs, n \in Names, ct \in Times :
       Entry(t) /\ Faults
       /\ (RemoveNonOwnedEdge(d, n, ct, t) \/ RemoveOwnedSnapshotFileEdge(d, n, ct, t))

Spec == Init /\ [][Next]_vars

-----------------------------------------------------------------------------
(* Properties                                                              *)

\* Every key of every column family holds a body of its type.
TypeOK ==
  /\ directories \in [Dirs -> DirectoryBody \cup {NULL}]
  /\ current \in [Dirs \X Names -> CurrentEdgeBody \cup {NULL}]
  /\ snapshot \in [Dirs \X Names \X Times -> SnapshotEdgeBody \cup {NULL}]
  /\ fileState \in [LocalFiles -> {NONE, TRANSIENT, LINKED, GONE}]
  /\ clock \in Times

\* A snapshot directory (owner cleared, not the root) has no current edges:
\* RemoveDirectoryOwner refuses a directory with current edges, and every
\* handler that creates one (_createCurrentEdge via LinkFile, renames and
\* CreateLockedCurrentEdge) looks the directory up with allowSnapshot false.
SnapshotDirsHaveNoCurrentEdges ==
  \A d \in Dirs \ {Root} :
    directories[d] # NULL /\ directories[d].owner = NULL_INODE =>
      ~HasCurrentEdges(d)

\* A name's current edge is newer than every snapshot edge of that name:
\* the deletion marker that _softUnlinkCurrentEdge and UnlockCurrentEdge
\* leave trails the edges it deletes (spec 8.6), and _createCurrentEdge's
\* MORE_RECENT_SNAPSHOT_EDGE check keeps a new edge after them.
CurrentEdgeNewest ==
  \A d \in Dirs, n \in Names :
    current[<<d, n>>] # NULL =>
      \A c \in SnapshotTimes(d, n) : c < current[<<d, n>>].ct

\* A directory that is gone has no edges left: RemoveDirectoryInode's seek
\* from the directory's first edge key, RemoveDirectoryOwner's
\* DIRECTORY_NOT_EMPTY check and _getDirectory refusing snapshot directories
\* to edge creation, across every interleaving of entries.
NoEdgesInMissingDir ==
  \A d \in Dirs :
    directories[d] = NULL => ~HasCurrentEdges(d) /\ ~HasSnapshotEdges(d)

\* A current edge that is deleted, or replaced by one with another creation
\* time, leaves a snapshot edge with a real target at its creation time: the
\* deletion marker _softUnlinkCurrentEdge puts at the entry time never lands
\* on that key, which is what _initiateDirectoryModification's "don't go
\* backwards in time" check is for.
UnlinkLeavesSnapshot ==
  [][\A d \in Dirs, n \in Names :
       LET e == current[<<d, n>>]
           e2 == current'[<<d, n>>]
       IN  e # NULL /\ (e2 = NULL \/ e2.ct # e.ct) =>
             /\ snapshot'[<<d, n, e.ct>>] # NULL
             /\ snapshot'[<<d, n, e.ct>>].target # NULL_INODE]_vars

\* A snapshot edge, while it exists, keeps its target, and its owned bit only
\* goes from owned to not owned: GC's RemoveNonOwnedEdge and
\* SameShardHardFileUnlink decide on that bit, read from a snapshot.
SnapshotEdgesStable ==
  [][\A k \in Dirs \X Names \X Times :
       snapshot[k] # NULL /\ snapshot'[k] # NULL =>
         /\ snapshot'[k].target = snapshot[k].target
         /\ snapshot'[k].owned => snapshot[k].owned]_vars

\* Spec 8.2: a directory's mtime never decreases across the entries that
\* modify it (_initiateDirectoryModification refuses to go backwards).
DirMtimeMonotonic ==
  [][\A d \in Dirs :
       directories[d] # NULL /\ directories'[d] # NULL =>
         directories'[d].mtime >= directories[d].mtime]_vars

\* SameShardHardFileUnlink never goes on past a failed directory lookup, so
\* it never reads the directory value that lookup left unassigned.
NoUndefinedRead == ~undefinedRead

====
