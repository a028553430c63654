---------------------------- MODULE ShardReadDir ----------------------------
(***************************************************************************)
(* Directory listing: ReadDir's name-hash paging (ShardDBImpl::_readDir),  *)
(* FullReadDir's cursor paging over current and snapshot edges, forwards   *)
(* or backwards, over the whole directory or one name (_fullReadDir), and  *)
(* the client loop that lists a directory page by page while its edges     *)
(* change between pages (each page is read from the snapshot current at    *)
(* the time).                                                              *)
(*                                                                         *)
(* Names are numbers, so that the order of edge keys is the order of the   *)
(* tuples <<current, hash[n], n, creationTime>>, with snapshot edges       *)
(* (current = 0) before current ones; 0 is the empty name.  An edge is the *)
(* tuple <<current, name, creationTime>>, a current edge having time 0     *)
(* (its key has none).  The name hash function is not under src: `hash` is *)
(* any function chosen at the start.  Packed sizes are EdgeStatic plus the *)
(* name's length; `Budget` is what pickMtu(mtu) leaves after the static    *)
(* sizes of the response.                                                  *)
(***************************************************************************)
EXTENDS Naturals, Sequences, SequencesExt, Functions

CONSTANTS
  Names,       \* edge names, as numbers from 1
  Hashes,      \* name hashes, as numbers, including 0
  Lens,        \* name lengths
  Times,       \* creation times of snapshot edges, from 1
  EdgeStatic,  \* packed size of a CurrentEdge less its name bytes
  Budget,      \* response bytes left for edges
  Kinds,       \* the listings the client makes
  Limits,      \* the limits FullReadDir requests carry (0: none)
  MaxChanges   \* bound on the edge changes during the run

ASSUME /\ Names \subseteq Nat \ {0} /\ Times \subseteq Nat \ {0}
       /\ Hashes \subseteq Nat /\ 0 \in Hashes
       /\ \A l \in Lens : 0 < l /\ l <= Budget
       /\ Kinds \subseteq {"ReadDir", "Full", "FullBackwards",
                          "SameName", "SameNameBackwards"}

VARIABLES
  hash,        \* EdgeKey::computeNameHash for this directory
  nameLen,     \* the length of each name
  dir,         \* the directory's edges
  kind,        \* the listing the client is making
  target,      \* the name a same-name listing is of (0 for the others)
  startHash,   \* the startHash of the client's next ReadDir request
  next,        \* the cursor of the client's next FullReadDir request
  limit,       \* the limit of the client's FullReadDir requests
  listed,      \* the edges the client has listed so far
  absent,      \* edges missing at some point of the listing
  done,        \* the listing is over
  changes      \* edge changes so far

vars == <<hash, nameLen, dir, kind, target, startHash, next, limit, listed, absent,
          done, changes>>

Edges == ({1} \X Names \X {0}) \cup ({0} \X Names \X Times)

\* the names with a current edge, which is all ReadDir sees
CurrentNames(es) == {e[2] : e \in {x \in es : x[1] = 1}}

\* packed sizes: ReadDir's CurrentEdge, FullReadDir's Edge (which also
\* carries the current flag) and the part of FullReadDirCursor that grows
\* with its name
size == [n \in Names |-> EdgeStatic + nameLen[n]]
FullSize(e) == EdgeStatic + 1 + nameLen[e[2]]

\* the order of edge keys within the directory's current edges
KeyLess(a, b) == hash[a] < hash[b] \/ (hash[a] = hash[b] /\ a < b)

\* it->Seek(dir, current, startHash, ""): the current edges from startHash on
Seek_Exclusive(es, s) == SetToSortSeq({n \in es : hash[n] > s}, KeyLess)
Seek(es, s) == SetToSortSeq({n \in es : hash[n] >= s}, KeyLess)

\* The loop over the iterator: each edge is added and charged to the budget;
\* the first edge that overdraws it ends the page, which then loses every
\* edge of that edge's hash ("do not have straddling hashes"), and the next
\* page starts at that hash.  Running off the end leaves nextHash 0.
RECURSIVE Scan(_, _, _)
Scan_NoStraddleCheck(it, acc, budget) ==
  IF it = <<>> THEN [results |-> acc, nextHash |-> 0]
  ELSE IF budget - size[Head(it)] < 0
       THEN [results |-> acc, nextHash |-> hash[Head(it)]]
       ELSE Scan(Tail(it), Append(acc, Head(it)), budget - size[Head(it)])
Scan_NextAfter(it, acc, budget) ==
  IF it = <<>> THEN [results |-> acc, nextHash |-> 0]
  ELSE LET e == Head(it) IN
       IF budget - size[e] < 0
       THEN [results |-> SelectSeq(acc, LAMBDA x : hash[x] # hash[e]),
             nextHash |-> hash[e] + 1]
       ELSE Scan(Tail(it), Append(acc, e), budget - size[e])
Scan(it, acc, budget) ==
  IF it = <<>> THEN [results |-> acc, nextHash |-> 0]
  ELSE LET e == Head(it) IN
       IF budget - size[e] < 0
       THEN [results |-> SelectSeq(acc, LAMBDA x : hash[x] # hash[e]),
             nextHash |-> hash[e]]
       ELSE Scan(Tail(it), Append(acc, e), budget - size[e])

\* _readDir on a directory that exists and is not a snapshot directory
ReadDirPage(es, s) == Scan(Seek(es, s), <<>>, Budget)

\* What a page should be, stated without the loop: the longest run of
\* whole hash groups from startHash that fits the budget, and the first
\* hash left out (0 when none is).
ReadDirPageSpec(es, s) ==
  LET hs == SetToSortSeq({hash[n] : n \in {m \in es : hash[m] >= s}}, <)
      upTo(k) == {n \in es : \E i \in 1..k : hash[n] = hs[i]}
      fits(k) == SumFunctionOnSet(size, upTo(k)) <= Budget
      k == CHOOSE k \in 0..Len(hs) : fits(k) /\ (k = Len(hs) \/ ~fits(k + 1))
  IN [results |-> SetToSortSeq(upTo(k), KeyLess),
      nextHash |-> IF k = Len(hs) THEN 0 ELSE hs[k + 1]]

\* Every hash group fits in one response: 63-bit name hashes do not
\* collide often enough to fill an MTU.
GroupsFit ==
  \A h \in Hashes : SumFunctionOnSet(size, {n \in Names : hash[n] = h}) <= Budget

-----------------------------------------------------------------------------
(* FullReadDir *)

\* the key of an edge, and the order of keys
EdgeKey(e) == <<e[1], hash[e[2]], e[2], e[3]>>
KeyBefore(a, b) == \E i \in 1..4 : a[i] < b[i] /\ \A j \in 1..i - 1 : a[j] = b[j]
EdgeBefore(a, b) == KeyBefore(EdgeKey(a), EdgeKey(b))

\* ~(uint64_t)0, the name hash a backwards listing with no name starts at
TopHash == Max(Hashes) + 1

\* resp.next: cleared, or set from the edge popped last
NoCursor == [current |-> FALSE, startName |-> 0, startTime |-> 0]
CursorOf(e) ==
  [current |-> e[1] = 1, startName |-> e[2],
   startTime |-> IF e[1] = 1 THEN 0 ELSE e[3]]

\* FullReadDirCursor::packedSize() less its STATIC_SIZE
CursorExtra(c) == IF c.startName = 0 THEN 0 ELSE nameLen[c.startName]

\* the valid requests: SAME_NAME needs a name, CURRENT a zero startTime
Cursors(sameName) ==
  {c \in [current : BOOLEAN, startName : {0} \cup Names, startTime : {0} \cup Times] :
     /\ sameName => c.startName # 0
     /\ c.current => c.startTime = 0}

\* a response under construction; `ub` marks a back() of an empty vector
EmptyResp == [results |-> <<>>, next |-> NoCursor, budget |-> Budget,
              stop |-> FALSE, ub |-> FALSE]

\* The while loop that pops results until the budget, charged for the
\* cursor that now names the popped edge, is no longer overdrawn.
RECURSIVE PopBack(_, _)
\* PopBack that does not charge the cursor naming the popped edge
PopBack_NoCursorCost(r, prevExtra) ==
  IF r.budget >= 0 THEN [r EXCEPT !.stop = TRUE]
  ELSE IF r.results = <<>> THEN [r EXCEPT !.stop = TRUE, !.ub = TRUE]
  ELSE LET last == Last(r.results) IN
       PopBack([r EXCEPT !.results = Front(r.results), !.next = CursorOf(last),
                         !.budget = r.budget + FullSize(last)], 0)
\* PopBack that sets the cursor from back() after pop_back()
PopBack_CursorAfterPop(r, prevExtra) ==
  IF r.budget >= 0 THEN [r EXCEPT !.stop = TRUE]
  ELSE IF Len(r.results) < 2 THEN [r EXCEPT !.stop = TRUE, !.ub = TRUE]
  ELSE LET last == Last(r.results)
           nx == CursorOf(Last(Front(r.results)))
       IN PopBack([r EXCEPT !.results = Front(r.results), !.next = nx,
                            !.budget = r.budget + FullSize(last) + prevExtra
                                       - CursorExtra(nx)],
                  CursorExtra(nx))
PopBack(r, prevExtra) ==
  IF r.budget >= 0 THEN [r EXCEPT !.stop = TRUE]
  ELSE IF r.results = <<>> THEN [r EXCEPT !.stop = TRUE, !.ub = TRUE]
  ELSE LET last == Last(r.results)
           nx == CursorOf(last)
       IN PopBack([r EXCEPT !.results = Front(r.results), !.next = nx,
                            !.budget = r.budget + FullSize(last) + prevExtra
                                       - CursorExtra(nx)],
                  CursorExtra(nx))

\* _fullReadDirAdd: the edge is appended; reaching the limit clears the
\* cursor and ends the response before the budget is charged; otherwise
\* the edge is charged and an overdrawn budget pops edges back.
FullAdd(r, e, lim) ==
  LET r1 == [r EXCEPT !.results = Append(r.results, e)] IN
  IF lim > 0 /\ Len(r1.results) >= lim
  THEN [r1 EXCEPT !.next = NoCursor, !.stop = TRUE]
  ELSE IF r1.budget - FullSize(e) < 0
       THEN PopBack([r1 EXCEPT !.budget = r1.budget - FullSize(e)], 0)
       ELSE [r1 EXCEPT !.budget = r1.budget - FullSize(e)]

\* the iterator loop: add edges until _fullReadDirAdd says the response is done
RECURSIVE FullScan(_, _, _)
FullScan(it, r, lim) ==
  IF it = <<>> THEN r
  ELSE LET r1 == FullAdd(r, Head(it), lim) IN
       IF r1.stop THEN r1 ELSE FullScan(Tail(it), r1, lim)

\* the start key: the cursor's section, name hash (0 or ~0 for no name),
\* name and, for a snapshot cursor, creation time
StartKey(c, forwards) ==
  <<IF c.current THEN 1 ELSE 0,
    IF c.startName # 0 THEN hash[c.startName]
    ELSE IF forwards THEN 0 ELSE TopHash,
    c.startName,
    IF c.current THEN 0 ELSE c.startTime>>

\* _fullReadDirNormal: Seek or SeekForPrev to the start key, then every edge
\* of the directory, snapshot and current, in key order or its reverse
NormalEdges(es, c, forwards) ==
  IF forwards
  THEN SetToSortSeq({e \in es : ~KeyBefore(EdgeKey(e), StartKey(c, TRUE))}, EdgeBefore)
  ELSE Reverse(SetToSortSeq({e \in es : ~KeyBefore(StartKey(c, FALSE), EdgeKey(e))},
                            EdgeBefore))
FullReadDirNormal(es, c, forwards, lim) == FullScan(NormalEdges(es, c, forwards), EmptyResp, lim)

\* _fullReadDirSameName: the current edge (lookupCurrent) and the snapshot
\* edges of one name from startTime (or from either end).  Going forwards
\* the current edge is looked up after the snapshot loop, also when that
\* loop ended because the response was done.
FullReadDirSameName(es, c, forwards, lim) ==
  LET n == c.startName
      cur == {e \in es : e = <<1, n, 0>>}
      lookupCurrent(r) == IF cur = {} THEN r ELSE FullAdd(r, <<1, n, 0>>, lim)
      snaps == {e \in es : e[1] = 0 /\ e[2] = n}
      from == IF forwards THEN {e \in snaps : e[3] >= c.startTime}
              ELSE {e \in snaps : c.startTime = 0 \/ e[3] <= c.startTime}
      snapIt == IF forwards THEN SetToSortSeq(from, EdgeBefore)
                ELSE Reverse(SetToSortSeq(from, EdgeBefore))
      begin == IF c.current THEN lookupCurrent(EmptyResp) ELSE EmptyResp
  IN IF c.current /\ (begin.stop \/ forwards) THEN begin
     ELSE LET r == FullScan(snapIt, begin, lim) IN
          IF forwards THEN lookupCurrent(r) ELSE r

\* _fullReadDir, for a directory that exists
FullReadDir(es, sameName, forwards, c, lim) ==
  IF sameName THEN FullReadDirSameName(es, c, forwards, lim)
  ELSE FullReadDirNormal(es, c, forwards, lim)

\* What a whole-directory page should be, stated without the loops: the
\* longest run of edges from the cursor whose sizes, plus the cursor naming
\* the first edge left out, fit the budget.
FullPageSpec(es, c, forwards) ==
  LET it == NormalEdges(es, c, forwards)
      cost(k) == FoldLeft(LAMBDA acc, e : acc + FullSize(e), 0, SubSeq(it, 1, k))
                 + (IF k < Len(it) THEN nameLen[it[k + 1][2]] ELSE 0)
      k == Max({j \in 0..Len(it) : cost(j) <= Budget})
  IN [results |-> SubSeq(it, 1, k),
      next |-> IF k = Len(it) THEN NoCursor ELSE CursorOf(it[k + 1])]

\* the response's packed size less its static sizes
RespBytes(r) == FoldLeft(LAMBDA acc, e : acc + FullSize(e), 0, r.results) + CursorExtra(r.next)

-----------------------------------------------------------------------------

\* the edges a listing of kind k over name n is after
Expected(k, n) ==
  CASE k = "ReadDir" -> {e \in Edges : e[1] = 1}
    [] k \in {"Full", "FullBackwards"} -> Edges
    [] OTHER -> {e \in Edges : e[2] = n}

Forwards(k) == k \in {"Full", "SameName"}
SameNameKind(k) == k \in {"SameName", "SameNameBackwards"}

\* Every entry fits a response on its own, as every hash group does a
\* ReadDir response: names are at most 255 bytes, responses about 1.4k.
EdgesFit == \A n \in Names : EdgeStatic + 1 + nameLen[n] <= Budget

\* The first request of a listing of kind k: a whole-directory one from the
\* first snapshot edge forwards or from the last current edge backwards, or
\* one of name n from its first snapshot edge forwards or from its current
\* edge backwards.
FirstCursor(k, n) ==
  [current |-> ~Forwards(k) /\ k # "ReadDir",
   startName |-> IF SameNameKind(k) THEN n ELSE 0, startTime |-> 0]

Init ==
  /\ hash \in [Names -> Hashes]
  /\ nameLen \in [Names -> Lens]
  /\ GroupsFit /\ EdgesFit
  /\ dir \in SUBSET Edges
  /\ \E k \in Kinds, n \in Names, l \in Limits :
       /\ kind = k
       /\ target = FirstCursor(k, n).startName
       /\ next = FirstCursor(k, n)
       /\ limit = IF k = "ReadDir" THEN 0 ELSE l
  /\ startHash = 0
  /\ listed = <<>>
  /\ absent = Edges \ dir
  /\ done = FALSE
  /\ changes = 0

\* the client sends ReadDir(dir, startHash) and appends the page
ClientReadDir ==
  /\ ~done
  /\ kind = "ReadDir"
  /\ LET page == ReadDirPage(CurrentNames(dir), startHash)
     IN /\ listed' = listed \o [i \in 1..Len(page.results) |-> <<1, page.results[i], 0>>]
        /\ startHash' = page.nextHash
        /\ done' = (page.nextHash = 0)
  /\ UNCHANGED <<hash, nameLen, dir, kind, target, next, limit, absent, changes>>

\* the page the client's next FullReadDir request gets
NextPage == FullReadDir(dir, SameNameKind(kind), Forwards(kind), next, limit)

\* the client sends FullReadDir(dir, flags, next, limit) and appends the
\* page; a cleared cursor ends the listing
ClientFullReadDir ==
  /\ ~done
  /\ kind # "ReadDir"
  /\ LET page == NextPage
     IN /\ listed' = listed \o page.results
        /\ next' = page.next
        /\ done' = (page.next.startName = 0)
  /\ UNCHANGED <<hash, nameLen, dir, kind, target, startHash, limit, absent, changes>>

\* the client starts another listing
StartListing(k, n, l) ==
  /\ done
  /\ kind' = k
  /\ target' = FirstCursor(k, n).startName
  /\ startHash' = 0
  /\ next' = FirstCursor(k, n)
  /\ limit' = IF k = "ReadDir" THEN 0 ELSE l
  /\ listed' = <<>>
  /\ absent' = Edges \ dir
  /\ done' = FALSE
  /\ UNCHANGED <<hash, nameLen, dir, changes>>

\* entries applied between two pages create or remove an edge
CreateEdge(e) ==
  /\ changes < MaxChanges
  /\ e \notin dir
  /\ dir' = dir \cup {e}
  /\ changes' = changes + 1
  /\ UNCHANGED <<hash, nameLen, kind, target, startHash, next, limit, listed, absent, done>>

RemoveEdge(e) ==
  /\ changes < MaxChanges
  /\ e \in dir
  /\ dir' = dir \ {e}
  /\ absent' = absent \cup {e}
  /\ changes' = changes + 1
  /\ UNCHANGED <<hash, nameLen, kind, target, startHash, next, limit, listed, done>>

Next ==
  \/ ClientReadDir
  \/ ClientFullReadDir
  \/ \E k \in Kinds, n \in Names, l \in Limits : StartListing(k, n, l)
  \/ \E e \in Edges : CreateEdge(e) \/ RemoveEdge(e)

Spec == Init /\ [][Next]_vars

-----------------------------------------------------------------------------

TypeOK ==
  /\ hash \in [Names -> Hashes] /\ nameLen \in [Names -> Lens]
  /\ dir \subseteq Edges /\ absent \subseteq Edges
  /\ kind \in Kinds /\ target \in Names \cup {0}
  /\ startHash \in Hashes
  /\ next \in Cursors(FALSE)
  /\ limit \in Limits \cup {0}
  /\ listed \in Seq(Edges)
  /\ done \in BOOLEAN
  /\ changes \in 0..MaxChanges

\* _readDir's loop returns the page its reference definition describes, for
\* every directory content and every startHash.
PageMatchesSpec ==
  \A s \in Hashes :
    ReadDirPage(CurrentNames(dir), s) = ReadDirPageSpec(CurrentNames(dir), s)

\* Every page of a whole-directory listing, in either direction, is the
\* page the reference describes: _fullReadDirAdd's pop loop charges each
\* popped edge's cursor exactly what it adds to the response, and never
\* pops an empty response.  (Stated of the page the client's next request
\* gets, whatever the directory holds when it is sent.)
FullPagesMatchSpec ==
  ~done /\ kind \in {"Full", "FullBackwards"} =>
    LET page == NextPage
    IN /\ ~page.ub
       /\ [results |-> page.results, next |-> page.next]
            = FullPageSpec(dir, next, Forwards(kind))

\* Spec 4.3, MTU budgeting: every FullReadDir response, with the cursor it
\* carries, fits the budget pickMtu(mtu) leaves.
PagesFit ==
  ~done /\ kind # "ReadDir" => RespBytes(NextPage) <= Budget

\* A finished listing names every edge it is after that was there all
\* along, however the directory changed between pages (spec 6: stable
\* name-hash paging; FullReadDir's cursors).
ListingComplete ==
  done => \A e \in Expected(kind, target) \ absent : Contains(listed, e)

\* No listing returns an edge twice across its pages, while other requests
\* change the directory between them.
ListingNoDuplicates ==
  \A i, j \in 1..Len(listed) : i < j => listed[i] # listed[j]

\* Every page but the last moves the listing strictly on, ReadDir's
\* startHash forwards and FullReadDir's cursor in the listing's direction,
\* so a listing ends: the client never asks for the same page again.
PagesAdvance ==
  /\ [][ClientReadDir => done' \/ startHash' > startHash]_vars
  /\ [][ClientFullReadDir =>
        \/ done'
        \/ Forwards(kind) /\ KeyBefore(StartKey(next, TRUE), StartKey(next', TRUE))
        \/ ~Forwards(kind) /\ KeyBefore(StartKey(next', FALSE), StartKey(next, FALSE))]_vars

====
