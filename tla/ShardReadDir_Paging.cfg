\* Three names over two hashes, so that two names can share a hash and a
\* ReadDir hash group can straddle a page; name lengths 1 and 2 and one
\* snapshot time, so that a directory holds up to six edges of sizes 3 and
\* 4 and a budget of 7 makes FullReadDir pages of one or two edges and
\* overdraws it by less and by more than a cursor's name; ReadDir entries
\* of 2 and 3 bytes make pages of one to three names.  One edge change
\* during a listing, so that an edge a page has passed, or not yet
\* reached, is created or removed.
CONSTANTS
  Names = {1, 2, 3}
  Hashes = {0, 1}
  Lens = {1, 2}
  Times = {1}
  EdgeStatic = 1
  Budget = 7
  Kinds = {"ReadDir", "Full", "FullBackwards", "SameNameBackwards"}
  Limits = {0}
  MaxChanges = 1
SPECIFICATION Spec
INVARIANTS TypeOK PageMatchesSpec ListingComplete ListingNoDuplicates FullPagesMatchSpec
PROPERTIES PagesAdvance
