\* Whole-directory listings forwards with and without a limit of two
\* entries; two names of lengths 1 and 2 make edges of 3 and 4 bytes
\* against a budget of 7, so that the second edge of a page can reach the
\* limit and overdraw the budget at once.
CONSTANTS
  Names = {1, 2}
  Hashes = {0, 1}
  Lens = {1, 2}
  Times = {1, 2}
  EdgeStatic = 1
  Budget = 7
  Kinds = {"Full"}
  Limits = {0, 2}
  MaxChanges = 0
SPECIFICATION Spec
INVARIANT PagesFit
