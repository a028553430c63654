\* A forward listing of one name, from its first snapshot edge: with a
\* budget that two snapshot edges overflow but that leaves room for part
\* of a cursor, _fullReadDirSameName looks the current edge up after its
\* snapshot loop ended the response.
CONSTANTS
  Names = {1, 2}
  Hashes = {0, 1}
  Lens = {1, 2}
  Times = {1, 2}
  EdgeStatic = 1
  Budget = 5
  Kinds = {"SameName"}
  Limits = {0}
  MaxChanges = 0
SPECIFICATION Spec
INVARIANT ListingComplete
