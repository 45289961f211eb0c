\* Every combination of flags, every content of the files, three-bit times.  A server
\* that refuses its arguments ends.
SPECIFICATION Spec
CONSTANTS
  MaxInt = 3
  MaxTime = 2
  DefaultSkew = 1
  None = None
  Blank = Blank
  Unreadable = Unreadable
  NoDigest = NoDigest
  s1 = s1
  s2 = s2
  i1 = i1
  i2 = i2
  Secret = {s1, s2}
  Long = {s1}
  Name = {i1, i2}
  Skew = {0, 4}
  Token <- MCToken
  Args <- MCArgs
INVARIANTS
  OnlyEntitledEnter
  EntitledMayEnter
CHECK_DEADLOCK FALSE
