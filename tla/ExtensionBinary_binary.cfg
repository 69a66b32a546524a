CONSTANTS
  Windows = {w1, w2}
  Inodes = {i1, i2, i3}
  Size = 2
  MaxStarts = 4
  Elsewhere = {TRUE, FALSE}
  None = None
SPECIFICATION FairSpec
INVARIANTS TypeOK OnlyWholeBinariesRun
PROPERTIES BinaryStays ActivationEnds
CHECK_DEADLOCK FALSE
