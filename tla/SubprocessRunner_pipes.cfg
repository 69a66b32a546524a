\* Any program, killed or not, and every way exec can go.
CONSTANTS
  PipeCapacity = 2
  MaxPieces = 4
  WorkingDirs = {TRUE, FALSE}
  ForkFails = TRUE
  ExecOutcomes = {"ok", "ENOENT", "EACCES"}
  Kills = TRUE
  MaxRequests = 1
SPECIFICATION Spec
INVARIANTS TypeOK ResultIsTheChilds
PROPERTY RunEnds
CHECK_DEADLOCK FALSE
