\* Three files, saved and compiled in any order.
CONSTANTS
  app = app
  lib = lib
  outside = outside
  A = A
  B = B
  C = C
  D = D
  None = None
  Files = {app, lib, outside}
  Ids = {A, B, C, D}
  Home <- MCHome
  TextsOf <- MCTextsOf
  Unfindable = {outside}
  Descriptions = {TRUE, FALSE}
  MaxJobs = 2
SPECIFICATION Spec
INVARIANTS TypeOK DefinitionsLeadHome
CHECK_DEADLOCK FALSE
