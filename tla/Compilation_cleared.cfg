\* Three notifications about two files, two of them in flight together.
CONSTANTS
  clean1 = clean1
  clean2 = clean2
  errors1 = errors1
  errors2 = errors2
  imports1 = imports1
  Verdict <- MCVerdict
  NoText = NoText
  Files = {f1, f2}
  Schemas = {f1, f2}
  Texts = {clean1, errors1}
  Notifications = {n1, n2, n3}
  Kinds = {"didOpen", "didSave"}
  MaxInFlight = 2
  CompilerPaths = {"capnp"}
  WorkspacePaths = {"ok"}
  Answers = {TRUE}
  Faults = {}
SPECIFICATION SafetySpec
PROPERTY CleanCompileClearsFile
CHECK_DEADLOCK FALSE
