\* Two chains of one file overlap.
CONSTANTS
  clean1 = clean1
  clean2 = clean2
  errors1 = errors1
  errors2 = errors2
  imports1 = imports1
  Verdict <- MCVerdict
  NoText = NoText
  Files = {f1}
  Schemas = {f1}
  Texts = {clean1, clean2, errors1}
  Notifications = {n1, n2}
  Kinds = {"didOpen", "didSave"}
  MaxInFlight = 2
  CompilerPaths = {"capnp"}
  WorkspacePaths = {"ok"}
  Answers = {TRUE}
  Faults = {}
SPECIFICATION SafetySpec
INVARIANT SavedTextIsIndexed
CHECK_DEADLOCK FALSE
