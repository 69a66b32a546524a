\* Every setting and every failure, two schemas, two notifications in flight together.
CONSTANTS
  clean1 = clean1
  clean2 = clean2
  errors1 = errors1
  errors2 = errors2
  imports1 = imports1
  Verdict <- MCVerdict
  NoText = NoText
  Files = {f1, f2}
  Schemas = {f1, f2}
  Texts = {clean1, errors1, imports1}
  Notifications = {n1, n2}
  Kinds = {"didOpen", "didSave", "didChangeWatchedFiles"}
  MaxInFlight = 2
  CompilerPaths = {"", "capnp", "other"}
  WorkspacePaths = {"", "ok", "missing"}
  Answers = {TRUE, FALSE}
  Faults = {"fork", "exec", "killed", "truncated", "resolve"}
SPECIFICATION Spec
INVARIANTS TypeOK DiagnosticsHaveACompile OnlyCompatibleCompilersRun
PROPERTIES IsolatedCompileIsReported EveryCompileIsReported
CHECK_DEADLOCK FALSE
