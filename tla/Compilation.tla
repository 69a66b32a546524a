----------------------------- MODULE Compilation -----------------------------
(***************************************************************************)
(* The compile pipeline of capnp-ls: what happens between a notification   *)
(* about a schema file and the diagnostics and symbol information that     *)
(* come of it.                                                             *)
(*                                                                         *)
(* Every notification starts a chain of promises (LspMessageHandler::      *)
(* compileCapnpFile, CompilationManager::compile): check the compiler's    *)
(* version, clear the diagnostics, run the compiler, apply its result,     *)
(* publish.  Between two links of a chain the event loop runs whatever     *)
(* else is ready, and all chains share diagnosticMap, fileSourceInfoMap    *)
(* and isCapnpVersionCompatible.  One link is one action here.             *)
(*                                                                         *)
(* The text of a file is one value: what matters of it is the compiler's   *)
(* verdict and whether it is the text the file has now.  The diagnostics   *)
(* one failed compile adds are named by the text that was compiled.        *)
(***************************************************************************)
EXTENDS Naturals, Sequences, FiniteSets

CONSTANTS
  Files,          (* the files the client talks about                          *)
  Schemas,        (* those whose path ends in ".capnp"                         *)
  Texts,          (* the contents a file can have                              *)
  Verdict,        (* what the compiler makes of each text                      *)
  NoText,         (* "nothing read", "nothing indexed"                         *)
  Notifications,  (* the notifications the client may send, each once          *)
  Kinds,          (* the methods they use                                      *)
  MaxInFlight,    (* how many the client leaves unfinished at a time           *)
  CompilerPaths,  (* the values initialize may give compilerPath               *)
  WorkspacePaths, (* ... and workspacePath                                     *)
  Answers,        (* what a version check may conclude                         *)
  Faults          (* the failures of the operating system that may occur       *)

(* "clean": exit code 0 and a CodeGeneratorRequest on stdout; "errors": the  *)
(* text fails with errors of its own; "importErrors": it fails, but no error *)
(* line names it (they name an imported file, or the command is not there).  *)
Verdicts == {"clean", "errors", "importErrors"}
Methods  == {"didOpen", "didSave", "didChangeWatchedFiles"}
FaultKinds == {"fork",       (* pipe() or fork() fails                        *)
               "exec",       (* exec fails with anything but ENOENT           *)
               "killed",     (* the compiler dies of a signal, having written *)
                             (* nothing                                       *)
               "truncated",  (* it dies in the middle of its message          *)
               "resolve"}    (* SymbolResolver::resolve throws                *)

ASSUME FilesAssumption   == Schemas \subseteq Files
ASSUME TextsAssumption   == /\ Verdict \in [Texts -> Verdicts]
                            /\ NoText \notin Texts
ASSUME ClientAssumption  == Kinds \subseteq Methods /\ MaxInFlight \in Nat
ASSUME SettingAssumption ==
  /\ CompilerPaths \subseteq {"", "capnp", "other"}  (* "other": not ending in "capnp" *)
  /\ WorkspacePaths \subseteq {"", "ok", "missing"}  (* "missing": chdir fails         *)
  /\ Answers \subseteq BOOLEAN
  /\ Faults \subseteq FaultKinds

VARIABLES
  script,        (* what each notification says: its method and its file      *)
  disk,          (* the text of every file                                    *)
  inbox,         (* notifications on stdin, oldest first                      *)
  initialized,   (* the initialize request has been handled                   *)
  compilerPath, workspacePath,
  stage,         (* how far each notification's promise chain has got         *)
  compatible,    (* what its version check concluded                          *)
  input,         (* the text its compiler process has read                    *)
  result,        (* how that process ended                                    *)
  isCapnpVersionCompatible,
  diagnosticMap, fileSourceInfoMap,
  shown,         (* the diagnostics the client displays for every file        *)
  overlapped     (* history: chains that were active together with another    *)

settingVars == <<initialized, compilerPath, workspacePath>>
chainVars   == <<stage, compatible, input, result>>
sharedVars  == <<isCapnpVersionCompatible, diagnosticMap, fileSourceInfoMap>>
vars == <<script, disk, inbox, settingVars, chainVars, sharedVars, shown, overlapped>>

Stages  == {"unsent", "sent",
            "ignored",   (* not a compiling notification about a schema       *)
            "thrown",    (* the handler threw before there was a chain        *)
            "stolen",    (* another process has read it from stdin            *)
            "hung",      (* its process never closes the pipes                *)
            "checking", "checked", "compiling", "exited", "publishing", "done"}
Results == Verdicts \cup {"none", "killed", "truncated", "workdirError"}

file(n)   == script[n].file
active(n) == stage[n] \in {"checking", "checked", "compiling", "exited", "publishing"}
InFlight  == {n \in Notifications :
                stage[n] \notin {"unsent", "ignored", "thrown", "done"}}

NoDiagnostics == [f \in Files |-> <<>>]
(* The diagnostics that belong to a text: those of its own errors.           *)
Report(x) == IF Verdict[x] = "errors" THEN <<x>> ELSE <<>>
Clean(x)  == Verdict[x] = "clean"

Init ==
  /\ script \in [Notifications -> [kind : Kinds, file : Files]]
  /\ disk \in [Files -> Texts]
  /\ inbox = <<>>
  /\ initialized = FALSE /\ compilerPath = "" /\ workspacePath = ""
  /\ stage      = [n \in Notifications |-> "unsent"]
  /\ compatible = [n \in Notifications |-> FALSE]
  /\ input      = [n \in Notifications |-> NoText]
  /\ result     = [n \in Notifications |-> "none"]
  /\ isCapnpVersionCompatible = FALSE
  /\ diagnosticMap = NoDiagnostics
  /\ fileSourceInfoMap = [f \in Files |-> NoText]
  /\ shown = NoDiagnostics
  /\ overlapped = [n \in Notifications |-> FALSE]

MoveTo(n, s) == stage' = [stage EXCEPT ![n] = s]

-----------------------------------------------------------------------------
(* The client.                                                             *)

(* handleInitialize copies the settings; a client sends nothing before.    *)
Initialize ==
  /\ ~initialized
  /\ initialized' = TRUE
  /\ compilerPath' \in CompilerPaths
  /\ workspacePath' \in WorkspacePaths
  /\ UNCHANGED <<script, disk, inbox, chainVars, sharedVars, shown, overlapped>>

(* didOpen leaves the file alone; the other two tell of a new text.  A     *)
(* client that does not wait for the outcome may have MaxInFlight          *)
(* notifications unfinished.                                               *)
Send(n) ==
  /\ initialized
  /\ stage[n] = "unsent"
  /\ Cardinality(InFlight) < MaxInFlight
  /\ \/ script[n].kind = "didOpen" /\ UNCHANGED disk
     \/ /\ script[n].kind # "didOpen"
        /\ \E x \in Texts : disk' = [disk EXCEPT ![file(n)] = x]
  /\ inbox' = Append(inbox, n)
  /\ MoveTo(n, "sent")
  /\ UNCHANGED <<script, settingVars, compatible, input, result, sharedVars,
                 shown, overlapped>>

-----------------------------------------------------------------------------
(* The server.                                                             *)

(* checkCapnpVersionCompatible: the cached answer, a refusal when there is *)
(* no compiler path, or a "--version" process.  A fork that fails is       *)
(* thrown out of compile(): the handler catches it, nothing is published.  *)
(* When exec fails with anything but ENOENT the child goes on as a twin of *)
(* the server that never closes the pipes the chain reads.                 *)
CheckVersion(n) ==
  \/ /\ isCapnpVersionCompatible \/ compilerPath = ""
     /\ compatible' = [compatible EXCEPT ![n] = isCapnpVersionCompatible]
     /\ MoveTo(n, "checked")
  \/ /\ ~isCapnpVersionCompatible /\ compilerPath # ""
     /\ \/ MoveTo(n, "checking")
        \/ "fork" \in Faults /\ MoveTo(n, "thrown")
        \/ "exec" \in Faults /\ MoveTo(n, "hung")
     /\ UNCHANGED compatible

(* The methods handleMessage hands to compileCapnpFile: it drops           *)
(* didChangeWatchedFiles, whose handler nothing calls.                     *)
Dispatches(kind) == kind \in {"didOpen", "didSave"}

(* compileCapnpFile looks at the end of the path.                          *)
CompilesFile(f) == f \in Schemas

(* handleMessage for the oldest notification.                              *)
Receive ==
  /\ inbox # <<>>
  /\ inbox' = Tail(inbox)
  /\ LET n == Head(inbox)
         others == {m \in Notifications \ {n} : active(m)}
     IN  \/ /\ Dispatches(script[n].kind) /\ CompilesFile(file(n))
            /\ CheckVersion(n)
            /\ overlapped' = [m \in Notifications |->
                                overlapped[m] \/ (others # {} /\ m \in others \cup {n})]
         \/ /\ ~(Dispatches(script[n].kind) /\ CompilesFile(file(n)))
            /\ MoveTo(n, "ignored")
            /\ UNCHANGED <<compatible, overlapped>>
  /\ UNCHANGED <<script, disk, settingVars, input, result, sharedVars, shown>>

(* A twin reads the same stdin: what it takes never reaches the server.    *)
Twin == \E n \in Notifications : stage[n] = "hung"
Steal ==
  /\ Twin /\ inbox # <<>>
  /\ inbox' = Tail(inbox)
  /\ MoveTo(Head(inbox), "stolen")
  /\ UNCHANGED <<script, disk, settingVars, compatible, input, result, sharedVars,
                 shown, overlapped>>

(* buildCommand: no path means "capnp" (or the bundled compiler); a path   *)
(* that does not end in "capnp" gives no command.                          *)
BuildsCommand == compilerPath \in {"", "capnp"}

(* Slip: a workspace that cannot be entered has a status of its own.       *)
RunCompilerOrSay(n) ==
  \/ /\ workspacePath = "ok"
     /\ MoveTo(n, "compiling")
     /\ UNCHANGED result
  \/ /\ workspacePath # "ok"
     /\ MoveTo(n, "exited")
     /\ result' = [result EXCEPT ![n] = "executionError"]
(* SubprocessRunner::run up to the exec.  A working directory that cannot  *)
(* be entered is reported as a result whose exit code is 0; a fork that    *)
(* fails is caught at the end of the chain.                                *)
RunCompiler(n) ==
  \/ /\ workspacePath = "ok"
     /\ \/ MoveTo(n, "compiling")
        \/ "fork" \in Faults /\ MoveTo(n, "publishing")
        \/ "exec" \in Faults /\ MoveTo(n, "hung")
     /\ UNCHANGED result
  \/ /\ workspacePath # "ok"
     /\ MoveTo(n, "exited")
     /\ result' = [result EXCEPT ![n] = "workdirError"]

(* Slips: the diagnostics are not cleared; a refusal ends the chain.       *)
ProceedUncleared(n, ok) ==
  /\ \/ ok /\ BuildsCommand /\ RunCompiler(n)
     \/ ~(ok /\ BuildsCommand) /\ MoveTo(n, "publishing") /\ UNCHANGED result
  /\ UNCHANGED diagnosticMap
ProceedOrStop(n, ok) ==
  \/ ~ok /\ MoveTo(n, "ignored") /\ UNCHANGED <<result, diagnosticMap>>
  \/ /\ ok
     /\ diagnosticMap' = NoDiagnostics
     /\ \/ BuildsCommand /\ RunCompiler(n)
        \/ ~BuildsCommand /\ MoveTo(n, "publishing") /\ UNCHANGED result
(* What compile() does with the answer of the version check.               *)
Proceed(n, ok) ==
  \/ ~ok /\ MoveTo(n, "publishing") /\ UNCHANGED <<result, diagnosticMap>>
  \/ /\ ok
     /\ diagnosticMap' = NoDiagnostics
     /\ \/ BuildsCommand /\ RunCompiler(n)
        \/ ~BuildsCommand /\ MoveTo(n, "publishing") /\ UNCHANGED result

(* An answer that was there at once is continued in a later turn ...       *)
StartCompile(n) ==
  /\ stage[n] = "checked"
  /\ Proceed(n, compatible[n])
  /\ UNCHANGED <<script, disk, inbox, settingVars, compatible, input,
                 isCapnpVersionCompatible, fileSourceInfoMap, shown, overlapped>>

(* Slip: go on whatever the answer.                                        *)
AnswerVersionAnyway(n) ==
  /\ stage[n] = "checking"
  /\ \E ok \in Answers :
       /\ compatible' = [compatible EXCEPT ![n] = ok]
       /\ isCapnpVersionCompatible' = (isCapnpVersionCompatible \/ ok)
  /\ Proceed(n, TRUE)
  /\ UNCHANGED <<script, disk, inbox, settingVars, input, fileSourceInfoMap, shown,
                 overlapped>>
(* ... that of a "--version" process in the turn that learns of its end;   *)
(* any failure of it counts as "not compatible".  Only a positive answer   *)
(* is remembered.                                                          *)
AnswerVersion(n) ==
  /\ stage[n] = "checking"
  /\ \E ok \in Answers :
       /\ compatible' = [compatible EXCEPT ![n] = ok]
       /\ isCapnpVersionCompatible' = (isCapnpVersionCompatible \/ ok)
       /\ Proceed(n, ok)
  /\ UNCHANGED <<script, disk, inbox, settingVars, input, fileSourceInfoMap, shown,
                 overlapped>>

(* The compiler process reads the file ...                                 *)
ReadInput(n) ==
  /\ stage[n] = "compiling" /\ input[n] = NoText
  /\ input' = [input EXCEPT ![n] = disk[file(n)]]
  /\ UNCHANGED <<script, disk, inbox, settingVars, stage, compatible, result,
                 sharedVars, shown, overlapped>>

(* ... and ends; the event loop learns of it later.                        *)
Exit(n) ==
  /\ stage[n] = "compiling" /\ input[n] # NoText
  /\ \E r \in {Verdict[input[n]]} \cup (Faults \cap {"killed", "truncated"}) :
       result' = [result EXCEPT ![n] = r]
  /\ MoveTo(n, "exited")
  /\ UNCHANGED <<script, disk, inbox, settingVars, compatible, input, sharedVars,
                 shown, overlapped>>

(* Slip: lines that name another file are taken too.                       *)
ParseAnyFile(n) ==
  diagnosticMap' = IF result[n] = "errors"
                   THEN [f \in Files |-> Append(diagnosticMap[f], input[n])]
                   ELSE diagnosticMap
(* CompileErrorParser::parse: of the compiler's error lines, those naming  *)
(* the compiled file are appended to that file's diagnostics.              *)
Parse(n) ==
  diagnosticMap' = IF result[n] = "errors"
                   THEN [diagnosticMap EXCEPT ![file(n)] = Append(@, input[n])]
                   ELSE diagnosticMap

(* SymbolResolver::resolve replaces what is known of the file; when it     *)
(* throws, the old entry may or may not have been erased already.          *)
Resolve(n) ==
  \/ /\ result[n] = "clean"
     /\ fileSourceInfoMap' = [fileSourceInfoMap EXCEPT ![file(n)] = input[n]]
  \/ /\ result[n] = "clean" /\ "resolve" \in Faults
     /\ fileSourceInfoMap' \in {fileSourceInfoMap,
                                [fileSourceInfoMap EXCEPT ![file(n)] = NoText]}
  \/ result[n] # "clean" /\ UNCHANGED fileSourceInfoMap

(* The continuation of the compiler's exit: wait for the process, then     *)
(* parse its errors or resolve its output.  A compiler killed by a signal  *)
(* has WEXITSTATUS 0 and, like a directory error, brings no message: it    *)
(* passes for a success.  A broken message throws past both.               *)
Finish(n) ==
  /\ stage[n] = "exited"
  /\ Parse(n)
  /\ Resolve(n)
  /\ MoveTo(n, "publishing")
  /\ UNCHANGED <<script, disk, inbox, settingVars, compatible, input, result,
                 isCapnpVersionCompatible, shown, overlapped>>

(* Slip: an empty map publishes nothing.                                   *)
PublishStale(n) ==
  /\ stage[n] = "publishing"
  /\ shown' = [f \in Files |->
                 IF diagnosticMap[f] # <<>> THEN diagnosticMap[f] ELSE shown[f]]
  /\ MoveTo(n, "done")
  /\ UNCHANGED <<script, disk, inbox, settingVars, compatible, input, result,
                 sharedVars, overlapped>>
(* publishDiagnostics: everything in the map, or an empty list for the     *)
(* notification's own file when the whole map is empty.                    *)
Publish(n) ==
  /\ stage[n] = "publishing"
  /\ shown' = IF diagnosticMap = NoDiagnostics
              THEN [shown EXCEPT ![file(n)] = <<>>]
              ELSE [f \in Files |->
                      IF diagnosticMap[f] # <<>> THEN diagnosticMap[f] ELSE shown[f]]
  /\ MoveTo(n, "done")
  /\ UNCHANGED <<script, disk, inbox, settingVars, compatible, input, result,
                 sharedVars, overlapped>>

-----------------------------------------------------------------------------
ServerStep(n) == \/ AnswerVersion(n) \/ StartCompile(n) \/ ReadInput(n)
                 \/ Exit(n) \/ Finish(n) \/ Publish(n)

Next ==
  \/ Initialize
  \/ \E n \in Notifications : Send(n)
  \/ Receive
  \/ Steal
  \/ \E n \in Notifications : ServerStep(n)

(* The event loop handles its input and runs every ready continuation.     *)
(* The client need not send anything, and nothing makes a process end.     *)
Fairness ==
  /\ WF_vars(Receive)
  /\ \A n \in Notifications : WF_vars(StartCompile(n) \/ Finish(n) \/ Publish(n))

(* What a compiler owes the server, which has no timeout for it.           *)
CompilersEnd ==
  \A n \in Notifications : WF_vars(AnswerVersion(n) \/ ReadInput(n) \/ Exit(n))

SafetySpec == Init /\ [][Next]_vars
Spec == SafetySpec /\ Fairness
EndingSpec == Spec /\ CompilersEnd

-----------------------------------------------------------------------------
(* The type of every variable.                                             *)
TypeOK ==
  /\ script \in [Notifications -> [kind : Kinds, file : Files]]
  /\ disk \in [Files -> Texts]
  /\ inbox \in Seq(Notifications)
  /\ initialized \in BOOLEAN
  /\ compilerPath \in CompilerPaths \cup {""}
  /\ workspacePath \in WorkspacePaths \cup {""}
  /\ stage \in [Notifications -> Stages]
  /\ compatible \in [Notifications -> BOOLEAN]
  /\ input \in [Notifications -> Texts \cup {NoText}]
  /\ result \in [Notifications -> Results]
  /\ isCapnpVersionCompatible \in BOOLEAN
  /\ diagnosticMap \in [Files -> Seq(Texts)]
  /\ fileSourceInfoMap \in [Files -> Texts \cup {NoText}]
  /\ shown \in [Files -> Seq(Texts)]
  /\ overlapped \in [Notifications -> BOOLEAN]

(* Chain n ended a compile of text x of file f that failed with errors of  *)
(* its own.                                                                *)
Failed(n, f, x) ==
  /\ file(n) = f /\ input[n] = x /\ result[n] = "errors"
  /\ Verdict[x] = "errors"
  /\ stage[n] \in {"publishing", "done"}

(* Whatever the interleaving, the diagnostics kept or displayed for a file *)
(* were produced by a finished, failing compile of that same file: chains  *)
(* that share the map may show each other's results too early, too late or *)
(* twice, but never under another file's name and never an invented one.   *)
DiagnosticsHaveACompile ==
  \A f \in Files :
    /\ \A i \in DOMAIN diagnosticMap[f] :
         \E n \in Notifications : Failed(n, f, diagnosticMap[f][i])
    /\ \A i \in DOMAIN shown[f] :
         \E n \in Notifications : Failed(n, f, shown[f][i])

(* A compiler process exists only behind a compiler that passed the        *)
(* version check: neither the cache nor a chain overtaken by another may   *)
(* let one through (compile() tests the answer of its own check).          *)
OnlyCompatibleCompilersRun ==
  \A n \in Notifications :
    stage[n] \in {"compiling", "exited"} =>
      compatible[n] /\ isCapnpVersionCompatible /\ compilerPath # ""

(* A chain that no other chain ran beside publishes exactly the outcome of *)
(* its own compile: its file shows the errors of the text compiled, or     *)
(* nothing, and no other file's display changes.  All wrong displays are   *)
(* therefore due to chains that overlap.                                   *)
IsolatedCompileIsReported ==
  [][\A n \in Notifications :
       (Publish(n) /\ ~overlapped[n] /\ result[n] \in Verdicts) =>
         shown' = [shown EXCEPT ![file(n)] = Report(input[n])]]_vars

(* Every didOpen and didSave of a schema is answered with diagnostics,     *)
(* whatever the settings, the compiler, the operating system and the other *)
(* chains do: a refused version, a command that cannot be built, a failed  *)
(* fork, a killed compiler, a broken message and a throwing resolve all    *)
(* lead to the publish.  The exceptions are the code's: a process that     *)
(* never ends (there is no timeout), a fork that fails for the version     *)
(* check (thrown before there is a chain), and a twin, which hangs its     *)
(* chain and reads the client's messages.                                  *)
Due(n) == stage[n] = "sent" /\ Dispatches(script[n].kind) /\ CompilesFile(file(n))
EveryCompileIsReported ==
  \A n \in Notifications :
    []<>(stage[n] \notin {"checking", "compiling"}) =>
      (Due(n) ~> (stage[n] \in {"done", "thrown"} \/ Twin))

(* A client that waits for each notification to be dealt with gets what    *)
(* the pipeline is for: the diagnostics of the text it just saved, whatever *)
(* was compiled before, always, and not before the symbols of a text that  *)
(* compiles are known; a text that does not compile leaves those of the    *)
(* last good one.                                                          *)
Service == INSTANCE DiagnosticsService
             WITH due <- {file(n) : n \in InFlight}, known <- fileSourceInfoMap
ServesDiagnostics == Service!Spec

-----------------------------------------------------------------------------
(* What the comments and the README say, and overlapping chains break.     *)

(* lsp_message_handler.cpp:207: "If there are no diagnostics, send an      *)
(* empty diagnostics array for the current file".  Of the chain that       *)
(* compiled the text its file has now and found it clean, with no          *)
(* diagnostics of the file in the map.                                     *)
CleanCompileClearsFile ==
  [][\A n \in Notifications :
       (/\ stage[n] = "publishing" /\ stage'[n] = "done"
        /\ result[n] = "clean" /\ input[n] = disk[file(n)]
        /\ diagnosticMap[file(n)] = <<>>)
         => shown'[file(n)] = <<>>]_vars

Quiet == InFlight = {}
Saved(f) == \E n \in Notifications :
              file(n) = f /\ script[n].kind = "didSave" /\ stage[n] = "done"

(* README.md:73: "Automatically recompiles schemas when files are saved".  *)
(* When nothing is left to do, the symbols of a saved file are those of    *)
(* its text, if that text compiles.                                        *)
SavedTextIsIndexed ==
  Quiet => \A f \in Schemas :
             (Saved(f) /\ Verdict[disk[f]] = "clean") => fileSourceInfoMap[f] = disk[f]
=============================================================================
