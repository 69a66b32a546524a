----------------------------- MODULE SerialProofs -----------------------------
(***************************************************************************)
(* For a client that waits for each notification to be dealt with, every   *)
(* step of Compilation is a step of DiagnosticsService or changes nothing  *)
(* of it: any number of files, texts and notifications.                    *)
(***************************************************************************)
EXTENDS CompilationProofs, FiniteSetTheorems

(* The client waits, the compiler works, and nothing fails.                *)
Serial ==
  /\ MaxInFlight = 1 /\ IsFiniteSet(Notifications)
  /\ Kinds \subseteq {"didOpen", "didSave"}
  /\ CompilerPaths = {"capnp"} /\ WorkspacePaths = {"ok"}
  /\ Answers = {TRUE} /\ Faults = {}

(* The stages of a notification that is not in flight.                     *)
AtRest == {"unsent", "ignored", "thrown", "done"}

(* One notification at a time.                                             *)
OneInFlight == \A m, n \in Notifications : m \in InFlight /\ n \in InFlight => m = n

SettingsWork == initialized => compilerPath = "capnp" /\ workspacePath = "ok"

(* The maps hold what the chain under way has found out about the text its *)
(* file still has.                                                         *)
ChainReports(n) ==
  /\ stage[n] # "unsent" => initialized
  /\ active(n) => file(n) \in Schemas
  /\ stage[n] # "hung"
  /\ stage[n] = "checked" => compatible[n]
  /\ active(n) /\ input[n] # NoText => input[n] = disk[file(n)]
  /\ stage[n] \in {"exited", "publishing"} => input[n] # NoText /\ result[n] \in Verdicts
  /\ stage[n] \in {"compiling", "exited"} => diagnosticMap = NoDiagnostics
  /\ stage[n] = "publishing" =>
       /\ diagnosticMap = [NoDiagnostics EXCEPT ![file(n)] = Report(input[n])]
       /\ Clean(input[n]) => fileSourceInfoMap[file(n)] = input[n]

SerialInv ==
  TypeInv /\ OneInFlight /\ SettingsWork /\ \A n \in Notifications : ChainReports(n)

-----------------------------------------------------------------------------
(* When the client may send, nothing is in flight.                         *)
LEMMA NothingInFlight ==
  ASSUME Serial, Cardinality(InFlight) < MaxInFlight
  PROVE  InFlight = {}
<1>1. IsFiniteSet(InFlight)
  BY FS_Subset DEF Serial, InFlight
<1>2. Cardinality(InFlight) = 0
  BY <1>1, FS_CardinalityType DEF Serial
<1> QED
  BY <1>1, <1>2, FS_EmptySet

(* When a chain is under way, it is the only one.                          *)
LEMMA OnlyInFlight ==
  ASSUME OneInFlight, NEW n \in Notifications, stage[n] \notin AtRest
  PROVE  InFlight = {n}
<1>1. n \in InFlight
  BY DEF InFlight, AtRest
<1>2. \A m \in InFlight : m = n
  BY <1>1 DEF OneInFlight, InFlight, AtRest
<1> QED
  BY <1>1, <1>2

(* When it is done, there is none.                                         *)
LEMMA NoneInFlight ==
  ASSUME TypeOK, OneInFlight, NEW n \in Notifications, stage[n] \notin AtRest,
         NEW s \in AtRest, stage' = [stage EXCEPT ![n] = s]
  PROVE  InFlight' = {}
<1>1. \A m \in Notifications \ {n} : stage[m] \in AtRest
  BY OnlyInFlight DEF InFlight, AtRest
<1>2. \A m \in Notifications : stage'[m] \in AtRest
  BY <1>1 DEF TypeOK
<1> QED
  BY <1>2 DEF InFlight, AtRest

(* Beside the chain under way the others have not begun or are done, and a *)
(* step of it leaves them so.                                              *)
LEMMA OthersRest ==
  ASSUME SerialInv, NEW n \in Notifications, stage[n] \notin AtRest,
         NEW s \in Stages \ {"unsent"}, stage' = [stage EXCEPT ![n] = s],
         UNCHANGED <<script, settingVars>>
  PROVE  /\ OneInFlight' /\ SettingsWork'
         /\ \A m \in Notifications \ {n} : ChainReports(m)'
<1> USE DEF SerialInv, TypeInv, TypeOK, settingVars
<1>1. \A m \in Notifications \ {n} : stage[m] \in AtRest /\ stage'[m] = stage[m]
  BY DEF OneInFlight, InFlight, AtRest
<1>2. OneInFlight'
  BY <1>1 DEF OneInFlight, InFlight, AtRest
<1>3. SettingsWork'
  BY DEF SettingsWork
<1>4. \A m \in Notifications \ {n} : ChainReports(m)'
  BY <1>1 DEF ChainReports, active, AtRest
<1> QED
  BY <1>2, <1>3, <1>4

LEMMA SerialInit == ASSUME Serial PROVE Init => SerialInv
<1> SUFFICES ASSUME Init PROVE SerialInv
  OBVIOUS
<1>1. OneInFlight /\ SettingsWork /\ \A n \in Notifications : ChainReports(n)
  BY DEF Init, OneInFlight, InFlight, SettingsWork, ChainReports, active
<1> QED
  BY <1>1, TypeInit DEF SerialInv

(* Nothing fails, so there is no twin of the server.                       *)
LEMMA NoTwin ==
  ASSUME \A n \in Notifications : ChainReports(n)
  PROVE  ~Twin
BY DEF ChainReports, Twin

(* The compiler starts when the version check has let it through.          *)
LEMMA ProceedStarts ==
  ASSUME Serial, SerialInv, NEW n \in Notifications,
         stage[n] \in {"checking", "checked"}, Proceed(n, TRUE)
  PROVE  /\ stage' = [stage EXCEPT ![n] = "compiling"] /\ diagnosticMap' = NoDiagnostics
         /\ result' = result
<1>1. workspacePath = "ok" /\ BuildsCommand
  BY DEF SerialInv, ChainReports, SettingsWork, BuildsCommand
<1> QED
  BY <1>1 DEF Proceed, RunCompiler, Serial, MoveTo

LEMMA ProceedKeeps ==
  ASSUME Serial, SerialInv, NEW n \in Notifications,
         stage[n] \in {"checking", "checked"}, Proceed(n, TRUE),
         UNCHANGED <<script, disk, settingVars, input, fileSourceInfoMap>>
  PROVE  OneInFlight' /\ SettingsWork' /\ \A m \in Notifications : ChainReports(m)'
<1>1. /\ stage' = [stage EXCEPT ![n] = "compiling"] /\ diagnosticMap' = NoDiagnostics
      /\ result' = result
  BY ProceedStarts
<1>2. ChainReports(n)'
  BY <1>1 DEF SerialInv, TypeInv, TypeOK, ChainHasInput, ChainReports, active, file, settingVars
<1>3. OneInFlight' /\ SettingsWork' /\ \A m \in Notifications \ {n} : ChainReports(m)'
  BY <1>1, OthersRest DEF Stages, AtRest
<1> QED
  BY <1>2, <1>3

(* Every step keeps the client's one chain in step with the maps.          *)
LEMMA SerialStep == ASSUME Serial PROVE SerialInv /\ [Next]_vars => SerialInv'
<1> SUFFICES ASSUME SerialInv, [Next]_vars PROVE SerialInv'
  OBVIOUS
<1> DEFINE Kept == OneInFlight' /\ SettingsWork' /\ \A n \in Notifications : ChainReports(n)'
<1>t. TypeInv'
  BY TypeStep, ChainStep, InboxStep DEF SerialInv, TypeInv
<1>1. CASE UNCHANGED vars
  BY <1>1, <1>t DEF SerialInv, vars, settingVars, chainVars, sharedVars, OneInFlight, InFlight,
                    SettingsWork, ChainReports, active, file
<1>2. ASSUME Initialize PROVE Kept
  <2>1. \A n \in Notifications : stage[n] = "unsent"
    BY <1>2 DEF Initialize, SerialInv, ChainReports
  <2> QED
    BY <1>2, <2>1 DEF Initialize, Serial, chainVars, OneInFlight, InFlight, SettingsWork,
                      ChainReports, active
<1>3. ASSUME NEW n \in Notifications, Send(n) PROVE Kept
  <2>1. \A m \in Notifications : stage[m] \in AtRest
    BY <1>3, NothingInFlight DEF Send, InFlight, AtRest
  <2>2. stage' = [stage EXCEPT ![n] = "sent"] /\ initialized /\ UNCHANGED settingVars
    BY <1>3 DEF Send, MoveTo
  <2> QED
    BY <2>1, <2>2 DEF SerialInv, TypeInv, TypeOK, settingVars, OneInFlight, InFlight, SettingsWork,
                      ChainReports, active, AtRest
<1>4. ASSUME Receive PROVE Kept
  <2>1. PICK n \in Notifications : n = Head(inbox) /\ stage[n] = "sent"
    BY <1>4, InboxHead DEF SerialInv, TypeInv, TypeOK, Receive, InboxIsSent
  <2>2. PICK s \in {"checked", "checking", "ignored"} :
          /\ stage' = [stage EXCEPT ![n] = s]
          /\ s # "ignored" => file(n) \in Schemas
          /\ s = "checked" =>
               /\ compatible' = [compatible EXCEPT ![n] = isCapnpVersionCompatible]
               /\ isCapnpVersionCompatible \/ compilerPath = ""
    BY <1>4, <2>1 DEF Receive, CheckVersion, CompilesFile, MoveTo, Serial
  <2>3. UNCHANGED <<script, disk, settingVars, input, result, sharedVars>>
    BY <1>4 DEF Receive
  <2>4. initialized /\ compilerPath = "capnp" /\ input[n] = NoText
    BY <2>1 DEF SerialInv, ChainReports, SettingsWork, TypeInv, ChainHasInput
  <2>5. s = "checked" => compatible'[n]
    BY <2>1, <2>2, <2>4, Zenon DEF SerialInv, TypeInv, TypeOK
  <2>6. ChainReports(n)'
    BY <2>1, <2>2, <2>3, <2>4, <2>5 DEF SerialInv, TypeInv, TypeOK, ChainReports, active, file, settingVars
  <2>7. s \in Stages \ {"unsent"} /\ UNCHANGED <<script, settingVars>>
    BY <2>3 DEF Stages
  <2>8. OneInFlight' /\ SettingsWork' /\ \A m \in Notifications \ {n} : ChainReports(m)'
    BY <2>1, <2>2, <2>7, OthersRest DEF AtRest
  <2>9. \A m \in Notifications : ChainReports(m)'
    BY <2>6, <2>8
  <2> QED
    BY <2>8, <2>9
<1>4a. ASSUME Steal PROVE FALSE
  BY <1>4a, NoTwin DEF SerialInv, Steal, Twin
<1>5. ASSUME NEW n \in Notifications, AnswerVersion(n) PROVE Kept
  <2>1. Proceed(n, TRUE) /\ compatible' = [compatible EXCEPT ![n] = TRUE]
    BY <1>5 DEF AnswerVersion, Serial
  <2> QED
    BY <1>5, <2>1, ProceedKeeps DEF AnswerVersion
<1>6. ASSUME NEW n \in Notifications, StartCompile(n) PROVE Kept
  <2>1. compatible[n] = TRUE
    BY <1>6 DEF StartCompile, SerialInv, ChainReports, TypeInv, TypeOK
  <2> QED
    BY <1>6, <2>1, ProceedKeeps DEF StartCompile
<1>7. ASSUME NEW n \in Notifications, ReadInput(n) PROVE Kept
  <2>1. ChainReports(n)'
    BY <1>7 DEF ReadInput, SerialInv, TypeInv, TypeOK, ChainReports, active, file, settingVars, sharedVars
  <2>2. stage' = [stage EXCEPT ![n] = "compiling"]
    BY <1>7 DEF ReadInput, SerialInv, TypeInv, TypeOK
  <2> QED
    BY <1>7, <2>1, <2>2, OthersRest DEF ReadInput, Stages, AtRest
<1>8. ASSUME NEW n \in Notifications, Exit(n) PROVE Kept
  <2>1. input[n] \in Texts /\ Verdict[input[n]] \in Verdicts
    BY <1>8, TextsAssumption DEF Exit, SerialInv, TypeInv, TypeOK
  <2>2. result' = [result EXCEPT ![n] = Verdict[input[n]]]
    BY <1>8 DEF Exit, Serial
  <2>3. ChainReports(n)'
    BY <1>8, <2>1, <2>2 DEF Exit, MoveTo, SerialInv, TypeInv, TypeOK, ChainReports, active, file,
                            settingVars, sharedVars
  <2> QED
    BY <1>8, <2>3, OthersRest DEF Exit, MoveTo, Stages, AtRest
<1>9. ASSUME NEW n \in Notifications, Finish(n) PROVE Kept
  <2>1. /\ result[n] = Verdict[input[n]] /\ result[n] \in Verdicts
        /\ diagnosticMap = NoDiagnostics /\ file(n) \in Files
    BY <1>9 DEF Finish, SerialInv, ChainReports, TypeInv, TypeOK, ChainHasInput, file
  <2>2. diagnosticMap' = [NoDiagnostics EXCEPT ![file(n)] = Report(input[n])]
    <3>1. NoDiagnostics[file(n)] = <<>> /\ Append(<<>>, input[n]) = <<input[n]>>
      BY <2>1 DEF NoDiagnostics
    <3>2. CASE result[n] = "errors"
      BY <1>9, <2>1, <3>1, <3>2 DEF Finish, Parse, Report
    <3>3. CASE result[n] # "errors"
      BY <1>9, <2>1, <3>1, <3>3 DEF Finish, Parse, Report, NoDiagnostics
    <3> QED
      BY <3>2, <3>3
  <2>3. Clean(input[n]) => fileSourceInfoMap'[file(n)] = input[n]
    BY <1>9, <2>1 DEF Finish, Resolve, Serial, Clean, SerialInv, TypeInv, TypeOK
  <2>4. ChainReports(n)'
    BY <1>9, <2>1, <2>2, <2>3 DEF Finish, MoveTo, SerialInv, TypeInv, TypeOK, ChainReports, active,
                                  file, settingVars
  <2> QED
    BY <1>9, <2>4, OthersRest DEF Finish, MoveTo, Stages, AtRest
<1>10. ASSUME NEW n \in Notifications, Publish(n) PROVE Kept
  <2>1. ChainReports(n)'
    BY <1>10 DEF Publish, MoveTo, SerialInv, TypeInv, TypeOK, ChainReports, active, settingVars
  <2> QED
    BY <1>10, <2>1, OthersRest DEF Publish, MoveTo, Stages, AtRest
<1> QED
  BY <1>t, <1>1, <1>2, <1>3, <1>4, <1>4a, <1>5, <1>6, <1>7, <1>8, <1>9, <1>10
     DEF SerialInv, Next, ServerStep

-----------------------------------------------------------------------------
(* A step of the chain that does not end it is none of the service's.      *)
LEMMA InFlightStays ==
  ASSUME TypeOK, NEW n \in Notifications, stage[n] \notin AtRest,
         NEW s \in Stages \ AtRest, stage' = [stage EXCEPT ![n] = s],
         UNCHANGED <<script, disk, shown, fileSourceInfoMap>>
  PROVE  UNCHANGED Service!vars
<1>1. InFlight' = InFlight
  BY DEF TypeOK, InFlight, AtRest
<1> QED
  BY <1>1 DEF Service!vars, file

(* Every step of the pipeline is one of the service's, or none.            *)
LEMMA ServiceStep ==
  ASSUME Serial, SerialInv, SerialInv', [Next]_vars
  PROVE  [Service!Next]_(Service!vars)
<1> USE DEF SerialInv, TypeInv
<1>1. CASE UNCHANGED vars
  BY <1>1 DEF vars, chainVars, sharedVars, Service!vars, InFlight, file
<1>2. CASE Initialize
  BY <1>2 DEF Initialize, chainVars, sharedVars, Service!vars, InFlight, file
<1>3. ASSUME NEW n \in Notifications, Send(n) PROVE Service!Next
  <2>1. InFlight = {} /\ InFlight' = {n}
    <3>1. InFlight = {}
      BY <1>3, NothingInFlight DEF Send
    <3>2. n \in InFlight'
      BY <1>3 DEF Send, MoveTo, InFlight, TypeOK
    <3>3. \A m \in Notifications \ {n} : m \notin InFlight'
      BY <1>3, <3>1 DEF Send, MoveTo, InFlight, TypeOK
    <3> QED
      BY <3>1, <3>2, <3>3 DEF InFlight, AtRest
  <2>2. file(n) \in Files /\ UNCHANGED <<script, shown, fileSourceInfoMap>>
    BY <1>3 DEF Send, TypeOK, file, sharedVars
  <2>3. PICK x \in Texts : disk' = [disk EXCEPT ![file(n)] = x]
    <3>1. CASE UNCHANGED disk
      <4>1. disk[file(n)] \in Texts /\ disk' = [disk EXCEPT ![file(n)] = disk[file(n)]]
        BY <2>2, <3>1 DEF TypeOK
      <4> QED
        BY <4>1
    <3> QED
      BY <1>3, <3>1 DEF Send
  <2>4. Service!Touch(file(n), x)
    BY <2>1, <2>2, <2>3 DEF Service!Touch, file
  <2> QED
    BY <2>2, <2>4 DEF Service!Next
<1>4. ASSUME Receive PROVE [Service!Next]_(Service!vars)
  <2> DEFINE n == Head(inbox)
  <2>1. n \in Notifications /\ stage[n] = "sent"
    BY <1>4, InboxHead DEF TypeOK, Receive, InboxIsSent
  <2>2. UNCHANGED <<script, disk, shown, fileSourceInfoMap>>
    BY <1>4 DEF Receive, sharedVars
  <2>3. script[n].kind \in {"didOpen", "didSave"} /\ file(n) \in Files
    BY <2>1 DEF TypeOK, Serial, file
  <2>4. \/ stage' = [stage EXCEPT ![n] = "checked"] \/ stage' = [stage EXCEPT ![n] = "checking"]
        \/ stage' = [stage EXCEPT ![n] = "ignored"] /\ file(n) \notin Schemas
    BY <1>4, <2>3 DEF Receive, Dispatches, CompilesFile, CheckVersion, Serial, MoveTo
  <2> HIDE DEF n
  <2>5. CASE stage' = [stage EXCEPT ![n] = "ignored"] /\ file(n) \notin Schemas
    <3>1. InFlight = {n} /\ InFlight' = {}
      BY <2>1, <2>5, OnlyInFlight, NoneInFlight DEF AtRest
    <3>2. Service!Answer(file(n))
      BY <2>2, <2>5, <3>1 DEF Service!Answer, Service!HasSymbols
    <3> QED
      BY <2>3, <3>2 DEF Service!Next
  <2> QED
    BY <2>1, <2>2, <2>4, <2>5, InFlightStays DEF Stages, AtRest
<1>4a. ASSUME Steal PROVE FALSE
  BY <1>4a, NoTwin DEF Steal, Twin
<1>5. ASSUME NEW n \in Notifications, AnswerVersion(n) \/ StartCompile(n)
      PROVE  UNCHANGED Service!vars
  <2>1. /\ stage[n] \in {"checking", "checked"} /\ Proceed(n, TRUE)
        /\ UNCHANGED <<script, disk, shown, fileSourceInfoMap>>
    <3>1. CASE AnswerVersion(n)
      BY <3>1 DEF AnswerVersion, Serial
    <3>2. CASE StartCompile(n)
      <4>1. compatible[n] = TRUE
        BY <3>2 DEF StartCompile, ChainReports, TypeOK
      <4> QED
        BY <3>2, <4>1 DEF StartCompile
    <3> QED
      BY <1>5, <3>1, <3>2
  <2>2. stage' = [stage EXCEPT ![n] = "compiling"]
    BY <2>1, ProceedStarts
  <2> QED
    BY <2>1, <2>2, InFlightStays DEF Stages, AtRest
<1>7. ASSUME NEW n \in Notifications, ReadInput(n) PROVE UNCHANGED Service!vars
  BY <1>7 DEF ReadInput, sharedVars, Service!vars, InFlight, file
<1>8. ASSUME NEW n \in Notifications, Exit(n) PROVE UNCHANGED Service!vars
  BY <1>8, InFlightStays DEF Exit, MoveTo, Stages, AtRest, sharedVars
<1>9. ASSUME NEW n \in Notifications, Finish(n) PROVE [Service!Next]_(Service!vars)
  <2>1. /\ stage[n] = "exited" /\ stage' = [stage EXCEPT ![n] = "publishing"]
        /\ UNCHANGED <<script, disk, shown>>
    BY <1>9 DEF Finish, MoveTo
  <2>2. InFlight = {n} /\ InFlight' = InFlight
    BY <2>1, OnlyInFlight DEF InFlight, AtRest, TypeOK
  <2>3. /\ file(n) \in Files /\ file(n) \in Schemas /\ input[n] = disk[file(n)]
        /\ result[n] = Verdict[input[n]]
    BY <2>1 DEF ChainReports, active, TypeOK, ChainHasInput, file
  <2>4. CASE result[n] = "clean"
    <3>1. fileSourceInfoMap' = [fileSourceInfoMap EXCEPT ![file(n)] = disk[file(n)]]
      BY <1>9, <2>3, <2>4 DEF Finish, Resolve, Serial
    <3>2. Service!Learn(file(n))
      BY <2>1, <2>2, <2>3, <2>4, <3>1 DEF Service!Learn, Service!HasSymbols, Clean, file
    <3> QED
      BY <2>3, <3>2 DEF Service!Next
  <2>5. CASE result[n] # "clean"
    <3>1. fileSourceInfoMap' = fileSourceInfoMap
      BY <1>9, <2>5 DEF Finish, Resolve
    <3> QED
      BY <2>1, <3>1, InFlightStays DEF Stages, AtRest
  <2> QED
    BY <2>4, <2>5
<1>10. ASSUME NEW n \in Notifications, Publish(n) PROVE Service!Next
  <2>1. /\ stage[n] = "publishing" /\ stage' = [stage EXCEPT ![n] = "done"]
        /\ UNCHANGED <<script, disk, fileSourceInfoMap>>
    BY <1>10 DEF Publish, MoveTo, sharedVars
  <2>2. InFlight = {n} /\ InFlight' = {}
    BY <2>1, OnlyInFlight, NoneInFlight DEF AtRest
  <2>3. /\ file(n) \in Files /\ file(n) \in Schemas
        /\ diagnosticMap = [NoDiagnostics EXCEPT ![file(n)] = Report(disk[file(n)])]
        /\ Clean(disk[file(n)]) => fileSourceInfoMap[file(n)] = disk[file(n)]
    BY <2>1 DEF ChainReports, active, TypeOK, file
  <2>4. shown' = [shown EXCEPT ![file(n)] = Report(disk[file(n)])]
    BY <1>10, <2>3 DEF Publish, NoDiagnostics, TypeOK
  <2>5. Service!Answer(file(n))
    BY <2>1, <2>2, <2>3, <2>4 DEF Service!Answer, Service!HasSymbols
  <2> QED
    BY <2>3, <2>5 DEF Service!Next
<1> QED
  BY <1>1, <1>2, <1>3, <1>4, <1>4a, <1>5, <1>7, <1>8, <1>9, <1>10 DEF Next, ServerStep

(* The pipeline serves a client that waits as DiagnosticsService says:     *)
(* what ServesDiagnostics says of safety, for any number of files, texts   *)
(* and notifications.                                                      *)
THEOREM ServesWaitingClient ==
  ASSUME Serial
  PROVE  SafetySpec => Service!Init /\ [][Service!Next]_(Service!vars)
<1>1. Init => Service!Init
  <2> SUFFICES ASSUME Init PROVE Service!Init
    OBVIOUS
  <2>1. InFlight = {}
    BY DEF Init, InFlight
  <2>2. {file(n) : n \in InFlight} = {}
    BY <2>1
  <2> QED
    BY <2>2 DEF Init, Service!Init, NoDiagnostics
<1>2. SafetySpec => []SerialInv
  BY SerialInit, SerialStep, PTL DEF SafetySpec
<1> QED
  BY <1>1, <1>2, ServiceStep, PTL DEF SafetySpec
===============================================================================
