-------------------------- MODULE CompilationProofs --------------------------
(***************************************************************************)
(* Theorems about the compile pipeline, for any number of files, texts and *)
(* notifications in flight, every setting and every failure.               *)
(***************************************************************************)
EXTENDS Compilation, SequenceTheorems, TLAPS

(* The oldest notification is one, and what is left of stdin is a queue.   *)
LEMMA InboxHead ==
  ASSUME inbox \in Seq(Notifications), inbox # <<>>
  PROVE  /\ Head(inbox) \in Notifications /\ Tail(inbox) \in Seq(Notifications)
         /\ Head(inbox) = inbox[1] /\ 1 \in 1 .. Len(inbox)
<1>1. Len(inbox) \in Nat \ {0}
  BY EmptySeq
<1>2. 1 \in 1 .. Len(inbox)
  BY <1>1
<1>3. Head(inbox) = inbox[1]
  BY <1>1, <1>2
<1> QED
  BY <1>2, <1>3, HeadTailProperties

(* Parsing the errors of a compile that has read its input keeps the map's *)
(* type.                                                                   *)
LEMMA ParseType ==
  ASSUME TypeOK, NEW n \in Notifications, Parse(n),
         result[n] = "errors" => input[n] \in Texts
  PROVE  diagnosticMap' \in [Files -> Seq(Texts)]
<1>1. CASE result[n] = "errors"
  <2>1. file(n) \in Files /\ diagnosticMap[file(n)] \in Seq(Texts)
    BY DEF TypeOK, file
  <2>2. Append(diagnosticMap[file(n)], input[n]) \in Seq(Texts)
    BY <1>1, <2>1, AppendProperties
  <2> QED
    BY <1>1, <2>1, <2>2 DEF TypeOK, Parse
<1>2. CASE result[n] # "errors"
  BY <1>2 DEF TypeOK, Parse
<1> QED
  BY <1>1, <1>2

(* A chain's result is a verdict only on a text its compiler has read.     *)
ChainHasInput ==
  \A n \in Notifications :
    /\ result[n] \in Verdicts => input[n] \in Texts /\ result[n] = Verdict[input[n]]
    /\ stage[n] \in {"unsent", "sent", "checking", "checked"} =>
         input[n] = NoText /\ result[n] = "none"
    /\ stage[n] = "compiling" => result[n] = "none"

(* Only a notification that waits on stdin is received, and once.          *)
InboxIsSent ==
  /\ \A i \in 1 .. Len(inbox) : stage[inbox[i]] = "sent"
  /\ \A i, j \in 1 .. Len(inbox) : inbox[i] = inbox[j] => i = j

(* The type invariant needs to know that an error is always one of a text, *)
(* so it is proved with where the chains' inputs come from.                *)
TypeInv == TypeOK /\ ChainHasInput /\ InboxIsSent

LEMMA TypeInit == Init => TypeInv
<1> SUFFICES ASSUME Init PROVE TypeInv
  OBVIOUS
<1>1. <<>> \in Seq(Notifications) /\ <<>> \in Seq(Texts) /\ Len(inbox) = 0
  BY EmptySeq DEF Init
<1>2. NoDiagnostics \in [Files -> Seq(Texts)]
  BY <1>1 DEF NoDiagnostics
<1>3. TypeOK
  BY <1>1, <1>2 DEF Init, TypeOK, Stages, Results
<1>4. ChainHasInput
  BY DEF Init, ChainHasInput, Verdicts
<1>5. InboxIsSent
  BY <1>1 DEF InboxIsSent
<1> QED
  BY <1>3, <1>4, <1>5 DEF TypeInv

(* What the answer of a version check makes of the chain's own state.      *)
LEMMA ProceedMoves ==
  ASSUME TypeOK, NEW n \in Notifications, NEW ok, Proceed(n, ok)
  PROVE  /\ \E s \in {"publishing", "compiling", "hung", "exited"} :
              /\ stage' = [stage EXCEPT ![n] = s]
              /\ s \in {"compiling", "exited"} => ok /\ diagnosticMap' = NoDiagnostics
              /\ s # "exited" => result' = result
         /\ result' = result \/ result' = [result EXCEPT ![n] = "workdirError"]
         /\ diagnosticMap' \in {diagnosticMap, NoDiagnostics}
         /\ stage' \in [Notifications -> Stages]
         /\ result' \in [Notifications -> Results]
         /\ diagnosticMap' \in [Files -> Seq(Texts)]
<1>1. \E s \in {"publishing", "compiling", "hung", "exited"} :
        /\ stage' = [stage EXCEPT ![n] = s]
        /\ s \in {"compiling", "exited"} => ok /\ diagnosticMap' = NoDiagnostics
        /\ s # "exited" => result' = result
  BY DEF Proceed, RunCompiler, MoveTo
<1>2. result' = result \/ result' = [result EXCEPT ![n] = "workdirError"]
  BY DEF Proceed, RunCompiler
<1>3. diagnosticMap' \in {diagnosticMap, NoDiagnostics}
  BY DEF Proceed
<1>4. NoDiagnostics \in [Files -> Seq(Texts)]
  BY EmptySeq DEF NoDiagnostics
<1>5. stage' \in [Notifications -> Stages]
  BY <1>1 DEF TypeOK, Stages
<1>6. result' \in [Notifications -> Results]
  BY <1>2 DEF TypeOK, Results
<1> QED
  BY <1>1, <1>2, <1>3, <1>4, <1>5, <1>6 DEF TypeOK

(* One step of the server or the client keeps TypeOK.                      *)
LEMMA TypeStep ==
  ASSUME TypeInv, [Next]_vars
  PROVE  TypeOK'
<1> USE DEF TypeInv
<1>1. CASE Initialize
  BY <1>1 DEF TypeOK, Initialize, chainVars, sharedVars
<1>2. ASSUME NEW n \in Notifications, Send(n) PROVE TypeOK'
  <2>1. inbox' \in Seq(Notifications)
    BY <1>2, AppendProperties DEF TypeOK, Send
  <2>2. disk' \in [Files -> Texts]
    BY <1>2 DEF TypeOK, Send, file
  <2>3. stage' \in [Notifications -> Stages]
    BY <1>2 DEF TypeOK, Send, MoveTo, Stages
  <2> QED
    BY <1>2, <2>1, <2>2, <2>3 DEF TypeOK, Send, settingVars, sharedVars
<1>3. CASE Receive
  <2> DEFINE n == Head(inbox)
  <2>1. n \in Notifications /\ Tail(inbox) \in Seq(Notifications)
    BY <1>3, InboxHead DEF Receive, TypeOK
  <2>2. stage' \in [Notifications -> Stages]
    BY <1>3, <2>1 DEF TypeOK, Receive, CheckVersion, MoveTo, Stages
  <2>3. compatible' \in [Notifications -> BOOLEAN]
    BY <1>3, <2>1 DEF TypeOK, Receive, CheckVersion
  <2>4. overlapped' \in [Notifications -> BOOLEAN]
    BY <1>3, <2>1, Zenon DEF TypeOK, Receive
  <2> QED
    BY <1>3, <2>1, <2>2, <2>3, <2>4 DEF TypeOK, Receive, settingVars, sharedVars
<1>3a. CASE Steal
  <2>1. Head(inbox) \in Notifications /\ Tail(inbox) \in Seq(Notifications)
    BY <1>3a, InboxHead DEF Steal, TypeOK
  <2>2. stage' \in [Notifications -> Stages]
    BY <1>3a, <2>1 DEF TypeOK, Steal, MoveTo, Stages
  <2> QED
    BY <1>3a, <2>1, <2>2 DEF TypeOK, Steal, settingVars, sharedVars
<1>4. ASSUME NEW n \in Notifications, AnswerVersion(n) PROVE TypeOK'
  <2>1. PICK ok \in BOOLEAN :
          /\ compatible' = [compatible EXCEPT ![n] = ok]
          /\ isCapnpVersionCompatible' = (isCapnpVersionCompatible \/ ok)
          /\ Proceed(n, ok)
    BY <1>4, SettingAssumption DEF AnswerVersion
  <2>2. /\ stage' \in [Notifications -> Stages] /\ result' \in [Notifications -> Results]
        /\ diagnosticMap' \in [Files -> Seq(Texts)]
    BY <2>1, ProceedMoves
  <2>3. /\ compatible' \in [Notifications -> BOOLEAN]
        /\ isCapnpVersionCompatible' \in BOOLEAN
    BY <2>1 DEF TypeOK
  <2> QED
    BY <1>4, <2>2, <2>3 DEF TypeOK, AnswerVersion, settingVars
<1>5. ASSUME NEW n \in Notifications, StartCompile(n) PROVE TypeOK'
  <2>1. /\ stage' \in [Notifications -> Stages] /\ result' \in [Notifications -> Results]
        /\ diagnosticMap' \in [Files -> Seq(Texts)]
    BY <1>5, ProceedMoves DEF StartCompile
  <2> QED
    BY <1>5, <2>1 DEF TypeOK, StartCompile, settingVars
<1>6. ASSUME NEW n \in Notifications, ReadInput(n) PROVE TypeOK'
  BY <1>6 DEF TypeOK, ReadInput, file, settingVars, sharedVars
<1>7. ASSUME NEW n \in Notifications, Exit(n) PROVE TypeOK'
  <2>1. input[n] \in Texts
    BY <1>7 DEF TypeOK, Exit
  <2>2. result' \in [Notifications -> Results]
    BY <1>7, <2>1, TextsAssumption DEF TypeOK, Exit, Results
  <2>3. stage' \in [Notifications -> Stages]
    BY <1>7 DEF TypeOK, Exit, MoveTo, Stages
  <2> QED
    BY <1>7, <2>2, <2>3 DEF TypeOK, Exit, settingVars, sharedVars
<1>8. ASSUME NEW n \in Notifications, Finish(n) PROVE TypeOK'
  <2>1. diagnosticMap' \in [Files -> Seq(Texts)]
    BY <1>8, ParseType DEF Finish, ChainHasInput, Verdicts
  <2>2. fileSourceInfoMap' \in [Files -> Texts \cup {NoText}]
    BY <1>8 DEF TypeOK, Finish, Resolve, file
  <2>3. stage' \in [Notifications -> Stages]
    BY <1>8 DEF TypeOK, Finish, MoveTo, Stages
  <2> QED
    BY <1>8, <2>1, <2>2, <2>3 DEF TypeOK, Finish, settingVars
<1>9. ASSUME NEW n \in Notifications, Publish(n) PROVE TypeOK'
  <2>1. shown' \in [Files -> Seq(Texts)]
    BY <1>9, EmptySeq DEF TypeOK, Publish, file
  <2>2. stage' \in [Notifications -> Stages]
    BY <1>9 DEF TypeOK, Publish, MoveTo, Stages
  <2> QED
    BY <1>9, <2>1, <2>2 DEF TypeOK, Publish, settingVars, sharedVars
<1>10. CASE UNCHANGED vars
  BY <1>10 DEF TypeOK, vars, settingVars, chainVars, sharedVars
<1> QED
  BY <1>1, <1>2, <1>3, <1>3a, <1>4, <1>5, <1>6, <1>7, <1>8, <1>9, <1>10
     DEF Next, ServerStep

(* Proceeding reads no input yet.                                          *)
LEMMA ProceedKeepsInputs ==
  ASSUME TypeOK, ChainHasInput, NEW n \in Notifications, \E ok : Proceed(n, ok),
         result[n] = "none", input' = input
  PROVE  ChainHasInput'
<1>1. PICK ok : Proceed(n, ok)
  OBVIOUS
<1>2. PICK s \in {"publishing", "compiling", "hung", "exited"} :
        /\ stage' = [stage EXCEPT ![n] = s]
        /\ s # "exited" => result' = result
  BY <1>1, ProceedMoves
<1>3. result' = result \/ result' = [result EXCEPT ![n] = "workdirError"]
  BY <1>1, ProceedMoves
<1> QED
  BY <1>2, <1>3 DEF ChainHasInput, TypeOK, Verdicts

(* What a chain knows of its own input and result stays true: no chain     *)
(* touches another's.                                                      *)
LEMMA ChainStep ==
  ASSUME TypeInv, [Next]_vars
  PROVE  ChainHasInput'
<1> USE DEF TypeInv
<1>1. CASE Initialize
  BY <1>1 DEF ChainHasInput, Initialize, chainVars
<1>2. ASSUME NEW n \in Notifications, Send(n) PROVE ChainHasInput'
  BY <1>2 DEF ChainHasInput, TypeOK, Send, MoveTo
<1>3. CASE Receive
  <2> DEFINE n == Head(inbox)
  <2>1. n \in Notifications /\ stage[n] = "sent"
    BY <1>3, InboxHead DEF TypeOK, Receive, InboxIsSent
  <2>2. \E s \in {"checked", "checking", "hung", "thrown", "ignored"} :
          stage' = [stage EXCEPT ![n] = s]
    BY <1>3 DEF Receive, CheckVersion, MoveTo
  <2>3. input' = input /\ result' = result
    BY <1>3 DEF Receive
  <2> HIDE DEF n
  <2> QED
    BY <2>1, <2>2, <2>3 DEF ChainHasInput, TypeOK
<1>3a. CASE Steal
  <2>1. stage' = [stage EXCEPT ![Head(inbox)] = "stolen"] /\ input' = input /\ result' = result
    BY <1>3a DEF Steal, MoveTo
  <2> QED
    BY <2>1 DEF ChainHasInput, TypeOK
<1>4. ASSUME NEW n \in Notifications, AnswerVersion(n) PROVE ChainHasInput'
  <2>1. (\E ok : Proceed(n, ok)) /\ result[n] = "none" /\ input' = input
    BY <1>4 DEF AnswerVersion, ChainHasInput
  <2> QED
    BY <2>1, ProceedKeepsInputs
<1>5. ASSUME NEW n \in Notifications, StartCompile(n) PROVE ChainHasInput'
  <2>1. Proceed(n, compatible[n]) /\ result[n] = "none" /\ input' = input
    BY <1>5 DEF StartCompile, ChainHasInput
  <2> QED
    BY <2>1, ProceedKeepsInputs
<1>6. ASSUME NEW n \in Notifications, ReadInput(n) PROVE ChainHasInput'
  BY <1>6 DEF ChainHasInput, TypeOK, ReadInput, Verdicts
<1>7. ASSUME NEW n \in Notifications, Exit(n) PROVE ChainHasInput'
  <2>1. input[n] \in Texts
    BY <1>7 DEF TypeOK, Exit
  <2>2. PICK r \in {Verdict[input[n]]} \cup (Faults \cap {"killed", "truncated"}) :
          result' = [result EXCEPT ![n] = r]
    BY <1>7 DEF Exit
  <2>3. r \in Verdicts => r = Verdict[input[n]]
    BY <2>2 DEF Verdicts
  <2> QED
    BY <1>7, <2>1, <2>2, <2>3 DEF ChainHasInput, TypeOK, Exit, MoveTo
<1>8. ASSUME NEW n \in Notifications, Finish(n) PROVE ChainHasInput'
  BY <1>8 DEF ChainHasInput, TypeOK, Finish, MoveTo
<1>9. ASSUME NEW n \in Notifications, Publish(n) PROVE ChainHasInput'
  BY <1>9 DEF ChainHasInput, TypeOK, Publish, MoveTo
<1>10. CASE UNCHANGED vars
  BY <1>10 DEF ChainHasInput, vars, chainVars
<1> QED
  BY <1>1, <1>2, <1>3, <1>3a, <1>4, <1>5, <1>6, <1>7, <1>8, <1>9, <1>10
     DEF Next, ServerStep

(* A step of a chain is a step of one that has left stdin.                 *)
LEMMA ServerStepLeavesSent ==
  ASSUME TypeOK, NEW n \in Notifications, ServerStep(n)
  PROVE  /\ inbox' = inbox
         /\ \A m \in Notifications : stage[m] = "sent" => stage'[m] = "sent"
<1>1. CASE AnswerVersion(n)
  <2>1. PICK s : stage' = [stage EXCEPT ![n] = s]
    BY <1>1, ProceedMoves DEF AnswerVersion
  <2> QED
    BY <1>1, <2>1 DEF TypeOK, AnswerVersion
<1>2. CASE StartCompile(n)
  <2>1. PICK s : stage' = [stage EXCEPT ![n] = s]
    BY <1>2, ProceedMoves DEF StartCompile
  <2> QED
    BY <1>2, <2>1 DEF TypeOK, StartCompile
<1>3. CASE ReadInput(n)
  BY <1>3 DEF TypeOK, ReadInput
<1>4. CASE Exit(n)
  BY <1>4 DEF TypeOK, Exit, MoveTo
<1>5. CASE Finish(n)
  BY <1>5 DEF TypeOK, Finish, MoveTo
<1>6. CASE Publish(n)
  BY <1>6 DEF TypeOK, Publish, MoveTo
<1> QED
  BY <1>1, <1>2, <1>3, <1>4, <1>5, <1>6 DEF ServerStep

(* stdin holds every unreceived notification once, in whatever order the   *)
(* client sends them.                                                      *)
LEMMA InboxStep ==
  ASSUME TypeInv, [Next]_vars
  PROVE  InboxIsSent'
<1> USE DEF TypeInv
<1>0. \A i \in 1 .. Len(inbox) : inbox[i] \in Notifications
  BY ElementOfSeq DEF TypeOK
<1>1. CASE Initialize
  BY <1>1 DEF InboxIsSent, Initialize, chainVars
<1>2. ASSUME NEW n \in Notifications, Send(n) PROVE InboxIsSent'
  <2>1. /\ Len(inbox') = Len(inbox) + 1
        /\ inbox'[Len(inbox) + 1] = n
        /\ \A i \in 1 .. Len(inbox) : inbox'[i] = inbox[i]
    <3>1. inbox' = Append(inbox, n) /\ inbox \in Seq(Notifications)
      BY <1>2 DEF TypeOK, Send
    <3> QED
      BY <3>1, AppendProperties
  <2>2. \A m \in Notifications : stage[m] = "sent" => stage'[m] = "sent"
    BY <1>2 DEF TypeOK, Send, MoveTo
  <2>3. stage[n] = "unsent" /\ stage'[n] = "sent" /\ Len(inbox) \in Nat
    BY <1>2, LenProperties DEF TypeOK, Send, MoveTo
  <2>4. \A i \in 1 .. Len(inbox') : i \in 1 .. Len(inbox) \/ i = Len(inbox) + 1
    BY <2>1, <2>3
  <2> QED
    BY <1>0, <2>1, <2>2, <2>3, <2>4 DEF InboxIsSent
<1>3. CASE Receive \/ Steal
  <2>1. inbox # <<>> /\ inbox' = Tail(inbox) /\ Len(inbox) \in Nat
    BY <1>3, LenProperties DEF Receive, Steal, TypeOK
  <2>2. /\ Len(inbox') = Len(inbox) - 1
        /\ \A i \in 1 .. Len(inbox') : inbox'[i] = inbox[i + 1]
    BY <2>1, HeadTailProperties DEF TypeOK
  <2>3. Head(inbox) = inbox[1] /\ 1 \in 1 .. Len(inbox)
    BY <2>1, InboxHead DEF TypeOK
  <2>4. \A m \in Notifications \ {Head(inbox)} : stage'[m] = stage[m]
    BY <1>3 DEF TypeOK, Receive, Steal, CheckVersion, MoveTo
  <2>5. \A i \in 1 .. Len(inbox') : i + 1 \in 1 .. Len(inbox) /\ i + 1 # 1 /\ i \in Int
    BY <2>1, <2>2
  <2>6. ASSUME NEW i \in 1 .. Len(inbox') PROVE stage'[inbox'[i]] = "sent"
    BY <1>0, <2>2, <2>3, <2>4, <2>5 DEF InboxIsSent
  <2>7. ASSUME NEW i \in 1 .. Len(inbox'), NEW j \in 1 .. Len(inbox'),
               inbox'[i] = inbox'[j]
        PROVE  i = j
    <3>1. i + 1 = j + 1
      BY <2>2, <2>5, <2>7 DEF InboxIsSent
    <3> QED
      BY <2>5, <3>1
  <2> QED
    BY <2>6, <2>7 DEF InboxIsSent
<1>4. ASSUME NEW n \in Notifications, ServerStep(n) PROVE InboxIsSent'
  BY <1>0, <1>4, ServerStepLeavesSent DEF InboxIsSent
<1>5. CASE UNCHANGED vars
  BY <1>5 DEF InboxIsSent, vars, chainVars
<1> QED
  BY <1>1, <1>2, <1>3, <1>4, <1>5 DEF Next

(* Every variable keeps its type, and every chain knows only of its own    *)
(* compiler.                                                               *)
THEOREM TypeInvariant == SafetySpec => []TypeInv
<1>1. TypeInv /\ [Next]_vars => TypeInv'
  BY TypeStep, ChainStep, InboxStep DEF TypeInv
<1> QED
  BY TypeInit, <1>1, PTL DEF SafetySpec

(* Every action keeps the type of every variable.                          *)
THEOREM TypeCorrect == SafetySpec => []TypeOK
<1>1. TypeInv => TypeOK
  BY DEF TypeInv
<1> QED
  BY <1>1, TypeInvariant, PTL

-----------------------------------------------------------------------------
(* OnlyCompatibleCompilersRun is inductive with the reasons why the cache  *)
(* and a chain's own answer can be trusted: they come from a compiler path *)
(* that initialize has set for good.                                       *)
CompilerInv ==
  /\ \A n \in Notifications :
       /\ compatible[n] => isCapnpVersionCompatible
       /\ stage[n] \in {"compiling", "exited"} => compatible[n]
       /\ stage[n] = "checking" => compilerPath # ""
       /\ stage[n] # "unsent" => initialized
  /\ isCapnpVersionCompatible => compilerPath # "" /\ initialized

LEMMA CompilerStep ==
  ASSUME TypeInv, CompilerInv, [Next]_vars
  PROVE  CompilerInv'
<1> USE DEF TypeInv
<1>1. CASE Initialize
  BY <1>1 DEF TypeOK, CompilerInv, Initialize, chainVars, sharedVars
<1>2. ASSUME NEW n \in Notifications, Send(n) PROVE CompilerInv'
  BY <1>2 DEF TypeOK, CompilerInv, Send, MoveTo, settingVars, sharedVars
<1>3. CASE Receive
  <2> DEFINE n == Head(inbox)
  <2>1. n \in Notifications /\ stage[n] = "sent"
    BY <1>3, InboxHead DEF TypeOK, Receive, InboxIsSent
  <2>2. \/ /\ isCapnpVersionCompatible \/ compilerPath = ""
           /\ compatible' = [compatible EXCEPT ![n] = isCapnpVersionCompatible]
           /\ stage' = [stage EXCEPT ![n] = "checked"]
        \/ /\ compilerPath # ""
           /\ stage' = [stage EXCEPT ![n] = "checking"]
           /\ compatible' = compatible
        \/ /\ \E s \in {"thrown", "hung", "ignored"} : stage' = [stage EXCEPT ![n] = s]
           /\ compatible' = compatible
    BY <1>3 DEF Receive, CheckVersion, MoveTo
  <2>3. UNCHANGED <<initialized, compilerPath, isCapnpVersionCompatible>>
    BY <1>3 DEF Receive, settingVars, sharedVars
  <2> HIDE DEF n
  <2> QED
    BY <2>1, <2>2, <2>3 DEF TypeOK, CompilerInv
<1>3a. CASE Steal
  <2>1. Head(inbox) \in Notifications /\ stage[Head(inbox)] = "sent"
    BY <1>3a, InboxHead DEF TypeOK, Steal, InboxIsSent
  <2> QED
    BY <1>3a, <2>1 DEF TypeOK, CompilerInv, Steal, MoveTo, settingVars, sharedVars
<1>4. ASSUME NEW n \in Notifications, AnswerVersion(n) PROVE CompilerInv'
  <2>1. PICK ok \in BOOLEAN :
          /\ compatible' = [compatible EXCEPT ![n] = ok]
          /\ isCapnpVersionCompatible' = (isCapnpVersionCompatible \/ ok)
          /\ Proceed(n, ok)
    BY <1>4, SettingAssumption DEF AnswerVersion
  <2>a. PICK s \in {"publishing", "compiling", "hung", "exited"} :
          /\ stage' = [stage EXCEPT ![n] = s]
          /\ s \in {"compiling", "exited"} => ok
    BY <2>1, ProceedMoves
  <2>2. CASE ok = TRUE
    <3>1. isCapnpVersionCompatible' = TRUE /\ compilerPath' # "" /\ initialized'
      BY <1>4, <2>1, <2>2 DEF CompilerInv, AnswerVersion, settingVars
    <3> QED
      BY <1>4, <2>1, <2>a, <2>2, <3>1
         DEF TypeOK, CompilerInv, AnswerVersion, settingVars
  <2>3. CASE ok = FALSE
    <3>1. isCapnpVersionCompatible' = isCapnpVersionCompatible
      BY <2>1, <2>3 DEF TypeOK
    <3> QED
      BY <1>4, <2>1, <2>a, <2>3, <3>1
         DEF TypeOK, CompilerInv, AnswerVersion, settingVars
  <2> QED
    BY <2>2, <2>3
<1>5. ASSUME NEW n \in Notifications, StartCompile(n) PROVE CompilerInv'
  <2>1. PICK s \in {"publishing", "compiling", "hung", "exited"} :
          /\ stage' = [stage EXCEPT ![n] = s]
          /\ s \in {"compiling", "exited"} => compatible[n]
    BY <1>5, ProceedMoves DEF StartCompile
  <2> QED
    BY <1>5, <2>1 DEF TypeOK, CompilerInv, StartCompile, settingVars
<1>6. ASSUME NEW n \in Notifications, ReadInput(n) PROVE CompilerInv'
  BY <1>6 DEF TypeOK, CompilerInv, ReadInput, settingVars, sharedVars
<1>7. ASSUME NEW n \in Notifications, Exit(n) PROVE CompilerInv'
  BY <1>7 DEF TypeOK, CompilerInv, Exit, MoveTo, settingVars, sharedVars
<1>8. ASSUME NEW n \in Notifications, Finish(n) PROVE CompilerInv'
  BY <1>8 DEF TypeOK, CompilerInv, Finish, MoveTo, settingVars
<1>9. ASSUME NEW n \in Notifications, Publish(n) PROVE CompilerInv'
  BY <1>9 DEF TypeOK, CompilerInv, Publish, MoveTo, settingVars, sharedVars
<1>10. CASE UNCHANGED vars
  BY <1>10 DEF CompilerInv, vars, settingVars, chainVars, sharedVars
<1> QED
  BY <1>1, <1>2, <1>3, <1>3a, <1>4, <1>5, <1>6, <1>7, <1>8, <1>9, <1>10
     DEF Next, ServerStep

(* No compiler process runs that a version check has not let through, for  *)
(* any number of chains that share the cached answer.                      *)
THEOREM CompilersAreChecked == SafetySpec => []OnlyCompatibleCompilersRun
<1>1. Init => CompilerInv
  BY DEF Init, CompilerInv
<1>2. CompilerInv => OnlyCompatibleCompilersRun
  BY DEF CompilerInv, OnlyCompatibleCompilersRun
<1>3. TypeInv /\ CompilerInv /\ [Next]_vars => CompilerInv'
  BY CompilerStep
<1> QED
  BY <1>1, <1>2, <1>3, TypeInvariant, PTL DEF SafetySpec

-----------------------------------------------------------------------------
(* Why a chain that runs alone reports its own outcome: from the moment it *)
(* clears the map until it publishes, nobody else can have touched the map *)
(* without having been active beside it.                                   *)
OverlapIsMarked ==
  \A n, m \in Notifications : n # m /\ active(n) /\ active(m) => overlapped[n]

MapIsOwn ==
  \A n \in Notifications : ~overlapped[n] =>
    /\ stage[n] \in {"compiling", "exited"} => diagnosticMap = NoDiagnostics
    /\ stage[n] = "publishing" /\ result[n] \in Verdicts =>
         diagnosticMap = [NoDiagnostics EXCEPT ![file(n)] = Report(input[n])]

IsolationInv == OverlapIsMarked /\ MapIsOwn

(* Apart from Receive, no step makes a chain active that was not.          *)
LEMMA OnlyReceiveActivates ==
  ASSUME TypeOK, NEW n \in Notifications, ServerStep(n)
  PROVE  /\ active(n)
         /\ \A m \in Notifications : active(m)' => active(m)
         /\ \A m \in Notifications \ {n} : stage'[m] = stage[m]
                                          /\ input'[m] = input[m] /\ result'[m] = result[m]
         /\ overlapped' = overlapped /\ script' = script
<1>1. CASE AnswerVersion(n)
  <2>1. /\ \E s : stage' = [stage EXCEPT ![n] = s]
        /\ result' = result \/ \E r : result' = [result EXCEPT ![n] = r]
    BY <1>1, ProceedMoves DEF AnswerVersion
  <2> QED
    BY <1>1, <2>1 DEF TypeOK, AnswerVersion, active
<1>2. CASE StartCompile(n)
  <2>1. /\ \E s : stage' = [stage EXCEPT ![n] = s]
        /\ result' = result \/ \E r : result' = [result EXCEPT ![n] = r]
    BY <1>2, ProceedMoves DEF StartCompile
  <2> QED
    BY <1>2, <2>1 DEF TypeOK, StartCompile, active
<1>3. CASE ReadInput(n)
  BY <1>3 DEF TypeOK, ReadInput, active
<1>4. CASE Exit(n)
  BY <1>4 DEF TypeOK, Exit, MoveTo, active
<1>5. CASE Finish(n)
  BY <1>5 DEF TypeOK, Finish, MoveTo, active
<1>6. CASE Publish(n)
  BY <1>6 DEF TypeOK, Publish, MoveTo, active
<1> QED
  BY <1>1, <1>2, <1>3, <1>4, <1>5, <1>6 DEF ServerStep

(* What a step of chain n leaves in the map, if n runs alone.              *)
LEMMA OwnStepKeepsMap ==
  ASSUME TypeInv, MapIsOwn, NEW n \in Notifications, ServerStep(n), ~overlapped[n]
  PROVE  /\ stage'[n] \in {"compiling", "exited"} => diagnosticMap' = NoDiagnostics
         /\ stage'[n] = "publishing" /\ result'[n] \in Verdicts =>
              diagnosticMap' = [NoDiagnostics EXCEPT ![file(n)] = Report(input'[n])]
<1> USE DEF TypeInv
<1>1. CASE AnswerVersion(n) \/ StartCompile(n)
  <2>1. result[n] = "none" /\ \E ok : Proceed(n, ok)
    BY <1>1 DEF AnswerVersion, StartCompile, ChainHasInput
  <2>2. stage'[n] = "publishing" => result'[n] = result[n]
    BY <2>1, ProceedMoves DEF TypeOK
  <2>3. stage'[n] \in {"compiling", "exited"} => diagnosticMap' = NoDiagnostics
    BY <2>1, ProceedMoves DEF TypeOK
  <2> QED
    BY <2>1, <2>2, <2>3 DEF Verdicts
<1>3. CASE ReadInput(n)
  BY <1>3 DEF TypeOK, MapIsOwn, ReadInput, sharedVars
<1>4. CASE Exit(n)
  BY <1>4 DEF TypeOK, MapIsOwn, Exit, MoveTo, sharedVars
<1>5. CASE Finish(n)
  <2>1. diagnosticMap = NoDiagnostics /\ file(n) \in Files
    BY <1>5 DEF TypeOK, MapIsOwn, Finish, file
  <2>2. diagnosticMap[file(n)] = <<>>
    BY <2>1 DEF NoDiagnostics
  <2>3. stage'[n] = "publishing" /\ result' = result /\ input' = input
    BY <1>5 DEF TypeOK, Finish, MoveTo
  <2>4. CASE result[n] = "errors"
    <3>1. Verdict[input[n]] = "errors" /\ input[n] \in Texts
      BY <2>4 DEF ChainHasInput, Verdicts
    <3>2. Append(<<>>, input[n]) = <<input[n]>>
      OBVIOUS
    <3>3. diagnosticMap' = [diagnosticMap EXCEPT ![file(n)] =
                              Append(diagnosticMap[file(n)], input[n])]
      BY <1>5, <2>4 DEF Finish, Parse
    <3> QED
      BY <2>1, <2>2, <2>3, <3>1, <3>2, <3>3 DEF Report
  <2>5. CASE result[n] # "errors"
    <3>1. diagnosticMap' = NoDiagnostics
      BY <1>5, <2>1, <2>5 DEF Finish, Parse
    <3>2. result[n] \in Verdicts => Report(input[n]) = <<>>
      BY <2>5 DEF ChainHasInput, Report
    <3>3. NoDiagnostics = [NoDiagnostics EXCEPT ![file(n)] = <<>>]
      BY <2>1 DEF NoDiagnostics
    <3> QED
      BY <2>3, <3>1, <3>2, <3>3
  <2> QED
    BY <2>4, <2>5
<1>6. CASE Publish(n)
  BY <1>6 DEF TypeOK, Publish, MoveTo
<1> QED
  BY <1>1, <1>3, <1>4, <1>5, <1>6 DEF ServerStep

LEMMA IsolationStep ==
  ASSUME TypeInv, IsolationInv, [Next]_vars
  PROVE  IsolationInv'
<1> USE DEF TypeInv
<1>1. CASE Initialize
  BY <1>1 DEF IsolationInv, OverlapIsMarked, MapIsOwn, Initialize, chainVars,
              sharedVars, active, file
<1>2. ASSUME NEW n \in Notifications, Send(n) PROVE IsolationInv'
  BY <1>2 DEF TypeOK, IsolationInv, OverlapIsMarked, MapIsOwn, Send, MoveTo,
              sharedVars, active, file
<1>3. CASE Receive
  <2> DEFINE n == Head(inbox)
             others == {m \in Notifications \ {n} : active(m)}
  <2>1. n \in Notifications /\ stage[n] = "sent"
    BY <1>3, InboxHead DEF TypeOK, Receive, InboxIsSent
  <2>2. \A m \in Notifications \ {n} : stage'[m] = stage[m]
    BY <1>3, <2>1 DEF TypeOK, Receive, CheckVersion, MoveTo
  <2>3. stage'[n] \in {"checked", "checking", "hung", "thrown", "ignored"}
    BY <1>3, <2>1 DEF TypeOK, Receive, CheckVersion, MoveTo
  <2>4. UNCHANGED <<script, input, result, diagnosticMap>>
    BY <1>3 DEF Receive, sharedVars
  <2>5. \/ overlapped' = [m \in Notifications |->
                            overlapped[m] \/ (others # {} /\ m \in others \cup {n})]
        \/ overlapped' = overlapped /\ stage'[n] = "ignored"
    BY <1>3, <2>1, Zenon DEF TypeOK, Receive, MoveTo
  <2>6. \A m \in Notifications : overlapped[m] => overlapped'[m]
    BY <2>5
  <2>7. \A m \in Notifications \ {n} :
          active(m) /\ stage'[n] # "ignored" => overlapped'[m] /\ overlapped'[n]
    BY <2>1, <2>5
  <2>8. MapIsOwn'
    BY <2>1, <2>2, <2>3, <2>4, <2>6 DEF IsolationInv, MapIsOwn, file
  <2>9. OverlapIsMarked'
    <3> SUFFICES ASSUME NEW m \in Notifications, NEW k \in Notifications,
                        m # k, active(m)', active(k)'
                 PROVE  overlapped'[m]
      BY DEF OverlapIsMarked
    <3>1. CASE m = n \/ k = n
      BY <2>2, <2>3, <2>7, <3>1 DEF active
    <3>2. CASE m # n /\ k # n
      BY <2>2, <2>6, <3>2 DEF active, IsolationInv, OverlapIsMarked
    <3> QED
      BY <3>1, <3>2
  <2> QED
    BY <2>8, <2>9 DEF IsolationInv
<1>3a. CASE Steal
  <2>1. stage' = [stage EXCEPT ![Head(inbox)] = "stolen"]
    BY <1>3a DEF Steal, MoveTo
  <2> QED
    BY <1>3a, <2>1 DEF TypeOK, IsolationInv, OverlapIsMarked, MapIsOwn, Steal, sharedVars,
                       active, file
<1>4. ASSUME NEW n \in Notifications, ServerStep(n) PROVE IsolationInv'
  <2>1. OverlapIsMarked'
    BY <1>4, OnlyReceiveActivates DEF IsolationInv, OverlapIsMarked
  <2>2. ASSUME NEW m \in Notifications, m # n, ~overlapped'[m]
        PROVE  ~active(m)
    BY <1>4, <2>2, OnlyReceiveActivates DEF IsolationInv, OverlapIsMarked
  <2>3. MapIsOwn'
    <3> SUFFICES ASSUME NEW m \in Notifications, ~overlapped'[m]
                 PROVE  /\ stage'[m] \in {"compiling", "exited"} => diagnosticMap' = NoDiagnostics
                        /\ stage'[m] = "publishing" /\ result'[m] \in Verdicts =>
                             diagnosticMap' = [NoDiagnostics EXCEPT ![file(m)'] = Report(input'[m])]
      BY DEF MapIsOwn
    <3>1. CASE m # n
      BY <1>4, <2>2, <3>1, OnlyReceiveActivates DEF active
    <3>2. CASE m = n
      <4>1. file(n)' = file(n) /\ ~overlapped[n]
        BY <1>4, <3>2, OnlyReceiveActivates DEF file
      <4> QED
        BY <1>4, <3>2, <4>1, OwnStepKeepsMap DEF IsolationInv
    <3> QED
      BY <3>1, <3>2
  <2> QED
    BY <2>1, <2>3 DEF IsolationInv
<1>5. CASE UNCHANGED vars
  BY <1>5 DEF IsolationInv, OverlapIsMarked, MapIsOwn, vars, chainVars,
              sharedVars, active, file
<1> QED
  BY <1>1, <1>2, <1>3, <1>3a, <1>4, <1>5 DEF Next

LEMMA IsolatedPublish ==
  ASSUME TypeInv, IsolationInv, NEW n \in Notifications,
         Publish(n), ~overlapped[n], result[n] \in Verdicts
  PROVE  shown' = [shown EXCEPT ![file(n)] = Report(input[n])]
<1>1. file(n) \in Files /\ shown \in [Files -> Seq(Texts)]
  BY DEF TypeInv, TypeOK, file
<1>2. diagnosticMap = [NoDiagnostics EXCEPT ![file(n)] = Report(input[n])]
  BY DEF IsolationInv, MapIsOwn, Publish
<1>3. CASE Report(input[n]) = <<>>
  <2>1. diagnosticMap = NoDiagnostics
    BY <1>1, <1>2, <1>3 DEF NoDiagnostics
  <2> QED
    BY <1>3, <2>1 DEF Publish
<1>4. CASE Report(input[n]) # <<>>
  <2>1. diagnosticMap[file(n)] = Report(input[n])
    BY <1>1, <1>2 DEF NoDiagnostics
  <2>2. \A f \in Files \ {file(n)} : diagnosticMap[f] = <<>>
    BY <1>1, <1>2 DEF NoDiagnostics
  <2>3. diagnosticMap # NoDiagnostics
    BY <1>1, <1>4, <2>1 DEF NoDiagnostics
  <2>4. shown' = [f \in Files |->
                    IF diagnosticMap[f] # <<>> THEN diagnosticMap[f] ELSE shown[f]]
    BY <2>3 DEF Publish
  <2> QED
    BY <1>1, <1>4, <2>1, <2>2, <2>4
<1> QED
  BY <1>3, <1>4

(* A chain that ran beside no other publishes the outcome of its own       *)
(* compile and nothing else, however many chains ran before it.            *)
THEOREM IsolatedCompilesAreReported == SafetySpec => IsolatedCompileIsReported
<1>1. Init => IsolationInv
  BY DEF Init, IsolationInv, OverlapIsMarked, MapIsOwn, active
<1>2. TypeInv /\ IsolationInv /\ [Next]_vars => IsolationInv'
  BY IsolationStep
<1>3. TypeInv /\ IsolationInv =>
        [\A n \in Notifications :
           (Publish(n) /\ ~overlapped[n] /\ result[n] \in Verdicts) =>
             shown' = [shown EXCEPT ![file(n)] = Report(input[n])]]_vars
  BY IsolatedPublish
<1> QED
  BY <1>1, <1>2, <1>3, TypeInvariant, PTL DEF SafetySpec, IsolatedCompileIsReported

-----------------------------------------------------------------------------
(* The files and texts of the failed compiles that have been applied.      *)
FailedCompiles ==
  {<<file(n), input[n]>> :
     n \in {m \in Notifications : /\ result[m] = "errors" /\ Verdict[input[m]] = "errors"
                                  /\ stage[m] \in {"publishing", "done"}}}

(* The outcome of a finished compile is never forgotten or rewritten.      *)
LEMMA FailedIsStable ==
  ASSUME TypeInv, [Next]_vars
  PROVE  FailedCompiles \subseteq FailedCompiles'
<1> USE DEF TypeInv
<1> SUFFICES ASSUME NEW n \in Notifications, result[n] = "errors",
                    stage[n] \in {"publishing", "done"}
             PROVE  /\ file(n)' = file(n) /\ input'[n] = input[n]
                    /\ result'[n] = "errors" /\ stage'[n] \in {"publishing", "done"}
  BY DEF FailedCompiles
<1>1. CASE Initialize
  BY <1>1 DEF file, Initialize, chainVars
<1>2. ASSUME NEW k \in Notifications, Send(k)
      PROVE  UNCHANGED <<file(n), input[n], result[n], stage[n]>>
  BY <1>2 DEF TypeOK, file, Send, MoveTo
<1>3. CASE Receive \/ Steal
  <2>1. Head(inbox) \in Notifications /\ stage[Head(inbox)] = "sent"
    BY <1>3, InboxHead DEF TypeOK, Receive, Steal, InboxIsSent
  <2>2. stage'[n] = stage[n]
    BY <1>3, <2>1 DEF TypeOK, Receive, Steal, CheckVersion, MoveTo
  <2> QED
    BY <1>3, <2>2 DEF file, Receive, Steal
<1>4. ASSUME NEW k \in Notifications, ServerStep(k), k # n
      PROVE  UNCHANGED <<file(n), input[n], result[n], stage[n]>>
  BY <1>4, OnlyReceiveActivates DEF file
<1>5. ASSUME ServerStep(n)
      PROVE  /\ UNCHANGED <<file(n), input[n], result[n]>>
             /\ stage'[n] = "done"
  <2>1. Publish(n)
    BY <1>5 DEF ServerStep, AnswerVersion, StartCompile, ReadInput, Exit, Finish
  <2> QED
    BY <2>1 DEF TypeOK, file, Publish, MoveTo
<1>6. CASE UNCHANGED vars
  BY <1>6 DEF file, vars, chainVars
<1> QED
  BY <1>1, <1>2, <1>3, <1>4, <1>5, <1>6 DEF Next

(* Every diagnostic of file f in a list comes from one of the compiles.    *)
AllFrom(f, list, compiles) == \A i \in 1 .. Len(list) : <<f, list[i]>> \in compiles

CompileInv ==
  \A f \in Files : /\ AllFrom(f, diagnosticMap[f], FailedCompiles)
                   /\ AllFrom(f, shown[f], FailedCompiles)

LEMMA EmptyAllFrom == ASSUME NEW f, NEW compiles PROVE AllFrom(f, <<>>, compiles)
<1>1. Len(<<>>) = 0
  BY EmptySeq
<1> QED
  BY <1>1 DEF AllFrom

LEMMA AppendAllFrom ==
  ASSUME NEW f, NEW compiles, NEW list \in Seq(Texts), NEW x \in Texts,
         AllFrom(f, list, compiles), <<f, x>> \in compiles
  PROVE  AllFrom(f, Append(list, x), compiles)
<1> SUFFICES ASSUME NEW i \in 1 .. Len(Append(list, x))
             PROVE  <<f, Append(list, x)[i]>> \in compiles
  BY DEF AllFrom
<1>1. Len(list) \in Nat /\ Len(Append(list, x)) = Len(list) + 1
  BY AppendProperties, LenProperties
<1>2. CASE i \in 1 .. Len(list)
  BY <1>2, AppendProperties DEF AllFrom
<1>3. CASE i = Len(list) + 1
  BY <1>3, AppendProperties
<1>4. i \in 1 .. Len(list) \/ i = Len(list) + 1
  BY <1>1
<1> QED
  BY <1>2, <1>3, <1>4

(* The only step that adds a diagnostic is the Finish of a failed compile. *)
LEMMA FinishHasCompile ==
  ASSUME TypeInv, CompileInv, NEW n \in Notifications, Finish(n),
         FailedCompiles \subseteq FailedCompiles', NEW f \in Files
  PROVE  AllFrom(f, diagnosticMap'[f], FailedCompiles')
<1>0. AllFrom(f, diagnosticMap[f], FailedCompiles')
  BY DEF CompileInv, AllFrom
<1>1. CASE diagnosticMap'[f] = diagnosticMap[f]
  BY <1>0, <1>1
<1>2. CASE diagnosticMap'[f] # diagnosticMap[f]
  <2>1. result[n] = "errors" /\ f = file(n)
    BY <1>2 DEF TypeInv, TypeOK, Finish, Parse
  <2>2. input[n] \in Texts /\ Verdict[input[n]] = "errors"
    BY <2>1 DEF TypeInv, ChainHasInput, Verdicts
  <2>3. diagnosticMap[f] \in Seq(Texts)
    BY DEF TypeInv, TypeOK
  <2>4. diagnosticMap'[f] = Append(diagnosticMap[f], input[n])
    BY <2>1 DEF TypeInv, TypeOK, Finish, Parse
  <2>5. /\ file(n)' = file(n) /\ input' = input /\ result' = result
        /\ stage'[n] = "publishing"
    BY DEF TypeInv, TypeOK, Finish, MoveTo, file
  <2>6. <<f, input[n]>> \in FailedCompiles'
    BY <2>1, <2>2, <2>5 DEF FailedCompiles
  <2> QED
    BY <1>0, <2>2, <2>3, <2>4, <2>6, AppendAllFrom
<1> QED
  BY <1>1, <1>2

LEMMA CompileStep ==
  ASSUME TypeInv, CompileInv, [Next]_vars
  PROVE  CompileInv'
<1>0. FailedCompiles \subseteq FailedCompiles'
  BY FailedIsStable
<1> SUFFICES ASSUME NEW f \in Files
             PROVE  /\ AllFrom(f, diagnosticMap'[f], FailedCompiles')
                    /\ AllFrom(f, shown'[f], FailedCompiles')
  BY DEF CompileInv
<1>1. /\ AllFrom(f, diagnosticMap[f], FailedCompiles')
      /\ AllFrom(f, shown[f], FailedCompiles')
      /\ AllFrom(f, <<>>, FailedCompiles')
  <2>1. AllFrom(f, diagnosticMap[f], FailedCompiles) /\ AllFrom(f, shown[f], FailedCompiles)
    BY DEF CompileInv
  <2> QED
    BY <1>0, <2>1, EmptyAllFrom DEF AllFrom
<1>2. ASSUME NEW n \in Notifications, StartCompile(n) \/ AnswerVersion(n)
      PROVE  shown' = shown /\ diagnosticMap'[f] \in {diagnosticMap[f], <<>>}
  BY <1>2 DEF StartCompile, AnswerVersion, Proceed, NoDiagnostics
<1>3. ASSUME NEW n \in Notifications, Publish(n)
      PROVE  /\ diagnosticMap' = diagnosticMap
             /\ shown'[f] \in {<<>>, diagnosticMap[f], shown[f]}
  BY <1>3 DEF TypeInv, TypeOK, Publish, sharedVars, NoDiagnostics
<1>4. ASSUME NEW n \in Notifications, Finish(n)
      PROVE  shown' = shown /\ AllFrom(f, diagnosticMap'[f], FailedCompiles')
  BY <1>0, <1>4, FinishHasCompile DEF Finish
<1>5. \/ UNCHANGED <<diagnosticMap, shown>>
      \/ \E n \in Notifications :
           StartCompile(n) \/ AnswerVersion(n) \/ Finish(n) \/ Publish(n)
  BY DEF Next, Initialize, Send, Receive, Steal, ServerStep, ReadInput, Exit, vars, sharedVars
<1> QED
  BY <1>1, <1>2, <1>3, <1>4, <1>5

(* No interleaving of chains puts a diagnostic under a file it was not     *)
(* produced for, or keeps one that no compile produced.                    *)
THEOREM DiagnosticsAreGenuine == SafetySpec => []DiagnosticsHaveACompile
<1>1. Init => CompileInv
  <2> SUFFICES ASSUME Init, NEW f \in Files
               PROVE  /\ AllFrom(f, diagnosticMap[f], FailedCompiles)
                      /\ AllFrom(f, shown[f], FailedCompiles)
    BY DEF CompileInv
  <2>1. diagnosticMap[f] = <<>> /\ shown[f] = <<>>
    BY DEF Init, NoDiagnostics
  <2> QED
    BY <2>1, EmptyAllFrom
<1>2. TypeInv /\ CompileInv => DiagnosticsHaveACompile
  <2> SUFFICES ASSUME TypeInv, CompileInv, NEW f \in Files
               PROVE  /\ \A i \in DOMAIN diagnosticMap[f] :
                           \E n \in Notifications : Failed(n, f, diagnosticMap[f][i])
                      /\ \A i \in DOMAIN shown[f] :
                           \E n \in Notifications : Failed(n, f, shown[f][i])
    BY DEF DiagnosticsHaveACompile
  <2>1. /\ DOMAIN diagnosticMap[f] = 1 .. Len(diagnosticMap[f])
        /\ DOMAIN shown[f] = 1 .. Len(shown[f])
    BY LenProperties DEF TypeInv, TypeOK
  <2>2. \A x : <<f, x>> \in FailedCompiles => \E n \in Notifications : Failed(n, f, x)
    BY DEF FailedCompiles, Failed
  <2> QED
    BY <2>1, <2>2 DEF CompileInv, AllFrom
<1>3. TypeInv /\ CompileInv /\ [Next]_vars => CompileInv'
  BY CompileStep
<1> QED
  BY <1>1, <1>2, <1>3, TypeInvariant, PTL DEF SafetySpec

=============================================================================
