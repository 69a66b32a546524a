------------------------ MODULE SubprocessRunnerProofs ------------------------
(***************************************************************************)
(* Theorems about SubprocessRunner, for pipes of any capacity and programs *)
(* that write any amount: what run() returns of the child that has ended.  *)
(***************************************************************************)
EXTENDS SubprocessRunner, TLAPS

(* Only a running program writes, and no more than it has to; it closes a  *)
(* pipe, or exits, when it has written everything, or exits before it was  *)
(* a program at all.                                                       *)
ChildInv ==
  /\ \A s \in Streams : taken[s] <= written[s] /\ written[s] <= program[s]
  /\ \A s \in Streams \ open : written[s] = program[s]
  /\ child \in {"none", "forked", "twin"} => \A s \in Streams : written[s] = 0
  /\ child = "exited" => \/ code = program.code /\ \A s \in Streams : written[s] = program[s]
                         \/ code = 1

(* A reader is done with a whole message, or at the end of its pipe; and   *)
(* the end of a pipe that has a message on it comes before all of it.      *)
ReaderInv ==
  /\ child = "none" => \A s \in Streams : reader[s] = "idle"
  /\ reader["err"] # "failed" /\ (reader["err"] = "done" => AtEof("err"))
  /\ reader["out"] = "done" /\ program.isCapnpMessageOutput =>
       \/ taken["out"] = program.out /\ 0 < taken["out"]
       \/ taken["out"] = 0 /\ AtEof("out")

(* waitpid comes when both readers are done, and a result when the child   *)
(* has ended.                                                              *)
ResultInv ==
  /\ result = Pending \/ result = Rejected \/ HasResult
  /\ waiting => Readers("done") /\ result = Pending /\ child # "none"
  /\ HasResult /\ child # "none" =>
       /\ Ended /\ Readers("done")
       /\ result = [kind |-> "result", exitCode |-> WEXITSTATUS, errors |-> taken["err"],
                    message |-> program.isCapnpMessageOutput /\ taken["out"] > 0]

(* No message of the client is read twice.                                 *)
StdinInv == stdin + stolen <= MaxRequests

Inv == TypeOK /\ ChildInv /\ ReaderInv /\ ResultInv /\ StdinInv

(* Nothing has been forked, written or read.                               *)
LEMMA InitInv == Init => Inv
<1> USE PipeAssumption
<1>1. Init => TypeOK
  <2> SUFFICES ASSUME Init PROVE TypeOK
    OBVIOUS
  <2>1. \A s \in Streams : written[s] = 0 /\ taken[s] = 0 /\ Held(s) = 0
    BY DEF Init, Held
  <2>2. result \in {Pending, Rejected}
    BY DEF Init
  <2>3. /\ written \in [Streams -> 0 .. MaxPieces] /\ taken \in [Streams -> 0 .. MaxPieces]
        /\ reader \in [Streams -> {"idle", "reading", "done", "failed"}]
        /\ stdin \in 0 .. MaxRequests /\ stolen \in 0 .. MaxRequests
        /\ \A s \in Streams : Held(s) \in 0 .. PipeCapacity
    BY <2>1 DEF Init
  <2>4. /\ program \in [out : 0 .. MaxPieces, err : 0 .. MaxPieces, code : {0, 1},
                         isCapnpMessageOutput : BOOLEAN]
        /\ child = "none" /\ code = 0 /\ open = Streams /\ waiting = FALSE
    BY DEF Init
  <2> QED
    BY <2>2, <2>3, <2>4 DEF TypeOK
<1>2. Init => ChildInv /\ ReaderInv /\ ResultInv /\ StdinInv
  BY DEF Init, ChildInv, ReaderInv, ResultInv, StdinInv, Streams, HasResult, Pending, Readers
<1> QED
  BY <1>1, <1>2 DEF Inv

(* Every step keeps the types.                                             *)
LEMMA TypeStep == Inv /\ [Next]_vars => TypeOK'
<1> SUFFICES ASSUME Inv, [Next]_vars
             PROVE  TypeOK'
  OBVIOUS
<1> USE PipeAssumption DEF TypeOK, Inv, StdinInv, Streams, Held, childVars, parentVars
<1>1. CASE UNCHANGED vars
  BY <1>1 DEF vars
<1>2. CASE Fork
  <2>1. WorkdirError \in [kind : {"result"}, exitCode : {0, 1}, message : BOOLEAN, errors : 0 .. MaxPieces]
    BY DEF WorkdirError
  <2>2. result' \in {result, WorkdirError, Rejected} /\ child' \in {child, "forked"}
    BY <1>2 DEF Fork
  <2>3. reader' \in [Streams -> {"idle", "reading", "done", "failed"}]
    BY <1>2 DEF Fork
  <2>4. UNCHANGED <<program, code, open, written, taken, waiting, stdin, stolen>>
    BY <1>2 DEF Fork
  <2> QED
    BY <2>1, <2>2, <2>3, <2>4
<1>3. CASE Exec
  BY <1>3 DEF Exec
<1>4. CASE Exit
  BY <1>4 DEF Exit
<1>5. CASE Kill
  BY <1>5 DEF Kill
<1>6. CASE Steal
  BY <1>6 DEF Steal
<1>7. CASE Garble
  BY <1>7 DEF Garble
<1>8. CASE HandleRequest
  BY <1>8 DEF HandleRequest
<1>9. CASE Reject
  BY <1>9 DEF Reject, Rejected
<1>12. CASE Wait
  BY <1>12 DEF Wait
<1>13. CASE Reap
  <2>1. /\ waiting' = FALSE /\ UNCHANGED <<childVars, taken, reader, stdin, stolen>>
        /\ result' = [kind |-> "result", exitCode |-> WEXITSTATUS, errors |-> taken["err"],
                      message |-> program.isCapnpMessageOutput /\ taken["out"] > 0]
    BY <1>13 DEF Reap
  <2>2. WEXITSTATUS \in {0, 1} /\ taken["err"] \in 0 .. MaxPieces
    BY DEF WEXITSTATUS
  <2>3. result' \in [kind : {"result"}, exitCode : {0, 1}, message : BOOLEAN, errors : 0 .. MaxPieces]
    BY <2>1, <2>2
  <2> QED
    BY <2>1, <2>3
<1>14. ASSUME NEW s \in Streams, Close(s) PROVE TypeOK'
  BY <1>14 DEF Close
<1>10. ASSUME NEW s \in Streams, Write(s) PROVE TypeOK'
  BY <1>10 DEF Write, ChildInv
<1>11. ASSUME NEW s \in Streams, Read(s) PROVE TypeOK'
  BY <1>11 DEF Read, ReaderEnds, EndOfOutput, ChildInv
<1> QED
  BY <1>1, <1>2, <1>3, <1>4, <1>5, <1>6, <1>7, <1>8, <1>9, <1>10, <1>11, <1>12, <1>13, <1>14
     DEF Next, ChildStep, ParentStep

(* What waitpid says of a child that has ended goes into the result.       *)
LEMMA ReapResult == Inv /\ Reap => ResultInv'
<1> SUFFICES ASSUME Inv, Reap PROVE ResultInv'
  OBVIOUS
<1> DEFINE message == program.isCapnpMessageOutput /\ taken["out"] > 0
<1>1. /\ Ended /\ Readers("done") /\ waiting' = FALSE
      /\ result' = [kind |-> "result", exitCode |-> WEXITSTATUS, errors |-> taken["err"],
                    message |-> message]
  BY DEF Reap, Inv, ResultInv
<1>2. /\ Ended' /\ Readers("done")' /\ WEXITSTATUS' = WEXITSTATUS
      /\ taken' = taken /\ message' = message
  BY <1>1 DEF Reap, childVars, Ended, Readers, WEXITSTATUS
<1> HIDE DEF message
<1>3. result' = [kind |-> "result", exitCode |-> WEXITSTATUS', errors |-> taken'["err"],
                 message |-> message']
  BY <1>1, <1>2, Zenon
<1>4. HasResult' /\ ~waiting'
  BY <1>1 DEF HasResult
<1> QED
  BY <1>2, <1>3, <1>4, Zenon DEF ResultInv, message

(* Every step of the child and of its parent keeps the rest.               *)
LEMMA RunStep == Inv /\ TypeOK' /\ [Next]_vars => ChildInv' /\ ReaderInv' /\ ResultInv' /\ StdinInv'
<1> SUFFICES ASSUME Inv, TypeOK', [Next]_vars
             PROVE  ChildInv' /\ ReaderInv' /\ ResultInv' /\ StdinInv'
  OBVIOUS
<1> USE PipeAssumption DEF TypeOK, Inv, Streams, Held, childVars, parentVars,
        ChildInv, ReaderInv, ResultInv, StdinInv, AtEof, Ended, HasResult, WEXITSTATUS, Readers
<1>1. CASE UNCHANGED vars
  BY <1>1 DEF vars
<1>2. CASE Fork
  <2>1. /\ child = "none" /\ UNCHANGED <<program, code, open, written, taken, waiting, stdin, stolen>>
        /\ child' \in {"none", "forked"} /\ reader["err"] = "idle" /\ reader["out"] = "idle"
        /\ \/ child' = "forked" /\ reader' = [s \in Streams |-> "reading"] /\ result' = Pending
           \/ child' = "none" /\ reader' = reader /\ result' \in {WorkdirError, Rejected}
    BY <1>2 DEF Fork
  <2>2. ChildInv' /\ StdinInv'
    BY <2>1
  <2>3. ReaderInv'
    BY <2>1
  <2>4. ResultInv'
    BY <2>1 DEF WorkdirError, Pending
  <2> QED
    BY <2>2, <2>3, <2>4
<1>3. CASE Exec
  BY <1>3 DEF Exec
<1>4. CASE Exit
  BY <1>4 DEF Exit
<1>5. CASE Kill
  BY <1>5 DEF Kill
<1>6. CASE Steal
  BY <1>6 DEF Steal
<1>7. CASE Garble
  BY <1>7 DEF Garble
<1>8. CASE HandleRequest
  BY <1>8 DEF HandleRequest
<1>9. CASE Reject
  BY <1>9 DEF Reject, Rejected, Pending
<1>12. CASE Wait
  BY <1>12 DEF Wait, Pending
<1>13. CASE Reap
  <2>1. ChildInv' /\ ReaderInv' /\ StdinInv'
    BY <1>13 DEF Reap
  <2> HIDE DEF ResultInv
  <2>2. ResultInv'
    BY <1>13, ReapResult
  <2> QED
    BY <2>1, <2>2
<1>14. ASSUME NEW s \in Streams, Close(s) PROVE ChildInv' /\ ReaderInv' /\ ResultInv' /\ StdinInv'
  BY <1>14 DEF Close
<1>10. ASSUME NEW s \in Streams, Write(s) PROVE ChildInv' /\ ReaderInv' /\ ResultInv' /\ StdinInv'
  BY <1>10 DEF Write
<1>11. ASSUME NEW s \in Streams, Read(s) PROVE ChildInv' /\ ReaderInv' /\ ResultInv' /\ StdinInv'
  BY <1>11 DEF Read, ReaderEnds, EndOfOutput
<1> QED
  BY <1>1, <1>2, <1>3, <1>4, <1>5, <1>6, <1>7, <1>8, <1>9, <1>10, <1>11, <1>12, <1>13, <1>14
     DEF Next, ChildStep, ParentStep

(* The types, and what is known of the child, the readers and the result.  *)
THEOREM Invariance == Spec => []Inv
<1>1. Inv /\ [Next]_vars => Inv'
  BY TypeStep, RunStep DEF Inv
<1> QED
  BY InitInv, <1>1, PTL DEF Spec

(* Every variable keeps its type; a pipe never holds more than fits.       *)
THEOREM TypeCorrect == Spec => []TypeOK
<1>1. Inv => TypeOK
  BY DEF Inv
<1> QED
  BY <1>1, Invariance, PTL

(* For any amount of output, any interleaving of writes and reads, pipes   *)
(* closed early and a kill at any point: the message that run() returns is *)
(* a whole one, the error text is all of it, and the exit code is that of  *)
(* a child that exited, and 0 for one that was killed.                     *)
THEOREM ResultIsGenuine == Spec => []ResultIsTheChilds
<1>1. Inv => ResultIsTheChilds
  <2> SUFFICES ASSUME Inv, HasResult, child # "none"
               PROVE  /\ result.message => written["out"] = program.out /\ program.out > 0
                      /\ result.errors = written["err"]
                      /\ result.exitCode = IF child = "exited" THEN code ELSE 0
                      /\ result.exitCode = 0 /\ program.isCapnpMessageOutput /\ ~result.message =>
                           child = "killed" \/ program.out = 0
    BY DEF ResultIsTheChilds
  <2> USE DEF Inv, TypeOK, ChildInv, ReaderInv, ResultInv, AtEof, Held, Streams, Ended, Readers
  <2> DEFINE message == program.isCapnpMessageOutput /\ taken["out"] > 0
  <2>a. result = [kind |-> "result", exitCode |-> WEXITSTATUS, errors |-> taken["err"],
                  message |-> message]
    OBVIOUS
  <2> HIDE DEF message
  <2>b. result.message = message /\ result.exitCode = WEXITSTATUS /\ result.errors = taken["err"]
    BY <2>a
  <2>1. /\ result.exitCode = WEXITSTATUS /\ result.errors = taken["err"]
        /\ result.message => program.isCapnpMessageOutput /\ taken["out"] > 0
        /\ program.isCapnpMessageOutput /\ taken["out"] > 0 => result.message
    BY <2>b, Zenon DEF message
  <2>2. result.errors = written["err"]
    <3>1. written["err"] - taken["err"] = 0 /\ written["err"] \in Nat /\ taken["err"] \in Nat
      OBVIOUS
    <3> HIDE DEF Inv
    <3> QED
      BY <2>1, <3>1
  <2>3. result.message => written["out"] = program.out /\ program.out > 0
    BY <2>1
  <2>4. result.exitCode = IF child = "exited" THEN code ELSE 0
    BY <2>1 DEF WEXITSTATUS
  <2>5. ASSUME result.exitCode = 0, program.isCapnpMessageOutput, ~result.message
        PROVE  child = "killed" \/ program.out = 0
    <3>1. taken["out"] = 0 /\ written["out"] = 0
      BY <2>1, <2>5
    <3>2. CASE child = "exited"
      BY <2>4, <2>5, <3>1, <3>2
    <3> QED
      BY <3>2
  <2> QED
    BY <2>2, <2>3, <2>4, <2>5
<1> QED
  BY <1>1, Invariance, PTL
===============================================================================
