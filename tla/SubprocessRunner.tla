--------------------------- MODULE SubprocessRunner ---------------------------
(***************************************************************************)
(* SubprocessRunner::run: one child process, the two pipes it writes to,   *)
(* the two readers of the event loop, and how the result is put together.  *)
(*                                                                         *)
(* What the child writes is counted in pieces no larger than a pipe holds. *)
(* Its stdout is a Cap'n Proto message whose first piece announces its     *)
(* length, or text; its stderr is text.                                    *)
(***************************************************************************)
EXTENDS Naturals

CONSTANTS
  PipeCapacity,     (* pieces a pipe holds                                   *)
  MaxPieces,        (* pieces a program writes to a pipe at most             *)
  WorkingDirs,      (* whether the working directory can be entered          *)
  ForkFails,        (* whether pipe() or fork() may fail                     *)
  ExecOutcomes,     (* how exec may go: "ok", "ENOENT", "EACCES"             *)
  Kills,            (* whether a signal may kill the program                 *)
  MaxRequests       (* messages the client has on stdin meanwhile            *)

ASSUME PipeAssumption ==
  /\ PipeCapacity \in Nat \ {0} /\ MaxPieces \in Nat /\ MaxRequests \in Nat
  /\ WorkingDirs \subseteq BOOLEAN /\ ForkFails \in BOOLEAN /\ Kills \in BOOLEAN
  /\ ExecOutcomes \subseteq {"ok", "ENOENT", "EACCES"}

Streams == {"out", "err"}

VARIABLES
  program,    (* what the command does: its output, its exit code, and       *)
              (* whether the caller expects a message on stdout              *)
  child,      (* "none", "forked", "running", "exited", "killed", or "twin": *)
              (* a copy of the server that never became the command          *)
  code,       (* the exit code of the child                                  *)
  open,       (* the pipes a running child holds open                        *)
  written,    (* pieces written to each pipe ...                             *)
  taken,      (* ... and pieces read from it                                 *)
  reader,     (* each reader: "idle", "reading", "done" or "failed"          *)
  waiting,    (* the parent, event loop and all, is in waitpid               *)
  result,     (* the RunResult, or how run() failed                          *)
  stdin,      (* messages of the client nobody has read                      *)
  stolen      (* messages of the client the twin has read                    *)
childVars  == <<program, child, code, open, written>>
parentVars == <<taken, reader, waiting, result>>
vars == <<childVars, parentVars, stdin, stolen>>

Pending     == [kind |-> "pending"]
Rejected    == [kind |-> "rejected"]
WorkdirError == [kind |-> "result", exitCode |-> 0, message |-> FALSE, errors |-> 0]
Held(s)     == written[s] - taken[s]
Ended       == child \in {"exited", "killed"}
AtEof(s)    == (Ended \/ s \notin open) /\ Held(s) = 0

Init ==
  /\ program \in [out : 0 .. MaxPieces, err : 0 .. MaxPieces, code : {0, 1},
                  isCapnpMessageOutput : BOOLEAN]
  /\ child = "none" /\ code = 0 /\ open = Streams /\ waiting = FALSE
  /\ written = [s \in Streams |-> 0]
  /\ taken   = [s \in Streams |-> 0]
  /\ reader  = [s \in Streams |-> "idle"]
  /\ result = Pending
  /\ stdin = MaxRequests /\ stolen = 0

-----------------------------------------------------------------------------
(* run() up to the two readers.                                            *)
Fork ==
  /\ child = "none" /\ result = Pending
  /\ \/ /\ TRUE \in WorkingDirs
        /\ child' = "forked"
        /\ reader' = [s \in Streams |-> "reading"]
        /\ UNCHANGED result
     \/ /\ FALSE \in WorkingDirs
        /\ result' = WorkdirError
        /\ UNCHANGED <<child, reader>>
     \/ /\ TRUE \in WorkingDirs /\ ForkFails
        /\ result' = Rejected
        /\ UNCHANGED <<child, reader>>
  /\ UNCHANGED <<program, code, open, written, taken, waiting, stdin, stolen>>

(* The child: exec succeeds, or there is no such command and it exits, or  *)
(* KJ_FAIL_SYSCALL throws, out of run() and into the child's copy of the   *)
(* event loop.                                                             *)
Exec ==
  /\ child = "forked"
  /\ \/ "ok" \in ExecOutcomes /\ child' = "running" /\ UNCHANGED code
     \/ "ENOENT" \in ExecOutcomes /\ child' = "exited" /\ code' = 1
     \/ "EACCES" \in ExecOutcomes /\ child' = "twin" /\ UNCHANGED code
  /\ UNCHANGED <<program, open, written, parentVars, stdin, stolen>>

(* Slip: nothing holds the writer back.                                    *)
WriteAlways(s) ==
  /\ child = "running"
  /\ written[s] < program[s]
  /\ written' = [written EXCEPT ![s] = @ + 1]
  /\ UNCHANGED <<program, child, code, open, parentVars, stdin, stolen>>
(* The program writes to its pipes in any order, and waits when one is     *)
(* full.                                                                   *)
Write(s) ==
  /\ child = "running"
  /\ written[s] < program[s] /\ Held(s) < PipeCapacity
  /\ written' = [written EXCEPT ![s] = @ + 1]
  /\ UNCHANGED <<program, child, code, open, parentVars, stdin, stolen>>

(* A program may close a pipe, or both, and go on.                         *)
Close(s) ==
  /\ child = "running" /\ s \in open
  /\ written[s] = program[s]
  /\ open' = open \ {s}
  /\ UNCHANGED <<program, child, code, written, parentVars, stdin, stolen>>

Exit ==
  /\ child = "running"
  /\ \A s \in Streams : written[s] = program[s]
  /\ child' = "exited"
  /\ code' = program.code
  /\ UNCHANGED <<program, open, written, parentVars, stdin, stolen>>

Kill ==
  /\ Kills /\ child = "running"
  /\ child' = "killed"
  /\ UNCHANGED <<program, code, open, written, parentVars, stdin, stolen>>

(* The twin's event loop reads the stdin it shares with its parent, until  *)
(* the client closes it (which does not happen here) ...                   *)
Steal ==
  /\ child = "twin" /\ stdin > 0
  /\ stdin' = stdin - 1
  /\ stolen' = stolen + 1
  /\ UNCHANGED <<childVars, parentVars>>

(* ... and what it then publishes goes to the pipe that is its stdout: no  *)
(* message starts like that, and the parent's reader throws.               *)
Garble ==
  /\ child = "twin" /\ stolen > 0
  /\ program.isCapnpMessageOutput /\ reader["out"] = "reading"
  /\ reader' = [reader EXCEPT !["out"] = "failed"]
  /\ UNCHANGED <<childVars, taken, waiting, result, stdin, stolen>>

-----------------------------------------------------------------------------
(* The parent's event loop goes on with the client's messages, unless it   *)
(* is in waitpid ...                                                       *)
HandleRequest ==
  /\ stdin > 0 /\ ~waiting
  /\ stdin' = stdin - 1
  /\ UNCHANGED <<childVars, parentVars, stolen>>

ReaderEnds(s, how) == reader' = [reader EXCEPT ![s] = how]

(* Slip: a part of a message passes for one.                               *)
EndOfOutputAnyway(s) == "done"
(* tryReadMessage: nothing at all is no message, a part of one throws.     *)
EndOfOutput(s) ==
  IF s = "out" /\ program.isCapnpMessageOutput /\ 0 < taken["out"]
  THEN "failed" ELSE "done"

(* Slip: stderr is read when stdout is through.                            *)
ReadInOrder(s) ==
  /\ reader[s] = "reading" /\ ~waiting /\ (s = "err" => reader["out"] # "reading")
  /\ \/ /\ Held(s) > 0
        /\ taken' = [taken EXCEPT ![s] = @ + 1]
        /\ IF s = "out" /\ program.isCapnpMessageOutput /\ taken'["out"] = program.out
           THEN ReaderEnds(s, "done") ELSE UNCHANGED reader
     \/ AtEof(s) /\ ReaderEnds(s, EndOfOutput(s)) /\ UNCHANGED taken
  /\ UNCHANGED <<childVars, waiting, result, stdin, stolen>>
(* ... and with whichever pipe has something: readAllText reads to the     *)
(* end, tryReadMessage to the end of the message.                          *)
Read(s) ==
  /\ reader[s] = "reading" /\ ~waiting
  /\ \/ /\ Held(s) > 0
        /\ taken' = [taken EXCEPT ![s] = @ + 1]
        /\ IF s = "out" /\ program.isCapnpMessageOutput /\ taken'["out"] = program.out
           THEN ReaderEnds(s, "done") ELSE UNCHANGED reader
     \/ AtEof(s) /\ ReaderEnds(s, EndOfOutput(s)) /\ UNCHANGED taken
  /\ UNCHANGED <<childVars, waiting, result, stdin, stolen>>

(* What WEXITSTATUS makes of the status: 0 for a child killed by a signal. *)
WEXITSTATUS == IF child = "killed" THEN 0 ELSE code

(* joinPromises waits for both readers, also when one has failed: then     *)
(* run() fails without a waitpid.                                          *)
Readers(how) == reader["err"] = "done" /\ reader["out"] = how
Reject ==
  /\ result = Pending /\ Readers("failed")
  /\ result' = Rejected
  /\ UNCHANGED <<childVars, taken, reader, waiting, stdin, stolen>>

(* Slip: collect the child first, then read what it wrote.                 *)
WaitFirst ==
  /\ result = Pending /\ reader["err"] # "idle" /\ reader["out"] # "failed" /\ ~waiting
  /\ waiting' = TRUE
  /\ UNCHANGED <<childVars, taken, reader, result, stdin, stolen>>
(* Otherwise waitpid, which blocks: nothing else happens in the server     *)
(* until the child has ended, which is usually at once.                    *)
Wait ==
  /\ result = Pending /\ Readers("done") /\ ~waiting
  /\ waiting' = TRUE
  /\ UNCHANGED <<childVars, taken, reader, result, stdin, stolen>>

Reap ==
  /\ waiting /\ Ended
  /\ waiting' = FALSE
  /\ result' = [kind |-> "result", exitCode |-> WEXITSTATUS, errors |-> taken["err"],
                message |-> program.isCapnpMessageOutput /\ taken["out"] > 0]
  /\ UNCHANGED <<childVars, taken, reader, stdin, stolen>>

-----------------------------------------------------------------------------
ChildStep  == Exec \/ Exit \/ \E s \in Streams : Write(s)
ParentStep == Fork \/ Reject \/ Wait \/ Reap \/ \E s \in Streams : Read(s)
Next == \/ ChildStep \/ ParentStep \/ Kill \/ Steal \/ Garble \/ HandleRequest
        \/ \E s \in Streams : Close(s)

(* The program does what it does in finite time, and the event loop serves *)
(* every pipe that is ready.  Nobody need send a signal or close a pipe.   *)
Fairness == /\ WF_vars(Fork) /\ WF_vars(Reject) /\ WF_vars(Wait) /\ WF_vars(Reap)
            /\ WF_vars(ChildStep) /\ \A s \in Streams : WF_vars(Read(s))
Spec == Init /\ [][Next]_vars /\ Fairness

-----------------------------------------------------------------------------
(* The type of every variable.                                             *)
TypeOK ==
  /\ program \in [out : 0 .. MaxPieces, err : 0 .. MaxPieces, code : {0, 1},
                  isCapnpMessageOutput : BOOLEAN]
  /\ child \in {"none", "forked", "running", "exited", "killed", "twin"}
  /\ code \in {0, 1} /\ open \subseteq Streams /\ waiting \in BOOLEAN
  /\ written \in [Streams -> 0 .. MaxPieces] /\ taken \in [Streams -> 0 .. MaxPieces]
  /\ \A s \in Streams : Held(s) \in 0 .. PipeCapacity
  /\ reader \in [Streams -> {"idle", "reading", "done", "failed"}]
  /\ result \in {Pending, Rejected} \cup
                [kind : {"result"}, exitCode : {0, 1}, message : BOOLEAN, errors : 0 .. MaxPieces]
  /\ stdin \in 0 .. MaxRequests /\ stolen \in 0 .. MaxRequests

HasResult == result.kind = "result"

(* What run() returns, however writes and reads interleave, whichever pipe *)
(* the child closes early and wherever a signal kills it: a message is a   *)
(* whole one and no error line is lost.  The exit code is the child's own, *)
(* but 0 when it was killed: a killed command passes for one that          *)
(* succeeded, and only such a one, or one that wrote no message at all,    *)
(* succeeds without a message.                                             *)
ResultIsTheChilds ==
  HasResult /\ child # "none" =>
    /\ result.message => written["out"] = program.out /\ program.out > 0
    /\ result.errors = written["err"]
    /\ result.exitCode = IF child = "exited" THEN code ELSE 0
    /\ result.exitCode = 0 /\ program.isCapnpMessageOutput /\ ~result.message =>
         child = "killed" \/ program.out = 0

(* However much the child writes to either pipe, and in whatever order,    *)
(* run() comes to an end: a full pipe never stops the child for good.      *)
(* (Except when the child is a second server, which ends when it likes.)   *)
RunEnds == <>(result # Pending \/ child = "twin")

(* subprocess_runner.cpp:125, "Parent process": the code behind the fork,  *)
(* and the server that called it, run in the parent only.                  *)
OneServer == stolen = 0
===============================================================================
