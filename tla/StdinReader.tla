----------------------------- MODULE StdinReader -----------------------------
(***************************************************************************)
(* StdinReader: cutting the bytes that arrive on stdin into messages.      *)
(*                                                                         *)
(* The client sends whole messages, "Content-Length: <number>\r\n\r\n" and *)
(* a body, but reads return them in arbitrary pieces.  The buffer is never *)
(* cleared and never NUL-terminated, so strstr looks past currentPos into  *)
(* what earlier reads have left there.                                     *)
(*                                                                         *)
(* A cell stands for a run of bytes: cell <<i, k>> is the k-th of message  *)
(* i.  Cells 1 and 2 are the two halves of the name "Content-Length: ", 3  *)
(* is the number, 4 the delimiter, the rest the body.  Every cut between   *)
(* two bytes that matters is a cut between two cells.                      *)
(***************************************************************************)
EXTENDS Naturals, Sequences

CONSTANTS
  BUFFER_SIZE,   (* cells the buffer has room for                            *)
  NumMessages,   (* messages the client sends                                *)
  BodyLengths    (* the lengths a body may have                              *)

HeaderCells == 4
Nul == <<0, 0>>

ASSUME SizeAssumption == /\ BUFFER_SIZE \in Nat \ {0}
                         /\ NumMessages \in Nat
                         /\ BodyLengths \subseteq Nat \ {0}

VARIABLES
  lengths,       (* the body length of every message                         *)
  next,          (* the first cell that has not been read                    *)
  buffer, currentPos,
  received,      (* tryRead has put something into the buffer                *)
  processedPos,
  pc,            (* where monitorStdin is: "reading", "parsing", "moving",   *)
                 (* or "eof" when it has stopped                             *)
  dispatched,    (* what handleMessage has been called with                  *)
  cutName        (* history: a read has ended inside "Content-Length: ",     *)
                 (* with old bytes behind it in the buffer                   *)
vars == <<lengths, next, buffer, currentPos, received, processedPos, pc, dispatched,
          cutName>>

Size(i)    == HeaderCells + lengths[i]
Message(i) == [k \in 1 .. Size(i) |-> <<i, k>>]
Messages   == [i \in 1 .. NumMessages |-> Message(i)]
AllRead    == next[1] > NumMessages
After(c)   == IF c[2] < Size(c[1]) THEN <<c[1], c[2] + 1>> ELSE <<c[1] + 1, 1>>
Positions  == 1 .. BUFFER_SIZE

Init ==
  /\ lengths \in [1 .. NumMessages -> BodyLengths]
  /\ next = <<1, 1>>
  /\ buffer = [p \in Positions |-> Nul]
  /\ currentPos = 0 /\ processedPos = 0
  /\ received = FALSE
  /\ pc = "reading"
  /\ dispatched = <<>>
  /\ cutName = FALSE

-----------------------------------------------------------------------------
(* Slip: always read BUFFER_SIZE bytes.                                    *)
ArriveUnbounded ==
  /\ pc = "reading" /\ ~AllRead
  /\ buffer' = [buffer EXCEPT ![currentPos + 1] = next]
  /\ currentPos' = currentPos + 1
  /\ next' = After(next)
  /\ received' = TRUE
  /\ UNCHANGED <<lengths, processedPos, pc, dispatched, cutName>>
(* input->tryRead(buffer + currentPos, 0, BUFFER_SIZE - currentPos): cells *)
(* land in the buffer one by one, and the call returns after any of them.  *)
Arrive ==
  /\ pc = "reading"
  /\ ~AllRead /\ currentPos < BUFFER_SIZE
  /\ buffer' = [buffer EXCEPT ![currentPos + 1] = next]
  /\ currentPos' = currentPos + 1
  /\ next' = After(next)
  /\ received' = TRUE
  /\ UNCHANGED <<lengths, processedPos, pc, dispatched, cutName>>

(* What strstr would run into behind the bytes that have been read.        *)
OldBytesBehind == currentPos < BUFFER_SIZE /\ buffer[currentPos + 1] # Nul

(* n > 0: parse what there is, from the start of the buffer.               *)
Return ==
  /\ pc = "reading" /\ received
  /\ pc' = "parsing"
  /\ processedPos' = 0
  /\ received' = FALSE
  /\ cutName' = (cutName \/ (next[2] = 2 /\ OldBytesBehind))
  /\ UNCHANGED <<lengths, next, buffer, currentPos, dispatched>>

(* n = 0: the end of the input, and also what a read of no bytes into a    *)
(* full buffer returns.  The handler is told and nothing is read again.    *)
ReturnNothing ==
  /\ pc = "reading" /\ ~received
  /\ AllRead \/ currentPos = BUFFER_SIZE
  /\ pc' = "eof"
  /\ UNCHANGED <<lengths, next, buffer, currentPos, received, processedPos, dispatched, cutName>>

(* What strstr can see from processedPos on: everything before a NUL, and  *)
(* the memory behind the buffer holds one.                                 *)
InSight == {p \in Positions : /\ p > processedPos
                              /\ \A q \in processedPos + 1 .. p : buffer[q] # Nul}
FirstOf(S) == CHOOSE p \in S : \A q \in S : p <= q

Delimiters == {p \in InSight : buffer[p][2] = 4}
Names      == {p \in InSight : p + 1 \in InSight /\ buffer[p][2] = 1 /\ buffer[p + 1][2] = 2}

(* strtoul after the name; what is no number counts as 0.                  *)
ContentLength ==
  LET p == FirstOf(Names) + 2
  IN  IF p \in InSight /\ buffer[p][2] = 3 THEN lengths[buffer[p][1]] ELSE 0

(* The header that ends at the first delimiter, and the body.              *)
TotalMessageSize == (FirstOf(Delimiters) - processedPos) + ContentLength

(* Slip: wait for a byte behind the message.                               *)
ParsesMessageStrictly == /\ Delimiters # {} /\ Names # {}
                         /\ currentPos - processedPos > TotalMessageSize
(* parseNextMessage: a complete message ...                                *)
ParsesMessage == /\ Delimiters # {} /\ Names # {}
                 /\ currentPos - processedPos >= TotalMessageSize

(* Slip: one message per read.                                             *)
DispatchOneMessage ==
  /\ pc = "parsing" /\ processedPos < currentPos
  /\ ParsesMessage
  /\ dispatched' = Append(dispatched,
                          [k \in 1 .. TotalMessageSize |-> buffer[processedPos + k]])
  /\ processedPos' = processedPos + TotalMessageSize
  /\ pc' = "moving"
  /\ UNCHANGED <<lengths, next, buffer, currentPos, received, cutName>>
(* It is handed over, and the loop goes on behind it.                      *)
DispatchMessage ==
  /\ pc = "parsing" /\ processedPos < currentPos
  /\ ParsesMessage
  /\ dispatched' = Append(dispatched,
                          [k \in 1 .. TotalMessageSize |-> buffer[processedPos + k]])
  /\ processedPos' = processedPos + TotalMessageSize
  /\ UNCHANGED <<lengths, next, buffer, currentPos, received, pc, cutName>>

(* ... or none yet, and the loop ends.  A delimiter that no name goes with *)
(* is skipped, wherever in the buffer it is.                               *)
StopParsing ==
  /\ pc = "parsing"
  /\ \/ processedPos >= currentPos /\ UNCHANGED processedPos
     \/ /\ processedPos < currentPos /\ ~ParsesMessage
        /\ processedPos' = IF Delimiters # {} /\ Names = {}
                           THEN FirstOf(Delimiters) ELSE processedPos
  /\ pc' = "moving"
  /\ UNCHANGED <<lengths, next, buffer, currentPos, received, dispatched, cutName>>

(* Slips: an emptied buffer is not reset; what is left is not moved; what  *)
(* is left is moved and counted as if it had not been.                     *)
CompactUnlessEmpty ==
  /\ pc = "moving"
  /\ IF processedPos < currentPos
     THEN /\ buffer' = [p \in Positions |->
                          IF p <= currentPos - processedPos THEN buffer[p + processedPos]
                          ELSE buffer[p]]
          /\ currentPos' = currentPos - processedPos
     ELSE UNCHANGED <<buffer, currentPos>>
  /\ pc' = "reading"
  /\ UNCHANGED <<lengths, next, received, processedPos, dispatched, cutName>>
CompactWithoutMove ==
  /\ pc = "moving"
  /\ currentPos' = IF processedPos <= currentPos THEN currentPos - processedPos ELSE currentPos
  /\ pc' = "reading"
  /\ UNCHANGED <<lengths, next, buffer, received, processedPos, dispatched, cutName>>
CompactWithoutCounting ==
  /\ pc = "moving"
  /\ IF processedPos <= currentPos
     THEN /\ buffer' = [p \in Positions |->
                          IF p <= currentPos - processedPos THEN buffer[p + processedPos]
                          ELSE buffer[p]]
          /\ currentPos' = IF processedPos = currentPos THEN 0 ELSE currentPos
     ELSE UNCHANGED <<buffer, currentPos>>
  /\ pc' = "reading"
  /\ UNCHANGED <<lengths, next, received, processedPos, dispatched, cutName>>
(* Move what is left to the start of the buffer and read again.  When      *)
(* processedPos lies behind currentPos neither branch of the code applies. *)
Compact ==
  /\ pc = "moving"
  /\ IF processedPos <= currentPos
     THEN /\ buffer' = [p \in Positions |->
                          IF p <= currentPos - processedPos THEN buffer[p + processedPos]
                          ELSE buffer[p]]
          /\ currentPos' = currentPos - processedPos
     ELSE UNCHANGED <<buffer, currentPos>>
  /\ pc' = "reading"
  /\ UNCHANGED <<lengths, next, received, processedPos, dispatched, cutName>>

-----------------------------------------------------------------------------
Next == Arrive \/ Return \/ ReturnNothing \/ DispatchMessage \/ StopParsing \/ Compact

(* The client goes on writing and the event loop goes on running.  A read  *)
(* that could return need not wait for more, but it is not taken to return *)
(* between two cells for ever: the client writes a finite number.          *)
Spec == Init /\ [][Next]_vars /\ WF_vars(Next)

-----------------------------------------------------------------------------
Cells == (1 .. NumMessages + 1) \X Nat

(* The type of every variable.                                             *)
TypeOK ==
  /\ lengths \in [1 .. NumMessages -> BodyLengths]
  /\ next \in Cells
  /\ buffer \in [Positions -> Cells \cup {Nul}]
  /\ currentPos \in 0 .. BUFFER_SIZE
  /\ processedPos \in 0 .. BUFFER_SIZE
  /\ received \in BOOLEAN
  /\ pc \in {"reading", "parsing", "moving", "eof"}
  /\ dispatched \in Seq(Seq(Cells \cup {Nul}))
  /\ cutName \in BOOLEAN

(* The handler is only ever given whole messages as the client sent them:  *)
(* neither stale bytes behind currentPos nor a header cut in two ever      *)
(* makes a message of pieces of several.                                   *)
OnlyWholeMessages ==
  \A d \in DOMAIN dispatched : \E i \in 1 .. NumMessages : dispatched[d] = Message(i)

(* When monitorStdin goes back to reading, every message that has arrived  *)
(* completely has been handed over: none waits for bytes that come after.  *)
NoMessageLeftBehind ==
  pc = "reading" /\ ~received =>
    \A i \in 1 .. NumMessages :
      next[1] > i => \E d \in DOMAIN dispatched : dispatched[d] = Message(i)

(* Until a read has ended inside a header name over old bytes, what has    *)
(* been handed over are the first messages, each once and in order: no     *)
(* other cut, and no bytes left over from messages before, bring one back  *)
(* or put one before another.                                              *)
OnceUnlessNameIsCut == ~cutName => \A d \in DOMAIN dispatched : dispatched[d] = Messages[d]

(* The framing layer is a message channel: every message once, in order,   *)
(* and the end of the input after the last, however the bytes are cut.     *)
(* Only a read that ends inside a header name, over old bytes, disturbs    *)
(* it: messages may then come again, but still whole, and none is skipped. *)
Channel == INSTANCE MessageChannel
             WITH messages <- Messages, delivered <- dispatched,
                  disturbed <- cutName, ended <- (pc = "eof")
IsAChannel == Channel!Spec

(* stdin_reader.cpp:17, "Find the end of the header": the header that is   *)
(* parsed is the one that starts at processedPos, so what was parsed and   *)
(* handed over once is done with.                                          *)
NoMessageTwice ==
  \A d, e \in DOMAIN dispatched : dispatched[d] = dispatched[e] => d = e

(* stdin_reader.cpp:53, "EOF detected on stdin": reading stops when the    *)
(* client has closed its end.                                              *)
EofIsDetected == pc = "eof" => AllRead
=============================================================================
