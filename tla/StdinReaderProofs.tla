-------------------------- MODULE StdinReaderProofs --------------------------
(***************************************************************************)
(* Proofs about StdinReader.  What carries them: the cells from the start  *)
(* of the buffer to currentPos, and the one that arrives next, are a run   *)
(* of the client's stream that begins with a message; what lies behind     *)
(* currentPos is never relied on, except where it makes a read that ended  *)
(* inside "Content-Length: " skip too far.                                 *)
(***************************************************************************)
EXTENDS StdinReader, NatLemmas, SequenceTheorems

(* The cells the client's messages are made of.                            *)
StreamCells == {c \in (1 .. NumMessages) \X Nat : c[2] \in 1 .. Size(c[1])}

(* The stream as the reader holds it: what is in the buffer, then next.    *)
At(p) == IF p = currentPos + 1 THEN next ELSE buffer[p]

HandedOver(i) == \E d \in DOMAIN dispatched : dispatched[d] = Message(i)
AllBefore(n)  == \A i \in 1 .. NumMessages : i < n => HandedOver(i)
LastMessage   == IF dispatched = <<>> THEN 0 ELSE dispatched[Len(dispatched)][1][1]

(* Nothing of what has arrived waits to be parsed.                         *)
Settled == pc \in {"moving", "eof"} \/ (pc = "reading" /\ ~received)

Typed ==
  /\ lengths \in [1 .. NumMessages -> BodyLengths]
  /\ next \in StreamCells \/ next = <<NumMessages + 1, 1>>
  /\ buffer \in [Positions -> StreamCells \cup {Nul}]
  /\ currentPos \in 0 .. BUFFER_SIZE
  /\ processedPos \in 0 .. BUFFER_SIZE
  /\ received \in BOOLEAN
  /\ pc \in {"reading", "parsing", "moving", "eof"}
  /\ cutName \in BOOLEAN

(* Up to currentPos the buffer holds cells of the stream, none of a later  *)
(* message than the next cell, and each with what follows it.              *)
InOrder ==
  /\ \A p \in 1 .. currentPos : buffer[p] \in StreamCells /\ buffer[p][1] <= next[1]
  /\ \A p \in 1 .. currentPos : \A q \in p .. currentPos + 1 :
       /\ At(p)[2] + (q - p) <= Size(At(p)[1])
            => At(q) = <<At(p)[1], At(p)[2] + (q - p)>>
       /\ At(p)[2] + (q - p) = Size(At(p)[1]) + 1
            => At(q) = <<At(p)[1] + 1, 1>>

(* The buffer, and what is parsed next, begin with a message; parsing      *)
(* leaves the window only when a read has cut a name over old bytes.       *)
Aligned ==
  /\ At(1)[2] = 1
  /\ pc = "parsing" => processedPos <= currentPos
  /\ pc \in {"parsing", "moving"} /\ processedPos <= currentPos
       => At(processedPos + 1)[2] = 1
  /\ pc = "moving" /\ processedPos <= currentPos
       => At(processedPos + 1)[1] = next[1]
  /\ pc = "parsing" /\ next[2] = 2 /\ OldBytesBehind => cutName
  /\ pc = "moving" /\ processedPos > currentPos => cutName /\ currentPos < BUFFER_SIZE

(* What has been handed over: whole messages, all that lie before the one  *)
(* at the front, and the last of them is the one before it unless a cut    *)
(* name has made the reader go back.                                       *)
Delivered ==
  /\ dispatched \in Seq({Message(i) : i \in 1 .. NumMessages})
  /\ AllBefore(At(1)[1])
  /\ pc = "parsing" => AllBefore(At(processedPos + 1)[1])
  /\ Settled => AllBefore(next[1])

Latest ==
  /\ LastMessage < next[1]
  /\ Settled => LastMessage + 1 = next[1]
  /\ pc = "reading" => /\ At(1)[1] <= LastMessage + 1
                       /\ ~cutName => At(1)[1] = LastMessage + 1
  /\ pc = "parsing" => /\ At(processedPos + 1)[1] <= LastMessage + 1
                       /\ ~cutName => At(processedPos + 1)[1] = LastMessage + 1

IInv == Typed /\ InOrder /\ Aligned /\ Delivered /\ Latest

(* The buffer has room for the longest message.                            *)
Fits == \A l \in BodyLengths : HeaderCells + l <= BUFFER_SIZE

Room ==
  /\ pc = "moving" /\ processedPos <= currentPos => currentPos - processedPos < BUFFER_SIZE
  /\ pc = "reading" /\ ~received => currentPos < BUFFER_SIZE
  /\ pc = "eof" => AllRead

-----------------------------------------------------------------------------
(* Every message has a header and at least one cell of body.               *)
LEMMA SizeType ==
  ASSUME Typed, NEW i \in 1 .. NumMessages
  PROVE  lengths[i] \in Nat \ {0} /\ Size(i) \in Nat /\ Size(i) > HeaderCells
<1>1. lengths[i] \in Nat \ {0}
  BY SizeAssumption DEF Typed
<1> QED BY <1>1 DEF Size, HeaderCells

(* A cell of the stream is a number of a message and a place in it.        *)
LEMMA CellType ==
  ASSUME Typed, NEW c \in StreamCells
  PROVE  /\ c = <<c[1], c[2]>>
         /\ c[1] \in 1 .. NumMessages
         /\ c[2] \in Nat \ {0} /\ c[2] <= Size(c[1])
         /\ c # Nul
<1>1. c = <<c[1], c[2]>> /\ c[1] \in 1 .. NumMessages /\ c[2] \in 1 .. Size(c[1])
  BY DEF StreamCells
<1>2. Size(c[1]) \in Nat
  BY <1>1, SizeType
<1>3. c # Nul
  BY <1>1, SizeAssumption DEF Nul
<1> QED BY <1>1, <1>2, <1>3

(* The next cell has the type of a cell, also when there is none.          *)
LEMMA NextType ==
  ASSUME Typed
  PROVE  /\ next = <<next[1], next[2]>>
         /\ next[1] \in 1 .. NumMessages + 1
         /\ next[2] \in Nat \ {0}
         /\ next[1] <= NumMessages => next \in StreamCells
<1>1. CASE next \in StreamCells
  BY <1>1, CellType, SizeAssumption
<1>2. CASE next = <<NumMessages + 1, 1>>
  BY <1>2, SizeAssumption
<1> QED BY <1>1, <1>2 DEF Typed

(* The first of a set of positions is the one no other is before.          *)
LEMMA FirstOfType ==
  ASSUME NEW S \in SUBSET Positions, S # {}
  PROVE  FirstOf(S) \in S /\ \A q \in S : FirstOf(S) <= q
<1>1. S \in SUBSET Nat
  BY SizeAssumption DEF Positions
<1>2. \E p \in S : \A q \in S : p <= q
  BY <1>1, LeastNatural
<1> QED BY <1>2 DEF FirstOf

(* There is only one first element.                                        *)
LEMMA FirstOfIs ==
  ASSUME NEW S \in SUBSET Positions, NEW m \in S, \A q \in S : m <= q
  PROVE  FirstOf(S) = m
<1>1. FirstOf(S) \in S /\ FirstOf(S) <= m
  BY FirstOfType
<1>2. m <= FirstOf(S)
  BY <1>1
<1>3. Positions \subseteq Nat
  BY SizeAssumption DEF Positions
<1>4. FirstOf(S) \in Nat /\ m \in Nat
  BY <1>1, <1>3
<1> QED BY <1>1, <1>2, <1>4

(* What has arrived and is not parsed yet is in sight of strstr.           *)
LEMMA WindowInSight ==
  ASSUME Typed, InOrder, NEW p \in processedPos + 1 .. currentPos
  PROVE  p \in InSight
<1>1. \A q \in 1 .. currentPos : buffer[q] # Nul
  BY CellType DEF InOrder
<1> QED BY <1>1, SizeAssumption DEF InSight, Positions, Typed

(* The window that is parsed begins with a message: its cells follow each  *)
(* other from there.                                                       *)
LEMMA WindowCells ==
  ASSUME Typed, InOrder, Aligned, pc = "parsing", processedPos < currentPos
  PROVE  LET i == buffer[processedPos + 1][1]
         IN  /\ i \in 1 .. NumMessages
             /\ i <= next[1]
             /\ i = At(processedPos + 1)[1]
             /\ \A k \in 1 .. Size(i) :
                  processedPos + k <= currentPos + 1 => At(processedPos + k) = <<i, k>>
             /\ processedPos + Size(i) <= currentPos
                  => At(processedPos + Size(i) + 1) = <<i + 1, 1>>
<1> DEFINE c == buffer[processedPos + 1]
           i == c[1]
<1>1. processedPos \in Nat /\ currentPos \in Nat /\ processedPos + 1 \in 1 .. currentPos
  BY SizeAssumption DEF Typed
<1>2. At(processedPos + 1) = c
  BY <1>1 DEF At
<1>3. c \in StreamCells /\ c[1] <= next[1] /\ c[2] = 1
  BY <1>1, <1>2 DEF InOrder, Aligned
<1>4. i \in 1 .. NumMessages /\ Size(i) \in Nat
  BY <1>3, CellType, SizeType
<1> HIDE DEF c
<1>5. ASSUME NEW k \in 1 .. Size(i), processedPos + k <= currentPos + 1
      PROVE  At(processedPos + k) = <<i, k>>
  <2> DEFINE p == processedPos + 1
             q == processedPos + k
  <2>1. q \in p .. currentPos + 1 /\ p \in 1 .. currentPos
    BY <1>1, <1>4, <1>5
  <2>2. c[2] + (q - p) = k
    BY <1>1, <1>3, <1>4
  <2> QED BY <1>2, <1>4, <2>1, <2>2 DEF InOrder
<1>6. ASSUME processedPos + Size(i) <= currentPos
      PROVE  At(processedPos + Size(i) + 1) = <<i + 1, 1>>
  <2> DEFINE p == processedPos + 1
             q == processedPos + Size(i) + 1
  <2>1. q \in p .. currentPos + 1 /\ p \in 1 .. currentPos
    BY <1>1, <1>4, <1>6
  <2>2. c[2] + (q - p) = Size(i) + 1
    BY <1>1, <1>3, <1>4
  <2> QED BY <1>2, <1>4, <2>1, <2>2 DEF InOrder
<1> QED BY <1>2, <1>3, <1>4, <1>5, <1>6 DEF c
(* parseNextMessage on a message whose header has arrived: the first       *)
(* delimiter and the first name are its own, so the size it computes is    *)
(* that of the message.                                                    *)
LEMMA HeaderGivesSize ==
  ASSUME Typed, InOrder, Aligned, pc = "parsing", processedPos < currentPos,
         NEW i \in 1 .. NumMessages, i = buffer[processedPos + 1][1],
         processedPos + HeaderCells <= currentPos
  PROVE  Delimiters # {} /\ Names # {} /\ TotalMessageSize = Size(i)
<1>1. processedPos \in Nat /\ currentPos \in Nat /\ BUFFER_SIZE \in Nat /\ currentPos <= BUFFER_SIZE
       /\ processedPos + 4 <= currentPos
  BY SizeAssumption DEF Typed, HeaderCells
<1>2. lengths[i] \in Nat \ {0} /\ Size(i) = 4 + lengths[i] /\ Size(i) \in Nat
  BY SizeType DEF Size, HeaderCells
<1>3. ASSUME NEW k \in 1 .. 4
      PROVE  buffer[processedPos + k] = <<i, k>> /\ processedPos + k \in InSight
  <2>1. processedPos + k \in processedPos + 1 .. currentPos /\ k \in 1 .. Size(i)
    BY <1>1, <1>2
  <2>2. At(processedPos + k) = <<i, k>>
    BY <1>1, <2>1, WindowCells
  <2> QED BY <1>1, <2>1, <2>2, WindowInSight DEF At
<1>4. InSight \subseteq Positions /\ \A p \in InSight : p \in Nat /\ p > processedPos
  BY <1>1 DEF InSight, Positions
<1>5. 1 \in 1 .. 4 /\ 2 \in 1 .. 4 /\ 3 \in 1 .. 4 /\ 4 \in 1 .. 4
  OBVIOUS
<1>6. processedPos + 4 \in Delimiters /\ \A q \in Delimiters : processedPos + 4 <= q
  <2>1. processedPos + 4 \in Delimiters
    BY <1>3, <1>5 DEF Delimiters
  <2>2. ASSUME NEW q \in Delimiters, q < processedPos + 4 PROVE FALSE
    <3>1. q \in InSight /\ buffer[q][2] = 4
      BY DEF Delimiters
    <3> DEFINE k == q - processedPos
    <3>2. k \in {1, 2, 3} /\ q = processedPos + k
      BY <1>1, <1>4, <2>2, <3>1
    <3>3. buffer[q] = <<i, k>>
      BY <1>3, <1>5, <3>2
    <3> QED BY <3>1, <3>2, <3>3
  <2>3. Delimiters \subseteq Nat
    BY <1>4 DEF Delimiters
  <2> QED BY <1>1, <2>1, <2>2, <2>3
<1>7. processedPos + 1 \in Names /\ \A q \in Names : processedPos + 1 <= q
  <2>1. (processedPos + 1) + 1 = processedPos + 2
    BY <1>1
  <2>2. processedPos + 1 \in Names
    BY <1>3, <1>5, <2>1 DEF Names
  <2>3. Names \subseteq InSight
    BY DEF Names
  <2> QED BY <1>1, <1>4, <2>2, <2>3
<1>8. FirstOf(Delimiters) = processedPos + 4
  BY <1>4, <1>6, FirstOfIs DEF Delimiters
<1>9. FirstOf(Names) = processedPos + 1
  BY <1>4, <1>7, FirstOfIs DEF Names
<1>10. ContentLength = lengths[i]
  <2>1. (processedPos + 1) + 2 = processedPos + 3
    BY <1>1
  <2> QED BY <1>3, <1>5, <1>9, <2>1 DEF ContentLength
<1>11. TotalMessageSize = Size(i)
  BY <1>1, <1>2, <1>8, <1>10 DEF TotalMessageSize
<1> QED BY <1>6, <1>7, <1>11

(* What strtoul returns is the length of a message, or 0.                  *)
LEMMA ContentLengthType ==
  ASSUME Typed
  PROVE  ContentLength \in Nat
<1> DEFINE p == FirstOf(Names) + 2
<1>1. CASE p \in InSight /\ buffer[p][2] = 3
  <2>1. buffer[p] \in StreamCells
    BY <1>1 DEF Typed, InSight, Nul
  <2> QED BY <1>1, <2>1, CellType, SizeType DEF ContentLength
<1>2. CASE ~(p \in InSight /\ buffer[p][2] = 3)
  BY <1>2 DEF ContentLength
<1> QED BY <1>1, <1>2

(* parseNextMessage never takes a part for the whole: it parses a message  *)
(* only if all of it has arrived, whatever lies behind currentPos.         *)
LEMMA ParsesOnlyWholeMessages ==
  ASSUME Typed, InOrder, Aligned, pc = "parsing", processedPos < currentPos, ParsesMessage,
         NEW i \in 1 .. NumMessages, i = buffer[processedPos + 1][1]
  PROVE  processedPos + Size(i) <= currentPos
<1>1. processedPos \in Nat /\ currentPos \in Nat /\ BUFFER_SIZE \in Nat /\ currentPos <= BUFFER_SIZE
  BY SizeAssumption DEF Typed
<1>2. lengths[i] \in Nat \ {0} /\ Size(i) = 4 + lengths[i] /\ Size(i) \in Nat
  BY SizeType DEF Size, HeaderCells
<1>3. InSight \subseteq Positions /\ \A p \in InSight : p \in Nat /\ p > processedPos
  BY <1>1 DEF InSight, Positions
<1> DEFINE d == FirstOf(Delimiters)
<1>4. d \in InSight /\ buffer[d][2] = 4
  <2>1. d \in Delimiters
    BY <1>3, FirstOfType DEF ParsesMessage, Delimiters
  <2> QED BY <2>1 DEF Delimiters
<1>5. d <= currentPos
  <2>1. currentPos - processedPos >= (d - processedPos) + ContentLength
    BY DEF ParsesMessage, TotalMessageSize
  <2> HIDE DEF d
  <2> QED BY <1>1, <1>3, <1>4, <2>1, ContentLengthType
<1> HIDE DEF d
<1>6. processedPos + 4 <= currentPos
  <2>1. SUFFICES ASSUME currentPos < processedPos + 4 PROVE FALSE
    BY <1>1
  <2> DEFINE k == d - processedPos
  <2>2. k \in 1 .. 3 /\ d = processedPos + k
    BY <1>1, <1>3, <1>4, <1>5, <2>1
  <2>3. k \in 1 .. Size(i) /\ processedPos + k <= currentPos + 1
    BY <1>1, <1>2, <1>5, <2>2
  <2>4. buffer[d] = <<i, k>>
    BY <1>1, <1>3, <1>4, <1>5, <2>2, <2>3, WindowCells DEF At
  <2> QED BY <1>4, <2>2, <2>4
<1>7. TotalMessageSize = Size(i)
  BY <1>6, HeaderGivesSize DEF HeaderCells
<1> QED BY <1>1, <1>2, <1>7 DEF ParsesMessage

(* parseNextMessage does not leave a message that has arrived either, so   *)
(* it parses exactly the whole messages.                                   *)
LEMMA ParsesWholeMessages ==
  ASSUME Typed, InOrder, Aligned, pc = "parsing", processedPos < currentPos,
         NEW i \in 1 .. NumMessages, i = buffer[processedPos + 1][1]
  PROVE  /\ ParsesMessage <=> processedPos + Size(i) <= currentPos
         /\ ParsesMessage => TotalMessageSize = Size(i)
<1>1. processedPos \in Nat /\ currentPos \in Nat
  BY SizeAssumption DEF Typed
<1>2. ASSUME processedPos + Size(i) <= currentPos
      PROVE  ParsesMessage /\ TotalMessageSize = Size(i)
  <2>1. processedPos + HeaderCells <= currentPos /\ Size(i) \in Nat
    BY <1>1, <1>2, SizeType DEF HeaderCells
  <2>2. Delimiters # {} /\ Names # {} /\ TotalMessageSize = Size(i)
    BY <2>1, HeaderGivesSize
  <2> QED BY <1>1, <1>2, <2>1, <2>2 DEF ParsesMessage
<1> QED BY <1>2, ParsesOnlyWholeMessages

(* A delimiter is skipped only when a read has ended inside a name with    *)
(* old bytes behind it: the window then holds the first half of the name,  *)
(* and the delimiter is an old one.                                        *)
LEMMA SkipsOnlyBehindACutName ==
  ASSUME Typed, InOrder, Aligned, pc = "parsing", processedPos < currentPos,
         Delimiters # {}, Names = {}
  PROVE  /\ FirstOf(Delimiters) \in 0 .. BUFFER_SIZE
         /\ FirstOf(Delimiters) > currentPos
         /\ next[2] = 2 /\ currentPos < BUFFER_SIZE /\ OldBytesBehind
<1>1. processedPos \in Nat /\ currentPos \in Nat /\ BUFFER_SIZE \in Nat
  BY SizeAssumption DEF Typed
<1>2. PICK i \in 1 .. NumMessages : i = buffer[processedPos + 1][1]
  BY WindowCells
<1>3. Size(i) \in Nat /\ Size(i) > 4
  BY SizeType DEF HeaderCells
<1>4. ASSUME NEW k \in 1 .. 2, processedPos + k <= currentPos
      PROVE  buffer[processedPos + k] = <<i, k>> /\ processedPos + k \in InSight
  <2>1. processedPos + k \in processedPos + 1 .. currentPos /\ k \in 1 .. Size(i)
        /\ processedPos + k <= currentPos + 1 /\ processedPos + k # currentPos + 1
    BY <1>1, <1>3, <1>4
  <2>2. At(processedPos + k) = <<i, k>>
    BY <1>2, <2>1, WindowCells
  <2> QED BY <2>1, <2>2, WindowInSight DEF At
<1>5. currentPos = processedPos + 1
  <2>1. SUFFICES ASSUME processedPos + 2 <= currentPos PROVE FALSE
    BY <1>1
  <2>2. (processedPos + 1) + 1 = processedPos + 2 /\ processedPos + 1 <= currentPos
    BY <1>1
  <2>3. /\ buffer[processedPos + 1] = <<i, 1>> /\ processedPos + 1 \in InSight
        /\ buffer[processedPos + 2] = <<i, 2>> /\ processedPos + 2 \in InSight
    BY <1>4, <2>1, <2>2
  <2>4. processedPos + 1 \in Names
    BY <2>2, <2>3 DEF Names
  <2> QED BY <2>4
<1>6. next[2] = 2
  <2>1. 2 \in 1 .. Size(i) /\ processedPos + 2 = currentPos + 1
        /\ processedPos + 2 <= currentPos + 1
    BY <1>1, <1>3, <1>5
  <2>2. At(processedPos + 2) = <<i, 2>>
    BY <1>2, <2>1, WindowCells
  <2> QED BY <2>1, <2>2 DEF At
<1>7. FirstOf(Delimiters) \in Positions /\ FirstOf(Delimiters) > processedPos
      /\ buffer[FirstOf(Delimiters)][2] = 4
      /\ \A q \in processedPos + 1 .. FirstOf(Delimiters) : buffer[q] # Nul
  <2>1. Delimiters \subseteq Positions
    BY DEF Delimiters, InSight
  <2>2. FirstOf(Delimiters) \in Delimiters
    BY <2>1, FirstOfType
  <2> QED BY <2>2 DEF Delimiters, InSight
<1>8. buffer[processedPos + 1] = <<i, 1>>
  BY <1>1, <1>4, <1>5
<1>9. FirstOf(Delimiters) # processedPos + 1
  BY <1>7, <1>8
<1>10. FirstOf(Delimiters) > currentPos /\ currentPos < BUFFER_SIZE
  BY <1>1, <1>5, <1>7, <1>9 DEF Positions
<1>11. currentPos + 1 \in processedPos + 1 .. FirstOf(Delimiters)
  BY <1>1, <1>5, <1>7, <1>10 DEF Positions
<1> QED BY <1>1, <1>5, <1>6, <1>7, <1>10, <1>11 DEF Positions, OldBytesBehind
-----------------------------------------------------------------------------
(* The client's messages stay what they are.                               *)
LEMMA StreamIsConstant ==
  ASSUME UNCHANGED lengths
  PROVE  /\ StreamCells' = StreamCells
         /\ \A i : Size(i)' = Size(i) /\ Message(i)' = Message(i)
BY DEF StreamCells, Size, Message

(* The number of the last message that was handed over.                    *)
LEMMA LastMessageType ==
  ASSUME Typed, Delivered
  PROVE  LastMessage \in 0 .. NumMessages
<1>1. CASE dispatched = <<>>
  BY <1>1, SizeAssumption DEF LastMessage
<1>2. CASE dispatched # <<>>
  <2>1. Len(dispatched) \in DOMAIN dispatched
    BY <1>2 DEF Delivered
  <2>2. PICK i \in 1 .. NumMessages : dispatched[Len(dispatched)] = Message(i)
    BY <2>1 DEF Delivered
  <2>3. 1 \in 1 .. Size(i)
    BY SizeType DEF HeaderCells
  <2>4. Message(i)[1] = <<i, 1>>
    BY <2>3 DEF Message
  <2> QED BY <1>2, <2>2, <2>4, SizeAssumption DEF LastMessage
<1> QED BY <1>1, <1>2

(* What has been handed over stays so.                                     *)
LEMMA DeliveredKeeps ==
  ASSUME UNCHANGED <<lengths, dispatched>>
  PROVE  /\ LastMessage' = LastMessage
         /\ \A i : HandedOver(i)' <=> HandedOver(i)
BY StreamIsConstant DEF LastMessage, HandedOver

(* Handing over message i makes it the last one, and loses none.           *)
LEMMA DeliveredGrows ==
  ASSUME Typed, Delivered, NEW i \in 1 .. NumMessages, UNCHANGED lengths,
         dispatched' = Append(dispatched, Message(i))
  PROVE  /\ dispatched' \in Seq({Message(j)' : j \in 1 .. NumMessages})
         /\ LastMessage' = i
         /\ HandedOver(i)'
         /\ \A j : HandedOver(j) => HandedOver(j)'
<1> DEFINE S == {Message(j) : j \in 1 .. NumMessages}
<1>1. dispatched \in Seq(S) /\ Message(i) \in S
  BY DEF Delivered
<1>2. {Message(j)' : j \in 1 .. NumMessages} = S
  BY StreamIsConstant
<1>3. /\ dispatched' \in Seq(S)
      /\ Len(dispatched') = Len(dispatched) + 1
      /\ dispatched'[Len(dispatched) + 1] = Message(i)
      /\ \A d \in 1 .. Len(dispatched) : dispatched'[d] = dispatched[d]
  <2> HIDE DEF S
  <2> QED BY <1>1, AppendProperties
<1> HIDE DEF S
<1>4. /\ DOMAIN dispatched = 1 .. Len(dispatched)
      /\ DOMAIN dispatched' = 1 .. Len(dispatched) + 1
      /\ Len(dispatched) \in Nat
  BY <1>1, <1>3, LenProperties
<1>5. LastMessage' = i
  <2>1. 1 \in 1 .. Size(i)
    BY SizeType DEF HeaderCells
  <2>2. Message(i)[1] = <<i, 1>>
    BY <2>1 DEF Message
  <2>3. dispatched' # <<>>
    BY <1>3, <1>4
  <2>4. dispatched'[Len(dispatched')] = Message(i)
    BY <1>3
  <2> QED BY <2>2, <2>3, <2>4 DEF LastMessage
<1>6. HandedOver(i)'
  <2>1. Len(dispatched) + 1 \in DOMAIN dispatched'
    BY <1>4
  <2> QED BY <1>3, <2>1, StreamIsConstant DEF HandedOver
<1>7. ASSUME NEW j, HandedOver(j) PROVE HandedOver(j)'
  <2>1. PICK d \in DOMAIN dispatched : dispatched[d] = Message(j)
    BY <1>7 DEF HandedOver
  <2>2. d \in DOMAIN dispatched' /\ dispatched'[d] = Message(j)
    BY <1>3, <1>4, <2>1
  <2> QED BY <2>2, StreamIsConstant DEF HandedOver
<1> QED BY <1>2, <1>3, <1>5, <1>6, <1>7

-----------------------------------------------------------------------------
(* Nothing has arrived, nothing has been handed over.                      *)
LEMMA InitIInv == Init => IInv
<1> SUFFICES ASSUME Init PROVE IInv
  OBVIOUS
<1>1. Typed
  <2>1. next \in StreamCells \/ next = <<NumMessages + 1, 1>>
    <3>1. CASE NumMessages = 0
      BY <3>1 DEF Init
    <3>2. CASE NumMessages # 0
      <4>1. 1 \in 1 .. NumMessages
        BY <3>2, SizeAssumption
      <4>2. lengths[1] \in Nat
        BY <4>1, SizeAssumption DEF Init
      <4>3. 1 \in 1 .. Size(1)
        BY <4>2 DEF Size, HeaderCells
      <4> QED BY <4>1, <4>3 DEF Init, StreamCells
    <3> QED BY <3>1, <3>2
  <2>2. buffer \in [Positions -> StreamCells \cup {Nul}]
    BY DEF Init
  <2>3. 0 \in 0 .. BUFFER_SIZE
    BY SizeAssumption
  <2> QED BY <2>1, <2>2, <2>3 DEF Init, Typed
<1>2. At(1) = <<1, 1>>
  BY DEF Init, At
<1>3. InOrder
  BY DEF Init, InOrder
<1>4. Aligned
  BY <1>2 DEF Init, Aligned
<1>5. Delivered
  <2>1. dispatched \in Seq({Message(i) : i \in 1 .. NumMessages})
    BY DEF Init
  <2>2. AllBefore(1)
    BY DEF AllBefore
  <2> QED BY <1>2, <2>1, <2>2 DEF Init, Delivered, Settled
<1>6. Latest
  BY <1>2 DEF Init, Latest, LastMessage
<1> QED BY <1>1, <1>3, <1>4, <1>5, <1>6 DEF IInv

(* A cell lands where the run so far ends, and continues it.               *)
LEMMA ArriveIInv ==
  ASSUME IInv, Arrive
  PROVE  IInv'
<1> USE DEF IInv
<1>1. /\ currentPos \in Nat /\ currentPos < BUFFER_SIZE /\ BUFFER_SIZE \in Nat
      /\ currentPos' = currentPos + 1
      /\ UNCHANGED lengths
  BY SizeAssumption DEF Typed, Arrive
<1>2. /\ next \in StreamCells
      /\ next = <<next[1], next[2]>>
      /\ next[1] \in 1 .. NumMessages
      /\ next[2] \in 1 .. Size(next[1])
      /\ Size(next[1]) \in Nat /\ Size(next[1]) > 4
  <2>1. next \in StreamCells
    BY NextType, SizeAssumption DEF Arrive, AllRead
  <2>2. Size(next[1]) \in Nat /\ Size(next[1]) > 4
    BY <2>1, CellType, SizeType DEF HeaderCells
  <2> QED BY <2>1, <2>2, CellType
<1>3. /\ next' = After(next)
      /\ next' \in StreamCells \/ next' = <<NumMessages + 1, 1>>
      /\ next[1] <= next'[1] /\ next'[1] \in Nat
  <2>1. next' = After(next)
    BY DEF Arrive
  <2>2. CASE next[2] < Size(next[1])
    <3>1. next' = <<next[1], next[2] + 1>>
      BY <2>1, <2>2 DEF After
    <3> QED BY <1>2, <2>1, <2>2, <3>1 DEF StreamCells
  <2>3. CASE ~(next[2] < Size(next[1])) /\ next[1] = NumMessages
    BY <1>2, <2>1, <2>3, SizeAssumption DEF After
  <2>4. CASE ~(next[2] < Size(next[1])) /\ next[1] # NumMessages
    <3>1. next' = <<next[1] + 1, 1>> /\ next[1] + 1 \in 1 .. NumMessages
      BY <1>2, <2>1, <2>4, SizeAssumption DEF After
    <3>2. 1 \in 1 .. Size(next[1] + 1)
      BY <3>1, SizeType DEF HeaderCells
    <3> QED BY <1>2, <2>1, <3>1, <3>2 DEF StreamCells
  <2> QED BY <2>2, <2>3, <2>4
<1>4. Typed'
  <2>1. next' \in StreamCells' \/ next' = <<NumMessages + 1, 1>>
    BY <1>1, <1>3, StreamIsConstant
  <2>2. buffer' \in [Positions -> StreamCells' \cup {Nul}]
    BY <1>1, <1>2, StreamIsConstant DEF Typed, Arrive
  <2> QED BY <1>1, <2>1, <2>2 DEF Typed, Arrive
<1>5. \A p \in 1 .. currentPos + 1 : At(p)' = At(p)
  BY <1>1 DEF At, Arrive, Typed, Positions
<1>6. \A p : p = currentPos + 2 => At(p)' = After(next)
  BY <1>1, <1>3 DEF At
<1>7. \A p \in 1 .. currentPos + 1 : At(p) \in StreamCells /\ At(p)[1] <= next[1]
  BY <1>1, <1>2 DEF At, InOrder
<1>8. \A i : Size(i)' = Size(i)
  BY <1>1, StreamIsConstant
<1>9. InOrder'
  <2>1. ASSUME NEW p \in 1 .. currentPos + 1
        PROVE  (buffer[p] \in StreamCells /\ buffer[p][1] <= next[1])'
    <3>1. At(p)' = At(p) /\ buffer'[p] = At(p)'
      BY <1>1, <1>5 DEF At
    <3>2. At(p)[1] \in Nat /\ At(p)[1] <= next[1] /\ next[1] \in Nat /\ next'[1] \in Nat
      BY <1>1, <1>2, <1>3, <1>7, CellType
    <3> QED BY <1>1, <1>3, <1>7, <3>1, <3>2, StreamIsConstant
  <2>2. ASSUME NEW p \in 1 .. currentPos + 1, NEW q \in p .. currentPos + 2
        PROVE  /\ At(p)'[2] + (q - p) <= Size(At(p)'[1])
                    => At(q)' = <<At(p)'[1], At(p)'[2] + (q - p)>>
               /\ At(p)'[2] + (q - p) = Size(At(p)'[1]) + 1
                    => At(q)' = <<At(p)'[1] + 1, 1>>
    <3> DEFINE c == At(p)
    <3>1. c \in StreamCells /\ At(p)' = c
      BY <1>5, <1>7
    <3>2. /\ c = <<c[1], c[2]>> /\ c[1] \in Nat /\ c[2] \in Nat /\ c[2] <= Size(c[1])
          /\ Size(c[1]) \in Nat
      BY <3>1, CellType, SizeType
    <3>3. CASE q = p
      BY <3>1, <3>2, <3>3
    <3>4. CASE q # p /\ q <= currentPos + 1
      <4>1. p \in 1 .. currentPos /\ q \in p .. currentPos + 1
        BY <1>1, <3>4
      <4>2. At(q)' = At(q)
        BY <1>1, <1>5, <3>4, <4>1
      <4> QED BY <3>1, <4>1, <4>2 DEF InOrder
    <3>5. CASE q = currentPos + 2 /\ p = currentPos + 1
      <4>1. c = next /\ At(q)' = After(next) /\ q - p = 1
        BY <1>1, <1>6, <3>5 DEF At
      <4> HIDE DEF c
      <4> QED BY <1>2, <3>1, <4>1 DEF After
    <3>6. CASE q = currentPos + 2 /\ p <= currentPos
      <4>1. /\ p \in 1 .. currentPos /\ currentPos + 1 \in p .. currentPos + 1
            /\ At(q)' = After(next) /\ At(currentPos + 1) = next
            /\ q - p = (currentPos + 1 - p) + 1 /\ currentPos + 1 - p \in Nat
        BY <1>1, <1>6, <3>6 DEF At
      <4>2. c[2] + (currentPos + 1 - p) <= Size(c[1])
               => next = <<c[1], c[2] + (currentPos + 1 - p)>>
        <5>1. PICK r \in p .. currentPos + 1 : r = currentPos + 1
          BY <4>1
        <5>2. c[2] + (r - p) <= Size(c[1]) => At(r) = <<c[1], c[2] + (r - p)>>
          BY <4>1, <5>1 DEF InOrder
        <5> HIDE DEF c
        <5> QED BY <1>1, <4>1, <5>1, <5>2
      <4> DEFINE n == currentPos + 1 - p
      <4> HIDE DEF c, n
      <4>3. ASSUME c[2] + (n + 1) <= Size(c[1])
            PROVE  After(next) = <<c[1], c[2] + (n + 1)>>
        BY <3>2, <4>1, <4>2, <4>3 DEF After, n
      <4>4. ASSUME c[2] + (n + 1) = Size(c[1]) + 1
            PROVE  After(next) = <<c[1] + 1, 1>>
        BY <3>2, <4>1, <4>2, <4>4 DEF After, n
      <4> QED BY <3>1, <4>1, <4>3, <4>4 DEF n
    <3> QED BY <1>1, <3>3, <3>4, <3>5, <3>6
  <2> QED BY <1>1, <1>8, <2>1, <2>2 DEF InOrder
<1>10. At(1)' = At(1)
  BY <1>1, <1>5
<1>11. Aligned'
  BY <1>10 DEF Aligned, Arrive
<1>12. /\ LastMessage' = LastMessage
       /\ \A i : HandedOver(i)' <=> HandedOver(i)
  BY DeliveredKeeps DEF Arrive
<1>13. Delivered'
  <2>1. (dispatched \in Seq({Message(i) : i \in 1 .. NumMessages}))'
    BY <1>1, StreamIsConstant DEF Delivered, Arrive
  <2>2. AllBefore(At(1)[1])'
    BY <1>10, <1>12 DEF Delivered, AllBefore
  <2> QED BY <2>1, <2>2 DEF Delivered, Settled, Arrive
<1>14. Latest'
  <2>1. LastMessage < next'[1]
    <3>1. LastMessage \in Nat /\ LastMessage < next[1]
      BY LastMessageType DEF Latest
    <3> QED BY <1>2, <1>3, <3>1
  <2> QED BY <1>10, <1>12, <2>1 DEF Latest, Settled, Arrive
<1> QED BY <1>4, <1>9, <1>11, <1>13, <1>14
(* Where the buffer does not change, neither does what it holds.           *)
LEMMA WindowKeeps ==
  ASSUME Typed, InOrder, UNCHANGED <<lengths, next, buffer, currentPos>>
  PROVE  /\ \A p : At(p)' = At(p)
         /\ InOrder'
         /\ StreamCells' = StreamCells
<1>1. \A p : At(p)' = At(p)
  BY DEF At
<1>2. StreamCells' = StreamCells /\ \A i : Size(i)' = Size(i)
  BY StreamIsConstant
<1> QED BY <1>1, <1>2 DEF InOrder

(* A read returns: parsing begins with what lies first in the buffer.      *)
LEMMA ReturnIInv ==
  ASSUME IInv, Return
  PROVE  IInv'
<1> USE DEF IInv
<1>1. /\ \A p : At(p)' = At(p)
      /\ InOrder'
      /\ StreamCells' = StreamCells
  BY WindowKeeps DEF Return
<1>2. /\ LastMessage' = LastMessage
      /\ \A i : HandedOver(i)' <=> HandedOver(i)
      /\ \A i : Message(i)' = Message(i)
  BY DeliveredKeeps, StreamIsConstant DEF Return
<1>3. 0 \in 0 .. BUFFER_SIZE /\ 0 <= currentPos /\ 0 + 1 = 1
  BY SizeAssumption DEF Typed
<1>4. Typed'
  <2>1. cutName' \in BOOLEAN
    BY DEF Typed, Return
  <2> QED BY <1>1, <1>3, <2>1 DEF Typed, Return
<1>5. At(1)' = At(1) /\ At(processedPos + 1)' = At(1)
  BY <1>1, <1>3 DEF Return
<1>6. Aligned'
  BY <1>3, <1>5 DEF Aligned, Return, OldBytesBehind
<1>7. Delivered'
  <2>1. AllBefore(At(1)[1])' /\ AllBefore(At(processedPos + 1)[1])'
    BY <1>2, <1>5 DEF Delivered, AllBefore
  <2>2. (dispatched \in Seq({Message(i) : i \in 1 .. NumMessages}))'
    BY <1>2 DEF Delivered, Return
  <2> QED BY <2>1, <2>2 DEF Delivered, Settled, Return
<1>8. Latest'
  <2>1. ~cutName' => ~cutName
    BY DEF Return
  <2> QED BY <1>2, <1>5, <2>1 DEF Latest, Settled, Return
<1> QED BY <1>1, <1>4, <1>6, <1>7, <1>8

(* A read returns nothing: nothing waits to be parsed either.              *)
LEMMA ReturnNothingIInv ==
  ASSUME IInv, ReturnNothing
  PROVE  IInv'
<1> USE DEF IInv
<1>1. /\ \A p : At(p)' = At(p)
      /\ InOrder'
      /\ StreamCells' = StreamCells
  BY WindowKeeps DEF ReturnNothing
<1>2. /\ LastMessage' = LastMessage
      /\ \A i : HandedOver(i)' <=> HandedOver(i)
      /\ \A i : Message(i)' = Message(i)
  BY DeliveredKeeps, StreamIsConstant DEF ReturnNothing
<1>3. Typed'
  BY <1>1 DEF Typed, ReturnNothing
<1>4. Aligned'
  BY <1>1 DEF Aligned, ReturnNothing
<1>5. Delivered'
  <2>1. AllBefore(At(1)[1])' /\ AllBefore(next[1])'
    BY <1>1, <1>2 DEF Delivered, AllBefore, Settled, ReturnNothing
  <2>2. (dispatched \in Seq({Message(i) : i \in 1 .. NumMessages}))'
    BY <1>2 DEF Delivered, ReturnNothing
  <2> QED BY <2>1, <2>2 DEF Delivered, Settled, ReturnNothing
<1>6. Latest'
  BY <1>2 DEF Latest, Settled, ReturnNothing
<1> QED BY <1>1, <1>3, <1>4, <1>5, <1>6

(* A message is handed over: the one that lies at processedPos, as the     *)
(* client sent it.  Parsing goes on with the one that follows it.          *)
LEMMA DispatchesTheMessage ==
  ASSUME IInv, DispatchMessage
  PROVE  \E i \in 1 .. NumMessages :
           /\ i = At(processedPos + 1)[1]
           /\ dispatched' = Append(dispatched, Message(i))
           /\ processedPos' = processedPos + Size(i)
           /\ processedPos' <= currentPos
           /\ At(processedPos + Size(i) + 1) = <<i + 1, 1>>
           /\ i + 1 <= next[1]
<1> USE DEF IInv
<1>1. /\ pc = "parsing" /\ processedPos < currentPos /\ ParsesMessage
      /\ processedPos \in Nat /\ currentPos \in Nat
  BY SizeAssumption DEF Typed, DispatchMessage
<1>2. PICK i \in 1 .. NumMessages : i = buffer[processedPos + 1][1]
  BY <1>1, WindowCells
<1>3. /\ processedPos + Size(i) <= currentPos
      /\ TotalMessageSize = Size(i)
      /\ Size(i) \in Nat
  BY <1>1, <1>2, ParsesWholeMessages, SizeType
<1>4. /\ i = At(processedPos + 1)[1]
      /\ At(processedPos + Size(i) + 1) = <<i + 1, 1>>
  BY <1>1, <1>2, <1>3, WindowCells
<1>5. ASSUME NEW k \in 1 .. Size(i)
      PROVE  buffer[processedPos + k] = <<i, k>>
  <2>1. processedPos + k <= currentPos + 1 /\ processedPos + k # currentPos + 1
    BY <1>1, <1>3
  <2>2. At(processedPos + k) = <<i, k>>
    BY <1>1, <1>2, <2>1, WindowCells
  <2> QED BY <2>1, <2>2 DEF At
<1>6. [k \in 1 .. TotalMessageSize |-> buffer[processedPos + k]] = Message(i)
  BY <1>3, <1>5 DEF Message
<1>7. i + 1 <= next[1]
  <2> DEFINE p == processedPos + Size(i) + 1
  <2>1. CASE p = currentPos + 1
    BY <1>4, <2>1 DEF At
  <2>2. CASE p # currentPos + 1
    <3>1. p \in 1 .. currentPos
      BY <1>1, <1>3, <2>2
    <3>2. buffer[p] = <<i + 1, 1>>
      BY <1>4, <2>2 DEF At
    <3> HIDE DEF p
    <3>3. buffer[p][1] <= next[1]
      BY <3>1 DEF InOrder
    <3> QED BY <3>2, <3>3
  <2> QED BY <2>1, <2>2
<1> QED BY <1>2, <1>3, <1>4, <1>6, <1>7 DEF DispatchMessage

(* A message that is handed over is the one in front, and the next is      *)
(* parsed behind it.                                                       *)
LEMMA DispatchIInv ==
  ASSUME IInv, DispatchMessage
  PROVE  IInv'
<1> USE DEF IInv
<1>1. /\ \A p : At(p)' = At(p)
      /\ InOrder'
      /\ StreamCells' = StreamCells
  BY WindowKeeps DEF DispatchMessage
<1>2. PICK i \in 1 .. NumMessages :
           /\ i = At(processedPos + 1)[1]
           /\ dispatched' = Append(dispatched, Message(i))
           /\ processedPos' = processedPos + Size(i)
           /\ processedPos' <= currentPos
           /\ At(processedPos + Size(i) + 1) = <<i + 1, 1>>
           /\ i + 1 <= next[1]
  BY DispatchesTheMessage
<1>3. /\ LastMessage' = i
      /\ dispatched' \in Seq({Message(j)' : j \in 1 .. NumMessages})
      /\ HandedOver(i)'
      /\ \A j : HandedOver(j) => HandedOver(j)'
  BY <1>2, DeliveredGrows DEF DispatchMessage
<1>4. Typed'
  <2>1. processedPos' \in 0 .. BUFFER_SIZE
    <3>1. Size(i) \in Nat
      BY SizeType
    <3> QED BY <1>2, <3>1, SizeAssumption DEF Typed
  <2> QED BY <1>1, <2>1 DEF Typed, DispatchMessage
<1>5. At(1)' = At(1) /\ At(processedPos + 1)' = <<i + 1, 1>>
  BY <1>1, <1>2
<1>6. Aligned'
  BY <1>2, <1>5 DEF Aligned, DispatchMessage, OldBytesBehind
<1>7. Delivered'
  <2>1. AllBefore(At(1)[1])'
    BY <1>3, <1>5 DEF Delivered, AllBefore
  <2>2. AllBefore(At(processedPos + 1)[1])'
    <3>1. AllBefore(i)
      BY <1>2 DEF Delivered, DispatchMessage
    <3>2. \A j \in 1 .. NumMessages : j < i + 1 => HandedOver(j)'
      BY <1>3, <3>1 DEF AllBefore
    <3> QED BY <1>5, <3>2 DEF AllBefore
  <2>3. (dispatched \in Seq({Message(j) : j \in 1 .. NumMessages}))'
    BY <1>3
  <2> QED BY <2>1, <2>2, <2>3 DEF Delivered, Settled, DispatchMessage
<1>8. Latest'
  <2>1. i < next[1]
    BY <1>2, NextType
  <2> QED BY <1>3, <1>5, <2>1 DEF Latest, Settled, DispatchMessage
<1> QED BY <1>1, <1>4, <1>6, <1>7, <1>8
(* Parsing stops at the message that has not arrived completely, if one    *)
(* has begun: nothing that has arrived is left behind.                     *)
LEMMA StopsAtTheNextCell ==
  ASSUME IInv, pc = "parsing", processedPos < currentPos, ~ParsesMessage
  PROVE  /\ At(processedPos + 1)[1] = next[1]
         /\ next[1] \in 1 .. NumMessages
         /\ currentPos - processedPos < Size(next[1])
<1> USE DEF IInv
<1>1. processedPos \in Nat /\ currentPos \in Nat
  BY SizeAssumption DEF Typed
<1>2. PICK i \in 1 .. NumMessages : i = buffer[processedPos + 1][1]
  BY WindowCells
<1>3. Size(i) \in Nat /\ processedPos + Size(i) > currentPos
  BY <1>1, <1>2, ParsesWholeMessages, SizeType
<1> DEFINE k == currentPos + 1 - processedPos
<1>4. k \in 1 .. Size(i) /\ processedPos + k = currentPos + 1
      /\ processedPos + k <= currentPos + 1
  BY <1>1, <1>3
<1> HIDE DEF k
<1>5. At(processedPos + k) = <<i, k>> /\ i = At(processedPos + 1)[1]
  BY <1>2, <1>4, WindowCells
<1>6. next = <<i, k>>
  BY <1>4, <1>5 DEF At
<1> QED BY <1>1, <1>3, <1>5, <1>6

(* The parser stops where the next message begins, or at a delimiter of    *)
(* old bytes.                                                              *)
LEMMA StopParsingIInv ==
  ASSUME IInv, StopParsing
  PROVE  IInv'
<1> USE DEF IInv
<1>1. /\ \A p : At(p)' = At(p)
      /\ InOrder'
      /\ StreamCells' = StreamCells
  BY WindowKeeps DEF StopParsing
<1>2. /\ LastMessage' = LastMessage
      /\ \A i : HandedOver(i)' <=> HandedOver(i)
      /\ \A i : Message(i)' = Message(i)
  BY DeliveredKeeps, StreamIsConstant DEF StopParsing
<1>3. /\ pc = "parsing" /\ processedPos <= currentPos
      /\ processedPos \in Nat /\ currentPos \in Nat
  BY SizeAssumption DEF Typed, Aligned, StopParsing
<1>4. At(processedPos + 1)[1] = next[1]
  <2>1. CASE processedPos >= currentPos
    BY <1>3, <2>1 DEF At
  <2>2. CASE processedPos < currentPos /\ ~ParsesMessage
    BY <1>3, <2>2, StopsAtTheNextCell
  <2> QED BY <2>1, <2>2 DEF StopParsing
<1>5. \/ processedPos' = processedPos
      \/ /\ processedPos' \in 0 .. BUFFER_SIZE /\ processedPos' > currentPos
         /\ cutName /\ currentPos < BUFFER_SIZE
  <2>1. CASE /\ processedPos < currentPos /\ Delimiters # {} /\ Names = {}
             /\ processedPos' = FirstOf(Delimiters)
    BY <1>3, <2>1, SkipsOnlyBehindACutName DEF Aligned
  <2> QED BY <2>1 DEF StopParsing
<1>6. Typed'
  BY <1>1, <1>5 DEF Typed, StopParsing
<1>7. Aligned'
  <2>1. At(1)'[2] = 1
    BY <1>1 DEF Aligned
  <2>2. CASE processedPos' = processedPos
    <3>1. At(processedPos + 1)' = At(processedPos + 1)
      BY <1>1, <2>2
    <3> QED BY <1>3, <1>4, <2>1, <2>2, <3>1 DEF Aligned, StopParsing
  <2>3. CASE processedPos' > currentPos /\ cutName /\ currentPos < BUFFER_SIZE
    <3>1. ~(processedPos' <= currentPos')
      BY <1>3, <1>5, <2>3 DEF StopParsing
    <3> QED BY <2>1, <2>3, <3>1 DEF Aligned, StopParsing
  <2> QED BY <1>5, <2>2, <2>3
<1>8. Delivered'
  <2>1. AllBefore(At(1)[1])' /\ AllBefore(next[1])'
    BY <1>1, <1>2, <1>3, <1>4 DEF Delivered, AllBefore, StopParsing
  <2>2. (dispatched \in Seq({Message(i) : i \in 1 .. NumMessages}))'
    BY <1>2 DEF Delivered, StopParsing
  <2> QED BY <2>1, <2>2 DEF Delivered, Settled, StopParsing
<1>9. Latest'
  <2>1. LastMessage \in Nat /\ next[1] \in Nat
    BY LastMessageType, NextType
  <2>2. LastMessage + 1 = next[1]
    BY <1>3, <1>4, <2>1 DEF Latest
  <2> QED BY <1>2, <2>1, <2>2 DEF Latest, Settled, StopParsing
<1> QED BY <1>1, <1>6, <1>7, <1>8, <1>9

(* What is left is moved to the front.                                     *)
LEMMA CompactIInv ==
  ASSUME IInv, Compact
  PROVE  IInv'
<1> USE DEF IInv
<1>1. /\ processedPos \in Nat /\ currentPos \in Nat /\ BUFFER_SIZE \in Nat
      /\ currentPos <= BUFFER_SIZE /\ pc = "moving"
  BY SizeAssumption DEF Typed, Compact
<1>2. /\ LastMessage' = LastMessage
      /\ \A i : HandedOver(i)' <=> HandedOver(i)
      /\ \A i : Message(i)' = Message(i) /\ Size(i)' = Size(i)
      /\ StreamCells' = StreamCells
  BY DeliveredKeeps, StreamIsConstant DEF Compact
<1>3. CASE processedPos > currentPos
  <2>1. /\ UNCHANGED <<lengths, next, buffer, currentPos>>
        /\ cutName'
    BY <1>1, <1>3 DEF Compact, Aligned
  <2>2. (\A p : At(p)' = At(p)) /\ InOrder'
    BY <2>1, WindowKeeps
  <2>3. Typed'
    BY <1>2, <2>1 DEF Typed, Compact
  <2>4. Aligned'
    BY <2>2 DEF Aligned, Compact
  <2>5. Delivered'
    <3>1. AllBefore(At(1)[1])' /\ AllBefore(next[1])'
      BY <1>1, <1>2, <2>1, <2>2 DEF Delivered, AllBefore, Settled
    <3>2. (dispatched \in Seq({Message(i) : i \in 1 .. NumMessages}))'
      BY <1>2 DEF Delivered, Compact
    <3> QED BY <3>1, <3>2 DEF Delivered, Settled, Compact
  <2>6. Latest'
    <3>1. LastMessage + 1 = next[1]
      BY <1>1 DEF Latest, Settled
    <3>2. At(1)[1] <= next[1]
      <4>1. CASE currentPos = 0
        BY <4>1, NextType DEF At
      <4>2. CASE currentPos # 0
        BY <1>1, <4>2 DEF At, InOrder
      <4> QED BY <4>1, <4>2
    <3> QED BY <1>2, <2>1, <2>2, <3>1, <3>2 DEF Latest, Settled, Compact
  <2> QED BY <2>2, <2>3, <2>4, <2>5, <2>6
<1>4. CASE processedPos <= currentPos
  <2>1. /\ currentPos' = currentPos - processedPos
        /\ currentPos' \in 0 .. BUFFER_SIZE
        /\ \A p \in 1 .. currentPos' :
             /\ p + processedPos \in 1 .. currentPos
             /\ buffer'[p] = buffer[p + processedPos]
    BY <1>1, <1>4 DEF Compact, Positions
  <2>2. \A p \in 1 .. currentPos' + 1 : At(p)' = At(p + processedPos)
    <3> SUFFICES ASSUME NEW p \in 1 .. currentPos' + 1 PROVE At(p)' = At(p + processedPos)
      OBVIOUS
    <3>1. CASE p = currentPos' + 1
      <4>1. p + processedPos = currentPos + 1
        BY <1>1, <2>1, <3>1
      <4> QED BY <3>1, <4>1 DEF At, Compact
    <3>2. CASE p # currentPos' + 1
      <4>1. p \in 1 .. currentPos'
        BY <2>1, <3>2
      <4>2. p + processedPos # currentPos + 1
        BY <1>1, <2>1, <4>1
      <4> QED BY <2>1, <3>2, <4>1, <4>2 DEF At
    <3> QED BY <3>1, <3>2
  <2>3. Typed'
    <3>1. buffer' \in [Positions -> StreamCells \cup {Nul}]
      <4>1. ASSUME NEW p \in Positions
            PROVE  buffer'[p] \in StreamCells \cup {Nul}
        <5>1. CASE p \in 1 .. currentPos'
          BY <2>1, <5>1 DEF InOrder
        <5>2. CASE p \notin 1 .. currentPos'
          <6>1. ~(p <= currentPos - processedPos)
            BY <1>1, <2>1, <5>2 DEF Positions
          <6> QED BY <1>4, <6>1 DEF Compact, Typed
        <5> QED BY <5>1, <5>2
      <4>2. buffer' = [p \in Positions |-> buffer'[p]]
        BY <1>4 DEF Compact
      <4> HIDE DEF IInv
      <4> QED BY <4>1, <4>2
    <3> QED BY <1>2, <2>1, <3>1 DEF Typed, Compact
  <2>4. InOrder'
    <3>1. ASSUME NEW p \in 1 .. currentPos'
          PROVE  buffer'[p] \in StreamCells /\ buffer'[p][1] <= next[1]
      BY <2>1 DEF InOrder
    <3>2. ASSUME NEW p \in 1 .. currentPos', NEW q \in p .. currentPos' + 1
          PROVE  /\ At(p)'[2] + (q - p) <= Size(At(p)'[1])
                      => At(q)' = <<At(p)'[1], At(p)'[2] + (q - p)>>
                 /\ At(p)'[2] + (q - p) = Size(At(p)'[1]) + 1
                      => At(q)' = <<At(p)'[1] + 1, 1>>
      <4>1. /\ p + processedPos \in 1 .. currentPos
            /\ q + processedPos \in p + processedPos .. currentPos + 1
            /\ (q + processedPos) - (p + processedPos) = q - p
            /\ p \in 1 .. currentPos' + 1 /\ q \in 1 .. currentPos' + 1
        BY <1>1, <2>1
      <4>2. At(p)' = At(p + processedPos) /\ At(q)' = At(q + processedPos)
        BY <2>2, <4>1
      <4>3. PICK a \in 1 .. currentPos : a = p + processedPos
        BY <4>1
      <4>4. PICK b \in a .. currentPos + 1 : b = q + processedPos
        BY <4>1, <4>3
      <4>5. /\ At(a)[2] + (b - a) <= Size(At(a)[1])
                 => At(b) = <<At(a)[1], At(a)[2] + (b - a)>>
            /\ At(a)[2] + (b - a) = Size(At(a)[1]) + 1
                 => At(b) = <<At(a)[1] + 1, 1>>
        BY DEF InOrder
      <4> QED BY <4>1, <4>2, <4>3, <4>4, <4>5
    <3>3. next' = next
      BY DEF Compact
    <3> QED BY <1>2, <3>1, <3>2, <3>3 DEF InOrder
  <2>5. At(1)' = At(processedPos + 1)
    <3>1. 1 \in 1 .. currentPos' + 1 /\ 1 + processedPos = processedPos + 1
      BY <1>1, <2>1
    <3> QED BY <2>2, <3>1
  <2>6. Aligned'
    BY <1>1, <1>4, <2>5 DEF Aligned, Compact
  <2>7. At(1)'[1] = next[1]
    BY <1>1, <1>4, <2>5 DEF Aligned
  <2>8. Delivered'
    <3>1. AllBefore(At(1)[1])' /\ AllBefore(next[1])'
      BY <1>1, <1>2, <2>7 DEF Delivered, AllBefore, Settled, Compact
    <3>2. (dispatched \in Seq({Message(i) : i \in 1 .. NumMessages}))'
      BY <1>2 DEF Delivered, Compact
    <3> QED BY <3>1, <3>2 DEF Delivered, Settled, Compact
  <2>9. Latest'
    <3>1. LastMessage \in Nat /\ next[1] \in Nat
      BY LastMessageType, NextType
    <3>2. LastMessage + 1 = next[1]
      BY <1>1 DEF Latest, Settled
    <3> QED BY <1>2, <2>7, <3>1, <3>2 DEF Latest, Settled, Compact
  <2> QED BY <2>3, <2>4, <2>6, <2>8, <2>9
<1> QED BY <1>1, <1>3, <1>4

(* A step that changes nothing.                                            *)
LEMMA StutterIInv ==
  ASSUME IInv, UNCHANGED vars
  PROVE  IInv'
<1> USE DEF vars
<1>1. /\ \A p : At(p)' = At(p)
      /\ InOrder'
      /\ StreamCells' = StreamCells
  BY WindowKeeps DEF IInv
<1>2. /\ LastMessage' = LastMessage
      /\ \A i : HandedOver(i)' <=> HandedOver(i)
      /\ \A i : Message(i)' = Message(i)
  BY DeliveredKeeps, StreamIsConstant
<1>3. Typed'
  BY <1>1 DEF IInv, Typed
<1>4. Aligned'
  BY <1>1 DEF IInv, Aligned, OldBytesBehind
<1>5. Delivered'
  BY <1>1, <1>2 DEF IInv, Delivered, AllBefore, Settled
<1>6. Latest'
  BY <1>1, <1>2 DEF IInv, Latest, Settled
<1> QED BY <1>1, <1>3, <1>4, <1>5, <1>6 DEF IInv

(* IInv is an invariant of the reader, for every buffer size, every number *)
(* of messages and every way of cutting the bytes into reads.              *)
THEOREM StdinReaderInvariant == Spec => []IInv
<1>1. IInv /\ [Next]_vars => IInv'
  <2> SUFFICES ASSUME IInv, [Next]_vars PROVE IInv'
    OBVIOUS
  <2> QED BY ArriveIInv, ReturnIInv, ReturnNothingIInv, DispatchIInv, StopParsingIInv,
             CompactIInv, StutterIInv DEF Next
<1> QED BY InitIInv, <1>1, PTL DEF Spec

(* The type of every variable.                                             *)
THEOREM TypeCorrect == Spec => []TypeOK
<1>1. IInv => TypeOK
  <2> SUFFICES ASSUME IInv PROVE TypeOK
    OBVIOUS
  <2>1. StreamCells \subseteq Cells
    BY SizeAssumption DEF StreamCells, Cells
  <2>2. next \in Cells
    BY <2>1, SizeAssumption DEF IInv, Typed, Cells
  <2>3. buffer \in [Positions -> Cells \cup {Nul}]
    BY <2>1 DEF IInv, Typed
  <2>4. dispatched \in Seq(Seq(Cells \cup {Nul}))
    <3>1. ASSUME NEW i \in 1 .. NumMessages
          PROVE  Message(i) \in Seq(Cells \cup {Nul})
      <4>1. \A k \in 1 .. Size(i) : <<i, k>> \in Cells
        BY SizeAssumption DEF Cells
      <4>2. Size(i) \in Nat
        BY SizeType DEF IInv
      <4> QED BY <4>1, <4>2, SeqDef DEF Message
    <3>2. {Message(i) : i \in 1 .. NumMessages} \subseteq Seq(Cells \cup {Nul})
      BY <3>1
    <3> QED BY <3>2 DEF IInv, Delivered
  <2> QED BY <2>2, <2>3, <2>4 DEF IInv, Typed, TypeOK
<1> QED BY StdinReaderInvariant, <1>1, PTL

(* The handler is only given whole messages, each as the client sent it.   *)
THEOREM WholeMessages == Spec => []OnlyWholeMessages
<1>1. IInv => OnlyWholeMessages
  BY DEF IInv, Delivered, OnlyWholeMessages
<1> QED BY StdinReaderInvariant, <1>1, PTL

(* When the reader waits for input, it has handed over every message that  *)
(* has arrived completely.                                                 *)
THEOREM NothingLeftBehind == Spec => []NoMessageLeftBehind
<1>1. IInv => NoMessageLeftBehind
  BY DEF IInv, Delivered, NoMessageLeftBehind, Settled, AllBefore, HandedOver
<1> QED BY StdinReaderInvariant, <1>1, PTL

-----------------------------------------------------------------------------
(* How many messages were handed over tells which, as long as no name was  *)
(* cut: with Latest, the next is the first that was not.                   *)
Counted == ~cutName => LastMessage = Len(dispatched)

(* A dispatch hands over the message after the last one.                   *)
LEMMA CountsOn ==
  ASSUME IInv, Counted, OnceUnlessNameIsCut, [Next]_vars
  PROVE  Counted' /\ OnceUnlessNameIsCut'
<1>1. CASE DispatchMessage
  <2> SUFFICES ASSUME ~cutName PROVE Counted' /\ OnceUnlessNameIsCut'
    BY <1>1 DEF Counted, OnceUnlessNameIsCut, DispatchMessage
  <2>1. PICK i \in 1 .. NumMessages : /\ i = At(processedPos + 1)[1]
                                      /\ dispatched' = Append(dispatched, Message(i))
    BY <1>1, DispatchesTheMessage
  <2>2. LastMessage' = i /\ UNCHANGED lengths
    BY <1>1, <2>1, DeliveredGrows DEF IInv, DispatchMessage
  <2>3. i = Len(dispatched) + 1
    BY <1>1, <2>1 DEF IInv, Latest, Counted, DispatchMessage
  <2>4. /\ Len(dispatched) \in Nat
        /\ DOMAIN dispatched = 1 .. Len(dispatched)
        /\ Len(dispatched') = Len(dispatched) + 1
        /\ DOMAIN dispatched' = 1 .. Len(dispatched) + 1
        /\ dispatched'[Len(dispatched) + 1] = Message(i)
        /\ \A d \in 1 .. Len(dispatched) : dispatched'[d] = dispatched[d]
    <3> DEFINE S == {Message(j) : j \in 1 .. NumMessages}
    <3>1. dispatched \in Seq(S) /\ Message(i) \in S
      BY DEF IInv, Delivered
    <3> HIDE DEF S
    <3>2. Append(dispatched, Message(i)) \in Seq(S)
      BY <3>1, AppendProperties
    <3> QED BY <2>1, <3>1, <3>2, AppendProperties, LenProperties
  <2>5. Counted'
    BY <2>2, <2>3, <2>4 DEF Counted
  <2>6. Messages' = Messages
    BY <2>2, StreamIsConstant DEF Messages
  <2>7. Messages[i] = Message(i)
    BY DEF Messages
  <2>8. ASSUME NEW d \in DOMAIN dispatched' PROVE dispatched'[d] = Messages[d]
    <3>1. CASE d \in 1 .. Len(dispatched)
      BY <2>4, <3>1 DEF OnceUnlessNameIsCut
    <3>2. CASE d = Len(dispatched) + 1
      BY <2>3, <2>4, <2>7, <3>2
    <3> QED BY <2>4, <2>8, <3>1, <3>2
  <2>9. OnceUnlessNameIsCut'
    BY <2>6, <2>8 DEF OnceUnlessNameIsCut
  <2> QED BY <2>5, <2>9
<1>2. CASE Arrive \/ Return \/ ReturnNothing \/ StopParsing \/ Compact \/ UNCHANGED vars
  <2>1. UNCHANGED <<lengths, dispatched>> /\ (~cutName' => ~cutName)
    <3>1. CASE Return
      <4>1. cutName' = (cutName \/ (next[2] = 2 /\ OldBytesBehind))
        BY <3>1 DEF Return
      <4>2. ~cutName' => ~cutName
        BY <4>1, Zenon
      <4> QED BY <3>1, <4>2 DEF Return
    <3>2. CASE Arrive \/ ReturnNothing \/ StopParsing \/ Compact \/ UNCHANGED vars
      <4>1. UNCHANGED <<lengths, dispatched, cutName>>
        BY <3>2 DEF Arrive, ReturnNothing, StopParsing, Compact, vars
      <4> QED BY <4>1
    <3> QED BY <1>2, <3>1, <3>2
  <2>2. LastMessage' = LastMessage /\ Messages' = Messages
    BY <2>1, DeliveredKeeps, StreamIsConstant DEF Messages
  <2> QED BY <2>1, <2>2 DEF Counted, OnceUnlessNameIsCut
<1> QED BY <1>1, <1>2 DEF Next

(* Each message is handed over once and in order, until a read has ended   *)
(* inside a header name over old bytes: for any buffer, also one that some *)
(* messages do not fit in, and however else the reads cut the stream.      *)
THEOREM OnceInOrder == Spec => []OnceUnlessNameIsCut
<1>1. Init => Counted /\ OnceUnlessNameIsCut
  BY DEF Init, Counted, OnceUnlessNameIsCut, LastMessage
<1>2. IInv /\ (Counted /\ OnceUnlessNameIsCut) /\ [Next]_vars
        => (Counted /\ OnceUnlessNameIsCut)'
  BY CountsOn
<1> QED BY StdinReaderInvariant, <1>1, <1>2, PTL DEF Spec

-----------------------------------------------------------------------------
(* With a buffer that holds the longest message there is always room for   *)
(* another byte when the reader reads: the end it sees is the end.         *)
LEMMA RoomStep ==
  ASSUME Fits, IInv, IInv', Room, [Next]_vars
  PROVE  Room'
<1>1. /\ processedPos \in Nat /\ currentPos \in Nat /\ BUFFER_SIZE \in Nat
      /\ BUFFER_SIZE > 0 /\ processedPos <= BUFFER_SIZE
  BY SizeAssumption DEF IInv, Typed
<1>2. CASE Arrive
  BY <1>2 DEF Arrive, Room
<1>3. CASE Return
  BY <1>3 DEF Return, Room
<1>4. CASE ReturnNothing
  BY <1>1, <1>4 DEF ReturnNothing, Room, AllRead
<1>5. CASE DispatchMessage
  BY <1>5 DEF DispatchMessage, Room
<1>6. CASE StopParsing
  <2>1. CASE processedPos >= currentPos /\ UNCHANGED processedPos
    BY <1>1, <1>6, <2>1 DEF StopParsing, Room
  <2>2. CASE processedPos < currentPos /\ ~ParsesMessage
    <3>1. next[1] \in 1 .. NumMessages /\ currentPos - processedPos < Size(next[1])
      BY <1>6, <2>2, StopsAtTheNextCell DEF StopParsing
    <3>2. lengths[next[1]] \in BodyLengths
      BY <3>1 DEF IInv, Typed
    <3>3. Size(next[1]) \in Nat /\ Size(next[1]) <= BUFFER_SIZE
      BY <3>1, <3>2, SizeType DEF Fits, Size, IInv
    <3>4. \/ processedPos' = processedPos
          \/ ~(processedPos' <= currentPos)
      <4>1. CASE Delimiters # {} /\ Names = {}
        <5>1. FirstOf(Delimiters) \in Nat /\ FirstOf(Delimiters) > currentPos
          BY <1>1, <1>6, <2>2, <4>1, SkipsOnlyBehindACutName DEF IInv, StopParsing
        <5> QED BY <1>1, <1>6, <2>2, <4>1, <5>1 DEF StopParsing
      <4> QED BY <1>6, <2>2, <4>1 DEF StopParsing
    <3> QED BY <1>1, <1>6, <3>1, <3>3, <3>4 DEF StopParsing, Room
  <2> QED BY <1>6, <2>1, <2>2 DEF StopParsing
<1>7. CASE Compact
  BY <1>1, <1>7 DEF Compact, Room, IInv, Aligned
<1>8. CASE UNCHANGED vars
  BY <1>8 DEF vars, Room, AllRead
<1> QED BY <1>2, <1>3, <1>4, <1>5, <1>6, <1>7, <1>8 DEF Next

(* Room is kept as long as every message fits in the buffer.               *)
LEMMA RoomInvariant == ASSUME Fits PROVE Spec => []Room
<1>1. Init => Room
  BY SizeAssumption DEF Init, Room
<1>2. IInv /\ IInv' /\ Room /\ [Next]_vars => Room'
  BY RoomStep
<1> QED BY StdinReaderInvariant, <1>1, <1>2, PTL DEF Spec

(* Reading stops only at the end of the input, provided that the buffer    *)
(* holds the longest message.                                              *)
THEOREM EofOnlyAtTheEnd == ASSUME Fits PROVE Spec => []EofIsDetected
<1>1. Room => EofIsDetected
  BY DEF Room, EofIsDetected
<1> QED BY RoomInvariant, <1>1, PTL
-----------------------------------------------------------------------------
(* The channel's messages are all different, so the place of one is its    *)
(* number, and the latest message of the channel is the last handed over.  *)
LEMMA PlaceOfMessage ==
  ASSUME Typed, NEW i \in 1 .. NumMessages
  PROVE  Channel!Place(Message(i)) = i
<1>1. ASSUME NEW j \in 1 .. NumMessages
      PROVE  Message(j)[1] = <<j, 1>>
  <2>1. 1 \in 1 .. Size(j)
    BY SizeType DEF HeaderCells
  <2> QED BY <2>1 DEF Message
<1>2. ASSUME NEW j \in 1 .. NumMessages, Messages[j] = Message(i)
      PROVE  j = i
  <2>1. Message(j) = Message(i)
    BY <1>2 DEF Messages
  <2>2. <<j, 1>> = <<i, 1>>
    BY <1>1, <2>1
  <2> QED BY <2>2
<1>3. DOMAIN Messages = 1 .. NumMessages /\ Messages[i] = Message(i)
  BY DEF Messages
<1>4. Channel!Place(Message(i)) = CHOOSE j \in DOMAIN Messages : Messages[j] = Message(i)
  BY DEF Channel!Place
<1> QED BY <1>2, <1>3, <1>4

(* The last message handed over, in the words of MessageChannel.           *)
LEMMA LatestOfChannel ==
  ASSUME Typed, Delivered
  PROVE  Channel!Latest = LastMessage
<1>1. CASE dispatched = <<>>
  BY <1>1 DEF Channel!Latest, LastMessage
<1>2. CASE dispatched # <<>>
  <2>1. Len(dispatched) \in DOMAIN dispatched
    BY <1>2 DEF Delivered
  <2>2. PICK i \in 1 .. NumMessages : dispatched[Len(dispatched)] = Message(i)
    BY <2>1 DEF Delivered
  <2>3. 1 \in 1 .. Size(i)
    BY SizeType DEF HeaderCells
  <2>4. Message(i)[1] = <<i, 1>>
    BY <2>3 DEF Message
  <2> QED BY <1>2, <2>2, <2>4, PlaceOfMessage DEF LastMessage, Channel!Latest
<1> QED BY <1>1, <1>2

(* Every step of the reader is a step of the channel or changes nothing of *)
(* it: handing over a message delivers it, a read that ends inside a name  *)
(* disturbs the channel, and the end of the input ends it.                 *)
LEMMA ChannelStep ==
  ASSUME Fits, IInv, Room, [Next]_vars
  PROVE  [Channel!Next]_(Channel!vars)
<1> USE DEF IInv
<1>1. UNCHANGED Messages
  <2>1. UNCHANGED lengths
    BY DEF Next, Arrive, Return, ReturnNothing, DispatchMessage, StopParsing, Compact, vars
  <2> QED BY <2>1, StreamIsConstant DEF Messages
<1>2. CASE Arrive
  BY <1>1, <1>2 DEF Arrive, Channel!vars
<1>3. CASE Return
  <2>1. CASE cutName' = cutName
    BY <1>1, <1>3, <2>1 DEF Return, Channel!vars
  <2>2. CASE cutName' # cutName
    <3>1. cutName = FALSE /\ cutName' = TRUE
      BY <1>3, <2>2 DEF Return, Typed
    <3> QED BY <1>1, <1>3, <3>1 DEF Return, Channel!Next, Channel!Disturb
  <2> QED BY <2>1, <2>2
<1>4. CASE ReturnNothing
  <2>1. Channel!Latest = Len(Messages)
    <3>1. next[1] = NumMessages + 1
      BY <1>4, NextType, SizeAssumption DEF ReturnNothing, AllRead, Room, Typed
    <3>2. LastMessage + 1 = next[1] /\ LastMessage \in Nat
      BY <1>4, LastMessageType DEF ReturnNothing, Latest, Settled
    <3>3. Len(Messages) = NumMessages
      BY SizeAssumption DEF Messages
    <3> QED BY <3>1, <3>2, <3>3, LatestOfChannel, SizeAssumption
  <2> QED BY <1>1, <1>4, <2>1 DEF ReturnNothing, Channel!Next, Channel!End
<1>5. CASE DispatchMessage
  <2>1. PICK i \in 1 .. NumMessages :
           /\ i = At(processedPos + 1)[1]
           /\ dispatched' = Append(dispatched, Message(i))
    BY <1>5, DispatchesTheMessage
  <2>2. i \in DOMAIN Messages /\ Messages[i] = Message(i)
    BY DEF Messages
  <2>3. i = Channel!Latest + 1 \/ (cutName /\ i <= Channel!Latest)
    <3>1. LastMessage \in Nat /\ Channel!Latest = LastMessage
      BY LastMessageType, LatestOfChannel
    <3>2. cutName \in BOOLEAN /\ (i <= LastMessage + 1) /\ (~cutName => i = LastMessage + 1)
      BY <1>5, <2>1 DEF DispatchMessage, Latest, Typed
    <3> QED BY <3>1, <3>2
  <2>4. UNCHANGED <<Messages, cutName, pc = "eof">> /\ ~(pc = "eof")
    BY <1>1, <1>5 DEF DispatchMessage
  <2>5. Channel!Deliver
    BY <2>1, <2>2, <2>3, <2>4 DEF Channel!Deliver
  <2> QED BY <2>5 DEF Channel!Next
<1>6. CASE StopParsing
  BY <1>1, <1>6 DEF StopParsing, Channel!vars
<1>7. CASE Compact
  BY <1>1, <1>7 DEF Compact, Channel!vars
<1>8. CASE UNCHANGED vars
  BY <1>1, <1>8 DEF vars, Channel!vars
<1> QED BY <1>2, <1>3, <1>4, <1>5, <1>6, <1>7, <1>8 DEF Next

(* The reader is a message channel: every message once and in order, or,   *)
(* after a cut name, from an earlier one on again, and the end after the   *)
(* last.  This is the safety half of IsAChannel.                           *)
THEOREM DeliversAsAChannel ==
  ASSUME Fits
  PROVE  Spec => Channel!Init /\ [][Channel!Next]_(Channel!vars)
<1>1. Init => Channel!Init
  BY DEF Init, Channel!Init
<1>2. IInv /\ Room /\ [Next]_vars => [Channel!Next]_(Channel!vars)
  BY ChannelStep
<1> QED BY StdinReaderInvariant, RoomInvariant, <1>1, <1>2, PTL DEF Spec
=============================================================================
