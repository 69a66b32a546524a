--------------------------- MODULE ServerLoopProofs ---------------------------
(***************************************************************************)
(* Proofs about ServerLoop.  What carries them is where every message is:  *)
(* the client numbers what it sends, the first Handled of them have been   *)
(* handled, the next are the batch and the rest the inbox, so that every   *)
(* request a handler takes is newer than all that were taken before.       *)
(***************************************************************************)
EXTENDS ServerLoop, NatLemmas, SequenceTheorems, FiniteSetTheorems

Sending == [n : Numbers, kind : Kinds]

Handled == sent - (Len(inbox) + Len(batch))

Typed ==
  /\ inbox \in Seq(Sending) /\ batch \in Seq(Sending)
  /\ sent \in 0 .. MaxMessages /\ asked \subseteq Numbers
  /\ closed \in BOOLEAN /\ signalled \in BOOLEAN
  /\ exiting \in BOOLEAN /\ alive \in BOOLEAN
  /\ ready \in Seq(Numbers) /\ chains \in [Numbers -> Stages] /\ diagnosticMap \subseteq Numbers
  /\ out \in Outs

(* Messages wait in the order in which the client has numbered them.       *)
Numbered ==
  /\ Handled >= 0
  /\ \A i \in 1 .. Len(batch) : batch[i].n = Handled + i
  /\ \A i \in 1 .. Len(inbox) : inbox[i].n = Handled + Len(batch) + i

(* Only what has been handled has been answered or waits for its answer.   *)
Taken ==
  /\ \A i \in 1 .. Len(ready) : ready[i] <= Handled
  /\ \A i \in 1 .. Len(out.answered) : out.answered[i] <= Handled

IInv == Typed /\ Numbered /\ Taken

-----------------------------------------------------------------------------
(* A write that fits loses nothing, one that does not loses something; the *)
(* pipe never holds more than its capacity.                                *)
LEMMA WriteType ==
  ASSUME NEW o \in Outs, NEW frame \in Frames
  PROVE  /\ write(o, frame) \in Outs
         /\ write(o, frame).lost \in {o.lost, TRUE}
         /\ write(o, frame).answered =
              IF frame.what = "response" /\ frame.size <= Capacity - o.unread
              THEN Append(o.answered, frame.n) ELSE o.answered
         /\ frame.size > Capacity - o.unread => write(o, frame).lost = TRUE
         /\ frame.size <= Capacity - o.unread => write(o, frame).lost = o.lost
<1> DEFINE room == Capacity - o.unread
           took == IF frame.size <= room THEN frame.size ELSE IF frame.size <= Atomic THEN 0 ELSE room
           w    == write(o, frame)
           fits == frame.size <= room
<1>1. /\ frame.size \in Nat \ {0} /\ frame.n \in Numbers
      /\ Capacity \in Nat /\ Atomic \in Nat
      /\ o.unread \in 0 .. Capacity /\ o.lost \in BOOLEAN
      /\ o.cut \in BOOLEAN /\ o.garbled \in BOOLEAN /\ o.answered \in Seq(Numbers)
  BY LoopAssumption DEF Outs, Frames
<1>2. took \in 0 .. room
  BY <1>1
<1>3. /\ took = frame.size <=> fits
      /\ took < frame.size <=> ~fits
  BY <1>1
<1>4. w = [unread |-> o.unread + took,
           lost   |-> o.lost \/ took < frame.size,
           cut    |-> IF took = 0 THEN o.cut ELSE frame.what = "publish" /\ took < frame.size,
           garbled |-> o.garbled \/ (o.cut /\ took > 0),
           answered |-> IF frame.what = "response" /\ took = frame.size
                        THEN Append(o.answered, frame.n) ELSE o.answered]
  BY DEF write
<1> HIDE DEF w, took
<1>5. w.cut \in BOOLEAN /\ w.garbled \in BOOLEAN
  <2>1. w.cut = IF took = 0 THEN o.cut ELSE frame.what = "publish" /\ took < frame.size
    BY <1>4
  <2>2. w.garbled = (o.garbled \/ (o.cut /\ took > 0))
    BY <1>4
  <2>3. w.cut \in BOOLEAN
    BY <1>1, <2>1, Zenon
  <2>4. w.garbled \in BOOLEAN
    BY <1>1, <2>2, Zenon
  <2> QED BY <2>3, <2>4
<1>6. w.unread \in 0 .. Capacity
  BY <1>1, <1>2, <1>4
<1>7. w.lost = (o.lost \/ took < frame.size)
  BY <1>4
<1>8. w.lost = (o.lost \/ ~fits)
  BY <1>3, <1>7, Zenon
<1> HIDE DEF fits
<1>9. /\ w.lost \in BOOLEAN /\ w.lost \in {o.lost, TRUE}
      /\ ~fits => w.lost = TRUE
      /\ fits => w.lost = o.lost
  BY <1>1, <1>8, Zenon
<1>10. w.answered = IF frame.what = "response" /\ fits
                    THEN Append(o.answered, frame.n) ELSE o.answered
  BY <1>3, <1>4
<1>11. w.answered \in Seq(Numbers)
  BY <1>1, <1>10, AppendProperties
<1>12. w \in Outs
  <2>1. w = [unread |-> w.unread, lost |-> w.lost, cut |-> w.cut, garbled |-> w.garbled,
             answered |-> w.answered]
    BY <1>4
  <2> QED BY <1>5, <1>6, <1>9, <1>11, <2>1, Zenon DEF Outs
<1>13. fits <=> frame.size <= Capacity - o.unread
  BY DEF fits
<1>14. frame.size > Capacity - o.unread <=> ~fits
  BY <1>1 DEF fits
<1> QED BY <1>9, <1>10, <1>12, <1>13, <1>14 DEF w
(* The frames that the server writes.                                      *)
LEMMA FrameType ==
  ASSUME NEW what \in {"response", "log", "publish"}, NEW n \in Numbers,
         NEW size \in LogSizes \cup ResponseSizes \cup PublishSizes
  PROVE  /\ Frame(what, n, size) \in Frames
         /\ Frame(what, n, size).what = what
         /\ Frame(what, n, size).n = n
         /\ Frame(what, n, size).size = size
BY DEF Frame, Frames

(* A frame that is no answer: what is lost stays lost.                     *)
LEMMA WriteNoAnswer ==
  ASSUME NEW o \in Outs, NEW frame \in Frames, frame.what # "response"
  PROVE  /\ write(o, frame) \in Outs
         /\ write(o, frame).lost \in {o.lost, TRUE}
         /\ write(o, frame).answered = o.answered
<1>1. write(o, frame).answered = o.answered
  BY WriteType
<1> QED BY <1>1, WriteType, Zenon

(* One write after another: the stdouts in between exist.                  *)
LEMMA OutsByRecursion ==
  ASSUME NEW o \in Outs, NEW k \in Nat, NEW g \in [1 .. k -> [Outs -> Outs]]
  PROVE  \E f \in [0 .. k -> Outs] : /\ f[0] = o
                                     /\ \A i \in 1 .. k : f[i] = g[i][f[i - 1]]
BY RecursionOverPrefix

(* Frames of which none is an answer: what one of them has lost stays      *)
(* lost.                                                                   *)
LEMMA WriteAllType ==
  ASSUME NEW o \in Outs, NEW what \in {"log", "publish"}, NEW n \in Numbers, NEW k \in Nat,
         NEW size \in [1 .. k -> LogSizes \cup ResponseSizes \cup PublishSizes]
  PROVE  /\ writeAll(o, what, n, k, size) \in Outs
         /\ writeAll(o, what, n, k, size).lost \in {o.lost, TRUE}
         /\ writeAll(o, what, n, k, size).answered = o.answered
<1> DEFINE frame == [i \in 1 .. k |-> Frame(what, n, size[i])]
           W(w)  == [i \in 0 .. k |-> IF i = 0 THEN o
                                      ELSE write(w[i - 1], Frame(what, n, size[i]))]
           written  == CHOOSE w : w = W(w)
           g == [i \in 1 .. k |-> [x \in Outs |-> write(x, frame[i])]]
           P(x) == /\ x \in Outs
                   /\ x.lost \in {o.lost, TRUE}
                   /\ x.answered = o.answered
<1>1. \A i \in 1 .. k : frame[i] \in Frames /\ frame[i].what # "response"
  BY FrameType
<1>2. g \in [1 .. k -> [Outs -> Outs]]
  BY <1>1, WriteType
<1>3. \E f \in [0 .. k -> Outs] : f[0] = o /\ \A i \in 1 .. k : f[i] = g[i][f[i - 1]]
  <2> HIDE DEF g
  <2> QED BY <1>2, OutsByRecursion
<1>4. PICK f \in [0 .. k -> Outs] : f[0] = o /\ \A i \in 1 .. k : f[i] = g[i][f[i - 1]]
  <2> HIDE DEF g
  <2> QED BY <1>3
<1>5. f = W(f)
  <2>1. ASSUME NEW i \in 1 .. k PROVE f[i] = write(f[i - 1], Frame(what, n, size[i]))
    <3>1. f[i - 1] \in Outs /\ f[i] = g[i][f[i - 1]]
      <4> HIDE DEF g
      <4> QED BY <1>4
    <3> QED BY <3>1
  <2>2. \A i \in 0 .. k : f[i] = W(f)[i]
    <3> HIDE DEF g
    <3> QED BY <1>4, <2>1
  <2> HIDE DEF g
  <2> QED BY <1>4, <2>2
<1>6. written = W(written)
  BY <1>5
<1>7. writeAll(o, what, n, k, size) = written[k]
  BY DEF writeAll
<1>8. written[0] = o /\ \A i \in 1 .. k : written[i] = write(written[i - 1], frame[i])
  <2> HIDE DEF written
  <2> QED BY <1>6
<1> HIDE DEF written, frame, P, g, W
<1> DEFINE T == {i \in Nat : i <= k => P(written[i])}
<1>9. 0 \in T
  <2>1. P(o)
    BY Zenon DEF P
  <2> QED BY <1>8, <2>1
<1>10. ASSUME NEW i \in Nat, i \in T PROVE i + 1 \in T
  <2>1. SUFFICES ASSUME i + 1 <= k PROVE P(written[i + 1])
    OBVIOUS
  <2>2. P(written[i])
    BY <1>10, <2>1
  <2>3. i + 1 \in 1 .. k /\ (i + 1) - 1 = i
    BY <2>1
  <2>4. written[i + 1] = write(written[i], frame[i + 1])
    BY <1>8, <2>3
  <2>5. frame[i + 1] \in Frames /\ frame[i + 1].what # "response"
    BY <1>1, <2>3
  <2>6. ASSUME NEW x, P(x), NEW y \in Frames, y.what # "response" PROVE P(write(x, y))
    <3>1. x \in Outs /\ x.lost \in {o.lost, TRUE} /\ x.answered = o.answered
      BY <2>6, Zenon DEF P
    <3>2. /\ write(x, y) \in Outs
          /\ write(x, y).lost \in {x.lost, TRUE}
          /\ write(x, y).answered = x.answered
      BY <2>6, <3>1, WriteNoAnswer, Zenon
    <3>3. write(x, y).lost \in {o.lost, TRUE}
      BY <3>1, <3>2, Zenon
    <3> QED BY <3>1, <3>2, <3>3, Zenon DEF P
  <2> QED BY <2>2, <2>4, <2>5, <2>6, Zenon
<1>11. k \in T
  <2> HIDE DEF T
  <2> QED BY <1>9, <1>10, NaturalsByStep
<1>12. P(written[k])
  BY <1>11
<1> QED BY <1>7, <1>12, Zenon DEF P

(* The same of a step that writes them to stdout.                          *)
LEMMA WritesType ==
  ASSUME NEW what \in {"log", "publish"}, NEW n \in Numbers, NEW k \in Nat,
         NEW Sizes, Sizes \subseteq LogSizes \cup ResponseSizes \cup PublishSizes,
         out \in Outs, writes(what, n, k, Sizes)
  PROVE  /\ out' \in Outs /\ out'.answered = out.answered
         /\ out'.lost \in {out.lost, TRUE}
<1>1. PICK size \in [1 .. k -> Sizes] : out' = writeAll(out, what, n, k, size)
  BY DEF writes
<1>2. size \in [1 .. k -> LogSizes \cup ResponseSizes \cup PublishSizes]
  OBVIOUS
<1> QED BY <1>1, <1>2, WriteAllType, Zenon

(* How many errors a handler logs is a number.                             *)
LEMMA CountType == \A kind : \A k \in LogCounts(kind) : kind \in AllKinds => k \in Nat
BY DEF LogCounts, AllKinds
-----------------------------------------------------------------------------
(* Facts about sequences: what Append, Head, Tail and SubSeq leave.        *)
LEMMA TailType ==
  ASSUME NEW S, NEW s \in Seq(S), s # <<>>
  PROVE  /\ Head(s) \in S /\ Head(s) = s[1] /\ 1 \in 1 .. Len(s)
         /\ Tail(s) \in Seq(S)
         /\ Len(s) \in Nat /\ Len(Tail(s)) = Len(s) - 1
         /\ \A i \in 1 .. Len(s) - 1 : Tail(s)[i] = s[i + 1]
BY HeadTailProperties, LenProperties

(* A sequence that gets one element more.                                  *)
LEMMA AppendType ==
  ASSUME NEW S, NEW s \in Seq(S), NEW e \in S
  PROVE  /\ Append(s, e) \in Seq(S)
         /\ Len(s) \in Nat /\ Len(Append(s, e)) = Len(s) + 1
         /\ \A i \in 1 .. Len(s) : Append(s, e)[i] = s[i]
         /\ Append(s, e)[Len(s) + 1] = e
BY AppendProperties, LenProperties

(* What the type of the queues says of their lengths.                      *)
LEMMA LengthType ==
  ASSUME Typed
  PROVE  /\ Len(inbox) \in Nat /\ Len(batch) \in Nat /\ Len(ready) \in Nat
         /\ Len(out.answered) \in Nat
         /\ sent \in Nat /\ Handled \in Int
         /\ out.answered \in Seq(Numbers) /\ out.lost \in BOOLEAN
BY LoopAssumption DEF Typed, Handled, Outs

(* The numbers of the answers that are due or given.                       *)
LEMMA NumberType ==
  ASSUME Typed
  PROVE  /\ \A i \in 1 .. Len(ready) : ready[i] \in Nat
         /\ \A i \in 1 .. Len(out.answered) : out.answered[i] \in Nat
<1>1. Numbers \subseteq Nat
  BY DEF Numbers
<1>2. \A i \in 1 .. Len(ready) : ready[i] \in Numbers
  BY ElementOfSeq DEF Typed
<1>3. \A i \in 1 .. Len(out.answered) : out.answered[i] \in Numbers
  BY LengthType, ElementOfSeq
<1> QED BY <1>1, <1>2, <1>3

(* No message, no answer.                                                  *)
LEMMA InitIInv == Init => IInv
<1> SUFFICES ASSUME Init PROVE IInv
  OBVIOUS
<1>1. out \in Outs
  BY LoopAssumption DEF Init, Outs
<1>2. Typed
  <2>1. sent \in 0 .. MaxMessages
    BY LoopAssumption DEF Init
  <2>2. inbox \in Seq(Sending) /\ batch \in Seq(Sending) /\ ready \in Seq(Numbers)
    BY DEF Init
  <2>3. /\ closed \in BOOLEAN /\ signalled \in BOOLEAN
        /\ exiting \in BOOLEAN /\ alive \in BOOLEAN
        /\ chains \in [Numbers -> Stages] /\ diagnosticMap \subseteq Numbers
        /\ asked \subseteq Numbers
    BY DEF Init, NoChain, Stages
  <2> QED BY <1>1, <2>1, <2>2, <2>3 DEF Typed
<1>3. Numbered /\ Taken
  BY DEF Init, Numbered, Taken, Handled
<1> QED BY <1>2, <1>3 DEF IInv

(* The client numbers its messages in the order it sends them.             *)
LEMMA SendIInv ==
  ASSUME IInv, Send
  PROVE  IInv'
<1> USE DEF IInv
<1>1. PICK kind \in Kinds : /\ inbox' = Append(inbox, Message(sent + 1, kind))
                           /\ asked' = IF HasNumberId(kind) THEN asked \cup {sent + 1} ELSE asked
  BY DEF Send
<1> DEFINE m == Message(sent + 1, kind)
<1>2. m \in Sending /\ m.n = sent + 1
  BY LoopAssumption DEF Typed, Send, Sending, Message, Numbers
<1> HIDE DEF m
<1>3. /\ inbox' \in Seq(Sending)
      /\ Len(inbox') = Len(inbox) + 1
      /\ \A i \in 1 .. Len(inbox) : inbox'[i] = inbox[i]
      /\ inbox'[Len(inbox) + 1] = m
  BY <1>1, <1>2, AppendType DEF Typed, m
<1>4. Typed'
  <2>1. sent + 1 \in Numbers
    BY <1>2 DEF Sending
  <2> QED BY <1>1, <1>3, <2>1, LoopAssumption DEF Typed, Send, compileVars
<1>5. UNCHANGED <<batch, ready, out, Handled>>
  BY <1>3, LengthType DEF Send, Handled
<1>6. Numbered'
  <2>1. ASSUME NEW i \in 1 .. Len(inbox) + 1
        PROVE  inbox'[i].n = Handled + Len(batch) + i
    <3>1. CASE i \in 1 .. Len(inbox)
      BY <1>3, <3>1 DEF Numbered
    <3>2. CASE i = Len(inbox) + 1
      BY <1>2, <1>3, <3>2, LengthType DEF Handled
    <3> QED BY <3>1, <3>2, LengthType
  <2> QED BY <1>3, <1>5, <2>1 DEF Numbered
<1>7. Taken'
  BY <1>5 DEF Taken
<1> QED BY <1>4, <1>6, <1>7

(* Steps that move no message and queue no answer.                         *)
LEMMA QuietIInv ==
  ASSUME IInv, UNCHANGED <<inbox, sent, asked, batch, ready>>,
         chains' \in [Numbers -> Stages], diagnosticMap' \subseteq Numbers,
         closed' \in BOOLEAN, signalled' \in BOOLEAN, exiting' \in BOOLEAN, alive' \in BOOLEAN,
         out' \in Outs, out'.answered = out.answered
  PROVE  IInv'
<1> USE DEF IInv
<1>1. Typed'
  BY DEF Typed
<1>2. UNCHANGED Handled
  BY DEF Handled
<1>3. Numbered'
  BY <1>2 DEF Numbered
<1>4. Taken'
  BY <1>2 DEF Taken
<1> QED BY <1>1, <1>3, <1>4

(* A read takes messages from the front of the inbox.                      *)
LEMMA ReadIInv ==
  ASSUME IInv, ReadMessages
  PROVE  IInv'
<1> USE DEF IInv
<1>1. PICK k \in 1 .. Len(inbox) : /\ batch' = SubSeq(inbox, 1, k)
                                   /\ inbox' = SubSeq(inbox, k + 1, Len(inbox))
  BY DEF ReadMessages
<1>2. inbox \in Seq(Sending) /\ Len(inbox) \in Nat /\ k \in Nat /\ k <= Len(inbox)
      /\ Handled \in Int /\ sent \in Nat
  BY LengthType DEF Typed
<1>3. /\ batch' \in Seq(Sending) /\ Len(batch') = k
      /\ \A i \in 1 .. k : batch'[i] = inbox[i]
  BY <1>1, <1>2, SubSeqProperties
<1>4. /\ inbox' \in Seq(Sending) /\ Len(inbox') = Len(inbox) - k
      /\ \A i \in 1 .. Len(inbox) - k : inbox'[i] = inbox[k + i]
  BY <1>1, <1>2, SubSeqProperties
<1>5. batch = <<>> /\ Len(batch) = 0
  BY DEF ReadMessages, Idle, Turns
<1>6. Typed'
  BY <1>3, <1>4 DEF Typed, ReadMessages, clientVars, compileVars
<1>7. UNCHANGED <<Handled, ready, out>>
  <2>1. UNCHANGED <<sent, ready, out>>
    BY DEF ReadMessages, clientVars
  <2>2. Len(inbox') + Len(batch') = Len(inbox) + Len(batch)
    BY <1>2, <1>3, <1>4, <1>5
  <2> QED BY <2>1, <2>2 DEF Handled
<1>8. Numbered'
  <2>1. \A i \in 1 .. Len(batch') : batch'[i].n = Handled + i
    BY <1>2, <1>3, <1>5 DEF Numbered
  <2>2. ASSUME NEW i \in 1 .. Len(inbox')
        PROVE  inbox'[i].n = Handled + Len(batch') + i
    <3>1. k + i \in 1 .. Len(inbox) /\ i \in 1 .. Len(inbox) - k /\ i \in Nat
      BY <1>2, <1>4
    <3>2. inbox[k + i].n = Handled + Len(batch) + (k + i)
      BY <3>1 DEF Numbered
    <3> QED BY <1>2, <1>3, <1>4, <1>5, <3>1, <3>2
  <2> QED BY <1>7, <2>1, <2>2 DEF Numbered
<1>9. Taken'
  BY <1>7 DEF Taken
<1> QED BY <1>6, <1>8, <1>9

(* The next message is handled: it is newer than all that were.            *)
LEMMA HandleMoves ==
  ASSUME IInv, HandleMessage
  PROVE  /\ batch # <<>> /\ Head(batch) \in Sending /\ Head(batch).n = Handled + 1
         /\ Handled' = Handled + 1
         /\ batch' \in Seq(Sending)
         /\ Numbered'
<1> USE DEF IInv
<1>1. batch # <<>> /\ batch' = Tail(batch) /\ UNCHANGED <<inbox, sent, asked>>
  BY DEF HandleMessage, clientVars
<1>2. /\ Head(batch) \in Sending /\ Head(batch) = batch[1] /\ 1 \in 1 .. Len(batch)
      /\ Tail(batch) \in Seq(Sending) /\ Len(Tail(batch)) = Len(batch) - 1
      /\ \A i \in 1 .. Len(batch) - 1 : Tail(batch)[i] = batch[i + 1]
  BY <1>1, TailType DEF Typed
<1>3. Handled' = Handled + 1
  BY <1>1, <1>2, LengthType DEF Handled
<1>4. Head(batch).n = Handled + 1
  BY <1>2 DEF Numbered
<1>5. Numbered'
  <2>1. \A i \in 1 .. Len(batch') : batch'[i].n = Handled' + i
    BY <1>1, <1>2, <1>3, LengthType DEF Numbered
  <2>2. \A i \in 1 .. Len(inbox') : inbox'[i].n = Handled' + Len(batch') + i
    BY <1>1, <1>2, <1>3, LengthType DEF Numbered
  <2>3. Handled' >= 0
    BY <1>3, LengthType DEF Numbered
  <2> QED BY <2>1, <2>2, <2>3 DEF Numbered
<1> QED BY <1>1, <1>2, <1>3, <1>4, <1>5

(* What a handler writes is a log line, never an answer.                   *)
LEMMA HandleWrites ==
  ASSUME IInv, HandleMessage
  PROVE  /\ out' \in Outs /\ out'.answered = out.answered
         /\ out'.lost \in {out.lost, TRUE}
         /\ exiting' \in {exiting, TRUE}
<1> DEFINE m == Head(batch)
<1>1. m.n \in Numbers
  BY HandleMoves DEF Sending
<1>2. out \in Outs
  BY DEF IInv, Typed
<1>3. PICK k \in LogCounts(m.kind) : writes("log", m.n, k, LogSizes)
  BY DEF HandleMessage
<1>4. exiting' \in {exiting, TRUE}
  <2>1. exiting' = (exiting \/ AsksToEnd(m.kind))
    BY DEF HandleMessage
  <2>2. exiting \in BOOLEAN
    BY DEF IInv, Typed
  <2> HIDE DEF m
  <2> QED BY <2>1, <2>2, Zenon
<1>5. m.kind \in AllKinds /\ k \in Nat
  BY HandleMoves, CountType, LoopAssumption DEF Sending
<1> HIDE DEF m
<1> QED BY <1>1, <1>2, <1>3, <1>4, <1>5, WritesType

(* A message that is handled takes its number out of the batch.            *)
LEMMA HandleIInv ==
  ASSUME IInv, HandleMessage
  PROVE  IInv'
<1> DEFINE m == Head(batch)
<1>1. /\ m \in Sending /\ m.n = Handled + 1 /\ Handled' = Handled + 1
      /\ batch' \in Seq(Sending) /\ Numbered'
  BY HandleMoves
<1>2. out' \in Outs /\ out'.answered = out.answered
  BY HandleWrites
<1>3. ready' = IF HasNumberId(m.kind) THEN Append(ready, m.n) ELSE ready
  BY DEF HandleMessage, queued
<1>4. chains' \in {chains, [chains EXCEPT ![m.n] = "checking"]} /\ UNCHANGED diagnosticMap
  BY DEF HandleMessage
<1>5. UNCHANGED <<inbox, sent, asked, closed, signalled, alive>>
  BY DEF HandleMessage, clientVars
<1>6. exiting' \in BOOLEAN
  BY HandleWrites DEF IInv, Typed
<1> HIDE DEF m
<1>7. m.n \in Numbers
  BY <1>1 DEF Sending
<1>8. ready \in Seq(Numbers) /\ Len(ready) \in Nat /\ Handled \in Int
  BY LengthType DEF IInv, Typed
<1>9. /\ ready' \in Seq(Numbers)
      /\ \A i \in 1 .. Len(ready') : ready'[i] <= Handled + 1
  <2>1. \A i \in 1 .. Len(ready) : ready[i] \in Nat /\ ready[i] <= Handled
    BY NumberType DEF IInv, Taken
  <2>2. CASE HasNumberId(m.kind)
    <3>1. ready' = Append(ready, m.n)
      BY <1>3, <2>2
    <3>2. /\ ready' \in Seq(Numbers) /\ Len(ready') = Len(ready) + 1
          /\ \A i \in 1 .. Len(ready) : ready'[i] = ready[i]
          /\ ready'[Len(ready) + 1] = m.n
      BY <1>7, <1>8, <3>1, AppendType
    <3> QED BY <1>1, <1>8, <2>1, <3>2
  <2>3. CASE ~HasNumberId(m.kind)
    BY <1>3, <1>8, <2>1, <2>3
  <2> QED BY <2>2, <2>3
<1>10. Typed'
  <2>1. chains' \in [Numbers -> Stages]
    BY <1>4, <1>7 DEF IInv, Typed, Stages
  <2> QED BY <1>1, <1>2, <1>4, <1>5, <1>6, <1>9, <2>1 DEF IInv, Typed
<1>11. Taken'
  <2>1. \A i \in 1 .. Len(out.answered) : out.answered[i] \in Nat /\ out.answered[i] <= Handled
    BY NumberType DEF IInv, Taken
  <2>2. \A i \in 1 .. Len(out'.answered) : out'.answered[i] <= Handled'
    BY <1>1, <1>2, <1>8, <2>1
  <2> QED BY <1>1, <1>9, <2>2 DEF Taken
<1> QED BY <1>1, <1>10, <1>11 DEF IInv

(* The answer that is due longest goes in whole, or something is lost.     *)
LEMMA RespondWrites ==
  ASSUME IInv, Respond
  PROVE  /\ ready # <<>> /\ ready' = Tail(ready)
         /\ out' \in Outs
         /\ \/ out'.answered = Append(out.answered, Head(ready)) /\ out'.lost = out.lost
            \/ out'.answered = out.answered /\ out'.lost = TRUE
<1>1. ready # <<>> /\ ready' = Tail(ready)
  BY DEF Respond
<1> DEFINE n == Head(ready)
<1>2. n \in Numbers /\ out \in Outs
  BY <1>1, TailType DEF IInv, Typed
<1>3. PICK size \in ResponseSizes : out' = write(out, Frame("response", n, size))
  BY DEF Respond
<1> HIDE DEF n
<1> DEFINE frame == Frame("response", n, size)
<1>4. frame \in Frames /\ frame.what = "response" /\ frame.n = n
  BY <1>2, FrameType
<1> HIDE DEF frame
<1>5. out' = write(out, frame)
  BY <1>3 DEF frame
<1>6. out' \in Outs
  BY <1>2, <1>4, <1>5, WriteType
<1>7. frame.size \in Nat /\ out.unread \in Nat /\ Capacity \in Nat
  BY <1>2, <1>4, LoopAssumption DEF Frames, Outs
<1>8. CASE frame.size <= Capacity - out.unread
  <2>1. out'.lost = out.lost
    BY <1>2, <1>4, <1>5, <1>8, WriteType
  <2>2. out'.answered = Append(out.answered, n)
    BY <1>2, <1>4, <1>5, <1>8, WriteType
  <2> QED BY <1>1, <1>6, <2>1, <2>2 DEF n
<1>9. CASE frame.size > Capacity - out.unread
  <2>1. out'.lost = TRUE
    BY <1>2, <1>4, <1>5, <1>9, WriteType
  <2>2. out'.answered = out.answered
    <3>1. ~(frame.size <= Capacity - out.unread)
      BY <1>7, <1>9
    <3> QED BY <1>2, <1>4, <1>5, <3>1, WriteType
  <2> QED BY <1>1, <1>6, <2>1, <2>2 DEF n
<1>10. frame.size <= Capacity - out.unread \/ frame.size > Capacity - out.unread
  BY <1>7
<1> QED BY <1>8, <1>9, <1>10

(* An answer that is written, or lost, leaves the queue.                   *)
LEMMA RespondIInv ==
  ASSUME IInv, Respond
  PROVE  IInv'
<1>1. UNCHANGED <<inbox, sent, asked, closed, signalled, batch, chains, diagnosticMap, exiting, alive, Handled>>
  BY DEF Respond, clientVars, compileVars, Handled
<1>2. /\ Head(ready) \in Numbers /\ Head(ready) = ready[1] /\ 1 \in 1 .. Len(ready)
      /\ ready' \in Seq(Numbers) /\ Len(ready') = Len(ready) - 1 /\ Len(ready) \in Nat
      /\ \A i \in 1 .. Len(ready) - 1 : ready'[i] = ready[i + 1]
  BY RespondWrites, TailType DEF IInv, Typed
<1>3. out' \in Outs
  BY RespondWrites
<1>4. Typed'
  BY <1>1, <1>2, <1>3 DEF IInv, Typed
<1>5. Numbered'
  BY <1>1 DEF IInv, Numbered
<1>6. Taken'
  <2>1. \A i \in 1 .. Len(ready') : ready'[i] <= Handled'
    BY <1>1, <1>2 DEF IInv, Taken
  <2>2. \A i \in 1 .. Len(out'.answered) : out'.answered[i] <= Handled'
    <3>1. CASE out'.answered = out.answered
      BY <1>1, <3>1 DEF IInv, Taken
    <3>2. CASE out'.answered = Append(out.answered, Head(ready))
      <4>1. Len(out.answered) \in Nat /\ out.answered \in Seq(Numbers)
        BY LengthType DEF IInv
      <4>2. /\ Len(out'.answered) = Len(out.answered) + 1
            /\ \A i \in 1 .. Len(out.answered) : out'.answered[i] = out.answered[i]
            /\ out'.answered[Len(out.answered) + 1] = Head(ready)
        BY <1>2, <3>2, <4>1, AppendType
      <4>3. Head(ready) <= Handled
        BY <1>2 DEF IInv, Taken
      <4>4. ASSUME NEW i \in 1 .. Len(out.answered) + 1 PROVE out'.answered[i] <= Handled
        <5>1. CASE i \in 1 .. Len(out.answered)
          BY <4>2, <5>1 DEF IInv, Taken
        <5>2. CASE i = Len(out.answered) + 1
          BY <4>2, <4>3, <5>2
        <5> QED BY <4>1, <5>1, <5>2
      <4> QED BY <1>1, <4>2, <4>4
    <3> QED BY <3>1, <3>2, RespondWrites
  <2> QED BY <2>1, <2>2 DEF Taken
<1> QED BY <1>4, <1>5, <1>6 DEF IInv

(* What a compile writes, log lines and diagnostics, is no answer.         *)
CompileStep(n) == StartCompile(n) \/ FinishCompile(n) \/ Publish(n)
LEMMA CompileWrites ==
  ASSUME IInv, NEW n \in Numbers, CompileStep(n)
  PROVE  /\ out' \in Outs /\ out'.answered = out.answered
         /\ out'.lost \in {out.lost, TRUE}
         /\ UNCHANGED <<inbox, sent, asked, closed, signalled, batch, ready, exiting, alive>>
         /\ chains' \in [Numbers -> Stages] /\ diagnosticMap' \subseteq Numbers
<1>1. out \in Outs /\ chains \in [Numbers -> Stages] /\ diagnosticMap \subseteq Numbers
  BY DEF IInv, Typed
<1>2. /\ UNCHANGED <<inbox, sent, asked, closed, signalled, batch, ready, exiting, alive>>
      /\ chains' \in [Numbers -> Stages]
  <2>1. PICK from \in Stages, to \in Stages : CompileTurn(n, from, to)
    BY DEF CompileStep, StartCompile, FinishCompile, Publish, Stages
  <2> QED BY <1>1, <2>1 DEF CompileTurn, clientVars
<1>3. diagnosticMap' \subseteq Numbers
  BY <1>1 DEF CompileStep, StartCompile, FinishCompile, Publish
<1>4. CASE StartCompile(n) \/ FinishCompile(n)
  <2>1. PICK k \in 0 .. 3 : writes("log", n, k, LogSizes)
    BY <1>4 DEF StartCompile, FinishCompile
  <2>2. k \in Nat
    OBVIOUS
  <2>3. /\ out' \in Outs /\ out'.answered = out.answered
        /\ out'.lost \in {out.lost, TRUE}
    BY <1>1, <2>1, <2>2, WritesType
  <2> QED BY <1>2, <1>3, <2>3
<1>5. CASE Publish(n)
  <2> DEFINE k == IF diagnosticMap = {} THEN 1 ELSE Cardinality(diagnosticMap)
  <2>1. writes("publish", n, k, PublishSizes)
    BY <1>5 DEF Publish
  <2>2. k \in Nat
    <3>1. IsFiniteSet(Numbers)
      BY LoopAssumption, FS_Interval DEF Numbers
    <3>2. Cardinality(diagnosticMap) \in Nat
      BY <1>1, <3>1, FS_Subset, FS_CardinalityType
    <3> QED BY <3>2
  <2> HIDE DEF k
  <2> QED BY <1>1, <1>2, <1>3, <2>1, <2>2, WritesType
<1> QED BY <1>4, <1>5 DEF CompileStep

(* A turn of a compile moves no message.                                   *)
LEMMA CompileIInv ==
  ASSUME IInv, NEW n \in Numbers, CompileStep(n)
  PROVE  IInv'
BY CompileWrites, QuietIInv DEF IInv, Typed

(* The server ends: what is queued is lost.                                *)
LEMMA ExitIInv ==
  ASSUME IInv, Exit
  PROVE  IInv'
<1>1. UNCHANGED <<inbox, sent, asked, closed, signalled, batch, exiting, out, Handled>>
      /\ ready' = <<>> /\ chains' = NoChain /\ diagnosticMap' = {} /\ alive' = FALSE
  BY DEF Exit, clientVars, Handled
<1>2. Typed'
  <2>1. <<>> \in Seq(Numbers) /\ NoChain \in [Numbers -> Stages] /\ FALSE \in BOOLEAN
    BY DEF NoChain, Stages
  <2> QED BY <1>1, <2>1 DEF IInv, Typed
<1>3. Numbered'
  BY <1>1 DEF IInv, Numbered
<1>4. Taken'
  BY <1>1 DEF IInv, Taken
<1> QED BY <1>2, <1>3, <1>4 DEF IInv

(* The client takes something out of the pipe.                             *)
LEMMA TakeFromStdoutIInv ==
  ASSUME IInv, TakeFromStdout
  PROVE  IInv'
<1>1. PICK left \in 0 .. Capacity : out' = [out EXCEPT !.unread = left]
  BY DEF TakeFromStdout
<1>2. out \in Outs
  BY DEF IInv, Typed
<1>3. out' \in Outs /\ out'.answered = out.answered
  BY <1>1, <1>2 DEF Outs
<1>4. UNCHANGED <<inbox, sent, asked, closed, signalled, batch, ready, chains, diagnosticMap, exiting, alive>>
  BY DEF TakeFromStdout, clientVars, compileVars
<1> QED BY <1>3, <1>4, QuietIInv DEF IInv, Typed

(* Every message is where its number says, whatever the client sends and   *)
(* reads, however the reads group it, for any capacity of the pipe and any *)
(* sizes of the frames.                                                    *)
THEOREM ServerLoopInvariant == Spec => []IInv
<1>1. IInv /\ [Next]_vars => IInv'
  <2> SUFFICES ASSUME IInv, [Next]_vars PROVE IInv'
    OBVIOUS
  <2>1. CASE Close \/ Signal \/ ReadEof \/ HandleSignal
    BY <2>1, QuietIInv DEF Close, Signal, ReadEof, HandleSignal, clientVars, compileVars, IInv, Typed
  <2>2. CASE UNCHANGED vars
    BY <2>2, QuietIInv DEF vars, clientVars, compileVars, IInv, Typed
  <2> QED BY <2>1, <2>2, SendIInv, TakeFromStdoutIInv, ReadIInv, HandleIInv, RespondIInv,
             CompileIInv, ExitIInv DEF Next, ServerStep, CompileStep
<1> QED BY InitIInv, <1>1, PTL DEF Spec

(* The type of every variable; stdout never holds more than its capacity.  *)
THEOREM TypeCorrect == Spec => []TypeOK
<1>1. IInv => TypeOK
  BY DEF IInv, Typed, TypeOK, Sending
<1> QED BY ServerLoopInvariant, <1>1, PTL
-----------------------------------------------------------------------------
(* A request is newer than every one that was taken before it.             *)
LEMMA TakesTheNewest ==
  ASSUME IInv, NEW r \in Numbers, r = Handled + 1
  PROVE  Service!IsNewest(r)
<1> DEFINE taken == out.answered \o ready
<1>1. /\ out.answered \in Seq(Numbers) /\ ready \in Seq(Numbers)
      /\ Len(out.answered) \in Nat /\ Len(ready) \in Nat
      /\ Handled \in Int
  BY LengthType DEF IInv, Typed
<1>2. /\ DOMAIN taken = 1 .. Len(out.answered) + Len(ready)
      /\ \A i \in 1 .. Len(out.answered) : taken[i] = out.answered[i]
      /\ \A i \in 1 .. Len(ready) : taken[Len(out.answered) + i] = ready[i]
  BY <1>1
<1> HIDE DEF taken
<1>3. ASSUME NEW i \in DOMAIN taken PROVE taken[i] < r
  <2>1. CASE i \in 1 .. Len(out.answered)
    <3>1. out.answered[i] <= Handled /\ out.answered[i] \in Nat
      BY <2>1, NumberType DEF IInv, Taken
    <3> QED BY <1>1, <1>2, <2>1, <3>1
  <2>2. CASE i \notin 1 .. Len(out.answered)
    <3> DEFINE j == i - Len(out.answered)
    <3>1. j \in 1 .. Len(ready) /\ i = Len(out.answered) + j
      BY <1>1, <1>2, <2>2
    <3> HIDE DEF j
    <3>2. ready[j] <= Handled /\ ready[j] \in Nat
      BY <3>1, NumberType DEF IInv, Taken
    <3> QED BY <1>1, <1>2, <3>1, <3>2
  <2> QED BY <2>1, <2>2
<1> QED BY <1>3 DEF Service!IsNewest, taken

(* Handling a message takes what is in it, answering one answers the one   *)
(* due longest or drops it, and the end of the server ends the service.    *)
LEMMA ServiceStep ==
  ASSUME IInv, [Next]_vars
  PROVE  [Service!Next]_(Service!vars)
<1>1. CASE HandleMessage
  <2> DEFINE m == Head(batch)
  <2>1. m \in Sending /\ m.n = Handled + 1
    BY <1>1, HandleMoves
  <2>2. ready' = IF HasNumberId(m.kind) THEN Append(ready, m.n) ELSE ready
    BY <1>1 DEF HandleMessage, queued
  <2> HIDE DEF m
  <2>3. m.n \in Numbers /\ Service!IsNewest(m.n)
    BY <2>1, TakesTheNewest DEF Sending
  <2>4. ready' \in {ready} \cup {Append(ready, r) : r \in {q \in Numbers : Service!IsNewest(q)}}
    BY <2>2, <2>3
  <2>5. out'.lost \in {out.lost, TRUE} /\ exiting' \in {exiting, TRUE}
        /\ out'.answered = out.answered
    BY <1>1, HandleWrites
  <2> QED BY <2>4, <2>5, Zenon DEF Service!Next, Service!Take
<1>2. CASE Respond
  <2>1. exiting' = exiting /\ ~exiting
    BY <1>2 DEF Respond
  <2>2. CASE out'.answered = Append(out.answered, Head(ready)) /\ out'.lost = out.lost
    BY <1>2, <2>1, <2>2, RespondWrites, Zenon DEF Service!Next, Service!Answer
  <2>3. CASE out'.answered = out.answered /\ out'.lost = TRUE
    BY <1>2, <2>1, <2>3, RespondWrites, Zenon DEF Service!Next, Service!DropAnswer
  <2> QED BY <1>2, <2>2, <2>3, RespondWrites
<1>3. ASSUME NEW n \in Numbers, CompileStep(n) PROVE Service!Take
  <2>1. /\ out'.answered = out.answered /\ out'.lost \in {out.lost, TRUE}
        /\ ready' = ready /\ exiting' = exiting
    BY <1>3, CompileWrites
  <2> QED BY <2>1, Zenon DEF Service!Take
<1>4. CASE ReadEof \/ HandleSignal
  <2>1. ready' = ready /\ exiting' = TRUE /\ out' = out
    BY <1>4 DEF ReadEof, HandleSignal
  <2> QED BY <2>1, Zenon DEF Service!Next, Service!Take
<1>5. CASE Exit
  <2>1. exiting /\ ready' = <<>> /\ exiting' = exiting /\ out' = out
    BY <1>5 DEF Exit
  <2> QED BY <2>1, Zenon DEF Service!Next, Service!End
<1>6. CASE Send \/ Close \/ Signal \/ ReadMessages \/ UNCHANGED vars
  BY <1>6 DEF Send, Close, Signal, ReadMessages, vars, Service!vars
<1>7. CASE TakeFromStdout
  <2>1. PICK left \in 0 .. Capacity : out' = [out EXCEPT !.unread = left]
    BY <1>7 DEF TakeFromStdout
  <2>2. out'.answered = out.answered /\ out'.lost = out.lost
    BY <2>1 DEF IInv, Typed, Outs
  <2>3. ready' = ready /\ exiting' = exiting
    BY <1>7 DEF TakeFromStdout
  <2> QED BY <2>2, <2>3 DEF Service!vars
<1> QED BY <1>1, <1>2, <1>3, <1>4, <1>5, <1>6, <1>7 DEF Next, ServerStep, CompileStep, Service!Next

(* The server is a request service: every request that is taken is newer   *)
(* than those before it, and is answered once and in order, unless the     *)
(* pipe was full or the server was asked to end.  This is the safety half  *)
(* of AnswersRequests.                                                     *)
THEOREM ServesRequests == Spec => Service!Init /\ [][Service!Next]_(Service!vars)
<1>1. Init => Service!Init
  BY DEF Init, Service!Init
<1>2. IInv /\ [Next]_vars => [Service!Next]_(Service!vars)
  BY ServiceStep
<1> QED BY ServerLoopInvariant, <1>1, <1>2, PTL DEF Spec

-----------------------------------------------------------------------------
(* Sequences as sets of numbers.                                           *)
LEMMA ElementsType ==
  ASSUME NEW S, NEW s \in Seq(S), NEW e \in S
  PROVE  /\ Elements(Append(s, e)) = Elements(s) \cup {e}
         /\ s # <<>> => Elements(s) = {Head(s)} \cup Elements(Tail(s))
         /\ Elements(<<>>) = {}
<1>1. Len(s) \in Nat /\ DOMAIN s = 1 .. Len(s)
  BY LenProperties
<1>2. Elements(Append(s, e)) = Elements(s) \cup {e}
  <2>1. /\ DOMAIN Append(s, e) = 1 .. Len(s) + 1
        /\ \A i \in 1 .. Len(s) : Append(s, e)[i] = s[i]
        /\ Append(s, e)[Len(s) + 1] = e
    BY AppendProperties
  <2>2. DOMAIN Append(s, e) = DOMAIN s \cup {Len(s) + 1}
    BY <1>1, <2>1
  <2> QED BY <1>1, <2>1, <2>2 DEF Elements
<1>3. ASSUME s # <<>> PROVE Elements(s) = {Head(s)} \cup Elements(Tail(s))
  <2>1. /\ Head(s) = s[1] /\ DOMAIN Tail(s) = 1 .. Len(s) - 1 /\ 1 \in DOMAIN s
        /\ \A i \in 1 .. Len(s) - 1 : Tail(s)[i] = s[i + 1]
    BY <1>1, <1>3, TailType, LenProperties
  <2>2. \A i \in DOMAIN s \ {1} : i - 1 \in DOMAIN Tail(s) /\ (i - 1) + 1 = i
    BY <1>1, <2>1
  <2>3. \A i \in DOMAIN Tail(s) : i + 1 \in DOMAIN s
    BY <1>1, <2>1
  <2> QED BY <2>1, <2>2, <2>3 DEF Elements
<1>4. Elements(<<>>) = {}
  BY DEF Elements
<1> QED BY <1>2, <1>3, <1>4

(* The requests of a queue of messages.                                    *)
Request(m) == IF HasNumberId(m.kind) THEN {m.n} ELSE {}
LEMMA RequestsOfQueues ==
  ASSUME NEW s \in Seq(Sending)
  PROVE  /\ \A n : n \in RequestsIn(s) <=> \E i \in 1 .. Len(s) : n \in Request(s[i])
         /\ \A m \in Sending : RequestsIn(Append(s, m)) = RequestsIn(s) \cup Request(m)
         /\ s # <<>> => RequestsIn(s) = Request(Head(s)) \cup RequestsIn(Tail(s))
         /\ \A k \in 1 .. Len(s) :
              RequestsIn(s) = RequestsIn(SubSeq(s, 1, k)) \cup RequestsIn(SubSeq(s, k + 1, Len(s)))
<1>1. Len(s) \in Nat
  OBVIOUS
<1>2. ASSUME NEW q \in Seq(Sending), NEW n
      PROVE  n \in RequestsIn(q) <=> \E i \in 1 .. Len(q) : n \in Request(q[i])
  <2>1. DOMAIN q = 1 .. Len(q)
    BY LenProperties
  <2> QED BY <2>1 DEF RequestsIn, Request
<1>3. ASSUME NEW m \in Sending
      PROVE  RequestsIn(Append(s, m)) = RequestsIn(s) \cup Request(m)
  <2>1. /\ Append(s, m) \in Seq(Sending) /\ Len(Append(s, m)) = Len(s) + 1
        /\ \A i \in 1 .. Len(s) : Append(s, m)[i] = s[i]
        /\ Append(s, m)[Len(s) + 1] = m
    BY AppendType
  <2>2. 1 .. Len(s) + 1 = 1 .. Len(s) \cup {Len(s) + 1}
    BY <1>1
  <2> QED BY <1>2, <2>1, <2>2
<1>4. ASSUME s # <<>> PROVE RequestsIn(s) = Request(Head(s)) \cup RequestsIn(Tail(s))
  <2>1. /\ Head(s) = s[1] /\ Tail(s) \in Seq(Sending) /\ Len(Tail(s)) = Len(s) - 1
        /\ 1 \in 1 .. Len(s)
        /\ \A i \in 1 .. Len(s) - 1 : Tail(s)[i] = s[i + 1]
    BY <1>4, TailType
  <2>2. \A i \in 1 .. Len(s) : i = 1 \/ (i - 1 \in 1 .. Len(s) - 1 /\ (i - 1) + 1 = i)
    BY <1>1
  <2>3. \A i \in 1 .. Len(s) - 1 : i + 1 \in 1 .. Len(s)
    BY <1>1
  <2>4. ASSUME NEW n PROVE n \in RequestsIn(s) <=> n \in Request(s[1]) \/ n \in RequestsIn(Tail(s))
    <3>1. n \in RequestsIn(s) <=> \E i \in 1 .. Len(s) : n \in Request(s[i])
      BY <1>2
    <3>2. n \in RequestsIn(Tail(s)) <=> \E i \in 1 .. Len(s) - 1 : n \in Request(s[i + 1])
      BY <1>2, <2>1
    <3> QED BY <2>1, <2>2, <2>3, <3>1, <3>2
  <2> QED BY <2>1, <2>4
<1>5. ASSUME NEW k \in 1 .. Len(s)
      PROVE  RequestsIn(s) = RequestsIn(SubSeq(s, 1, k)) \cup RequestsIn(SubSeq(s, k + 1, Len(s)))
  <2> DEFINE a == SubSeq(s, 1, k)
             b == SubSeq(s, k + 1, Len(s))
  <2>1. k \in Nat /\ k <= Len(s)
    BY <1>1
  <2>2. a \in Seq(Sending) /\ Len(a) = k /\ \A i \in 1 .. k : a[i] = s[i]
    BY <1>1, <2>1, SubSeqProperties
  <2>3. b \in Seq(Sending) /\ Len(b) = Len(s) - k /\ \A i \in 1 .. Len(s) - k : b[i] = s[k + i]
    BY <1>1, <2>1, SubSeqProperties
  <2> HIDE DEF a, b
  <2>4. \A i \in 1 .. Len(s) : i \in 1 .. k \/ (i - k \in 1 .. Len(s) - k /\ k + (i - k) = i)
    BY <1>1, <2>1
  <2>5. /\ \A i \in 1 .. k : i \in 1 .. Len(s)
        /\ \A i \in 1 .. Len(s) - k : k + i \in 1 .. Len(s)
    BY <1>1, <2>1
  <2>6. ASSUME NEW n PROVE n \in RequestsIn(s) <=> n \in RequestsIn(a) \/ n \in RequestsIn(b)
    <3>1. n \in RequestsIn(s) <=> \E i \in 1 .. Len(s) : n \in Request(s[i])
      BY <1>2
    <3>2. n \in RequestsIn(a) <=> \E i \in 1 .. k : n \in Request(s[i])
      BY <1>2, <2>2
    <3>3. n \in RequestsIn(b) <=> \E i \in 1 .. Len(s) - k : n \in Request(s[k + i])
      BY <1>2, <2>3
    <3> QED BY <2>4, <2>5, <3>1, <3>2, <3>3
  <2>7. RequestsIn(s) = RequestsIn(a) \cup RequestsIn(b)
    BY <2>6
  <2> QED BY <2>7 DEF a, b
<1> QED BY <1>2, <1>3, <1>4, <1>5

(* Steps that pass requests on, or drop some and own up to it.             *)
LEMMA KeepsRequests ==
  ASSUME IInv, NoRequestIsForgotten, asked' = asked, Held' \subseteq Held,
         Held \subseteq Held' \/ out'.lost = TRUE \/ exiting' = TRUE,
         out'.lost \in {out.lost, TRUE}, exiting' \in {exiting, TRUE}
  PROVE  NoRequestIsForgotten'
<1>1. Held' \subseteq asked'
  BY DEF NoRequestIsForgotten
<1>2. ASSUME ~out'.lost, ~exiting' PROVE asked' \subseteq Held'
  <2>1. ~out.lost /\ ~exiting
    <3>1. out.lost \in BOOLEAN /\ exiting \in BOOLEAN
      BY LengthType DEF IInv, Typed
    <3> QED BY <1>2, <3>1
  <2>2. Held \subseteq Held'
    BY <1>2, Zenon
  <2>3. asked \subseteq Held
    BY <2>1, Zenon DEF NoRequestIsForgotten
  <2> QED BY <2>2, <2>3
<1> QED BY <1>1, <1>2, Zenon DEF NoRequestIsForgotten

(* No step of the client or the server forgets a request.                  *)
LEMMA ForgetsNone ==
  ASSUME IInv, NoRequestIsForgotten, [Next]_vars
  PROVE  NoRequestIsForgotten'
<1> DEFINE I == RequestsIn(inbox)
           B == RequestsIn(batch)
           R == Elements(ready)
           A == Elements(out.answered)
<1>1. /\ inbox \in Seq(Sending) /\ batch \in Seq(Sending)
      /\ ready \in Seq(Numbers) /\ out.answered \in Seq(Numbers)
      /\ out.lost \in BOOLEAN /\ exiting \in BOOLEAN
  BY LengthType DEF IInv, Typed
<1>2. Held = I \cup B \cup R \cup A /\ Held' = I' \cup B' \cup R' \cup A'
  BY DEF Held
<1>3. CASE Send
  <2>1. PICK kind \in Kinds : /\ inbox' = Append(inbox, Message(sent + 1, kind))
                              /\ asked' = IF HasNumberId(kind) THEN asked \cup {sent + 1} ELSE asked
    BY <1>3 DEF Send
  <2> DEFINE m == Message(sent + 1, kind)
  <2>2. m \in Sending /\ asked' = asked \cup Request(m)
    BY <1>3, <2>1, LoopAssumption DEF IInv, Typed, Send, Sending, Message, Numbers, Request
  <2> HIDE DEF m
  <2>3. I' = I \cup Request(m)
    BY <1>1, <2>1, <2>2, RequestsOfQueues DEF m
  <2>4. UNCHANGED <<batch, ready, out, exiting>>
    BY <1>3 DEF Send
  <2>5. Held' = Held \cup Request(m)
    BY <1>2, <2>3, <2>4
  <2> QED BY <2>2, <2>4, <2>5 DEF NoRequestIsForgotten
<1>4. CASE ReadMessages
  <2>1. PICK k \in 1 .. Len(inbox) : /\ batch' = SubSeq(inbox, 1, k)
                                     /\ inbox' = SubSeq(inbox, k + 1, Len(inbox))
    BY <1>4 DEF ReadMessages
  <2>2. I = B' \cup I'
    BY <1>1, <2>1, RequestsOfQueues
  <2>3. batch = <<>> /\ UNCHANGED <<asked, ready, out, exiting>>
    BY <1>4 DEF ReadMessages, Idle, Turns, clientVars
  <2>4. B = {}
    BY <2>3 DEF RequestsIn
  <2>5. Held' = Held
    BY <1>2, <2>2, <2>3, <2>4
  <2> QED BY <2>3, <2>5, KeepsRequests
<1>5. CASE HandleMessage
  <2> DEFINE m == Head(batch)
  <2>1. batch # <<>> /\ m \in Sending /\ batch' = Tail(batch) /\ UNCHANGED <<inbox, asked>>
    BY <1>5, HandleMoves DEF HandleMessage, clientVars
  <2>2. ready' = IF HasNumberId(m.kind) THEN Append(ready, m.n) ELSE ready
    BY <1>5 DEF HandleMessage, queued
  <2>3. B = Request(m) \cup B'
    BY <1>1, <2>1, RequestsOfQueues
  <2> HIDE DEF m
  <2>4. R' = R \cup Request(m)
    BY <1>1, <2>1, <2>2, ElementsType DEF Request, Sending
  <2>5. /\ out'.answered = out.answered
        /\ out'.lost \in {out.lost, TRUE} /\ exiting' \in {exiting, TRUE}
    BY <1>5, HandleWrites
  <2>6. Held' = Held
    BY <1>2, <2>1, <2>3, <2>4, <2>5
  <2> QED BY <2>1, <2>5, <2>6, KeepsRequests
<1>6. CASE Respond
  <2>1. /\ ready # <<>> /\ ready' = Tail(ready)
        /\ UNCHANGED <<inbox, asked, batch, exiting>>
    BY <1>6 DEF Respond, clientVars
  <2>2. Head(ready) \in Numbers
    BY <1>1, <2>1, TailType
  <2>3. R = {Head(ready)} \cup R'
    BY <1>1, <2>1, <2>2, ElementsType
  <2>4. CASE out'.answered = Append(out.answered, Head(ready)) /\ out'.lost = out.lost
    <3>1. A' = A \cup {Head(ready)}
      BY <1>1, <2>2, <2>4, ElementsType
    <3>2. Held' = Held
      BY <1>2, <2>1, <2>3, <3>1
    <3> QED BY <2>1, <2>4, <3>2, KeepsRequests
  <2>5. CASE out'.answered = out.answered /\ out'.lost = TRUE
    <3>1. Held' \subseteq Held
      BY <1>2, <2>1, <2>3, <2>5
    <3> QED BY <2>1, <2>5, <3>1, KeepsRequests
  <2> QED BY <1>6, <2>4, <2>5, RespondWrites
<1>7. ASSUME NEW n \in Numbers, CompileStep(n) PROVE NoRequestIsForgotten'
  <2>1. out'.answered = out.answered /\ out'.lost \in {out.lost, TRUE}
    BY <1>7, CompileWrites
  <2>2. UNCHANGED <<inbox, asked, batch, ready, exiting>>
    BY <1>7, CompileWrites
  <2>3. Held' = Held
    BY <1>2, <2>1, <2>2
  <2> QED BY <2>1, <2>2, <2>3, KeepsRequests
<1>8. CASE Exit
  <2>1. ready' = <<>> /\ exiting /\ UNCHANGED <<inbox, asked, batch, out, exiting>>
    BY <1>8 DEF Exit, clientVars
  <2>2. R' = {}
    BY <2>1 DEF Elements
  <2>3. Held' \subseteq Held
    BY <1>2, <2>1, <2>2
  <2> QED BY <2>1, <2>3, KeepsRequests
<1>9. CASE TakeFromStdout
  <2>1. PICK left \in 0 .. Capacity : out' = [out EXCEPT !.unread = left]
    BY <1>9 DEF TakeFromStdout
  <2>2. out'.answered = out.answered /\ out'.lost = out.lost
    BY <2>1 DEF IInv, Typed, Outs
  <2>3. UNCHANGED <<inbox, asked, batch, ready, exiting>>
    BY <1>9 DEF TakeFromStdout, clientVars
  <2>4. Held' = Held
    BY <1>2, <2>2, <2>3
  <2> QED BY <2>2, <2>3, <2>4, KeepsRequests
<1>10. CASE Close \/ Signal \/ ReadEof \/ HandleSignal \/ UNCHANGED vars
  <2>1. UNCHANGED <<inbox, asked, batch, ready, out>> /\ exiting' \in {exiting, TRUE}
    BY <1>10 DEF Close, Signal, ReadEof, HandleSignal, vars, clientVars
  <2>2. Held' = Held
    BY <1>2, <2>1
  <2> QED BY <2>1, <2>2, KeepsRequests
<1> QED BY <1>3, <1>4, <1>5, <1>6, <1>7, <1>8, <1>9, <1>10 DEF Next, ServerStep, CompileStep

(* Every request of the client is somewhere between it and its answer,     *)
(* until something is lost or the server is asked to end, and nothing but  *)
(* a request is answered: for any messages, in any grouping into reads.    *)
THEOREM RequestsAreHeld == Spec => []NoRequestIsForgotten
<1>1. Init => NoRequestIsForgotten
  BY DEF Init, NoRequestIsForgotten, Held, RequestsIn, Elements
<1>2. IInv /\ NoRequestIsForgotten /\ [Next]_vars => NoRequestIsForgotten'
  BY ForgetsNone
<1> QED BY ServerLoopInvariant, <1>1, <1>2, PTL DEF Spec
==============================================================================
