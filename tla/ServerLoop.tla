------------------------------ MODULE ServerLoop ------------------------------
(***************************************************************************)
(* The life of the server: main's wait for the exit event, the event loop  *)
(* that handles the messages of a read one after another and runs the      *)
(* continuations they leave behind, and the writes to stdout.              *)
(*                                                                         *)
(* A continuation (the answer to a request) goes to the end of the queue   *)
(* of the loop; the exit event goes to its front, and when it has run wait *)
(* returns, main ends and whatever is queued is lost.  stdin and signals   *)
(* are looked at only when the queue is empty.                             *)
(*                                                                         *)
(* stdout is a non-blocking pipe.  A write that does not fit returns a     *)
(* promise for the rest, which every caller drops: the rest is lost.       *)
(***************************************************************************)
EXTENDS Naturals, Sequences, FiniteSets

CONSTANTS
  MaxMessages,   (* messages the client sends at most                        *)
  Kinds,         (* the kinds it sends                                       *)
  Capacity,      (* of the pipe                                              *)
  Atomic,        (* PIPE_BUF: up to this size a write is all or nothing      *)
  LogSizes,      (* the sizes the frames of a log line may have              *)
  ResponseSizes, (* ... of an answer                                         *)
  PublishSizes   (* ... of the diagnostics of a file                         *)

(* "request": has a number as its id and logs nothing; "failing": the same, *)
(* but its handler logs an error, or two (a definition that is not known,   *)
(* formatting, an unknown method); "ignored": a notification without effect; *)
(* "broken": JSON that does not parse, an unknown notification: logs an      *)
(* error; "compile": didOpen, didSave; "shutdown": the request.  "named",    *)
(* "namedShutdown": a request whose id is a string, which is logged; its     *)
(* handler runs all the same, and is not answered.  A message always has a   *)
(* header: StdinReader hands over none without.                              *)
AllKinds == {"request", "failing", "ignored", "broken", "compile", "shutdown",
             "named", "namedShutdown"}
HasNumberId(kind) == kind \in {"request", "failing", "shutdown"}
AsksToEnd(kind)   == kind \in {"shutdown", "namedShutdown"}
(* How many errors handleMessage may log (a compile: when it cannot even be  *)
(* begun).                                                                   *)
LogCounts(kind)   == CASE kind \in {"request", "ignored", "shutdown"} -> {0}
                       [] kind \in {"broken", "namedShutdown"}       -> {1}
                       [] kind = "failing" -> {1, 2}
                       [] kind = "named"   -> {1, 2, 3}
                       [] kind = "compile" -> {0, 1}

ASSUME LoopAssumption ==
  /\ MaxMessages \in Nat /\ Kinds \subseteq AllKinds
  /\ Capacity \in Nat /\ Atomic \in Nat
  /\ LogSizes \cup ResponseSizes \cup PublishSizes \subseteq Nat \ {0}

Numbers == 1 .. MaxMessages

VARIABLES
  inbox,      (* what the client has sent and the server has not read        *)
  sent,       (* how many messages the client has sent                       *)
  asked,      (* history: the numbers of those that are requests             *)
  closed,     (* the client has closed its end of stdin                      *)
  signalled,  (* SIGINT or SIGTERM has been sent                             *)
  batch,      (* messages of the last read that are still to be handled      *)
  ready,      (* the answers queued in the event loop                        *)
  chains,     (* how far each message's compile has got                      *)
  diagnosticMap, (* the compiles whose diagnostics are in it (each of a file *)
              (* of its own: of one file there would be fewer entries)       *)
  exiting,    (* the exit event is at the front of the queue                 *)
  alive,      (* the process runs                                            *)
  out         (* stdout: the amount the client has not taken out yet,        *)
              (* whether anything was lost, whether the last thing that went *)
              (* in is a part of a notification, whether anything went in    *)
              (* behind such a part, and (history) the requests whose answer *)
              (* went in whole                                               *)
clientVars == <<sent, asked, closed, signalled>>
compileVars == <<chains, diagnosticMap>>
vars == <<inbox, clientVars, batch, ready, compileVars, exiting, alive, out>>

Stages == {"none", "checking", "compiling", "publishing"}
NoChain == [n \in Numbers |-> "none"]
Outs == [unread : 0 .. Capacity, lost : BOOLEAN, cut : BOOLEAN, garbled : BOOLEAN,
         answered : Seq(Numbers)]

Message(n, kind) == [n |-> n, kind |-> kind]
Frame(what, n, size) == [what |-> what, n |-> n, size |-> size]

Init ==
  /\ inbox = <<>> /\ sent = 0 /\ asked = {} /\ closed = FALSE /\ signalled = FALSE
  /\ batch = <<>> /\ ready = <<>> /\ chains = NoChain /\ diagnosticMap = {}
  /\ exiting = FALSE /\ alive = TRUE
  /\ out = [unread |-> 0, lost |-> FALSE, cut |-> FALSE, garbled |-> FALSE,
            answered |-> <<>>]

-----------------------------------------------------------------------------
(* The client.                                                             *)
Send ==
  /\ ~closed /\ sent < MaxMessages
  /\ sent' = sent + 1
  /\ \E kind \in Kinds :
       /\ inbox' = Append(inbox, Message(sent + 1, kind))
       /\ asked' = IF HasNumberId(kind) THEN asked \cup {sent + 1} ELSE asked
  /\ UNCHANGED <<closed, signalled, batch, ready, compileVars, exiting, alive, out>>

Close ==
  /\ ~closed /\ closed' = TRUE
  /\ UNCHANGED <<inbox, sent, asked, signalled, batch, ready, compileVars, exiting, alive, out>>

Signal ==
  /\ alive /\ ~signalled /\ signalled' = TRUE
  /\ UNCHANGED <<inbox, sent, asked, closed, batch, ready, compileVars, exiting, alive, out>>

TakeFromStdout ==
  /\ \E left \in 0 .. Capacity : left < out.unread /\ out' = [out EXCEPT !.unread = left]
  /\ UNCHANGED <<inbox, clientVars, batch, ready, compileVars, exiting, alive>>

-----------------------------------------------------------------------------
(* Slip: what is in the pipe already is forgotten.                         *)
writeAnyway(o, frame) ==
  LET room == Capacity
      took == IF frame.size <= room THEN frame.size ELSE IF frame.size <= Atomic THEN 0 ELSE room
  IN  [unread |-> o.unread + took,
       lost   |-> o.lost \/ took < frame.size,
       cut    |-> IF took = 0 THEN o.cut ELSE frame.what = "publish" /\ took < frame.size,
       garbled |-> o.garbled \/ (o.cut /\ took > 0),
       answered |-> IF frame.what = "response" /\ took = frame.size
                    THEN Append(o.answered, frame.n) ELSE o.answered]
(* A write of a frame, of which the caller drops the promise.              *)
write(o, frame) ==
  LET room == Capacity - o.unread
      took == IF frame.size <= room THEN frame.size ELSE IF frame.size <= Atomic THEN 0 ELSE room
  IN  [unread |-> o.unread + took,
       lost   |-> o.lost \/ took < frame.size,
       cut    |-> IF took = 0 THEN o.cut ELSE frame.what = "publish" /\ took < frame.size,
       garbled |-> o.garbled \/ (o.cut /\ took > 0),
       answered |-> IF frame.what = "response" /\ took = frame.size
                    THEN Append(o.answered, frame.n) ELSE o.answered]

(* k frames, one after the other.                                          *)
writeAll(o, what, n, k, size) ==
  LET written[i \in 0 .. k] == IF i = 0 THEN o
                               ELSE write(written[i - 1], Frame(what, n, size[i]))
  IN  written[k]
writes(what, n, k, Sizes) ==
  \E size \in [1 .. k -> Sizes] : out' = writeAll(out, what, n, k, size)

(* The loop turns: no handler is running.                                  *)
Turns == alive /\ batch = <<>>
Idle  == Turns /\ ~exiting /\ ready = <<>>

(* A read returns with the messages that have arrived, one or more.        *)
ReadMessages ==
  /\ Idle
  /\ \E k \in 1 .. Len(inbox) :
       /\ batch' = SubSeq(inbox, 1, k)
       /\ inbox' = SubSeq(inbox, k + 1, Len(inbox))
  /\ UNCHANGED <<clientVars, ready, compileVars, exiting, alive, out>>

(* A read returns with nothing, and is not repeated.                       *)
ReadEof ==
  /\ Idle /\ closed /\ inbox = <<>>
  /\ exiting' = TRUE
  /\ UNCHANGED <<inbox, clientVars, batch, ready, compileVars, alive, out>>

HandleSignal ==
  /\ Idle /\ signalled
  /\ exiting' = TRUE
  /\ UNCHANGED <<inbox, clientVars, batch, ready, compileVars, alive, out>>

(* Slip: a handler that fails is not followed by an answer.                *)
queuedUnlessFailing(m) ==
  IF HasNumberId(m.kind) /\ m.kind # "failing" THEN Append(ready, m.n) ELSE ready
(* The continuation of a handler, if the message has a number as its id.   *)
queued(m) == IF HasNumberId(m.kind) THEN Append(ready, m.n) ELSE ready

(* handleMessage, for the next message of the read.                        *)
HandleMessage ==
  /\ alive /\ batch # <<>>
  /\ LET m == Head(batch)
     IN  /\ batch' = Tail(batch)
         /\ ready' = queued(m)
         /\ exiting' = (exiting \/ AsksToEnd(m.kind))
         /\ \E k \in LogCounts(m.kind) :
              /\ writes("log", m.n, k, LogSizes)
              /\ chains' = IF m.kind = "compile" /\ k = 0
                           THEN [chains EXCEPT ![m.n] = "checking"] ELSE chains
  /\ UNCHANGED <<inbox, clientVars, diagnosticMap, alive>>

(* Slip: the last one queued runs first.                                   *)
RespondNewest ==
  /\ Turns /\ ~exiting /\ ready # <<>>
  /\ ready' = SubSeq(ready, 1, Len(ready) - 1)
  /\ \E size \in ResponseSizes : out' = write(out, Frame("response", ready[Len(ready)], size))
  /\ UNCHANGED <<inbox, clientVars, batch, compileVars, exiting, alive>>
(* Slip: the write waits until there is room.                              *)
RespondWhenRoom ==
  /\ Turns /\ ~exiting /\ ready # <<>>
  /\ ready' = Tail(ready)
  /\ \E size \in ResponseSizes : size <= Capacity - out.unread /\
       out' = write(out, Frame("response", Head(ready), size))
  /\ UNCHANGED <<inbox, clientVars, batch, compileVars, exiting, alive>>
(* The continuation that answers a request.                                *)
Respond ==
  /\ Turns /\ ~exiting /\ ready # <<>>
  /\ ready' = Tail(ready)
  /\ \E size \in ResponseSizes : out' = write(out, Frame("response", Head(ready), size))
  /\ UNCHANGED <<inbox, clientVars, batch, compileVars, exiting, alive>>

(* A turn of a compile's chain, which was queued behind the answers to     *)
(* older messages; its order among the newer ones is left open.            *)
CompileTurn(n, from, to) ==
  /\ Turns /\ ~exiting /\ chains[n] = from
  /\ \A i \in DOMAIN ready : n < ready[i]
  /\ chains' = [chains EXCEPT ![n] = to]
  /\ UNCHANGED <<inbox, clientVars, batch, ready, exiting, alive>>

(* The answer of the version check is there: the map is cleared and the    *)
(* compiler run, unless it cannot be; or the compiler will not do.         *)
StartCompile(n) ==
  \/ /\ \E to \in {"compiling", "publishing"} : CompileTurn(n, "checking", to)
     /\ diagnosticMap' = {}
     /\ \E k \in {0, 1} : writes("log", n, k, LogSizes)
  \/ /\ CompileTurn(n, "checking", "publishing")
     /\ \E k \in {1, 2, 3} : writes("log", n, k, LogSizes)
     /\ UNCHANGED diagnosticMap

(* The compiler has ended: a failure is logged, and fills the map if its   *)
(* errors can be read.                                                     *)
FinishCompile(n) ==
  /\ CompileTurn(n, "compiling", "publishing")
  /\ \/ /\ \E k \in {0, 1, 2} : writes("log", n, k, LogSizes)
        /\ UNCHANGED diagnosticMap
     \/ /\ writes("log", n, 1, LogSizes)
        /\ diagnosticMap' = diagnosticMap \cup {n}

(* publishDiagnostics: a frame for each file in the map, or an empty list  *)
(* for its own.                                                            *)
Publish(n) ==
  /\ CompileTurn(n, "publishing", "none")
  /\ writes("publish", n, IF diagnosticMap = {} THEN 1 ELSE Cardinality(diagnosticMap),
            PublishSizes)
  /\ UNCHANGED diagnosticMap

(* wait returns, and so does main: all that is queued or under way is lost. *)
Exit ==
  /\ Turns /\ exiting
  /\ alive' = FALSE
  /\ ready' = <<>> /\ chains' = NoChain /\ diagnosticMap' = {}
  /\ UNCHANGED <<inbox, clientVars, batch, exiting, out>>

ServerStep ==
  \/ ReadMessages \/ ReadEof \/ HandleSignal \/ HandleMessage \/ Respond \/ Exit
  \/ \E n \in Numbers : StartCompile(n) \/ FinishCompile(n) \/ Publish(n)

Next == Send \/ Close \/ Signal \/ TakeFromStdout \/ ServerStep

Spec == Init /\ [][Next]_vars

(* The loop never stops while an event is ready or the kernel has one, and  *)
(* it looks at all its sources.  A compiler need not end, and the client    *)
(* need do nothing.                                                         *)
FairSpec ==
  /\ Spec
  /\ WF_vars(HandleMessage) /\ WF_vars(Respond) /\ WF_vars(Exit)
  /\ WF_vars(ReadMessages) /\ WF_vars(ReadEof) /\ WF_vars(HandleSignal)

-----------------------------------------------------------------------------
Frames == [what : {"response", "log", "publish"}, n : Numbers, 
           size : LogSizes \cup ResponseSizes \cup PublishSizes]

(* The type of every variable.                                             *)
TypeOK ==
  /\ inbox \in Seq([n : Numbers, kind : Kinds]) /\ batch \in Seq([n : Numbers, kind : Kinds])
  /\ sent \in 0 .. MaxMessages /\ asked \subseteq Numbers
  /\ {closed, signalled, exiting, alive} \subseteq BOOLEAN
  /\ ready \in Seq(Numbers) /\ chains \in [Numbers -> Stages] /\ diagnosticMap \subseteq Numbers
  /\ out \in Outs

(* Every request with a number is answered once and in order; only a full  *)
(* pipe or the end of the server can keep an answer back.                  *)
Service == INSTANCE RequestService WITH
  Requests <- Numbers, owed <- ready, answered <- out.answered, behind <- out.lost,
  ending <- exiting
AnswersRequests == Service!Spec

(* Until something is lost or the server is asked to end, every request    *)
(* the client has sent waits to be read, to be handled or for its answer,  *)
(* or has been answered; and what is answered was a request: no failing    *)
(* handler and no grouping of messages into reads drops or invents one.    *)
RequestsIn(s) == {s[i].n : i \in {j \in DOMAIN s : HasNumberId(s[j].kind)}}
Elements(s)   == {s[i] : i \in DOMAIN s}
Held == RequestsIn(inbox) \cup RequestsIn(batch) \cup Elements(ready) \cup Elements(out.answered)
NoRequestIsForgotten ==
  /\ Held \subseteq asked
  /\ ~out.lost /\ ~exiting => asked \subseteq Held

(* Asked by a message, by the end of the input or by a signal, the server  *)
(* ends, even when the client reads nothing any more, answers are due and  *)
(* a compiler hangs.  (Unless it hangs after closing its pipes: then the   *)
(* server is in waitpid, see SubprocessRunner, and this loop stands still.) *)
IsAsked == closed \/ signalled \/ \E i \in DOMAIN inbox : AsksToEnd(inbox[i].kind)
EndsWhenAsked == IsAsked ~> ~alive

(* lsp_message_handler.cpp:285, "Encode and send the notification": what   *)
(* the client gets of a notification is all of it, and what follows on     *)
(* stdout does not continue a part of one.                                 *)
NotificationsAreSent == ~out.garbled
==============================================================================
