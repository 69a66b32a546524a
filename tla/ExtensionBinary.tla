---------------------------- MODULE ExtensionBinary ----------------------------
(***************************************************************************)
(* How the VS Code extension comes by a server to start: findLanguageServer *)
(* looks beside the extension and elsewhere, downloadCapnpLs fetches the   *)
(* binary when the place beside the extension is empty.  Every window runs *)
(* an extension of its own, all of them share that place, and a window may *)
(* be closed or die at any point.                                          *)
(*                                                                         *)
(* A file is an inode: unlink takes away its name, not what is written to  *)
(* it or executed from it.  Linux on x86_64, the one platform that         *)
(* downloads, is modelled.  Closing a file and unlinking it are one step   *)
(* with the handler that asks for them.                                    *)
(***************************************************************************)
EXTENDS Naturals, FiniteSets

CONSTANTS
  Windows,
  Inodes,        (* enough for one in every hand and one at the path         *)
  Size,          (* chunks of the binary                                     *)
  MaxStarts,     (* windows opened at most                                   *)
  Elsewhere,     (* whether a server is configured, or found on the PATH     *)
  None

ASSUME BinaryAssumption ==
  /\ None \notin Inodes
  /\ Size \in Nat \ {0} /\ MaxStarts \in Nat /\ Elsewhere \subseteq BOOLEAN

Phases == {"closed",      (* no window, or no extension in it                *)
           "finding",     (* findLanguageServer is about to look             *)
           "requesting",  (* the first request is out                        *)
           "redirected",  (* the second is                                   *)
           "receiving",   (* a body is being written to the file             *)
           "cut",         (* the connection broke in the middle of the body  *)
           "finished",    (* all of it is, and stat is asked for its size    *)
           "sized",       (* chmod is asked for                              *)
           "starting",    (* the path is handed to the client                *)
           "running",     (* a server runs from the file                     *)
           "elsewhere",   (* a server is started that is not this file's     *)
           "failed",      (* the file could not be started                   *)
           "stopping"}    (* deactivate has asked the client to stop         *)

VARIABLES
  path,        (* the inode beside the extension, or None                    *)
  inode,       (* what each inode holds: chunks, and the permission          *)
  phase,
  timed,       (* the first request of a window has a connection, and with   *)
               (* it the 30 s timer                                          *)
  fd,          (* the inode a window has open for writing                    *)
  got,         (* the chunks it has written                                  *)
  image,       (* the inode its server runs from                             *)
  starts,      (* windows opened so far                                      *)
  elsewhere,
  overlapped   (* history: a download was begun while another was under way  *)
vars == <<path, inode, phase, timed, fd, got, image, starts, elsewhere, overlapped>>

Whole == [data |-> 1 .. Size, exec |-> TRUE]
Empty == [data |-> {}, exec |-> FALSE]

Downloading(w) ==
  phase[w] \in {"requesting", "redirected", "receiving", "cut", "finished", "sized"}
Busy(i)        == (\E w \in Windows : fd[w] = i)
Executed(i)    == (\E w \in Windows : image[w] = i)

Init ==
  /\ path = None
  /\ inode = [i \in Inodes |-> Empty]
  /\ phase = [w \in Windows |-> "closed"]
  /\ timed = [w \in Windows |-> FALSE]
  /\ fd = [w \in Windows |-> None] /\ got = [w \in Windows |-> 0]
  /\ image = [w \in Windows |-> None]
  /\ starts = 0 /\ elsewhere \in Elsewhere /\ overlapped = FALSE

MoveTo(w, next) == phase' = [phase EXCEPT ![w] = next]
files == <<path, inode>>
hands == <<timed, fd, got>>
world == <<image, starts, elsewhere, overlapped>>

-----------------------------------------------------------------------------
Activate(w) ==
  /\ phase[w] = "closed" /\ starts < MaxStarts
  /\ starts' = starts + 1
  /\ MoveTo(w, "finding")
  /\ UNCHANGED <<files, hands, image, elsewhere, overlapped>>

(* findLanguageServer: the file if it may be executed, then what is on the *)
(* PATH; a download only if there is no file.                              *)
Find(w) ==
  /\ phase[w] = "finding"
  /\ IF path # None /\ inode[path].exec
     THEN MoveTo(w, "starting") /\ UNCHANGED <<timed, overlapped>>
     ELSE IF path # None \/ elsewhere
     THEN MoveTo(w, "elsewhere") /\ UNCHANGED <<timed, overlapped>>
     ELSE /\ MoveTo(w, "requesting")
          /\ timed' = [timed EXCEPT ![w] = TRUE]
          /\ overlapped' = (overlapped \/ \E v \in Windows : Downloading(v))
  /\ UNCHANGED <<files, fd, got, image, starts, elsewhere>>

(* The promise is rejected, and the search ends with the fallback.         *)
GiveUp(w) ==
  /\ MoveTo(w, "elsewhere")
  /\ fd' = [fd EXCEPT ![w] = None] /\ got' = [got EXCEPT ![w] = 0]
  /\ UNCHANGED <<inode, world>>
Unlink == path' = None
EndTimer(w) == timed' = [timed EXCEPT ![w] = FALSE]

(* An answer that is neither 200 nor a redirect to somewhere.  Nobody      *)
(* reads on, and the timer of the first request stays set.                 *)
Refused(w) ==
  /\ phase[w] \in {"requesting", "redirected"}
  /\ GiveUp(w) /\ UNCHANGED <<path, timed>>

(* The request cannot be sent, or its connection breaks before an answer.  *)
RequestFails(w) ==
  /\ phase[w] \in {"requesting", "redirected"}
  /\ GiveUp(w) /\ Unlink /\ EndTimer(w)

(* The first request is destroyed, and its timer with it.                  *)
Redirect(w) ==
  /\ phase[w] = "requesting"
  /\ MoveTo(w, "redirected") /\ EndTimer(w)
  /\ UNCHANGED <<files, fd, got, world>>

(* The timer of a download that has been rejected already: there is only   *)
(* the file left to unlink, whosever it is by now.                         *)
LateTimeout(w) ==
  /\ phase[w] \notin {"requesting", "receiving"} /\ timed[w]
  /\ Unlink /\ EndTimer(w)
  /\ UNCHANGED <<inode, phase, fd, got, world>>

(* Slip: the timer is for the headers alone.                               *)
TimeoutOfHeaders(w) ==
  \/ phase[w] = "requesting" /\ timed[w] /\ GiveUp(w) /\ Unlink /\ EndTimer(w)
  \/ LateTimeout(w)
(* The connection of the first request has been silent for 30 s.           *)
Timeout(w) ==
  \/ phase[w] \in {"requesting", "receiving"} /\ timed[w]
     /\ GiveUp(w) /\ Unlink /\ EndTimer(w)
  \/ LateTimeout(w)

(* 200: createWriteStream creates the file or truncates what is there; a   *)
(* file that is executed cannot be opened.                                 *)
Open(w) ==
  /\ phase[w] \in {"requesting", "redirected"}
  /\ IF path # None /\ Executed(path) THEN GiveUp(w) /\ Unlink /\ UNCHANGED timed
     ELSE \E i \in Inodes :
            /\ IF path = None THEN ~Busy(i) /\ ~Executed(i) ELSE i = path
            /\ path' = i
            /\ inode' = [inode EXCEPT ![i] = [data |-> {}, exec |-> path # None /\ @.exec]]
            /\ fd' = [fd EXCEPT ![w] = i]
            /\ MoveTo(w, "receiving")
            /\ UNCHANGED <<timed, got, world>>

Chunk(w) ==
  /\ phase[w] = "receiving" /\ got[w] < Size
  /\ inode' = [inode EXCEPT ![fd[w]].data = @ \cup {got[w] + 1}]
  /\ got' = [got EXCEPT ![w] = @ + 1]
  /\ UNCHANGED <<path, phase, timed, fd, world>>

WriteFails(w) == phase[w] = "receiving" /\ GiveUp(w) /\ Unlink /\ UNCHANGED timed

(* The connection breaks in the middle of the body, for which there is no  *)
(* handler, or after the download was given up; the timer goes with it.    *)
Cut(w) ==
  /\ \/ phase[w] = "receiving" /\ MoveTo(w, "cut")
     \/ phase[w] \notin {"requesting", "receiving"} /\ timed[w] /\ UNCHANGED phase
  /\ EndTimer(w)
  /\ UNCHANGED <<files, fd, got, world>>

(* Slip: the timer goes on.                                                *)
FinishTimed(w) ==
  /\ phase[w] = "receiving" /\ got[w] \in {0, Size}
  /\ MoveTo(w, "finished")
  /\ fd' = [fd EXCEPT ![w] = None] /\ got' = [got EXCEPT ![w] = 0]
  /\ UNCHANGED <<files, timed, world>>
(* The body has ended, which may have been empty, and the file is closed.  *)
Finish(w) ==
  /\ phase[w] = "receiving" /\ got[w] \in {0, Size}
  /\ MoveTo(w, "finished")
  /\ EndTimer(w)
  /\ fd' = [fd EXCEPT ![w] = None] /\ got' = [got EXCEPT ![w] = 0]
  /\ UNCHANGED <<files, world>>

(* Slip: the size is not looked at.                                        *)
StatAnySize(w) ==
  /\ phase[w] = "finished"
  /\ IF path = None THEN GiveUp(w) /\ UNCHANGED <<path, timed>>
     ELSE MoveTo(w, "sized") /\ UNCHANGED <<files, hands, world>>
Stat(w) ==
  /\ phase[w] = "finished"
  /\ IF path = None THEN GiveUp(w) /\ UNCHANGED <<path, timed>>
     ELSE IF inode[path].data = {} THEN GiveUp(w) /\ Unlink /\ UNCHANGED timed
     ELSE MoveTo(w, "sized") /\ UNCHANGED <<files, hands, world>>

Chmod(w) ==
  /\ phase[w] = "sized"
  /\ IF path = None THEN GiveUp(w) /\ UNCHANGED <<path, timed>>
     ELSE /\ inode' = [inode EXCEPT ![path].exec = TRUE]
          /\ MoveTo(w, "starting")
          /\ UNCHANGED <<path, hands, world>>

-----------------------------------------------------------------------------
(* client.start() executes what is at the path by now; a file that anyone  *)
(* has open for writing cannot be.                                         *)
Start(w) ==
  /\ phase[w] = "starting"
  /\ IF path # None /\ inode[path].exec /\ ~Busy(path)
     THEN MoveTo(w, "running") /\ image' = [image EXCEPT ![w] = path]
     ELSE MoveTo(w, "failed") /\ UNCHANGED image
  /\ UNCHANGED <<files, hands, starts, elsewhere, overlapped>>

Deactivate(w) ==
  /\ phase[w] \in {"running", "elsewhere", "failed"}
  /\ MoveTo(w, "stopping")
  /\ UNCHANGED <<files, hands, world>>

(* Slip: the file is not closed.                                           *)
LeaveOpen(w) ==
  /\ MoveTo(w, "closed")
  /\ EndTimer(w)
  /\ image' = [image EXCEPT ![w] = None]
  /\ UNCHANGED <<files, fd, got, starts, elsewhere, overlapped>>
(* The process of the extension, and with it the server, is gone.          *)
Leave(w) ==
  /\ MoveTo(w, "closed")
  /\ EndTimer(w)
  /\ fd' = [fd EXCEPT ![w] = None] /\ got' = [got EXCEPT ![w] = 0]
  /\ image' = [image EXCEPT ![w] = None]
  /\ UNCHANGED <<files, starts, elsewhere, overlapped>>

(* deactivate has ended: the client has stopped, or 5 s have passed.       *)
Stopped(w) == phase[w] = "stopping" /\ Leave(w)

(* The window dies, or is closed before the client is there.               *)
Crash(w) == phase[w] # "closed" /\ Leave(w)

Next == \E w \in Windows :
  \/ Activate(w) \/ Find(w)
  \/ Refused(w) \/ RequestFails(w) \/ Redirect(w) \/ Timeout(w)
  \/ Open(w) \/ Chunk(w) \/ WriteFails(w) \/ Cut(w) \/ Finish(w) \/ Stat(w) \/ Chmod(w)
  \/ Start(w) \/ Deactivate(w) \/ Stopped(w) \/ Crash(w)

Spec == Init /\ [][Next]_vars

(* What the extension does by itself happens: its own steps, the callbacks *)
(* of the file system and the timers.  The network and the client need     *)
(* not answer.                                                             *)
FairSpec ==
  /\ Spec
  /\ \A w \in Windows : /\ WF_vars(Find(w)) /\ WF_vars(Timeout(w))
                        /\ WF_vars(Stat(w)) /\ WF_vars(Chmod(w)) /\ WF_vars(Start(w))

-----------------------------------------------------------------------------
(* The type of every variable.                                             *)
TypeOK ==
  /\ path \in Inodes \cup {None}
  /\ inode \in [Inodes -> [data : SUBSET (1 .. Size), exec : BOOLEAN]]
  /\ phase \in [Windows -> Phases]
  /\ timed \in [Windows -> BOOLEAN]
  /\ fd \in [Windows -> Inodes \cup {None}] /\ got \in [Windows -> 0 .. Size]
  /\ \A w \in Windows : phase[w] \in {"receiving", "cut"} <=> fd[w] # None
  /\ image \in [Windows -> Inodes \cup {None}]
  /\ starts \in 0 .. MaxStarts /\ {elsewhere, overlapped} \subseteq BOOLEAN

(* What runs from the file is the whole binary, whatever download was cut, *)
(* timed out, died with its window or had its file unlinked by another's   *)
(* timer, as long as no window begins a download while another is at it.   *)
OnlyWholeBinariesRun ==
  ~overlapped => \A w \in Windows : image[w] # None => inode[image[w]] = Whole

(* ... and, as long as that holds, there is one way for a window to take a *)
(* whole binary away: the timer left of a download that it gave up, which  *)
(* may go off when another window has downloaded the file since.  None     *)
(* ever spoils it.                                                         *)
GaveUp(w) == phase[w] \in {"elsewhere", "stopping"} /\ image[w] = None
BinaryStays ==
  [][(~overlapped' /\ path # None /\ inode[path] = Whole)
       => /\ inode'[path] = Whole
          /\ path' = path \/ \E w \in Windows : GaveUp(w) /\ LateTimeout(w)]_vars

(* Every activation comes to an end, with a server of whatever origin or   *)
(* without, unless it waits for the network with no timer running: after a *)
(* redirect, or when a body was cut.                                       *)
UnderWay(w) == Downloading(w) \/ phase[w] \in {"finding", "starting"}
OnlyTheNetworkKnows(w) == phase[w] \in {"redirected", "receiving", "cut"} /\ ~timed[w]
ActivationEnds ==
  \A w \in Windows : UnderWay(w) ~> ~UnderWay(w) \/ OnlyTheNetworkKnows(w)
==============================================================================
