------------------------- MODULE ExtensionBinaryProofs -------------------------
(***************************************************************************)
(* Theorems about ExtensionBinary, for any number of windows and chunks,   *)
(* as long as downloads do not overlap: only whole binaries run, and only  *)
(* the late timer of a download that was given up takes one away.          *)
(***************************************************************************)
EXTENDS ExtensionBinary, TLAPS

OneDownload == \A v, w \in Windows : Downloading(v) /\ Downloading(w) => v = w

(* Until the body comes there is nothing at the path.                      *)
NothingThere(w) == phase[w] \in {"requesting", "redirected"} => path = None

(* What is being written is at the path, if a late timer has not unlinked  *)
(* it, is written from the front and may not be executed yet.              *)
BeingWritten(w) ==
  /\ phase[w] = "receiving" => path \in {None, fd[w]} /\ inode[fd[w]].data = 1 .. got[w]
  /\ phase[w] \in {"receiving", "cut"} => ~inode[fd[w]].exec

(* What has been written is nothing or everything.                         *)
Written(w) ==
  /\ (phase[w] = "finished" /\ path # None) => inode[path].data \in {{}, 1 .. Size}
  /\ (phase[w] = "sized" /\ path # None) => inode[path].data = 1 .. Size

ExecIsWhole == \A i \in Inodes : inode[i].exec => inode[i].data = 1 .. Size
ImageIsExec == \A w \in Windows : image[w] # None => inode[image[w]].exec

(* A timer is left only of a download that was given up.                   *)
Left(w) ==
  /\ image[w] # None => phase[w] \in {"running", "stopping"}
  /\ timed[w] => /\ phase[w] \in {"requesting", "receiving", "elsewhere", "stopping"}
                 /\ image[w] = None

(* A window that is not writing has written nothing.                       *)
NothingGot == \A w \in Windows : fd[w] = None => got[w] = 0

(* What is known of the files while no two downloads overlap.              *)
Facts ==
  /\ OneDownload /\ ExecIsWhole /\ ImageIsExec /\ NothingGot
  /\ \A w \in Windows : NothingThere(w) /\ BeingWritten(w) /\ Written(w)

Inv == TypeOK /\ (\A w \in Windows : Left(w)) /\ (~overlapped => Facts)

(* No window is open and there is no file.                                 *)
LEMMA InitInv == Init => Inv
<1> USE BinaryAssumption
<1>1. ASSUME Init PROVE TypeOK
  <2>1. Empty \in [data : SUBSET (1 .. Size), exec : BOOLEAN]
    BY DEF Empty
  <2>2. inode \in [Inodes -> [data : SUBSET (1 .. Size), exec : BOOLEAN]]
    BY <1>1, <2>1 DEF Init
  <2>3. {elsewhere, overlapped} \subseteq BOOLEAN
    BY <1>1, Zenon DEF Init
  <2>4. /\ path \in Inodes \cup {None} /\ starts \in 0 .. MaxStarts
        /\ phase \in [Windows -> Phases] /\ timed \in [Windows -> BOOLEAN]
        /\ fd \in [Windows -> Inodes \cup {None}] /\ got \in [Windows -> 0 .. Size]
        /\ image \in [Windows -> Inodes \cup {None}]
        /\ \A w \in Windows : phase[w] \in {"receiving", "cut"} <=> fd[w] # None
    BY <1>1 DEF Init, Phases
  <2> QED
    BY <2>2, <2>3, <2>4 DEF TypeOK
<1>2. Init => Facts
  BY DEF Init, Facts, NothingGot, OneDownload, Downloading, ExecIsWhole, ImageIsExec,
         NothingThere, BeingWritten, Written, Empty
<1>3. Init => \A w \in Windows : Left(w)
  BY DEF Init, Left
<1> QED
  BY <1>1, <1>2, <1>3 DEF Inv

(* Every step keeps the types, and a window writes exactly while it has a  *)
(* file open.                                                              *)
LEMMA TypeStep == TypeOK /\ [Next]_vars => TypeOK'
<1> SUFFICES ASSUME TypeOK, [Next]_vars
             PROVE  TypeOK'
  OBVIOUS
<1> USE BinaryAssumption DEF TypeOK, Phases
<1>1. ASSUME UNCHANGED vars PROVE TypeOK'
  BY <1>1 DEF vars
<1>2. ASSUME NEW w \in Windows, Activate(w) PROVE TypeOK'
  BY <1>2 DEF Activate, MoveTo, files, hands, world
<1>3. ASSUME NEW w \in Windows, Find(w) PROVE TypeOK'
  BY <1>3 DEF Find, MoveTo, files, hands, world, Downloading
<1>4. ASSUME NEW w \in Windows, Refused(w) PROVE TypeOK'
  BY <1>4 DEF Refused, MoveTo, files, hands, world, GiveUp
<1>5. ASSUME NEW w \in Windows, RequestFails(w) PROVE TypeOK'
  BY <1>5 DEF RequestFails, MoveTo, files, hands, world, GiveUp, Unlink, EndTimer
<1>6. ASSUME NEW w \in Windows, Redirect(w) PROVE TypeOK'
  BY <1>6 DEF Redirect, MoveTo, files, hands, world, EndTimer
<1>7. ASSUME NEW w \in Windows, Timeout(w) PROVE TypeOK'
  <2>1. CASE LateTimeout(w)
    BY <2>1 DEF LateTimeout, world, Unlink, EndTimer
  <2>2. CASE GiveUp(w) /\ Unlink /\ EndTimer(w)
    BY <2>2 DEF MoveTo, world, GiveUp, Unlink, EndTimer
  <2> QED
    BY <1>7, <2>1, <2>2 DEF Timeout
<1>8. ASSUME NEW w \in Windows, Open(w) PROVE TypeOK'
  <2>1. CASE path # None /\ Executed(path)
    BY <1>8, <2>1 DEF Open, MoveTo, files, hands, world, GiveUp, Unlink
  <2>2. CASE ~(path # None /\ Executed(path))
    <3>1. PICK i \in Inodes :
             /\ path' = i /\ fd' = [fd EXCEPT ![w] = i]
             /\ inode' = [inode EXCEPT ![i] = [data |-> {}, exec |-> path # None /\ inode[i].exec]]
             /\ MoveTo(w, "receiving") /\ UNCHANGED <<timed, got, world>>
      BY <1>8, <2>2 DEF Open
    <3>2. [data |-> {}, exec |-> path # None /\ inode[i].exec]
            \in [data : SUBSET (1 .. Size), exec : BOOLEAN]
      OBVIOUS
    <3>3. inode' \in [Inodes -> [data : SUBSET (1 .. Size), exec : BOOLEAN]]
      BY <3>1, <3>2
    <3> QED
      BY <1>8, <3>1, <3>3 DEF Open, MoveTo, world
  <2> QED
    BY <2>1, <2>2
<1>9. ASSUME NEW w \in Windows, Chunk(w) PROVE TypeOK'
  <2>1. fd[w] \in Inodes /\ got[w] + 1 \in 1 .. Size
    BY <1>9 DEF Chunk
  <2>2. [inode[fd[w]] EXCEPT !.data = @ \cup {got[w] + 1}]
          \in [data : SUBSET (1 .. Size), exec : BOOLEAN]
    BY <2>1
  <2>3. inode' = [inode EXCEPT ![fd[w]] = [inode[fd[w]] EXCEPT !.data = @ \cup {got[w] + 1}]]
    BY <1>9 DEF Chunk
  <2>4. inode' \in [Inodes -> [data : SUBSET (1 .. Size), exec : BOOLEAN]]
    BY <2>1, <2>2, <2>3
  <2> QED
    BY <1>9, <2>1, <2>4 DEF Chunk, world
<1>10. ASSUME NEW w \in Windows, WriteFails(w) PROVE TypeOK'
  BY <1>10 DEF WriteFails, MoveTo, files, hands, world, GiveUp, Unlink
<1>11. ASSUME NEW w \in Windows, Cut(w) PROVE TypeOK'
  BY <1>11 DEF Cut, MoveTo, files, hands, world, EndTimer
<1>12. ASSUME NEW w \in Windows, Finish(w) PROVE TypeOK'
  BY <1>12 DEF Finish, MoveTo, files, hands, world, EndTimer
<1>13. ASSUME NEW w \in Windows, Stat(w) PROVE TypeOK'
  BY <1>13 DEF Stat, MoveTo, files, hands, world, GiveUp, Unlink
<1>14. ASSUME NEW w \in Windows, Chmod(w) PROVE TypeOK'
  <2>1. CASE path = None
    BY <1>14, <2>1 DEF Chmod, MoveTo, world, GiveUp
  <2>2. CASE path # None
    <3>1. [inode[path] EXCEPT !.exec = TRUE] \in [data : SUBSET (1 .. Size), exec : BOOLEAN]
      BY <2>2
    <3>2. inode' = [inode EXCEPT ![path] = [inode[path] EXCEPT !.exec = TRUE]]
      BY <1>14, <2>2 DEF Chmod
    <3>3. inode' \in [Inodes -> [data : SUBSET (1 .. Size), exec : BOOLEAN]]
      BY <2>2, <3>1, <3>2
    <3> QED
      BY <1>14, <2>2, <3>3 DEF Chmod, MoveTo, hands, world
  <2> QED
    BY <2>1, <2>2
<1>15. ASSUME NEW w \in Windows, Start(w) PROVE TypeOK'
  BY <1>15 DEF Start, MoveTo, files, hands, world, Busy
<1>16. ASSUME NEW w \in Windows, Deactivate(w) PROVE TypeOK'
  BY <1>16 DEF Deactivate, MoveTo, files, hands, world
<1>17. ASSUME NEW w \in Windows, Stopped(w) PROVE TypeOK'
  BY <1>17 DEF Stopped, MoveTo, files, hands, world, Leave, EndTimer
<1>18. ASSUME NEW w \in Windows, Crash(w) PROVE TypeOK'
  BY <1>18 DEF Crash, MoveTo, files, hands, world, Leave, EndTimer
<1> QED
  BY <1>1, <1>2, <1>3, <1>4, <1>5, <1>6, <1>7, <1>8, <1>9, <1>10, <1>11, <1>12, <1>13, <1>14, <1>15, <1>16, <1>17, <1>18 DEF Next

(* Only a download that is given up leaves its timer behind.               *)
LEMMA LeftStep ==
  ASSUME TypeOK, \A w \in Windows : Left(w), [Next]_vars
  PROVE  \A w \in Windows : Left(w)'
<1> USE DEF TypeOK, Left
<1>1. CASE UNCHANGED vars
  BY <1>1 DEF vars
<1>2. ASSUME NEW w \in Windows,
             Activate(w) \/ Find(w) \/ Start(w) \/ Deactivate(w) \/ Stopped(w) \/ Crash(w)
      PROVE  \A v \in Windows : Left(v)'
  BY <1>2 DEF Activate, Find, Start, Deactivate, Stopped, Crash, Leave, EndTimer, MoveTo, files, hands, world
<1>3. ASSUME NEW w \in Windows,
             Refused(w) \/ RequestFails(w) \/ WriteFails(w) \/ Redirect(w) \/ Chunk(w) \/ Cut(w) \/ Finish(w)
      PROVE  \A v \in Windows : Left(v)'
  BY <1>3 DEF Refused, RequestFails, WriteFails, Redirect, Chunk, Cut, Finish, GiveUp, EndTimer, MoveTo, world
<1>4. ASSUME NEW w \in Windows, Timeout(w) PROVE \A v \in Windows : Left(v)'
  BY <1>4 DEF Timeout, LateTimeout, GiveUp, EndTimer, MoveTo, world
<1>5. ASSUME NEW w \in Windows, Open(w) PROVE \A v \in Windows : Left(v)'
  <2>1. /\ phase' = [phase EXCEPT ![w] = "elsewhere"] \/ phase' = [phase EXCEPT ![w] = "receiving"]
        /\ UNCHANGED <<timed, image>>
    BY <1>5 DEF Open, GiveUp, MoveTo, world
  <2> QED
    BY <1>5, <2>1 DEF Open
<1>6. ASSUME NEW w \in Windows, Stat(w) \/ Chmod(w) PROVE \A v \in Windows : Left(v)'
  <2>1. /\ \E next \in {"elsewhere", "sized", "starting"} : phase' = [phase EXCEPT ![w] = next]
        /\ UNCHANGED <<timed, image>>
    BY <1>6 DEF Stat, Chmod, GiveUp, MoveTo, world, hands
  <2> QED
    BY <1>6, <2>1 DEF Stat, Chmod
<1> QED
  BY <1>1, <1>2, <1>3, <1>4, <1>5, <1>6 DEF Next

(* Every step of a window keeps it.                                        *)
LEMMA FileStep ==
  ASSUME TypeOK, Facts, TypeOK', ~overlapped', [Next]_vars
  PROVE  Facts'
<1> USE BinaryAssumption DEF TypeOK, Facts, OneDownload, Downloading, ExecIsWhole,
        ImageIsExec, NothingThere, BeingWritten, Written, NothingGot
<1>1. ASSUME UNCHANGED vars PROVE Facts'
  BY <1>1 DEF vars
<1>2. ASSUME NEW w \in Windows, Activate(w) PROVE Facts'
  BY <1>2 DEF Activate, MoveTo, files, hands, world
<1>3. ASSUME NEW w \in Windows, Find(w) PROVE Facts'
  BY <1>3 DEF Find, MoveTo, files, hands, world
<1>4. ASSUME NEW w \in Windows, Refused(w) PROVE Facts'
  BY <1>4 DEF Refused, MoveTo, files, hands, world, GiveUp
<1>5. ASSUME NEW w \in Windows, RequestFails(w) PROVE Facts'
  BY <1>5 DEF RequestFails, MoveTo, files, hands, world, GiveUp, Unlink, EndTimer
<1>6. ASSUME NEW w \in Windows, Redirect(w) PROVE Facts'
  BY <1>6 DEF Redirect, MoveTo, files, hands, world, EndTimer
<1>7. ASSUME NEW w \in Windows, Timeout(w) PROVE Facts'
  <2>1. CASE LateTimeout(w)
    BY <2>1 DEF LateTimeout, world, Unlink, EndTimer
  <2>2. CASE phase[w] \in {"requesting", "receiving"} /\ GiveUp(w) /\ Unlink /\ EndTimer(w)
    BY <2>2 DEF MoveTo, world, GiveUp, Unlink, EndTimer
  <2> QED
    BY <1>7, <2>1, <2>2 DEF Timeout
<1>8. ASSUME NEW w \in Windows, Open(w) PROVE Facts'
  <2>1. path = None
    BY <1>8 DEF Open
  <2>2. PICK i \in Inodes :
           /\ ~Busy(i) /\ ~Executed(i)
           /\ path' = i /\ fd' = [fd EXCEPT ![w] = i]
           /\ inode' = [inode EXCEPT ![i] = [data |-> {}, exec |-> FALSE]]
           /\ phase' = [phase EXCEPT ![w] = "receiving"]
           /\ UNCHANGED <<timed, got, image>>
    BY <1>8, <2>1 DEF Open, MoveTo, world
  <2>3. got[w] = 0
    BY <1>8 DEF Open
  <2>4. \A v \in Windows \ {w} : ~Downloading(v)
    BY <1>8 DEF Open
  <2>5. OneDownload' /\ ExecIsWhole' /\ ImageIsExec' /\ NothingGot'
    BY <1>8, <2>2, <2>4 DEF Executed
  <2>6. ASSUME NEW v \in Windows PROVE NothingThere(v)' /\ BeingWritten(v)' /\ Written(v)'
    BY <2>2, <2>3, <2>4
  <2> QED
    BY <2>5, <2>6
<1>9. ASSUME NEW w \in Windows, Chunk(w) PROVE Facts'
  <2>1. /\ fd[w] \in Inodes /\ got[w] \in 0 .. Size /\ got[w] + 1 \in 1 .. Size
        /\ inode[fd[w]].data = 1 .. got[w] /\ ~inode[fd[w]].exec
    BY <1>9 DEF Chunk
  <2>2. \A i \in Inodes : inode'[i] = IF i = fd[w] THEN [inode[i] EXCEPT !.data = @ \cup {got[w] + 1}]
                                     ELSE inode[i]
    BY <1>9 DEF Chunk
  <2>3. /\ \A i \in Inodes : inode'[i].exec = inode[i].exec
        /\ \A i \in Inodes \ {fd[w]} : inode'[i] = inode[i]
        /\ inode'[fd[w]].data = (1 .. got[w]) \cup {got[w] + 1}
    <3> HIDE DEF TypeOK, Facts, OneDownload, ExecIsWhole, ImageIsExec, NothingGot, NothingThere,
             BeingWritten, Written
    <3>1. \A i \in Inodes \ {fd[w]} : inode'[i] = inode[i]
      BY <2>2
    <3>2. inode'[fd[w]] = [inode[fd[w]] EXCEPT !.data = @ \cup {got[w] + 1}]
      BY <2>1, <2>2
    <3>3. inode[fd[w]] \in [data : SUBSET (1 .. Size), exec : BOOLEAN]
      BY <2>1 DEF TypeOK
    <3>4. /\ inode'[fd[w]].exec = inode[fd[w]].exec
          /\ inode'[fd[w]].data = inode[fd[w]].data \cup {got[w] + 1}
      BY <3>2, <3>3
    <3> QED
      BY <2>1, <3>1, <3>4
  <2>4. got'[w] = got[w] + 1 /\ (1 .. got[w]) \cup {got[w] + 1} = 1 .. (got[w] + 1)
    BY <1>9, <2>1 DEF Chunk
  <2>5. UNCHANGED <<path, phase, timed, fd, image>>
    BY <1>9 DEF Chunk, world
  <2>6. OneDownload' /\ ImageIsExec' /\ ExecIsWhole'
    <3>1. OneDownload'
      BY <2>5
    <3>2. ImageIsExec'
      BY <2>3, <2>5
    <3>3. ASSUME NEW i \in Inodes, inode'[i].exec PROVE inode'[i].data = 1 .. Size
      <4>1. i # fd[w] /\ inode[i].exec
        BY <2>1, <2>3, <3>3
      <4> QED
        BY <2>3, <4>1
    <3> QED
      BY <3>1, <3>2, <3>3
  <2>7. NothingGot'
    BY <1>9, <2>1, <2>5 DEF Chunk
  <2>8. ASSUME NEW v \in Windows PROVE NothingThere(v)' /\ BeingWritten(v)' /\ Written(v)'
    <3>1. CASE v = w
      BY <1>9, <2>1, <2>3, <2>4, <2>5, <3>1 DEF Chunk
    <3>2. CASE v # w
      BY <1>9, <2>5, <3>2 DEF Chunk
    <3> QED
      BY <3>1, <3>2
  <2> QED
    BY <2>6, <2>7, <2>8
<1>10. ASSUME NEW w \in Windows, WriteFails(w) PROVE Facts'
  BY <1>10 DEF WriteFails, MoveTo, files, hands, world, GiveUp, Unlink
<1>11. ASSUME NEW w \in Windows, Cut(w) PROVE Facts'
  BY <1>11 DEF Cut, MoveTo, files, hands, world, EndTimer
<1>12. ASSUME NEW w \in Windows, Finish(w) PROVE Facts'
  BY <1>12 DEF Finish, MoveTo, files, hands, world, EndTimer
<1>13. ASSUME NEW w \in Windows, Stat(w) PROVE Facts'
  <2>1. CASE path = None \/ inode[path].data = {}
    <3>1. /\ phase' = [phase EXCEPT ![w] = "elsewhere"]
          /\ fd' = [fd EXCEPT ![w] = None] /\ got' = [got EXCEPT ![w] = 0]
          /\ path' \in {path, None} /\ UNCHANGED <<inode, timed, image>>
      BY <1>13, <2>1 DEF Stat, MoveTo, world, GiveUp, Unlink
    <3>2. OneDownload' /\ ImageIsExec' /\ ExecIsWhole' /\ NothingGot'
      BY <1>13, <3>1 DEF Stat
    <3>3. ASSUME NEW v \in Windows PROVE NothingThere(v)' /\ BeingWritten(v)' /\ Written(v)'
      BY <1>13, <3>1 DEF Stat
    <3> QED
      BY <3>2, <3>3
  <2>2. CASE path # None /\ inode[path].data # {}
    <3>1. inode[path].data = 1 .. Size
      BY <1>13, <2>2 DEF Stat
    <3>2. phase' = [phase EXCEPT ![w] = "sized"] /\ UNCHANGED <<path, inode, timed, fd, got, image>>
      BY <1>13, <2>2 DEF Stat, MoveTo, files, hands, world
    <3>3. OneDownload' /\ ImageIsExec' /\ ExecIsWhole' /\ NothingGot'
      BY <1>13, <3>2 DEF Stat
    <3>4. ASSUME NEW v \in Windows PROVE NothingThere(v)' /\ BeingWritten(v)' /\ Written(v)'
      BY <1>13, <3>1, <3>2 DEF Stat
    <3> QED
      BY <3>3, <3>4
  <2> QED
    BY <2>1, <2>2
<1>14. ASSUME NEW w \in Windows, Chmod(w) PROVE Facts'
  <2>1. CASE path = None
    <3>1. GiveUp(w) /\ UNCHANGED <<path, timed>>
      BY <1>14, <2>1 DEF Chmod
    <3> QED
      BY <1>14, <3>1 DEF Chmod, GiveUp, MoveTo, world
  <2>2. CASE path # None
    <3>1. /\ path \in Inodes /\ inode[path].data = 1 .. Size
          /\ phase' = [phase EXCEPT ![w] = "starting"]
          /\ UNCHANGED <<path, timed, fd, got, image>>
      BY <1>14, <2>2 DEF Chmod, MoveTo, hands, world
    <3>2. \A i \in Inodes : inode'[i] = IF i = path THEN [inode[i] EXCEPT !.exec = TRUE] ELSE inode[i]
      BY <1>14, <2>2 DEF Chmod
    <3>3. \A i \in Inodes : /\ inode'[i].data = inode[i].data
                            /\ inode'[i].exec => inode[i].exec \/ i = path
                            /\ inode[i].exec => inode'[i].exec
      BY <3>2
    <3>4. \A v \in Windows \ {w} : ~Downloading(v)
      BY <1>14 DEF Chmod
    <3>5. \A v \in Windows : phase[v] \notin {"receiving", "cut", "finished"}
      BY <1>14, <3>4 DEF Chmod
    <3>6. OneDownload' /\ ImageIsExec' /\ ExecIsWhole' /\ NothingGot'
      BY <1>14, <3>1, <3>3, <3>4
    <3>7. ASSUME NEW v \in Windows PROVE NothingThere(v)' /\ BeingWritten(v)' /\ Written(v)'
      BY <1>14, <3>1, <3>4, <3>5 DEF Chmod
    <3> QED
      BY <3>6, <3>7
  <2> QED
    BY <2>1, <2>2
<1>15. ASSUME NEW w \in Windows, Start(w) PROVE Facts'
  <2>1. UNCHANGED <<path, inode, timed, fd, got>>
    BY <1>15 DEF Start, files, hands
  <2>2. phase' = [phase EXCEPT ![w] = "running"] \/ phase' = [phase EXCEPT ![w] = "failed"]
    BY <1>15 DEF Start, MoveTo
  <2>3. ImageIsExec'
    <3>1. CASE path # None /\ inode[path].exec /\ image' = [image EXCEPT ![w] = path]
      BY <2>1, <3>1
    <3>2. CASE UNCHANGED image
      BY <2>1, <3>2
    <3> QED
      BY <1>15, <3>1, <3>2 DEF Start
  <2>4. OneDownload' /\ ExecIsWhole' /\ NothingGot'
    BY <2>1, <2>2
  <2>5. ASSUME NEW v \in Windows PROVE NothingThere(v)' /\ BeingWritten(v)' /\ Written(v)'
    BY <1>15, <2>1, <2>2 DEF Start
  <2> QED
    BY <2>3, <2>4, <2>5
<1>16. ASSUME NEW w \in Windows, Deactivate(w) PROVE Facts'
  BY <1>16 DEF Deactivate, MoveTo, files, hands, world
<1>17. ASSUME NEW w \in Windows, Stopped(w) PROVE Facts'
  BY <1>17 DEF Stopped, MoveTo, files, hands, world, Leave, EndTimer
<1>18. ASSUME NEW w \in Windows, Crash(w) PROVE Facts'
  BY <1>18 DEF Crash, MoveTo, files, hands, world, Leave, EndTimer
<1> QED
  BY <1>1, <1>2, <1>3, <1>4, <1>5, <1>6, <1>7, <1>8, <1>9, <1>10, <1>11, <1>12, <1>13, <1>14, <1>15, <1>16, <1>17, <1>18 DEF Next

(* Two downloads that have overlapped stay so.                             *)
LEMMA OverlapStays == [Next]_vars /\ overlapped => overlapped'
<1> QED
  BY DEF Next, vars, Activate, Find, Refused, RequestFails, Redirect, Timeout, Open, Chunk,
         WriteFails, Cut, Finish, Stat, Chmod, Start, Deactivate, Stopped, Crash,
         LateTimeout, GiveUp, Leave, world

(* The invariant is inductive.                                             *)
LEMMA InvInductive == Inv /\ [Next]_vars => Inv'
<1> SUFFICES ASSUME Inv, [Next]_vars
             PROVE  Inv'
  OBVIOUS
<1>1. TypeOK'
  BY TypeStep DEF Inv
<1>2. ~overlapped' => Facts'
  BY <1>1, OverlapStays, FileStep DEF Inv
<1>3. \A w \in Windows : Left(w)'
  BY LeftStep DEF Inv
<1> QED
  BY <1>1, <1>2, <1>3 DEF Inv

(* Its invariant: the types, and the facts about the files that hold       *)
(* until two downloads overlap.                                            *)
THEOREM Invariance == Spec => []Inv
<1> QED
  BY InitInv, InvInductive, PTL DEF Spec

(* Every variable keeps its type, and a window has a file open exactly     *)
(* while it writes to it.                                                  *)
THEOREM TypeCorrect == Spec => []TypeOK
<1>1. Inv => TypeOK
  BY DEF Inv
<1> QED
  BY <1>1, Invariance, PTL

(* What runs from the file is the whole binary, for any number of windows  *)
(* that find, download and die, as long as no download overlaps another.   *)
THEOREM RunsWholeBinaries == Spec => []OnlyWholeBinariesRun
<1>1. Inv => OnlyWholeBinariesRun
  <2> SUFFICES ASSUME Inv, ~overlapped, NEW w \in Windows, image[w] # None
               PROVE  inode[image[w]] = Whole
    BY DEF OnlyWholeBinariesRun
  <2>1. image[w] \in Inodes /\ inode[image[w]].exec /\ inode[image[w]].data = 1 .. Size
    BY DEF Inv, Facts, TypeOK, ImageIsExec, ExecIsWhole
  <2>2. inode[image[w]] \in [data : SUBSET (1 .. Size), exec : BOOLEAN]
    BY <2>1 DEF Inv, TypeOK
  <2> QED
    BY <2>1, <2>2 DEF Whole
<1> QED
  BY <1>1, Invariance, PTL

(* While downloads do not overlap, whoever unlinks the file, opens it or   *)
(* writes to it finds none there, or one that is not whole, unless it is a *)
(* late timer.                                                             *)
LEMMA StayStep ==
  ASSUME TypeOK, \A w \in Windows : Left(w), Facts, [Next]_vars, path # None, inode[path] = Whole
  PROVE  /\ inode'[path] = Whole
         /\ path' = path \/ \E w \in Windows : GaveUp(w) /\ LateTimeout(w)
<1> USE BinaryAssumption DEF TypeOK, Phases
<1>1. path \in Inodes /\ inode[path].exec /\ inode[path].data = 1 .. Size
  BY DEF Whole
<1>2. inode[path].data # {}
  <2>1. 1 \in 1 .. Size
    OBVIOUS
  <2> QED
    BY <1>1, <2>1
<1>3. ASSUME NEW w \in Windows PROVE phase[w] \notin {"requesting", "redirected", "receiving"}
  BY <1>1 DEF Facts, NothingThere, BeingWritten
<1> DEFINE Stays == path' = path /\ inode'[path] = Whole
<1>4. CASE UNCHANGED vars
  BY <1>4 DEF vars
<1>5. ASSUME NEW w \in Windows,
             Activate(w) \/ Find(w) \/ Redirect(w) \/ Cut(w) \/ Finish(w) \/ Start(w) \/ Deactivate(w)
               \/ Stopped(w) \/ Crash(w)
      PROVE  Stays
  BY <1>5 DEF Activate, Find, Redirect, Cut, Finish, Start, Deactivate, Stopped, Crash, Leave, files
<1>6. ASSUME NEW w \in Windows,
             Refused(w) \/ RequestFails(w) \/ Open(w) \/ Chunk(w) \/ WriteFails(w)
      PROVE  FALSE
  BY <1>3, <1>6 DEF Refused, RequestFails, Open, Chunk, WriteFails
<1>7. ASSUME NEW w \in Windows, Timeout(w) PROVE GaveUp(w) /\ LateTimeout(w) /\ inode'[path] = Whole
  BY <1>3, <1>7 DEF Timeout, LateTimeout, Left, GaveUp
<1>8. ASSUME NEW w \in Windows, Stat(w) PROVE Stays
  BY <1>2, <1>8 DEF Stat, files
<1>9. ASSUME NEW w \in Windows, Chmod(w) PROVE Stays
  <2>1. path' = path /\ inode' = [inode EXCEPT ![path].exec = TRUE]
    BY <1>1, <1>9 DEF Chmod
  <2>2. inode'[path].data = 1 .. Size /\ inode'[path].exec = TRUE
    BY <1>1, <2>1
  <2>3. inode'[path] \in [data : SUBSET (1 .. Size), exec : BOOLEAN]
    BY <1>1, TypeStep
  <2> QED
    BY <2>1, <2>2, <2>3 DEF Whole
<1> QED
  BY <1>4, <1>5, <1>6, <1>7, <1>8, <1>9 DEF Next

(* No window unlinks, truncates or overwrites a whole binary, not by a     *)
(* failed request or a download of its own, except by the timer left of a  *)
(* download that was given up, which only unlinks it.                      *)
THEOREM WholeBinariesStay == Spec => BinaryStays
<1>1. Inv /\ [Next]_vars => [(~overlapped' /\ path # None /\ inode[path] = Whole)
                                => /\ inode'[path] = Whole
                                   /\ path' = path \/ \E w \in Windows : GaveUp(w) /\ LateTimeout(w)]_vars
  BY OverlapStays, StayStep DEF Inv
<1> QED
  BY <1>1, Invariance, PTL DEF Spec, BinaryStays
=============================================================================
