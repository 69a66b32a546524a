----------------------------- MODULE SymbolIndex -----------------------------
(***************************************************************************)
(* Go to definition: SymbolResolver::resolve turns a compiler's output     *)
(* into positionToNodeIdMap (what is referred to where) and                *)
(* nodeLocationMap (where every node is), and handleDefinition looks a     *)
(* position up in the one and the node found in the other.                 *)
(*                                                                         *)
(* The compiler describes places by byte offsets into the text it has      *)
(* read; resolve turns them into lines and characters with the text the    *)
(* file has on disk when it gets to them.  A text is a sequence of lines   *)
(* of some width (in bytes, the newline included), each of which may       *)
(* begin with a declaration and have references at some of its columns.    *)
(***************************************************************************)
EXTENDS Naturals, Sequences, FiniteSets

CONSTANTS
  Files,
  Ids,         (* the ids of types, enums and so on                          *)
  Home,        (* the file that may declare each id                          *)
  TextsOf,     (* the texts each file may have                               *)
  Unfindable,  (* files the compiler finds and extractFilePath does not      *)
  Descriptions, (* whether a compiler describes the nodes of imports as well *)
  MaxJobs,     (* outputs waiting to be resolved at most                     *)
  None

Nodes == Ids \cup Files   (* a file is a node, too *)
Texts == UNION {TextsOf[f] : f \in Files}
Lines == UNION {{x[k] : k \in DOMAIN x} : x \in Texts}

ASSUME NodesAssumption == /\ Ids \cap Files = {} /\ None \notin Nodes
                          /\ Home \in [Ids -> Files]
                          /\ Unfindable \subseteq Files
                          /\ Descriptions \subseteq BOOLEAN /\ MaxJobs \in Nat
(* Two names have something between them, if only a dot.                   *)
ASSUME LinesAssumption ==
  /\ \A l \in Lines : /\ l.width \in Nat \ {0, 1}
                      /\ l.decl \in Ids \cup {None}
                      /\ DOMAIN l.refs \subseteq 0 .. l.width - 2
                      /\ \A c \in DOMAIN l.refs : l.refs[c] \in Nodes /\ c + 1 \notin DOMAIN l.refs
  /\ \A f \in Files : TextsOf[f] \subseteq Seq(Lines)
  /\ \A f \in Files, x \in Texts : x \in TextsOf[f] =>
       \A k \in DOMAIN x : x[k].decl # None => Home[x[k].decl] = f

VARIABLES
  disk,                 (* the text of every file                            *)
  jobs,                 (* compiler outputs that wait to be resolved         *)
  positionToNodeIdMap,  (* for every file: pairs of a range and a node       *)
  nodeLocationMap,      (* for every node: a location, or None               *)
  freshFiles,           (* history: files that have not been saved since the *)
                        (* compile their entries come from                   *)
  freshNodes            (* ... and nodes whose file has not                  *)
mapVars == <<positionToNodeIdMap, nodeLocationMap>>
vars == <<disk, jobs, mapVars, freshFiles, freshNodes>>

-----------------------------------------------------------------------------
(* Texts and places in them.                                               *)

(* The byte offset of line k.                                              *)
Start(x, k) ==
  LET before[j \in 1 .. Len(x) + 1] == IF j = 1 THEN 0 ELSE before[j - 1] + x[j - 1].width
  IN  before[k]

Declares(x, i) == \E k \in DOMAIN x : x[k].decl = i
LineOf(x, i)   == CHOOSE k \in DOMAIN x : x[k].decl = i
Places(x)      == UNION {{<<k, c>> : c \in DOMAIN x[k].refs} : k \in DOMAIN x}
Refers(x)      == {x[p[1]].refs[p[2]] : p \in Places(x)}
IsDefined(n, texts) == IF n \in Files THEN TRUE ELSE Declares(texts[Home[n]], n)
FileOf(n)      == IF n \in Files THEN n ELSE Home[n]

(* Slip: lines and characters are counted from 0.                          *)
getPositionFromZero(x, byteOffset) ==
  LET offset == IF byteOffset < Start(x, Len(x) + 1) THEN byteOffset ELSE Start(x, Len(x) + 1)
      line   == CHOOSE k \in 1 .. Len(x) + 1 :
                  /\ Start(x, k) <= offset
                  /\ k > Len(x) \/ offset < Start(x, k + 1)
  IN  [line |-> line - 1, character |-> offset - Start(x, line)]
(* The line and the character of a byte, both from 1; a byte behind the    *)
(* end of the text is at its end.                                          *)
getPositionInFile(x, byteOffset) ==
  LET offset == IF byteOffset < Start(x, Len(x) + 1) THEN byteOffset ELSE Start(x, Len(x) + 1)
      line   == CHOOSE k \in 1 .. Len(x) + 1 :
                  /\ Start(x, k) <= offset
                  /\ k > Len(x) \/ offset < Start(x, k + 1)
  IN  [line |-> line, character |-> offset - Start(x, line) + 1]

(* What starts at column c of line k of the compiled text x, and is length *)
(* bytes long, as a range of the text y.                                   *)
RangeIn(y, x, k, c, length) ==
  [start |-> getPositionInFile(y, Start(x, k) + c),
   end   |-> getPositionInFile(y, Start(x, k) + (c + length))]

(* References are one byte long; a declaration is as long as its line.     *)
Reference(y, x, k, c) == <<RangeIn(y, x, k, c, 1), x[k].refs[c]>>
References(y, x) == {Reference(y, x, p[1], p[2]) : p \in Places(x)}
Declaration(y, x, i) == RangeIn(y, x, LineOf(x, i), 0, x[LineOf(x, i)].width - 1)
TopOfFile == [start |-> [line |-> 1, character |-> 1], end |-> [line |-> 1, character |-> 1]]

-----------------------------------------------------------------------------
Init ==
  /\ disk \in {d \in [Files -> Texts] : \A f \in Files : d[f] \in TextsOf[f]}
  /\ jobs = {}
  /\ positionToNodeIdMap = [f \in Files |-> {}]
  /\ nodeLocationMap = [n \in Nodes |-> None]
  /\ freshFiles = {} /\ freshNodes = {}

(* The user saves a file, at any time.                                     *)
Save(f) ==
  /\ \E x \in TextsOf[f] \ {disk[f]} : disk' = [disk EXCEPT ![f] = x]
  /\ freshFiles' = freshFiles \ {f}
  /\ freshNodes' = {n \in freshNodes : n \in Files \/ Home[n] # f}
  /\ UNCHANGED <<jobs, mapVars>>

(* A compiler reads a file and those it refers to, and succeeds.  Whether  *)
(* its output describes the nodes of the imported files is its affair.     *)
Compile(f) ==
  /\ Cardinality(jobs) < MaxJobs
  /\ \A n \in Refers(disk[f]) : IsDefined(n, disk)
  /\ \E all \in Descriptions :
       LET read == {f} \cup {FileOf(n) : n \in Refers(disk[f])}
       IN  jobs' = jobs \cup {[file |-> f, texts |-> [g \in read |-> disk[g]],
                               described |-> IF all THEN read ELSE {f}]}
  /\ UNCHANGED <<disk, mapVars, freshFiles, freshNodes>>

(* The nodes of an output: those of the files it has read, those the       *)
(* compiled text declares and those it refers to.                          *)
NodesOf(job) ==
  LET x == job.texts[job.file]
  IN  DOMAIN job.texts \cup Refers(x) \cup {i \in Ids : Home[i] = job.file /\ Declares(x, i)}

(* extractFilePath is asked for the file of every node but those of        *)
(* imported files, and throws when it cannot find it.                      *)
Throws(job, n) == FileOf(n) \in Unfindable /\ (n \in Files => n = job.file)

(* resolve works through the nodes in the order of the output and breaks   *)
(* off at one that throws: what it has not come to then is dropped.        *)
Reached(job) ==
  LET fine == {n \in NodesOf(job) : ~Throws(job, n)}
  IN  IF fine = NodesOf(job) THEN {fine} ELSE SUBSET fine

(* The types among the nodes done whose place the output has.              *)
Located(job, done) == {i \in done \cap Ids : Home[i] \in job.described}

(* nodeLocationMap with what is upserted for the nodes done.               *)
Relocated(job, done) ==
  [n \in Nodes |->
     IF n \in Located(job, done)
     THEN [uri |-> Home[n], range |-> Declaration(disk[Home[n]], job.texts[Home[n]], n)]
     ELSE IF n \in done \cap {job.file} THEN [uri |-> n, range |-> TopOfFile]
     ELSE nodeLocationMap[n]]

(* Slip: what is known of the file is kept.                                *)
RereferencedKeeping(job, done) ==
  IF job.file \in done
  THEN [positionToNodeIdMap EXCEPT
          ![job.file] = @ \cup References(disk[job.file], job.texts[job.file])]
  ELSE positionToNodeIdMap
(* positionToNodeIdMap with the references of the compiled file replaced.  *)
Rereferenced(job, done) ==
  IF job.file \in done
  THEN [positionToNodeIdMap EXCEPT ![job.file] = References(disk[job.file], job.texts[job.file])]
  ELSE positionToNodeIdMap

(* resolve is called with an output; the event loop does nothing else      *)
(* until it is through.  A file the user saves meanwhile is read again for *)
(* every place in it; like one saved before, it is not fresh afterwards,   *)
(* and no property says anything of it: the save is left out.              *)
Resolve(job) ==
  \E done \in Reached(job) :
    LET current(f) == job.texts[f] = disk[f]
        entered    == done \cap {job.file}
        located    == Located(job, done)
    IN  /\ jobs' = jobs \ {job}
        /\ positionToNodeIdMap' = Rereferenced(job, done)
        /\ nodeLocationMap' = Relocated(job, done)
        /\ freshFiles' = (freshFiles \ entered) \cup {f \in entered : current(f)}
        /\ freshNodes' = (freshNodes \ located) \cup entered
                            \cup {i \in located : current(Home[i])}
        /\ UNCHANGED disk

Next ==
  \/ \E f \in Files : Save(f) \/ Compile(f)
  \/ \E job \in jobs : Resolve(job)

Spec == Init /\ [][Next]_vars

-----------------------------------------------------------------------------
(* Slip: one character too many at the end.                                *)
MatchesBehind(range, line, character) ==
  /\ range.start.line <= line /\ line <= range.end.line
  /\ range.start.character <= character /\ character <= range.end.character + 1
(* The end of a range is in it, though it is the character behind the name. *)
Matches(range, line, character) ==
  /\ range.start.line <= line /\ line <= range.end.line
  /\ range.start.character <= character /\ character <= range.end.character

(* handleDefinition, which changes nothing: line and character of the      *)
(* request and of the answer are from 0.  When several ranges match, the   *)
(* order of the hash map decides.                                          *)
ToClient(p) == <<p.line - 1, p.character - 1>>

handleDefinition(f, line, character) ==
  LET found == {e \in positionToNodeIdMap[f] : /\ Matches(e[1], line + 1, character + 1)
                                               /\ nodeLocationMap[e[2]] # None}
  IN  IF found = {} THEN {None}
      ELSE {[uri |-> nodeLocationMap[e[2]].uri,
             start |-> ToClient(nodeLocationMap[e[2]].range.start),
             end   |-> ToClient(nodeLocationMap[e[2]].range.end)] : e \in found}

(* Where a node is, as the client would say.                               *)
WhereIs(n) ==
  IF n \in Files THEN [uri |-> n, start |-> <<0, 0>>, end |-> <<0, 0>>]
  ELSE LET x == disk[Home[n]]
           k == LineOf(x, n)
       IN  [uri |-> Home[n], start |-> <<k - 1, 0>>, end |-> <<k - 1, x[k].width - 1>>]

-----------------------------------------------------------------------------
Positions == [line : Nat \ {0}, character : Nat \ {0}]
Ranges    == [start : Positions, end : Positions]
Locations == [uri : Files, range : Ranges]
Jobs      == [file : Files, texts : UNION {[D -> Texts] : D \in SUBSET Files},
              described : SUBSET Files]

ASSUME NoneAssumption == None \notin Locations

(* The type of every variable.                                             *)
TypeOK ==
  /\ disk \in [Files -> Texts]
  /\ jobs \subseteq Jobs /\ Cardinality(jobs) <= MaxJobs
  /\ \A f \in Files : \A e \in positionToNodeIdMap[f] : e \in Ranges \X Nodes
  /\ \A n \in Nodes : nodeLocationMap[n] \in Locations \cup {None}
  /\ freshFiles \subseteq Files /\ freshNodes \subseteq Nodes

(* A definition request at a name, or right behind it, leads to where the  *)
(* node is declared now, also when the next name is only a dot away, and   *)
(* one elsewhere leads nowhere, whenever neither file has been saved since *)
(* the compile its entries come from: whatever was compiled, resolved,     *)
(* dropped or broken off before, and whatever else is stale.               *)
DefinitionsLeadHome ==
  \A f \in freshFiles : \A k \in DOMAIN disk[f] : \A c \in 0 .. disk[f][k].width - 1 :
    LET refs == disk[f][k].refs
        near == {d \in DOMAIN refs : c \in {d, d + 1}}
    IN  /\ near = {} => handleDefinition(f, k - 1, c) = {None}
        /\ \A d \in near :
             refs[d] \in freshNodes => handleDefinition(f, k - 1, c) = {WhereIs(refs[d])}
==============================================================================
