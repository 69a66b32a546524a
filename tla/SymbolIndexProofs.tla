-------------------------- MODULE SymbolIndexProofs --------------------------
(***************************************************************************)
(* Proofs about SymbolIndex.  What carries them: a byte offset computed    *)
(* from a text leads back to its place in that text, so an entry whose     *)
(* text has not been saved since says where things are; and the outputs    *)
(* that wait to be resolved hold the text of every file they refer to.     *)
(***************************************************************************)
EXTENDS SymbolIndex, NatLemmas, SequenceTheorems, FiniteSetTheorems

(* A compiler's output: the texts it has read, with a declaration in them  *)
(* for every node that the compiled one refers to.                         *)
Resolvable(job) ==
  /\ job.file \in DOMAIN job.texts
  /\ \A f \in DOMAIN job.texts : job.texts[f] \in TextsOf[f]
  /\ job.described \subseteq DOMAIN job.texts
  /\ \A i \in Refers(job.texts[job.file]) \cap Ids :
       Home[i] \in DOMAIN job.texts /\ Declares(job.texts[Home[i]], i)

(* An entry of a fresh file is a reference in its text, and a fresh node   *)
(* is where its file declares it.                                          *)
FreshIsTrue ==
  /\ \A f \in freshFiles : positionToNodeIdMap[f] = References(disk[f], disk[f])
  /\ \A n \in freshNodes \cap Files : nodeLocationMap[n] = [uri |-> n, range |-> TopOfFile]
  /\ \A i \in freshNodes \cap Ids :
       /\ Declares(disk[Home[i]], i)
       /\ nodeLocationMap[i] = [uri |-> Home[i],
                                range |-> Declaration(disk[Home[i]], disk[Home[i]], i)]

Typed ==
  /\ disk \in [Files -> Texts]
  /\ \A f \in Files : disk[f] \in TextsOf[f]
  /\ jobs \subseteq Jobs /\ IsFiniteSet(jobs) /\ Cardinality(jobs) <= MaxJobs
  /\ positionToNodeIdMap \in [Files -> SUBSET (Ranges \X Nodes)]
  /\ nodeLocationMap \in [Nodes -> Locations \cup {None}]
  /\ freshFiles \subseteq Files /\ freshNodes \subseteq Nodes

IInv == Typed /\ (\A job \in jobs : Resolvable(job)) /\ FreshIsTrue

-----------------------------------------------------------------------------
(* Texts and their lines.                                                  *)
LEMMA TextType ==
  ASSUME NEW x \in Texts
  PROVE  /\ x \in Seq(Lines) /\ Len(x) \in Nat /\ DOMAIN x = 1 .. Len(x)
         /\ \A k \in 1 .. Len(x) : /\ x[k].width \in Nat /\ x[k].width >= 2
                                   /\ x[k].decl \in Ids \cup {None}
                                   /\ \A c \in DOMAIN x[k].refs :
                                        /\ c \in Nat /\ c + 1 < x[k].width
                                        /\ x[k].refs[c] \in Nodes
                                        /\ c + 1 \notin DOMAIN x[k].refs
<1>1. x \in Seq(Lines)
  BY LinesAssumption DEF Texts
<1>2. Len(x) \in Nat /\ DOMAIN x = 1 .. Len(x)
  BY <1>1, LenProperties
<1>3. ASSUME NEW k \in 1 .. Len(x) PROVE x[k] \in Lines
  BY <1>1, ElementOfSeq
<1>4. ASSUME NEW l \in Lines
      PROVE  /\ l.width \in Nat /\ l.width >= 2
             /\ l.decl \in Ids \cup {None}
             /\ \A c \in DOMAIN l.refs : /\ c \in Nat /\ c + 1 < l.width
                                         /\ l.refs[c] \in Nodes /\ c + 1 \notin DOMAIN l.refs
  <2>1. l.width \in Nat /\ l.width >= 2 /\ l.decl \in Ids \cup {None}
    BY LinesAssumption
  <2>2. ASSUME NEW c \in DOMAIN l.refs
        PROVE  c \in Nat /\ c + 1 < l.width /\ l.refs[c] \in Nodes /\ c + 1 \notin DOMAIN l.refs
    <3>1. c \in 0 .. l.width - 2 /\ l.refs[c] \in Nodes /\ c + 1 \notin DOMAIN l.refs
      BY LinesAssumption
    <3> QED BY <2>1, <3>1
  <2> QED BY <2>1, <2>2
<1> QED BY <1>1, <1>2, <1>3, <1>4

(* Byte offsets, under a name: the prover need not see that they are       *)
(* numbers to apply RecursionOverPrefix to them.                           *)
Offsets == Nat

(* The case of RecursionOverPrefix that is needed here.                    *)
LEMMA OffsetsByRecursion ==
  ASSUME NEW a \in Offsets, NEW n \in Nat, NEW g \in [1 .. n -> [Offsets -> Offsets]]
  PROVE  \E f \in [0 .. n -> Offsets] : f[0] = a /\ \A i \in 1 .. n : f[i] = g[i][f[i - 1]]
BY RecursionOverPrefix

(* The sum that Start adds up exists.                                      *)
LEMMA SumsExist ==
  ASSUME NEW n \in Nat, NEW w \in [1 .. n -> Nat]
  PROVE  \E f \in [0 .. n -> Nat] : f[0] = 0 /\ \A i \in 1 .. n : f[i] = f[i - 1] + w[i]
<1> DEFINE g == [i \in 1 .. n |-> [s \in Offsets |-> s + w[i]]]
<1>1. g \in [1 .. n -> [Offsets -> Offsets]] /\ 0 \in Offsets
  BY DEF Offsets
<1> HIDE DEF g
<1>2. PICK f \in [0 .. n -> Offsets] : f[0] = 0 /\ \A i \in 1 .. n : f[i] = g[i][f[i - 1]]
  BY <1>1, OffsetsByRecursion
<1>3. ASSUME NEW i \in 1 .. n PROVE f[i] = f[i - 1] + w[i]
  <2>1. f[i - 1] \in Offsets /\ f[i] = g[i][f[i - 1]]
    BY <1>2
  <2> QED BY <2>1 DEF g
<1> QED BY <1>2, <1>3 DEF Offsets

(* The first line starts at byte 0, and every other behind the one before. *)
LEMMA StartOfLines ==
  ASSUME NEW x \in Texts
  PROVE  /\ Start(x, 1) = 0
         /\ \A k \in 1 .. Len(x) + 1 : Start(x, k) \in Nat
         /\ \A k \in 1 .. Len(x) : Start(x, k + 1) = Start(x, k) + x[k].width
<1> DEFINE n == Len(x)
           w == [i \in 1 .. n |-> x[i].width]
           B(b) == [j \in 1 .. n + 1 |-> IF j = 1 THEN 0 ELSE b[j - 1] + x[j - 1].width]
           before == CHOOSE b : b = B(b)
<1>1. n \in Nat /\ \A k \in 1 .. n : x[k].width \in Nat
  BY TextType
<1>2. w \in [1 .. n -> Nat]
  BY <1>1
<1>3. PICK f \in [0 .. n -> Nat] : f[0] = 0 /\ \A i \in 1 .. n : f[i] = f[i - 1] + w[i]
  <2> HIDE DEF w
  <2> QED BY <1>1, <1>2, SumsExist
<1> DEFINE h == [j \in 1 .. n + 1 |-> f[j - 1]]
<1>4. h = B(h)
  <2>1. ASSUME NEW j \in 1 .. n + 1 PROVE h[j] = IF j = 1 THEN 0 ELSE h[j - 1] + x[j - 1].width
    <3>1. CASE j = 1
      BY <1>3, <3>1
    <3>2. CASE j # 1
      <4>1. j - 1 \in 1 .. n /\ j - 1 \in 1 .. n + 1
        BY <1>1, <3>2
      <4> QED BY <1>1, <1>3, <3>2, <4>1
    <3> QED BY <3>1, <3>2
  <2> QED BY <2>1
<1> HIDE DEF h
<1>5. before = B(before)
  BY <1>4
<1>6. \A k : Start(x, k) = before[k]
  BY DEF Start
<1> HIDE DEF before
<1>7. /\ before[1] = 0
      /\ \A k \in 1 .. n : before[k + 1] = before[k] + x[k].width
  <2>1. 1 \in 1 .. n + 1
    BY <1>1
  <2>2. \A k \in 1 .. n : k + 1 \in 1 .. n + 1 /\ k + 1 # 1 /\ (k + 1) - 1 = k
    BY <1>1
  <2> QED BY <1>5, <2>1, <2>2
<1> HIDE DEF B
<1> DEFINE T == {i \in Nat : i <= n => before[i + 1] \in Nat}
<1>8. n \in T /\ \A i \in Nat : i \in T
  <2>1. 0 \in T
    BY <1>7
  <2>2. ASSUME NEW i \in Nat, i \in T PROVE i + 1 \in T
    BY <1>1, <1>7, <2>2
  <2> HIDE DEF T
  <2> QED BY <1>1, <2>1, <2>2, NaturalsByStep
<1>9. ASSUME NEW k \in 1 .. n + 1 PROVE before[k] \in Nat
  <2>1. k - 1 \in Nat /\ k - 1 <= n /\ (k - 1) + 1 = k
    BY <1>1
  <2> QED BY <1>8, <2>1
<1> QED BY <1>6, <1>7, <1>9

(* Later lines start further on.                                           *)
LEMMA StartsGrow ==
  ASSUME NEW x \in Texts, NEW j \in 1 .. Len(x) + 1, NEW k \in 1 .. Len(x) + 1, j <= k
  PROVE  Start(x, j) <= Start(x, k)
<1> DEFINE T == {d \in Nat : j + d <= Len(x) + 1 => Start(x, j) <= Start(x, j + d)}
<1>1. Len(x) \in Nat /\ j \in Nat /\ k \in Nat
  BY TextType
<1>2. 0 \in T
  BY <1>1, StartOfLines
<1>3. ASSUME NEW d \in Nat, d \in T PROVE d + 1 \in T
  <2>1. SUFFICES ASSUME j + (d + 1) <= Len(x) + 1 PROVE Start(x, j) <= Start(x, j + (d + 1))
    OBVIOUS
  <2>2. /\ j + d \in 1 .. Len(x) /\ j + d \in 1 .. Len(x) + 1 /\ (j + d) + 1 = j + (d + 1)
        /\ j + d <= Len(x) + 1
    BY <1>1, <2>1
  <2>3. Start(x, (j + d) + 1) = Start(x, j + d) + x[j + d].width
    BY <2>2, StartOfLines
  <2>4. Start(x, j) \in Nat /\ Start(x, j + d) \in Nat /\ x[j + d].width \in Nat
    BY <1>1, <2>2, StartOfLines, TextType
  <2>5. Start(x, j) <= Start(x, j + d)
    BY <1>3, <2>2
  <2> QED BY <2>2, <2>3, <2>4, <2>5
<1>4. k - j \in T
  <2> HIDE DEF T
  <2>1. k - j \in Nat
    BY <1>1
  <2> QED BY <1>2, <1>3, <2>1, NaturalsByStep
<1>5. j + (k - j) = k
  BY <1>1
<1> QED BY <1>1, <1>4, <1>5
(* A byte within a line is found in that line, at its distance from the    *)
(* start.                                                                  *)
LEMMA PositionInLine ==
  ASSUME NEW x \in Texts, NEW k \in 1 .. Len(x), NEW c \in Nat, c < x[k].width
  PROVE  getPositionInFile(x, Start(x, k) + c) = [line |-> k, character |-> c + 1]
<1> DEFINE n == Len(x)
           S(j) == Start(x, j)
           b == S(k) + c
           InLine(l) == S(l) <= b /\ (l > n \/ b < S(l + 1))
<1>1. n \in Nat /\ k \in 1 .. n + 1 /\ k + 1 \in 1 .. n + 1 /\ n + 1 \in 1 .. n + 1
      /\ x[k].width \in Nat
  BY TextType
<1>2. /\ \A j \in 1 .. n + 1 : S(j) \in Nat
      /\ S(k + 1) = S(k) + x[k].width
  BY StartOfLines
<1>3. \A i, j \in 1 .. n + 1 : i <= j => S(i) <= S(j)
  BY StartsGrow
<1> HIDE DEF S
<1>4. b < S(k + 1) /\ S(k + 1) <= S(n + 1) /\ b < S(n + 1) /\ S(k) <= b /\ b \in Nat
  <2>1. S(k) \in Nat /\ S(k + 1) \in Nat /\ S(n + 1) \in Nat
    BY <1>1, <1>2
  <2>2. S(k + 1) <= S(n + 1)
    <3>1. k + 1 <= n + 1
      BY <1>1
    <3> QED BY <1>1, <1>3, <3>1
  <2> QED BY <1>1, <1>2, <2>1, <2>2
<1>5. InLine(k)
  BY <1>4
<1>6. ASSUME NEW l \in 1 .. n + 1, InLine(l) PROVE l = k
  <2>1. l \in Nat /\ S(l) \in Nat
    BY <1>1, <1>2
  <2>2. CASE l < k
    <3>1. l + 1 \in 1 .. n + 1 /\ l + 1 <= k /\ ~(l > n)
      BY <1>1, <2>1, <2>2
    <3>2. S(l + 1) <= S(k) /\ S(l + 1) \in Nat /\ b < S(l + 1)
      BY <1>1, <1>2, <1>3, <1>6, <3>1
    <3> QED BY <1>1, <1>2, <1>4, <3>2
  <2>3. CASE l > k
    <3>1. S(k + 1) <= S(l) /\ S(l) <= b
      BY <1>1, <1>3, <1>6, <2>1, <2>3
    <3> QED BY <1>1, <1>2, <1>4, <2>1, <3>1
  <2> QED BY <1>1, <2>1, <2>2, <2>3
<1> DEFINE line == CHOOSE l \in 1 .. n + 1 : InLine(l)
<1>7. line = k
  <2> HIDE DEF InLine
  <2> QED BY <1>1, <1>5, <1>6
<1>8. getPositionInFile(x, b) = [line |-> line, character |-> b - S(line) + 1]
  <2>1. (IF b < S(n + 1) THEN b ELSE S(n + 1)) = b
    BY <1>4
  <2> QED BY <2>1 DEF getPositionInFile, S
<1>9. b - S(k) = c
  BY <1>1, <1>2
<1> HIDE DEF line
<1>10. getPositionInFile(x, b) = [line |-> k, character |-> c + 1]
  BY <1>7, <1>8, <1>9
<1> QED BY <1>10 DEF S

(* Whatever the offset, and of whatever text: the answer is a position.    *)
LEMMA PositionType ==
  ASSUME NEW x \in Texts, NEW byteOffset \in Nat
  PROVE  getPositionInFile(x, byteOffset) \in Positions
<1> DEFINE n == Len(x)
           S(j) == Start(x, j)
           b == IF byteOffset < S(n + 1) THEN byteOffset ELSE S(n + 1)
           InLine(l) == S(l) <= b /\ (l > n \/ b < S(l + 1))
           Ends == {l \in 1 .. n + 1 : l > n \/ b < S(l + 1)}
<1>1. n \in Nat /\ 1 \in 1 .. n + 1 /\ n + 1 \in 1 .. n + 1
  BY TextType
<1>2. (\A j \in 1 .. n + 1 : S(j) \in Nat) /\ S(1) = 0
  BY StartOfLines
<1> HIDE DEF S
<1>3. b \in Nat
  BY <1>1, <1>2
<1> HIDE DEF b
<1>4. PICK m \in Ends : \A l \in Ends : m <= l
  <2>1. Ends \in SUBSET Nat /\ n + 1 \in Ends
    BY <1>1
  <2> HIDE DEF Ends
  <2> QED BY <2>1, LeastNatural
<1>5. InLine(m)
  <2>1. CASE m = 1
    BY <1>2, <1>3, <1>4, <2>1
  <2>2. CASE m # 1
    <3>1. m - 1 \in 1 .. n + 1 /\ m - 1 < m /\ (m - 1) + 1 = m
      BY <1>1, <1>4, <2>2
    <3>2. m - 1 \notin Ends
      <4>1. ~(m <= m - 1)
        BY <3>1
      <4> HIDE DEF Ends
      <4> QED BY <1>4, <4>1
    <3>3. ~(b < S(m)) /\ S(m) \in Nat
      BY <1>2, <1>4, <3>1, <3>2
    <3> QED BY <1>3, <1>4, <3>3
  <2> QED BY <2>1, <2>2
<1> DEFINE line == CHOOSE l \in 1 .. n + 1 : InLine(l)
<1>6. line \in 1 .. n + 1 /\ InLine(line)
  BY <1>4, <1>5
<1>7. getPositionInFile(x, byteOffset) = [line |-> line, character |-> b - S(line) + 1]
  BY DEF getPositionInFile, S, b
<1> HIDE DEF line
<1>8. line \in Nat \ {0} /\ b - S(line) + 1 \in Nat \ {0}
  BY <1>1, <1>2, <1>3, <1>6
<1> QED BY <1>7, <1>8 DEF Positions

(* Ranges of the entries are ranges, whatever the text on disk has become. *)
LEMMA RangeType ==
  ASSUME NEW y \in Texts, NEW x \in Texts, NEW k \in 1 .. Len(x), NEW c \in Nat, NEW length \in Nat
  PROVE  RangeIn(y, x, k, c, length) \in Ranges
<1>1. Start(x, k) \in Nat
  BY StartOfLines, TextType
<1>2. Start(x, k) + c \in Nat /\ Start(x, k) + (c + length) \in Nat
  BY <1>1
<1> QED BY <1>2, PositionType DEF RangeIn, Ranges

(* The entries made of one text by means of another are pairs of a range   *)
(* and a node.                                                             *)
LEMMA ReferencesType ==
  ASSUME NEW y \in Texts, NEW x \in Texts
  PROVE  References(y, x) \subseteq Ranges \X Nodes
<1> SUFFICES ASSUME NEW k \in DOMAIN x, NEW c \in DOMAIN x[k].refs
             PROVE  Reference(y, x, k, c) \in Ranges \X Nodes
  BY DEF References, Places
<1>1. k \in 1 .. Len(x) /\ c \in Nat /\ x[k].refs[c] \in Nodes
  BY TextType
<1>2. RangeIn(y, x, k, c, 1) \in Ranges
  BY <1>1, RangeType
<1> QED BY <1>1, <1>2 DEF Reference

(* So is the place of a declaration, if the compiled text has it.          *)
LEMMA DeclarationType ==
  ASSUME NEW y \in Texts, NEW x \in Texts, NEW i, Declares(x, i)
  PROVE  /\ LineOf(x, i) \in 1 .. Len(x)
         /\ Declaration(y, x, i) \in Ranges
<1>1. LineOf(x, i) \in 1 .. Len(x)
  BY TextType DEF Declares, LineOf
<1>2. x[LineOf(x, i)].width - 1 \in Nat
  BY <1>1, TextType
<1> QED BY <1>1, <1>2, RangeType DEF Declaration

(* In the text it was computed from, a range is on its line, from its      *)
(* column to the one behind it.                                            *)
LEMMA RangeOnLine ==
  ASSUME NEW x \in Texts, NEW k \in 1 .. Len(x), NEW c \in Nat, NEW length \in Nat,
         c + length < x[k].width
  PROVE  RangeIn(x, x, k, c, length) = [start |-> [line |-> k, character |-> c + 1],
                                        end   |-> [line |-> k, character |-> (c + length) + 1]]
<1>1. x[k].width \in Nat /\ c < x[k].width /\ c + length \in Nat
  BY TextType
<1>2. getPositionInFile(x, Start(x, k) + c) = [line |-> k, character |-> c + 1]
  BY <1>1, PositionInLine
<1>3. getPositionInFile(x, Start(x, k) + (c + length)) = [line |-> k, character |-> (c + length) + 1]
  BY <1>1, PositionInLine
<1> QED BY <1>2, <1>3 DEF RangeIn

-----------------------------------------------------------------------------
(* Initially nothing is known and nothing waits.                           *)
LEMMA InitIInv == Init => IInv
<1> SUFFICES ASSUME Init PROVE IInv
  OBVIOUS
<1>1. IsFiniteSet(jobs) /\ Cardinality(jobs) <= MaxJobs
  BY FS_EmptySet, NodesAssumption DEF Init
<1>2. Typed
  BY <1>1 DEF Init, Typed
<1> QED BY <1>2 DEF Init, IInv, FreshIsTrue

(* A save touches no entry, and takes from the fresh what it makes stale.  *)
LEMMA SaveIInv ==
  ASSUME NEW f \in Files, IInv, Save(f)
  PROVE  IInv'
<1> USE DEF IInv
<1>1. PICK x \in TextsOf[f] : disk' = [disk EXCEPT ![f] = x]
  BY DEF Save
<1>2. x \in Texts /\ disk \in [Files -> Texts]
  BY DEF Texts, Typed
<1>3. disk'[f] = x /\ \A g \in Files \ {f} : disk'[g] = disk[g]
  BY <1>1, <1>2
<1>4. /\ UNCHANGED <<jobs, positionToNodeIdMap, nodeLocationMap>>
      /\ freshFiles' = freshFiles \ {f}
      /\ freshNodes' = {n \in freshNodes : n \in Files \/ Home[n] # f}
  BY DEF Save, mapVars
<1>5. Typed'
  BY <1>1, <1>2, <1>3, <1>4 DEF Typed
<1>6. \A g \in freshFiles' : g \in freshFiles /\ disk'[g] = disk[g]
  BY <1>3, <1>4 DEF Typed
<1>7. \A i \in freshNodes' \cap Ids : i \in freshNodes /\ disk'[Home[i]] = disk[Home[i]]
  BY <1>3, <1>4, NodesAssumption
<1>8. FreshIsTrue'
  BY <1>4, <1>6, <1>7 DEF FreshIsTrue
<1> QED BY <1>4, <1>5, <1>8

(* What a compiler that succeeds has read declares what it refers to.      *)
LEMMA CompileIInv ==
  ASSUME NEW f \in Files, IInv, Compile(f)
  PROVE  IInv'
<1> USE DEF IInv
<1> DEFINE read == {f} \cup {FileOf(n) : n \in Refers(disk[f])}
           texts == [g \in read |-> disk[g]]
<1>1. PICK all \in Descriptions :
        jobs' = jobs \cup {[file |-> f, texts |-> texts,
                            described |-> IF all THEN read ELSE {f}]}
  BY DEF Compile
<1> DEFINE job == [file |-> f, texts |-> texts, described |-> IF all THEN read ELSE {f}]
<1>2. UNCHANGED <<disk, positionToNodeIdMap, nodeLocationMap, freshFiles, freshNodes>>
  BY DEF Compile, mapVars
<1>3. disk \in [Files -> Texts] /\ \A g \in Files : disk[g] \in TextsOf[g]
  BY DEF Typed
<1>4. Refers(disk[f]) \subseteq Nodes
  BY <1>3, TextType DEF Refers, Places
<1>5. read \subseteq Files /\ f \in read
  BY <1>4, NodesAssumption DEF FileOf, Nodes
<1>6. \A i \in Refers(disk[f]) \cap Ids : Home[i] \in read /\ Declares(disk[Home[i]], i)
  BY NodesAssumption DEF Compile, IsDefined, FileOf
<1> HIDE DEF read
<1>7. texts \in [read -> Texts] /\ DOMAIN texts = read /\ \A g \in read : texts[g] = disk[g]
  BY <1>3, <1>5
<1> HIDE DEF texts
<1>8. /\ job.file = f /\ job.texts = texts
      /\ job.described \subseteq read
  BY <1>5
<1>9. job \in Jobs
  <2>1. texts \in UNION {[D -> Texts] : D \in SUBSET Files}
    BY <1>5, <1>7
  <2>2. (IF all THEN read ELSE {f}) \in SUBSET Files
    BY <1>5
  <2> QED BY <2>1, <2>2 DEF Jobs
<1>10. Resolvable(job)
  <2> HIDE DEF job
  <2> QED BY <1>3, <1>5, <1>6, <1>7, <1>8 DEF Resolvable
<1> HIDE DEF job
<1>11. jobs' = jobs \cup {job}
  BY <1>1 DEF job
<1>12. IsFiniteSet(jobs') /\ Cardinality(jobs') <= MaxJobs
  <2>1. IsFiniteSet(jobs) /\ Cardinality(jobs) < MaxJobs
    BY DEF Typed, Compile
  <2>2. Cardinality(jobs) \in Nat
    BY <2>1, FS_CardinalityType
  <2>3. /\ IsFiniteSet(jobs \cup {job})
        /\ Cardinality(jobs \cup {job}) =
             IF job \in jobs THEN Cardinality(jobs) ELSE Cardinality(jobs) + 1
    BY <2>1, FS_AddElement
  <2>4. Cardinality(jobs \cup {job}) <= MaxJobs
    BY <2>1, <2>2, <2>3, NodesAssumption
  <2> QED BY <1>11, <2>3, <2>4
<1>13. Typed'
  BY <1>2, <1>9, <1>11, <1>12 DEF Typed
<1>14. FreshIsTrue'
  BY <1>2 DEF FreshIsTrue
<1> QED BY <1>10, <1>11, <1>13, <1>14

(* Every node that is done, and is not a file, is declared in a text read. *)
LEMMA LocatedAreDeclared ==
  ASSUME IInv, NEW job \in jobs, NEW done \in SUBSET NodesOf(job)
  PROVE  /\ job.file \in Files /\ job.texts[job.file] \in Texts
         /\ \A i \in Located(job, done) : /\ i \in Ids /\ Home[i] \in Files
                                          /\ job.texts[Home[i]] \in Texts
                                          /\ Declares(job.texts[Home[i]], i)
<1>1. job \in Jobs /\ Resolvable(job)
  BY DEF IInv, Typed
<1>2. /\ job.file \in Files /\ DOMAIN job.texts \subseteq Files
      /\ \A g \in DOMAIN job.texts : job.texts[g] \in Texts
  BY <1>1 DEF Jobs
<1>3. ASSUME NEW i \in Located(job, done)
      PROVE  /\ i \in Ids /\ Home[i] \in DOMAIN job.texts
             /\ Declares(job.texts[Home[i]], i)
  <2>1. i \in Ids /\ Home[i] \in DOMAIN job.texts /\ i \in NodesOf(job) /\ i \notin Files
    BY <1>1, NodesAssumption DEF Located, Resolvable
  <2> QED BY <1>1, <1>2, <2>1 DEF NodesOf, Resolvable
<1> QED BY <1>1, <1>2, <1>3 DEF Resolvable

(* resolve enters what is true of a text that is still on disk.            *)
LEMMA ResolveIInv ==
  ASSUME NEW job \in jobs, IInv, Resolve(job)
  PROVE  IInv'
<1> DEFINE current(f) == job.texts[f] = disk[f]
<1>1. PICK done \in Reached(job) :
        /\ jobs' = jobs \ {job}
        /\ positionToNodeIdMap' = Rereferenced(job, done)
        /\ nodeLocationMap' = Relocated(job, done)
        /\ freshFiles' = (freshFiles \ (done \cap {job.file}))
                            \cup {f \in done \cap {job.file} : current(f)}
        /\ freshNodes' = (freshNodes \ Located(job, done)) \cup (done \cap {job.file})
                            \cup {i \in Located(job, done) : current(Home[i])}
        /\ UNCHANGED disk
  BY DEF Resolve
<1>2. done \subseteq NodesOf(job)
  BY DEF Reached
<1>3. /\ job.file \in Files /\ job.texts[job.file] \in Texts
      /\ \A i \in Located(job, done) : /\ i \in Ids /\ Home[i] \in Files
                                       /\ job.texts[Home[i]] \in Texts
                                       /\ Declares(job.texts[Home[i]], i)
  BY <1>2, LocatedAreDeclared
<1>4. Typed /\ FreshIsTrue /\ (\A j \in jobs : Resolvable(j)) /\ Files \cap Ids = {}
      /\ Nodes = Ids \cup Files
  BY NodesAssumption DEF IInv, Nodes
<1>5. /\ DOMAIN positionToNodeIdMap = Files
      /\ positionToNodeIdMap' \in [Files -> SUBSET (Ranges \X Nodes)]
  <2>1. References(disk[job.file], job.texts[job.file]) \in SUBSET (Ranges \X Nodes)
    BY <1>3, <1>4, ReferencesType DEF Typed
  <2> QED BY <1>1, <1>3, <1>4, <2>1 DEF Typed, Rereferenced
<1>6. /\ \A i \in Located(job, done) :
           nodeLocationMap'[i] = [uri |-> Home[i],
                                  range |-> Declaration(disk[Home[i]], job.texts[Home[i]], i)]
      /\ \A n \in done \cap {job.file} : nodeLocationMap'[n] = [uri |-> n, range |-> TopOfFile]
      /\ \A n \in Nodes \ (Located(job, done) \cup (done \cap {job.file})) :
           nodeLocationMap'[n] = nodeLocationMap[n]
      /\ DOMAIN nodeLocationMap' = Nodes
      /\ nodeLocationMap' = [n \in Nodes |-> nodeLocationMap'[n]]
  <2>1. Located(job, done) \subseteq Nodes /\ job.file \in Nodes /\ job.file \notin Located(job, done)
    BY <1>3, <1>4
  <2> QED BY <1>1, <2>1 DEF Relocated
<1>7. nodeLocationMap' \in [Nodes -> Locations \cup {None}]
  <2>1. ASSUME NEW n \in Nodes PROVE nodeLocationMap'[n] \in Locations \cup {None}
    <3>1. CASE n \in Located(job, done)
      <4>1. Declaration(disk[Home[n]], job.texts[Home[n]], n) \in Ranges /\ Home[n] \in Files
        BY <1>3, <1>4, <3>1, DeclarationType DEF Typed
      <4>2. nodeLocationMap'[n] = [uri |-> Home[n],
                                   range |-> Declaration(disk[Home[n]], job.texts[Home[n]], n)]
        BY <1>6, <3>1
      <4> QED BY <4>1, <4>2 DEF Locations
    <3>2. CASE n \in done \cap {job.file}
      <4>1. TopOfFile \in Ranges
        BY DEF TopOfFile, Ranges, Positions
      <4>2. n \in Files /\ nodeLocationMap'[n] = [uri |-> n, range |-> TopOfFile]
        BY <1>3, <1>6, <3>2
      <4> QED BY <4>1, <4>2 DEF Locations
    <3>3. CASE n \notin Located(job, done) \cup (done \cap {job.file})
      BY <1>4, <1>6, <3>3 DEF Typed
    <3> QED BY <3>1, <3>2, <3>3
  <2> QED BY <1>6, <2>1
<1>8. Typed'
  <2>1. jobs' \subseteq Jobs /\ IsFiniteSet(jobs') /\ Cardinality(jobs') <= MaxJobs
    <3>1. IsFiniteSet(jobs) /\ jobs' \in SUBSET jobs /\ jobs \subseteq Jobs
          /\ Cardinality(jobs) <= MaxJobs
      BY <1>1, <1>4 DEF Typed
    <3>2. IsFiniteSet(jobs') /\ Cardinality(jobs') <= Cardinality(jobs)
      BY <3>1, FS_Subset
    <3>3. Cardinality(jobs) \in Nat /\ Cardinality(jobs') \in Nat
      BY <3>1, <3>2, FS_CardinalityType
    <3> QED BY <3>1, <3>2, <3>3, NodesAssumption
  <2>2. freshFiles' \subseteq Files
    BY <1>1, <1>3, <1>4 DEF Typed
  <2>3. freshNodes' \subseteq Nodes
    BY <1>1, <1>3, <1>4 DEF Typed
  <2> QED BY <1>1, <1>4, <1>5, <1>7, <2>1, <2>2, <2>3 DEF Typed
<1>9. ASSUME NEW f \in freshFiles'
      PROVE  positionToNodeIdMap'[f] = References(disk'[f], disk'[f])
  <2>1. CASE f \in done \cap {job.file}
    <3>1. current(f) /\ f = job.file /\ job.file \in done
      BY <1>1, <1>9, <2>1
    <3>2. positionToNodeIdMap'[f] = References(disk[f], job.texts[f])
      BY <1>1, <1>3, <1>5, <3>1 DEF Rereferenced
    <3> QED BY <1>1, <3>1, <3>2
  <2>2. CASE f \notin done \cap {job.file}
    <3>1. f \in freshFiles /\ f \in Files
      BY <1>1, <1>4, <1>9, <2>2 DEF Typed
    <3>2. positionToNodeIdMap'[f] = positionToNodeIdMap[f]
      BY <1>1, <1>3, <1>5, <2>2, <3>1 DEF Rereferenced
    <3> QED BY <1>1, <1>4, <3>1, <3>2 DEF FreshIsTrue
  <2> QED BY <2>1, <2>2
<1>10. ASSUME NEW n \in freshNodes' \cap Files
       PROVE  nodeLocationMap'[n] = [uri |-> n, range |-> TopOfFile]
  <2>1. n \notin Located(job, done) /\ n \in Nodes
    BY <1>3, <1>4, <1>10
  <2>2. CASE n \in done \cap {job.file}
    BY <1>6, <2>2
  <2>3. CASE n \notin done \cap {job.file}
    <3>1. n \in freshNodes
      BY <1>1, <1>10, <2>1, <2>3
    <3>2. nodeLocationMap'[n] = nodeLocationMap[n]
      BY <1>6, <2>1, <2>3
    <3> QED BY <1>4, <1>10, <3>1, <3>2 DEF FreshIsTrue
  <2> QED BY <2>2, <2>3
<1>11. ASSUME NEW i \in freshNodes' \cap Ids
       PROVE  /\ Declares(disk'[Home[i]], i)
              /\ nodeLocationMap'[i] = [uri |-> Home[i],
                                        range |-> Declaration(disk'[Home[i]], disk'[Home[i]], i)]
  <2>1. i \notin done \cap {job.file} /\ i \in Nodes
    BY <1>3, <1>4, <1>11
  <2>2. CASE i \in Located(job, done)
    <3>1. current(Home[i])
      BY <1>1, <1>11, <2>1, <2>2
    <3> QED BY <1>1, <1>3, <1>6, <2>2, <3>1
  <2>3. CASE i \notin Located(job, done)
    <3>1. i \in freshNodes
      BY <1>1, <1>11, <2>1, <2>3
    <3>2. nodeLocationMap'[i] = nodeLocationMap[i]
      BY <1>6, <2>1, <2>3
    <3> QED BY <1>1, <1>4, <1>11, <3>1, <3>2 DEF FreshIsTrue
  <2> QED BY <2>2, <2>3
<1>12. FreshIsTrue'
  BY <1>9, <1>10, <1>11 DEF FreshIsTrue
<1> QED BY <1>1, <1>4, <1>8, <1>12 DEF IInv

(* The entries of what is fresh are those of the texts on disk, and every  *)
(* output that waits was computed from texts that declare what they refer  *)
(* to: whatever is saved, compiled, resolved, dropped and broken off.      *)
THEOREM SymbolIndexInvariant == Spec => []IInv
<1>1. Init => IInv
  BY InitIInv
<1>2. IInv /\ [Next]_vars => IInv'
  <2> SUFFICES ASSUME IInv, [Next]_vars PROVE IInv'
    OBVIOUS
  <2>1. CASE \E f \in Files : Save(f)
    BY <2>1, SaveIInv
  <2>2. CASE \E f \in Files : Compile(f)
    BY <2>2, CompileIInv
  <2>3. CASE \E job \in jobs : Resolve(job)
    BY <2>3, ResolveIInv
  <2>4. CASE UNCHANGED vars
    BY <2>4 DEF vars, mapVars, IInv, Typed, FreshIsTrue
  <2> QED BY <2>1, <2>2, <2>3, <2>4 DEF Next
<1> QED BY <1>1, <1>2, PTL DEF Spec

(* Every variable of the index keeps its type: positions and lines are     *)
(* from 1, also those computed from a text that is no longer on disk.      *)
THEOREM TypeCorrect == Spec => []TypeOK
<1>1. IInv => TypeOK
  BY DEF IInv, Typed, TypeOK
<1> QED BY <1>1, SymbolIndexInvariant, PTL

-----------------------------------------------------------------------------
(* A request finds the entries of the names that it is at or right behind, *)
(* and no other: there is one, or none.                                    *)
LEMMA EntryAtColumn ==
  ASSUME NEW x \in Texts, NEW k \in 1 .. Len(x), NEW c \in Nat
  PROVE  /\ \A e \in References(x, x) : Matches(e[1], k, c + 1) =>
              \E d \in DOMAIN x[k].refs : c \in {d, d + 1} /\ e = Reference(x, x, k, d)
         /\ \A d \in DOMAIN x[k].refs : c \in {d, d + 1} =>
              /\ Reference(x, x, k, d) \in References(x, x)
              /\ Matches(RangeIn(x, x, k, d, 1), k, c + 1)
              /\ \A b \in DOMAIN x[k].refs : c \in {b, b + 1} => b = d
<1>1. Len(x) \in Nat /\ DOMAIN x = 1 .. Len(x)
  BY TextType
<1>2. ASSUME NEW j \in 1 .. Len(x), NEW d \in DOMAIN x[j].refs
      PROVE  Matches(RangeIn(x, x, j, d, 1), k, c + 1) <=> j = k /\ c \in {d, d + 1}
  <2>1. d \in Nat /\ d + 1 < x[j].width
    BY TextType
  <2>2. RangeIn(x, x, j, d, 1) = [start |-> [line |-> j, character |-> d + 1],
                                  end   |-> [line |-> j, character |-> (d + 1) + 1]]
    BY <2>1, RangeOnLine
  <2>3. Matches(RangeIn(x, x, j, d, 1), k, c + 1) <=>
          j <= k /\ k <= j /\ d + 1 <= c + 1 /\ c + 1 <= (d + 1) + 1
    BY <2>2 DEF Matches
  <2> QED BY <1>1, <2>1, <2>3
<1>3. ASSUME NEW e \in References(x, x), Matches(e[1], k, c + 1)
      PROVE  \E d \in DOMAIN x[k].refs : c \in {d, d + 1} /\ e = Reference(x, x, k, d)
  <2>0. PICK j \in DOMAIN x : \E d \in DOMAIN x[j].refs : e = Reference(x, x, j, d)
    BY DEF References, Places
  <2>1. PICK d \in DOMAIN x[j].refs : e = Reference(x, x, j, d)
    BY <2>0
  <2>2. e[1] = RangeIn(x, x, j, d, 1)
    BY <2>1 DEF Reference
  <2>3. j = k /\ c \in {d, d + 1}
    BY <1>1, <1>2, <1>3, <2>2
  <2> QED BY <2>1, <2>3
<1>4. ASSUME NEW d \in DOMAIN x[k].refs, c \in {d, d + 1}
      PROVE  /\ Reference(x, x, k, d) \in References(x, x)
             /\ Matches(RangeIn(x, x, k, d, 1), k, c + 1)
             /\ \A b \in DOMAIN x[k].refs : c \in {b, b + 1} => b = d
  <2>1. Reference(x, x, k, d) \in References(x, x)
    <3>1. <<k, d>> \in Places(x)
      BY <1>1 DEF Places
    <3> QED BY <3>1 DEF References
  <2>2. Matches(RangeIn(x, x, k, d, 1), k, c + 1)
    BY <1>2, <1>4
  <2>3. ASSUME NEW b \in DOMAIN x[k].refs, c \in {b, b + 1} PROVE b = d
    <3>1. d \in Nat /\ d + 1 \notin DOMAIN x[k].refs /\ b \in Nat /\ b + 1 \notin DOMAIN x[k].refs
      BY TextType
    <3> QED BY <1>4, <2>3, <3>1
  <2> QED BY <2>1, <2>2, <2>3
<1> QED BY <1>3, <1>4

(* What is kept of a fresh node is a location, and the one the client      *)
(* would name.                                                             *)
LEMMA FreshNodeIsHome ==
  ASSUME IInv, NEW n \in freshNodes
  PROVE  LET location == nodeLocationMap[n]
         IN  /\ location # None
             /\ [uri |-> location.uri, start |-> ToClient(location.range.start),
                 end |-> ToClient(location.range.end)] = WhereIs(n)
<1>1. n \in Nodes /\ Nodes = Ids \cup Files /\ Typed /\ FreshIsTrue
  BY DEF IInv, Typed, Nodes
<1>2. CASE n \in Files
  <2>1. nodeLocationMap[n] = [uri |-> n, range |-> TopOfFile]
    BY <1>1, <1>2 DEF FreshIsTrue
  <2>2. nodeLocationMap[n] \in Locations
    BY <1>2, <2>1 DEF Locations, TopOfFile, Ranges, Positions
  <2>3. ToClient(TopOfFile.start) = <<0, 0>> /\ ToClient(TopOfFile.end) = <<0, 0>>
    BY DEF ToClient, TopOfFile
  <2> QED BY <1>2, <2>1, <2>2, <2>3, NoneAssumption DEF WhereIs
<1>3. CASE n \notin Files
  <2> DEFINE x == disk[Home[n]]
             k == LineOf(x, n)
             w == x[k].width
  <2>1. n \in Ids /\ Home[n] \in Files /\ x \in Texts
    BY <1>1, <1>3, NodesAssumption DEF Typed
  <2>2. /\ Declares(x, n)
        /\ nodeLocationMap[n] = [uri |-> Home[n], range |-> Declaration(x, x, n)]
    BY <1>1, <2>1 DEF FreshIsTrue
  <2>3. k \in 1 .. Len(x) /\ Declaration(x, x, n) \in Ranges
    BY <2>1, <2>2, DeclarationType
  <2>4. nodeLocationMap[n] \in Locations
    BY <2>1, <2>2, <2>3 DEF Locations
  <2>5. w \in Nat /\ w - 1 \in Nat /\ w - 1 < w /\ (w - 1) + 1 = w
    <3> HIDE DEF x, k
    <3>1. w \in Nat /\ w >= 2
      BY <2>1, <2>3, TextType
    <3> HIDE DEF w
    <3> QED BY <3>1
  <2>6. RangeIn(x, x, k, 0, w - 1) = [start |-> [line |-> k, character |-> 0 + 1],
                                      end   |-> [line |-> k, character |-> (0 + (w - 1)) + 1]]
    <3>1. 0 + (w - 1) < w /\ 0 \in Nat
      BY <2>5
    <3> HIDE DEF x, k
    <3> QED BY <2>1, <2>3, <2>5, <3>1, RangeOnLine
  <2>7. Declaration(x, x, n) = [start |-> [line |-> k, character |-> 1],
                                end   |-> [line |-> k, character |-> w]]
    BY <2>5, <2>6 DEF Declaration
  <2>8. WhereIs(n) = [uri |-> Home[n], start |-> <<k - 1, 0>>, end |-> <<k - 1, w - 1>>]
    BY <1>3 DEF WhereIs
  <2> HIDE DEF x, k, w
  <2>9. /\ ToClient(Declaration(x, x, n).start) = <<k - 1, 0>>
        /\ ToClient(Declaration(x, x, n).end) = <<k - 1, w - 1>>
    BY <2>7 DEF ToClient
  <2> QED BY <2>2, <2>4, <2>8, <2>9, NoneAssumption
<1> QED BY <1>2, <1>3

(* A definition request at a name, or right behind it, leads to where the  *)
(* node is declared now, and one elsewhere nowhere, if neither file has    *)
(* been saved since the compile its entries come from: for any number of   *)
(* files, texts and outputs in flight, in whatever order they are          *)
(* resolved.                                                               *)
THEOREM FreshDefinitionsLeadHome == Spec => []DefinitionsLeadHome
<1>1. ASSUME IInv PROVE DefinitionsLeadHome
  <2>1. SUFFICES ASSUME NEW f \in freshFiles, NEW k \in DOMAIN disk[f],
                        NEW c \in 0 .. disk[f][k].width - 1
                 PROVE  LET refs == disk[f][k].refs
                            near == {d \in DOMAIN refs : c \in {d, d + 1}}
                        IN  /\ near = {} => handleDefinition(f, k - 1, c) = {None}
                            /\ \A d \in near :
                                 refs[d] \in freshNodes =>
                                   handleDefinition(f, k - 1, c) = {WhereIs(refs[d])}
    BY DEF DefinitionsLeadHome
  <2> DEFINE x == disk[f]
             near == {d \in DOMAIN x[k].refs : c \in {d, d + 1}}
             found == {e \in positionToNodeIdMap[f] : /\ Matches(e[1], k, c + 1)
                                                      /\ nodeLocationMap[e[2]] # None}
             answer(e) == [uri |-> nodeLocationMap[e[2]].uri,
                           start |-> ToClient(nodeLocationMap[e[2]].range.start),
                           end   |-> ToClient(nodeLocationMap[e[2]].range.end)]
  <2>2. /\ f \in Files /\ x \in Texts
        /\ positionToNodeIdMap[f] = References(x, x)
    BY <1>1 DEF IInv, Typed, FreshIsTrue
  <2>3. k \in 1 .. Len(x) /\ (k - 1) + 1 = k /\ c \in Nat
    BY <2>2, TextType
  <2>4. handleDefinition(f, k - 1, c) =
          IF found = {} THEN {None} ELSE {answer(e) : e \in found}
    BY <2>3 DEF handleDefinition
  <2> HIDE DEF x
  <2>5. ASSUME near = {} PROVE handleDefinition(f, k - 1, c) = {None}
    <3>1. ASSUME NEW e \in References(x, x), Matches(e[1], k, c + 1) PROVE FALSE
      <4>1. PICK d \in DOMAIN x[k].refs : c \in {d, d + 1}
        BY <2>2, <2>3, <3>1, EntryAtColumn
      <4> QED BY <2>5, <4>1
    <3>2. found = {}
      BY <2>2, <3>1
    <3> HIDE DEF found, near
    <3> QED BY <2>4, <3>2
  <2>6. ASSUME NEW d \in near, x[k].refs[d] \in freshNodes
        PROVE  handleDefinition(f, k - 1, c) = {WhereIs(x[k].refs[d])}
    <3> DEFINE n == x[k].refs[d]
               entry == Reference(x, x, k, d)
    <3>1. nodeLocationMap[n] # None /\ entry[2] = n /\ entry[1] = RangeIn(x, x, k, d, 1)
      <4>1. entry[2] = n /\ entry[1] = RangeIn(x, x, k, d, 1)
        BY DEF Reference
      <4> HIDE DEF entry, n
      <4>2. nodeLocationMap[n] # None
        BY <1>1, <2>6, FreshNodeIsHome DEF n
      <4> QED BY <4>1, <4>2
    <3>2. entry \in References(x, x) /\ Matches(entry[1], k, c + 1)
      <4>1. d \in DOMAIN x[k].refs /\ c \in {d, d + 1}
        BY <2>6
      <4>2. /\ Reference(x, x, k, d) \in References(x, x)
            /\ Matches(RangeIn(x, x, k, d, 1), k, c + 1)
        <5> HIDE DEF n, entry, found, near, answer
        <5> QED BY <2>2, <2>3, <4>1, EntryAtColumn
      <4> QED BY <3>1, <4>2
    <3>3. ASSUME NEW e \in References(x, x), Matches(e[1], k, c + 1) PROVE e = entry
      <4>1. PICK b \in DOMAIN x[k].refs : c \in {b, b + 1} /\ e = Reference(x, x, k, b)
        BY <2>2, <2>3, <3>3, EntryAtColumn
      <4>2. b = d
        BY <2>2, <2>3, <2>6, <4>1, EntryAtColumn
      <4> QED BY <4>1, <4>2
    <3>4. answer(entry) = WhereIs(n)
      <4> HIDE DEF entry, n
      <4>1. n \in freshNodes
        BY <2>6 DEF n
      <4> QED BY <1>1, <3>1, <4>1, FreshNodeIsHome
    <3> HIDE DEF entry, n, answer
    <3>5. found = {entry}
      BY <2>2, <3>1, <3>2, <3>3
    <3> HIDE DEF found
    <3>6. handleDefinition(f, k - 1, c) = {WhereIs(n)}
      BY <2>4, <3>4, <3>5
    <3> QED BY <3>6 DEF n
  <2> QED BY <2>5, <2>6 DEF x
<1> QED BY <1>1, SymbolIndexInvariant, PTL
=============================================================================
