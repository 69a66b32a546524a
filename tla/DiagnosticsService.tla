-------------------------- MODULE DiagnosticsService --------------------------
(***************************************************************************)
(* What the compile pipeline promises a client that waits for one          *)
(* notification to be dealt with before it sends the next: every file it   *)
(* touches is reported on, the report is about the text it has then, and   *)
(* go-to-definition knows the last text of a file that compiled.           *)
(***************************************************************************)
CONSTANTS Files, Schemas, Texts, NoText, Report(_), Clean(_)

VARIABLES
  disk,    (* the text of every file                                         *)
  shown,   (* the diagnostics the client displays for every file             *)
  known,   (* the text of every file whose symbols the server knows          *)
  due      (* the files touched and not reported on yet                      *)
vars == <<disk, shown, known, due>>

Init == /\ disk \in [Files -> Texts]
        /\ shown = [f \in Files |-> <<>>]
        /\ known = [f \in Files |-> NoText]
        /\ due = {}

(* The client opens a file or saves a text in it.                          *)
Touch(f, x) == /\ due = {}
               /\ disk' = [disk EXCEPT ![f] = x]
               /\ due' = {f}
               /\ UNCHANGED <<shown, known>>

(* The server takes in the symbols of a schema that compiles ...           *)
HasSymbols(f) == f \in Schemas /\ Clean(disk[f])
Learn(f) == /\ f \in due /\ HasSymbols(f)
            /\ known' = [known EXCEPT ![f] = disk[f]]
            /\ UNCHANGED <<disk, shown, due>>

(* ... before it answers for it; it has nothing to say of other files.     *)
Answer(f) == /\ f \in due
             /\ HasSymbols(f) => known[f] = disk[f]
             /\ due' = due \ {f}
             /\ shown' = IF f \in Schemas
                         THEN [shown EXCEPT ![f] = Report(disk[f])]
                         ELSE shown
             /\ UNCHANGED <<disk, known>>

Next == \E f \in Files : Learn(f) \/ Answer(f) \/ \E x \in Texts : Touch(f, x)

Spec == Init /\ [][Next]_vars /\ \A f \in Files : WF_vars(Learn(f) \/ Answer(f))
===============================================================================
