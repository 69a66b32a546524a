---------------------------- MODULE MCSymbolIndex ----------------------------
(* Three files for TLC: a schema that refers to all there is, a library that *)
(* loses and moves declarations, and a file resolve cannot find.             *)
EXTENDS SymbolIndex, TLC

CONSTANTS app, lib, outside,   (* the files                                  *)
          A, B, C, D           (* the ids                                    *)

Decl(i, w)       == [decl |-> i, refs |-> <<>>, width |-> w]
Ref(n, w)        == [decl |-> None, refs |-> 0 :> n, width |-> w]
Dotted(m, n, w)  == [decl |-> None, refs |-> 0 :> m @@ 2 :> n, width |-> w]
Blank(w)         == [decl |-> None, refs |-> <<>>, width |-> w]

MCHome == A :> lib @@ B :> lib @@ C :> app @@ D :> outside
MCTextsOf ==
  app     :> {<<Decl(C, 2), Ref(A, 2)>>, <<Ref(B, 3), Dotted(lib, C, 4), Decl(C, 3)>>,
              <<Ref(D, 2), Ref(A, 3)>>}
  @@ lib     :> {<<Decl(A, 2), Decl(B, 2)>>, <<Blank(3), Decl(A, 3)>>}
  @@ outside :> {<<Decl(D, 2)>>}
==============================================================================
