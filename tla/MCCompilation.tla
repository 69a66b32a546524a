---------------------------- MODULE MCCompilation ----------------------------
(* Small instances of Compilation for TLC.                                   *)
EXTENDS Compilation

(* A text is named after its verdict; two of a kind where it matters that    *)
(* they differ.                                                              *)
CONSTANTS clean1, clean2, errors1, errors2, imports1

MCVerdict == [x \in Texts |-> CASE x \in {clean1, clean2} -> "clean"
                                [] x \in {errors1, errors2} -> "errors"
                                [] OTHER -> "importErrors"]
=============================================================================
