---------------------------- MODULE RequestService ----------------------------
(***************************************************************************)
(* What a client may expect of its requests: each that is taken is         *)
(* answered once, in the order they were sent, and does not wait for ever. *)
(* Two things release the server: the client has left so much unread that  *)
(* something did not fit, and the server has been asked to end.            *)
(***************************************************************************)
EXTENDS Naturals, Sequences

CONSTANT Requests   (* numbered in the order they are sent                   *)

VARIABLES
  owed,       (* requests taken and not answered                             *)
  answered,   (* requests answered, oldest first                             *)
  behind,     (* something did not fit                                       *)
  ending      (* the server has been asked to end                            *)
vars == <<owed, answered, behind, ending>>

Init == owed = <<>> /\ answered = <<>> /\ behind = FALSE /\ ending = FALSE

IsNewest(r) == \A i \in DOMAIN (answered \o owed) : (answered \o owed)[i] < r

(* Whatever comes in may be a request, may ask the server to end, and may  *)
(* make it say something that does not fit.                                *)
Take ==
  /\ owed' \in {owed} \cup {Append(owed, r) : r \in {q \in Requests : IsNewest(q)}}
  /\ behind' \in {behind, TRUE} /\ ending' \in {ending, TRUE}
  /\ UNCHANGED answered

Answer ==
  /\ owed # <<>> /\ ~ending
  /\ owed' = Tail(owed)
  /\ answered' = Append(answered, Head(owed))
  /\ UNCHANGED <<behind, ending>>

DropAnswer ==
  /\ owed # <<>> /\ ~ending
  /\ owed' = Tail(owed)
  /\ behind' = TRUE
  /\ UNCHANGED <<answered, ending>>

End ==
  /\ ending
  /\ owed' = <<>>
  /\ UNCHANGED <<answered, behind, ending>>

Next == Take \/ Answer \/ DropAnswer \/ End

Spec == Init /\ [][Next]_vars /\ WF_vars(Answer \/ DropAnswer \/ End)
==============================================================================
