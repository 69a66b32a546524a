---------------------------- MODULE MessageChannel ----------------------------
(***************************************************************************)
(* What a message framing layer promises its handler: the client's         *)
(* messages, whole and in order, and then the end of the input.  Each      *)
(* comes once; a layer that has been disturbed may go back to an earlier   *)
(* message and start over from there, but it never skips one.              *)
(***************************************************************************)
EXTENDS Naturals, Sequences

VARIABLES
  messages,    (* those the client sends, in its order, all different        *)
  delivered,   (* those the handler has been given                           *)
  disturbed,   (* what the layer is not made for has happened                *)
  ended        (* the handler has been told that there are no more           *)
vars == <<messages, delivered, disturbed, ended>>

Place(m) == CHOOSE i \in DOMAIN messages : messages[i] = m
Latest   == IF delivered = <<>> THEN 0 ELSE Place(delivered[Len(delivered)])

Init == delivered = <<>> /\ ~disturbed /\ ~ended

Deliver == /\ ~ended
           /\ \E i \in DOMAIN messages :
                /\ i = Latest + 1 \/ (disturbed /\ i <= Latest)
                /\ delivered' = Append(delivered, messages[i])
           /\ UNCHANGED <<messages, disturbed, ended>>

Disturb == /\ ~ended /\ ~disturbed
           /\ disturbed' = TRUE
           /\ UNCHANGED <<messages, delivered, ended>>

End == /\ ~ended /\ Latest = Len(messages)
       /\ ended' = TRUE
       /\ UNCHANGED <<messages, delivered, disturbed>>

Next == Deliver \/ Disturb \/ End
Spec == Init /\ [][Next]_vars /\ WF_vars(Deliver \/ End)
===============================================================================
