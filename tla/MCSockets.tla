------------------------------- MODULE MCSockets -------------------------------
(* The threads of the daemons that meet over sockets.                       *)
EXTENDS Sockets

MCProcess == [u \in Users |-> IF u = "radio main" THEN "radio" ELSE "fault"]

\* Without is what Sequences says by recursion.
ASSUME WithoutSelects ==
    \A n \in 0..4 : \A s \in [1..n -> {"7", "8"}] :
        Without(s, "7") = SelectSeq(s, LAMBDA e : e # "7")
===============================================================================
