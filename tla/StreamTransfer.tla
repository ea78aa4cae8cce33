--------------------------- MODULE StreamTransfer ---------------------------
(***************************************************************************)
(* What one stream transfer of the shared memory library really promises   *)
(* to its two callers.  The receiver's string only grows by the next chunk *)
(* of the message; the receiver ends with the whole message, with the      *)
(* message cut before its last chunk, or with "NO ANSWER"; the sender ends *)
(* as if everything was taken only when everything was.                    *)
(*                                                                         *)
(* ShmStream implements this specification.                                *)
(***************************************************************************)
EXTENDS Integers

CONSTANT MaxChunks      \* longest message, in chunks of bufsize bytes

VARIABLES
    length,     \* chunks of the message
    delivered,  \* chunks the receiver's string holds
    receiver,   \* how the receiving call stands: "open", "done", "noanswer"
    sender      \* how the sending call stands: "open", "done", "gaveup"

vars == <<length, delivered, receiver, sender>>

Init ==
    /\ length \in 1..MaxChunks
    /\ delivered = 0
    /\ receiver = "open"
    /\ sender = "open"

Deliver ==
    /\ receiver = "open"
    /\ delivered < length
    /\ delivered' = delivered + 1
    /\ UNCHANGED <<length, receiver, sender>>

\* The receiving call returns a string: at most the last chunk is missing,
\* and never the only one.
Return ==
    /\ receiver = "open"
    /\ delivered \in {length - 1, length} \ {0}
    /\ receiver' = "done"
    /\ UNCHANGED <<length, delivered, sender>>

NoAnswer ==
    /\ receiver = "open"
    /\ delivered < length
    /\ receiver' = "noanswer"
    /\ UNCHANGED <<length, delivered, sender>>

Complete ==
    /\ sender = "open"
    /\ delivered = length
    /\ sender' = "done"
    /\ UNCHANGED <<length, delivered, receiver>>

GiveUp ==
    /\ sender = "open"
    /\ sender' = "gaveup"
    /\ UNCHANGED <<length, delivered, receiver>>

Next == Deliver \/ Return \/ NoAnswer \/ Complete \/ GiveUp

Spec == Init /\ [][Next]_vars
=============================================================================
