---------------------------- MODULE MessageStream ----------------------------
(***************************************************************************)
(* What read_message promises (rtsp/connection.rs:53-63), without bytes:   *)
(* messages come out one by one, in the order sent, each once it is        *)
(* complete; at the end None if the stream was closed between messages     *)
(* and everything sent was returned, an error if a message was broken in   *)
(* half, was invalid, or the connection was reset.                         *)
(***************************************************************************)
EXTENDS Naturals, Sequences

CONSTANTS
    Messages,     \* 1 .. n, what the peer has to say
    Malformed     \* the messages that do not parse

VARIABLES
    complete,     \* the messages wholly sent
    partial,      \* is a message sent in part?
    peer,         \* open, closed or reset
    delivered,    \* the messages returned
    outcome       \* open, or how the reads ended

vars == <<complete, partial, peer, delivered, outcome>>

Init ==
    /\ complete = {}
    /\ partial = FALSE
    /\ peer = "open"
    /\ delivered = <<>>
    /\ outcome = "open"

NextMessage == Len(delivered) + 1

\* Everything wholly sent has been returned.
Drained == \A m \in complete : m < NextMessage

Send ==
    /\ peer = "open"
    /\ complete \subseteq complete'
    /\ complete' \subseteq Messages
    /\ partial' \in BOOLEAN
    /\ UNCHANGED <<peer, delivered, outcome>>

Leave(how) ==
    /\ peer = "open"
    /\ peer' = how
    /\ UNCHANGED <<complete, partial, delivered, outcome>>

Deliver ==
    /\ outcome = "open"
    /\ NextMessage \in complete \ Malformed
    /\ delivered' = Append(delivered, NextMessage)
    /\ UNCHANGED <<complete, partial, peer, outcome>>

End(how) ==
    /\ outcome = "open"
    /\ outcome' = how
    /\ UNCHANGED <<complete, partial, peer, delivered>>

EndNone == peer = "closed" /\ Drained /\ ~partial /\ End("none")

EndError ==
    /\ \/ peer = "reset"
       \/ peer = "closed" /\ Drained /\ partial
       \/ NextMessage \in Malformed /\ (partial \/ ~Drained)
    /\ End("error")

\* The handler stops reading: shutdown, a request that fails, or a response that
\* cannot be written.
Abandon == End("abandoned")

Next == Send \/ (\E how \in {"closed", "reset"} : Leave(how)) \/ Deliver
        \/ EndNone \/ EndError \/ Abandon

Spec == Init /\ [][Next]_vars
=============================================================================
