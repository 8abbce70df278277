------------------------------ MODULE MCHandler ------------------------------
(***************************************************************************)
(* Handler for TLC: the requests peers send.                               *)
(***************************************************************************)
EXTENDS Handler

Request(method) == [method |-> method, valid |-> TRUE, challenge |-> TRUE, lines |-> <<>>]
Volumes(lines)  == [Request("SET_PARAMETER") EXCEPT !.lines = lines]

\* Each method: usable, with a part missing, with a bad challenge.
EachRequest ==
    LET plain == { Request(method) : method \in Methods }
    IN  plain
        \cup { [r EXCEPT !.valid = FALSE] : r \in plain }
        \cup { [r EXCEPT !.challenge = FALSE] : r \in plain }
        \cup { Volumes(<<1, BadLine, 2>>), Volumes(<<1, 2>>) }

\* Volumes only.
VolumeRequests ==
    { Volumes(<<3, 4>>), Volumes(<<5, BadLine, 6>>),
      [Volumes(<<7>>) EXCEPT !.challenge = FALSE] }

\* One peer sends anything, the others set the volume.
MCRequests ==
    LET any == CHOOSE c \in Conns : TRUE
    IN  [c \in Conns |-> IF c = any THEN EachRequest ELSE VolumeRequests]
=============================================================================
