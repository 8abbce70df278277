------------------------------- MODULE Service -------------------------------
(***************************************************************************)
(* What the player promises the RTSP handlers, without its channels and    *)
(* tasks: a command is served in one step, at most once, while its handler *)
(* waits; GET_PARAMETER answers the volume of the SET_PARAMETER served     *)
(* last; a handler loses its command only when the player has stopped,     *)
(* and after that nothing is served.  Player implements this module, and   *)
(* Handler is built on it.                                                 *)
(***************************************************************************)
EXTENDS Naturals, Sequences

CONSTANTS
    Conns,        \* RTSP connections
    Commands      \* what they may ask for: records with an op and a volume

VARIABLES
    up,           \* does the player serve?
    open,         \* does the handler of a connection run?
    request,      \* <<>> or <<command>>: what a handler waits for
    answer,       \* <<>> or <<value>>: the one-shot channel of that command
    volume        \* the player's airplay_volume

vars == <<up, open, request, answer, volume>>

Init ==
    /\ up = TRUE
    /\ open = [c \in Conns |-> TRUE]
    /\ request = [c \in Conns |-> <<>>]
    /\ answer = [c \in Conns |-> <<>>]
    /\ volume = 0

Idle(c)    == open[c] /\ request[c] = <<>>
Pending(c) == request[c] # <<>> /\ answer[c] = <<>>

\* player_tx.send(command), from the moment it is called.
Invoke(c, p) ==
    /\ Idle(c)
    /\ request' = [request EXCEPT ![c] = <<p>>]
    /\ UNCHANGED <<up, open, answer, volume>>

\* The player takes the command, acts and answers.
Serve(c) ==
    /\ up
    /\ Pending(c)
    /\ volume' = IF request[c][1].op = "SetParameter" THEN request[c][1].volume ELSE volume
    /\ answer' = [answer EXCEPT
                    ![c] = <<IF request[c][1].op = "GetParameter" THEN volume ELSE 0>>]
    /\ UNCHANGED <<up, open, request>>

\* rx.await yields the answer.
Return(c) ==
    /\ answer[c] # <<>>
    /\ request' = [request EXCEPT ![c] = <<>>]
    /\ answer' = [answer EXCEPT ![c] = <<>>]
    /\ UNCHANGED <<up, open, volume>>

\* send or rx.await fails: the player is gone, and the handler goes too.
Fail(c) ==
    /\ ~up
    /\ Pending(c)
    /\ request' = [request EXCEPT ![c] = <<>>]
    /\ open' = [open EXCEPT ![c] = FALSE]
    /\ UNCHANGED <<up, answer, volume>>

\* The handler returns between two commands.
Close(c) ==
    /\ Idle(c)
    /\ open' = [open EXCEPT ![c] = FALSE]
    /\ UNCHANGED <<up, request, answer, volume>>

\* The player returns, is dropped, or panics.
Stop ==
    /\ up
    /\ up' = FALSE
    /\ UNCHANGED <<open, request, answer, volume>>

Next ==
    \/ Stop
    \/ \E c \in Conns :
          \/ Idle(c) /\ \E p \in Commands : Invoke(c, p)
          \/ Serve(c) \/ Return(c) \/ Fail(c) \/ Close(c)

Spec == Init /\ [][Next]_vars
=============================================================================
