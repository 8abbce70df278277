------------------------------- MODULE Handler -------------------------------
(***************************************************************************)
(* rtsp/handler.rs: Handler::run and execute for several connections that  *)
(* share the player, which is module Service here.  execute checks the     *)
(* request, sends the player some commands, one after the other, and       *)
(* writes a response; where an arm puts these steps, and what a `?` in     *)
(* between skips, is what this module is about.                            *)
(*                                                                         *)
(* Abstracted: headers and bodies.  Of a request the model keeps whether   *)
(* the part its arm needs is usable, whether its Apple-Challenge (if any)  *)
(* can be answered, and the volume lines of SET_PARAMETER.                 *)
(***************************************************************************)
EXTENDS Naturals, Sequences

CONSTANTS
    Conns,        \* RTSP connections
    Requests,     \* Requests[c]: what the peer of connection c may send
    BadLine,      \* a volume line that is not a number
    MaxRead       \* bound: messages read from one connection

Methods == {"OPTIONS", "SETUP", "GET_PARAMETER", "SET_PARAMETER", "ANNOUNCE", "RECORD",
            "TEARDOWN", "FLUSH", "PAUSE", "EXTENSION"}

Lines == Seq(Nat \cup {BadLine})

ASSUME HandlerAssumption ==
    /\ \A c \in Conns :
          Requests[c] \subseteq
             [method : Methods, valid : BOOLEAN, challenge : BOOLEAN, lines : Lines]
    /\ BadLine \notin Nat
    /\ MaxRead \in Nat

VARIABLES
    up, open, request, answer, volume     \* the player, see Service

VARIABLES
    state,        \* reading, executing, or how run ended
    current,      \* the request read last, or <<>>
    todo,         \* commands execute has still to send for it
    effects,      \* commands the player has served for it (history)
    read,         \* messages read
    response,     \* the last response: the request it answers, its status
    setter        \* the connection whose SetParameter was served last, or <<>>

serviceVars == <<up, open, request, answer, volume>>
handlerVars == <<state, current, todo, effects, read, response, setter>>
vars        == <<serviceVars, handlerVars>>

Command(op) == [op |-> op, volume |-> 0]
Set(v)      == [op |-> "SetParameter", volume |-> v]

Commands == [op : {"Setup", "GetParameter", "SetParameter", "Announce", "Record",
                   "Teardown", "Flush"}, volume : Nat]

Player == INSTANCE Service

-----------------------------------------------------------------------------
(***************************************************************************)
(* The arms of execute.  first: every `?` before the first command passes; *)
(* calls: the commands, in turn; last: every `?` after them passes;        *)
(* status: of the response, if one is written.  add_default_headers fails  *)
(* on a challenge that cannot be answered.  The answers to Setup and       *)
(* Announce are always Ok (mod.rs:180, 267), so their error statuses do    *)
(* not occur.                                                              *)
(***************************************************************************)
Arm(first, calls, last, status) ==
    [first |-> first, calls |-> calls, last |-> last, status |-> status]

IfUsable(r, op) == IF r.valid THEN <<Command(op)>> ELSE <<>>

Options(r) == Arm(r.challenge, <<>>, TRUE, "Ok")

\* Without usable ports nothing is sent and nothing is answered.
Setup(r) == Arm(TRUE, IfUsable(r, "Setup"), r.valid => r.challenge,
                IF r.valid THEN "Ok" ELSE "none")

GetParameterSkips(r) ==     \* mutant: an empty body is not answered
    Arm(r.challenge, <<Command("GetParameter")>>, TRUE, IF r.valid THEN "Ok" ELSE "none")

\* The body is decoded after the player has answered.
GetParameter(r) == Arm(r.challenge, <<Command("GetParameter")>>, r.valid, "Ok")

\* Lines are parsed and sent one by one, up to the first that does not parse; a
\* body that is no text fails like one bad line.
SkipBad(lines) == SelectSeq(lines, LAMBDA v : v # BadLine)     \* mutant: it is skipped

UpToBad(lines) ==
    SubSeq(lines, 1, CHOOSE n \in 0 .. Len(lines) :
                        /\ \A i \in 1 .. n : lines[i] # BadLine
                        /\ n < Len(lines) => lines[n + 1] = BadLine)

SetParameter(r) ==
    IF r.valid
    THEN LET good == UpToBad(r.lines)
         IN  Arm(TRUE, [i \in DOMAIN good |-> Set(good[i])],
                 Len(good) = Len(r.lines) /\ r.challenge, "Ok")
    ELSE Arm(TRUE, <<>>, TRUE, "ParameterNotUnderstood")

Announce(r) == Arm(r.valid, <<Command("Announce")>>, r.challenge, "Ok")

\* A missing or unreadable RTP-Info is answered Ok all the same.
Record(r) == Arm(r.challenge, IfUsable(r, "Record"), TRUE, "Ok")

Flush(r) == Arm(r.challenge, IfUsable(r, "Flush"), TRUE, "Ok")

TeardownFirst(r) ==     \* mutant: the challenge is answered after the command
    Arm(TRUE, <<Command("Teardown")>>, r.challenge, "Ok")

Teardown(r) == Arm(r.challenge, <<Command("Teardown")>>, TRUE, "Ok")

\* DESCRIBE, PAUSE, PLAY, PLAY_NOTIFY and REDIRECT.
NotAllowed(r) == Arm(TRUE, <<>>, TRUE, "MethodNotAllowed")

execute(r) ==
    CASE r.method = "OPTIONS"       -> Options(r)
      [] r.method = "SETUP"         -> Setup(r)
      [] r.method = "GET_PARAMETER" -> GetParameter(r)
      [] r.method = "SET_PARAMETER" -> SetParameter(r)
      [] r.method = "ANNOUNCE"      -> Announce(r)
      [] r.method = "RECORD"        -> Record(r)
      [] r.method = "TEARDOWN"      -> Teardown(r)
      [] r.method = "FLUSH"         -> Flush(r)
      [] OTHER                      -> NotAllowed(r)

-----------------------------------------------------------------------------
Init ==
    /\ Player!Init
    /\ state = [c \in Conns |-> "reading"]
    /\ current = [c \in Conns |-> <<>>]
    /\ todo = [c \in Conns |-> <<>>]
    /\ effects = [c \in Conns |-> 0]
    /\ read = [c \in Conns |-> 0]
    /\ response = [c \in Conns |-> [to |-> 0, status |-> "none"]]
    /\ setter = <<>>

Becomes(c, s) == state' = [state EXCEPT ![c] = s]

\* run takes a message from the connection.
Message(c) ==
    /\ state[c] = "reading"
    /\ read[c] < MaxRead
    /\ read' = [read EXCEPT ![c] = @ + 1]

\* A request whose arm gets to its commands.
Read(c, r) ==
    /\ Message(c)
    /\ r.method # "EXTENSION"
    /\ execute(r).first
    /\ Becomes(c, "executing")
    /\ current' = [current EXCEPT ![c] = <<r>>]
    /\ todo' = [todo EXCEPT ![c] = execute(r).calls]
    /\ effects' = [effects EXCEPT ![c] = 0]
    /\ UNCHANGED <<serviceVars, response, setter>>

\* A request that fails before: run returns the error and the connection goes.
ReadRefused(c, r) ==
    /\ Message(c)
    /\ r.method # "EXTENSION"
    /\ ~execute(r).first
    /\ Becomes(c, "failed")
    /\ current' = [current EXCEPT ![c] = <<r>>]
    /\ effects' = [effects EXCEPT ![c] = 0]
    /\ Player!Close(c)
    /\ UNCHANGED <<todo, response, setter>>

\* An unknown method, or a message that is no request: the task panics, and
\* what it owns is dropped with it.
ReadPanics(c) ==
    /\ Message(c)
    /\ Becomes(c, "panicked")
    /\ Player!Close(c)
    /\ UNCHANGED <<current, todo, effects, response, setter>>

\* player_tx.send(..) of the next command.
Call(c) ==
    /\ state[c] = "executing"
    /\ todo[c] # <<>>
    /\ Player!Invoke(c, Head(todo[c]))
    /\ UNCHANGED handlerVars

Serve(c) ==
    /\ Player!Serve(c)
    /\ effects' = [effects EXCEPT ![c] = @ + 1]
    /\ setter' = IF request[c][1].op = "SetParameter" THEN <<c>> ELSE setter
    /\ UNCHANGED <<state, current, todo, read, response>>

\* rx.await? has its answer.
ReturnedRepeats(c) ==     \* mutant: the loop over the lines does not advance
    /\ Player!Return(c)
    /\ UNCHANGED handlerVars

Returned(c) ==
    /\ Player!Return(c)
    /\ todo' = [todo EXCEPT ![c] = Tail(@)]
    /\ UNCHANGED <<state, current, effects, read, response, setter>>

\* send(..).await? or rx.await? fails, as the player is gone.
BrokenOff(c) ==
    /\ Player!Fail(c)
    /\ Becomes(c, "broken")
    /\ UNCHANGED <<current, todo, effects, read, response, setter>>

\* The commands are done.
Done(c) == state[c] = "executing" /\ todo[c] = <<>>

Respond(c) ==
    /\ Done(c)
    /\ execute(current[c][1]).last
    /\ execute(current[c][1]).status # "none"
    /\ response' = [response EXCEPT
                      ![c] = [to |-> read[c], status |-> execute(current[c][1]).status]]
    /\ Becomes(c, "reading")
    /\ UNCHANGED <<serviceVars, current, todo, effects, read, setter>>

NoResponse(c) ==
    /\ Done(c)
    /\ execute(current[c][1]).last
    /\ execute(current[c][1]).status = "none"
    /\ Becomes(c, "reading")
    /\ UNCHANGED <<serviceVars, current, todo, effects, read, response, setter>>

\* A `?` after the commands.
FailLate(c) ==
    /\ Done(c)
    /\ ~execute(current[c][1]).last
    /\ Becomes(c, "failed")
    /\ Player!Close(c)
    /\ UNCHANGED <<current, todo, effects, read, response, setter>>

\* The peer is gone when the response is written.
WriteFails(c) ==
    /\ Done(c)
    /\ execute(current[c][1]).last
    /\ execute(current[c][1]).status # "none"
    /\ Becomes(c, "gone")
    /\ Player!Close(c)
    /\ UNCHANGED <<current, todo, effects, read, response, setter>>

\* read_message returns None, or the shutdown signal comes first; or it fails.
Ends(c) ==
    /\ state[c] = "reading"
    /\ Becomes(c, "gone")
    /\ Player!Close(c)
    /\ UNCHANGED <<current, todo, effects, read, response, setter>>

\* server::run's select ends and drops the player, then the signal's sender.
Stop == Player!Stop /\ UNCHANGED handlerVars

Step(c) ==
    \/ Call(c) \/ Serve(c) \/ Returned(c) \/ BrokenOff(c)
    \/ Respond(c) \/ NoResponse(c) \/ FailLate(c)

Next ==
    \/ \E c \in Conns :
          \/ \E r \in Requests[c] : Read(c, r) \/ ReadRefused(c, r)
          \/ ReadPanics(c)
          \/ Step(c) \/ WriteFails(c) \/ Ends(c)
    \/ Stop

\* A handler and the player run as long as they can; a peer that waits for a
\* response reads it.
Spec == Init /\ [][Next]_vars /\ \A c \in Conns : WF_vars(Step(c))

-----------------------------------------------------------------------------
Over(c) == state[c] \in {"failed", "broken", "gone", "panicked"}

\* Type invariant; a request has no more effects than it has commands.
TypeOK ==
    /\ state \in [Conns -> {"reading", "executing", "failed", "broken", "gone", "panicked"}]
    /\ \A c \in Conns : current[c] = <<>> \/ current[c][1] \in Requests[c]
    /\ \A c \in Conns : todo[c] \in Seq(Commands)
    /\ read \in [Conns -> 0 .. MaxRead]
    /\ \A c \in Conns :
          effects[c] <= IF current[c] = <<>> THEN 0 ELSE Len(execute(current[c][1]).calls)
    /\ response \in [Conns -> [to : 0 .. MaxRead,
                               status : {"none", "Ok", "ParameterNotUnderstood",
                                         "MethodNotAllowed"}]]
    /\ setter = <<>> \/ setter[1] \in Conns

\* The volume is the line applied last: whenever k volume lines of a request
\* have been served and no other connection has set the volume since, it is
\* that of line k; so no line at or after one that does not parse is applied,
\* and an acknowledged SET_PARAMETER leaves its last line (handler.rs:243-258).
VolumeIsLastLine ==
    \A c \in Conns :
        (current[c] # <<>> /\ current[c][1].method = "SET_PARAMETER" /\ effects[c] > 0
            /\ setter = <<c>>) =>
        volume = current[c][1].lines[effects[c]]

\* A request the handler refuses, with the connection dropped and no answer,
\* has had no effect, unless it is one whose arm adds the default headers after
\* the command (handler.rs:199, 260, 354): a RECORD, FLUSH or TEARDOWN that
\* took effect is answered if the peer is there and the player runs.  (What a
\* GET_PARAMETER asks for is no change.)
RefusedWithoutEffect ==
    \A c \in Conns :
        state[c] = "failed" /\ effects[c] > 0 =>
            current[c][1].method \in {"SETUP", "ANNOUNCE", "SET_PARAMETER", "GET_PARAMETER"}

\* Every request is answered, or its connection ends, except for a SETUP
\* without usable ports (handler.rs:150-204).
Silent(c) == /\ current[c] # <<>>
             /\ current[c][1].method = "SETUP" /\ ~current[c][1].valid
EachAnswered ==
    \A c \in Conns : \A k \in 1 .. MaxRead :
        read[c] = k ~> response[c].to >= k \/ Over(c) \/ Silent(c)
=============================================================================
