-------------------------------- MODULE Player --------------------------------
(***************************************************************************)
(* player/mod.rs and the tasks it spawns.  The player owns the session: it *)
(* takes commands from one bounded mpsc channel that the RTSP handlers and *)
(* its own UDP receivers share, and answers handlers through one-shot      *)
(* channels.  Every SETUP spawns a generation g of tasks, of which three   *)
(* interact with the player: ServerReceiver and ControlReceiver feed it    *)
(* packets, ControlSender carries its requests for missing ones.  A task   *)
(* learns of the end of its session when the broadcast sender the player   *)
(* holds in _notify_shutdown is dropped or replaced.                       *)
(*                                                                         *)
(* Abstracted: what a buffer holds (module Stream), what a request says    *)
(* beyond the fields of Request, datagrams that a receiver ignores, and    *)
(* the two timing tasks, which never talk to the player.                   *)
(***************************************************************************)
EXTENDS Naturals, Sequences, FiniteSets

CONSTANTS
    Conns,        \* RTSP connections
    Keys,         \* AES key and IV pairs an ANNOUNCE may carry
    NoKey,        \* an ANNOUNCE without usable encryption attributes
    BadKeys,      \* pairs whose key is not 16 bytes long
    Requests,     \* the requests connections make
    Polite,       \* do clients follow ANNOUNCE, SETUP, RECORD, ..., TEARDOWN?
    Faults,       \* may sockets fail, and packets be undecodable?
    PlayerCap,    \* capacity of the player's channel, 4 in server.rs:20
    ControlCap,   \* capacity of the ControlSender's channel, 4 in mod.rs:211
    MaxSetups,    \* bound: SETUPs, and so task generations
    MaxRequests,  \* bound: requests of one connection
    MaxAudio      \* bound: audio packets sent in all

Ops == {"Announce", "Setup", "Record", "Teardown",
        "SetParameter", "GetParameter", "Flush"}

\* What the player reads of a request: the key and whether the fmtp line
\* configures a decoder (ANNOUNCE), the volume (SET_PARAMETER).
Payloads == [op : Ops, key : Keys \cup {NoKey}, fmtp : BOOLEAN, volume : Nat]

Request(op) == [op |-> op, key |-> NoKey, fmtp |-> FALSE, volume |-> 0]

Gens  == 1 .. MaxSetups
Tasks == Gens \X {"server", "control"}     \* ServerReceiver, ControlReceiver

ASSUME PlayerAssumption ==
    /\ IsFiniteSet(Conns)
    /\ NoKey \notin Keys
    /\ BadKeys \subseteq Keys
    /\ Requests \subseteq Payloads
    /\ Polite \in BOOLEAN
    /\ Faults \in BOOLEAN
    /\ PlayerCap \in Nat \ {0}
    /\ ControlCap \in Nat \ {0}
    /\ MaxSetups \in Nat
    /\ MaxRequests \in Nat
    /\ MaxAudio \in Nat

VARIABLES
    status,           \* running, or how Player::run ended
    awaiting,         \* run waits in control_tx.send and holds the buffer's Mutex
    encryption, cipher, alac, airplay_volume, notify_shutdown,
    frame_buffer,     \* the buffer of the latest RECORD, 0 for None
    sink,             \* the buffers appended to the rodio sink
    control_tx,       \* the generation whose ControlSender is fed, 0 for None
    setups,           \* generations spawned so far
    teardowns,        \* TEARDOWNs handled (history)
    queue             \* the channel from player_tx to player_rx

VARIABLES
    handler,          \* idle, sending, waiting or closed
    command,          \* the request a handler sends or waits for
    resp,             \* what its one-shot channel holds: <<>> or <<value>>
    made,             \* requests made so far
    phase, announced  \* the client's view of its session, and its key

VARIABLES
    receiver,         \* unborn, recv, sending or done
    held,             \* the packet a receiver has read, named by its key
    control_sender,   \* unborn, recv, sending or done
    missing,          \* requests queued for a ControlSender, named by the key
    asking,           \* the request a ControlSender has taken
    socket,           \* packets waiting in a receiver's socket
    sent              \* audio packets sent in all

sessionVars == <<encryption, cipher, alac, airplay_volume, frame_buffer, sink, setups, teardowns>>
playerVars  == <<status, awaiting, notify_shutdown, control_tx, queue, sessionVars>>
handlerVars == <<handler, command, resp, made, phase, announced>>
taskVars    == <<receiver, held, control_sender, missing, asking, socket, sent>>
vars        == <<playerVars, handlerVars, taskVars>>

Init ==
    /\ status = "running"
    /\ awaiting = FALSE
    /\ encryption = NoKey
    /\ cipher = NoKey
    /\ alac = FALSE
    /\ airplay_volume = 0
    /\ notify_shutdown = 0
    /\ frame_buffer = 0
    /\ sink = <<>>
    /\ control_tx = 0
    /\ setups = 0
    /\ teardowns = 0
    /\ queue = <<>>
    /\ handler = [c \in Conns |-> "idle"]
    /\ command = [c \in Conns |-> Request("GetParameter")]
    /\ resp = [c \in Conns |-> <<>>]
    /\ made = [c \in Conns |-> 0]
    /\ phase = [c \in Conns |-> "new"]
    /\ announced = [c \in Conns |-> NoKey]
    /\ receiver = [t \in Tasks |-> "unborn"]
    /\ held = [t \in Tasks |-> NoKey]
    /\ control_sender = [g \in Gens |-> "unborn"]
    /\ missing = [g \in Gens |-> <<>>]
    /\ asking = [g \in Gens |-> NoKey]
    /\ socket = [t \in Tasks |-> <<>>]
    /\ sent = 0

-----------------------------------------------------------------------------
\* A panic in Player::run ends the process: nothing moves afterwards.
Panicked == status \in {"todo", "undecodable", "bad key"}

(***************************************************************************)
(* RTSP handlers (rtsp/handler.rs) and their clients.  execute sends one   *)
(* command and waits for its answer before it reads the next request.      *)
(* Requests that send no command (OPTIONS, SETUP without ports, RECORD     *)
(* without RTP-Info) leave the player alone and are left out; each volume  *)
(* line of a SET_PARAMETER counts as a request here.                       *)
(***************************************************************************)
Follows == [new       |-> {"Announce"},
            announced |-> {"Setup"},
            ready     |-> {"Record"},
            recording |-> {"Flush", "SetParameter", "GetParameter", "Teardown"}]

PhaseAfter(c) ==
    CASE command[c].op = "Announce" -> "announced"
      [] command[c].op = "Setup"    -> "ready"
      [] command[c].op = "Record"   -> "recording"
      [] command[c].op = "Teardown" -> "new"
      [] OTHER                      -> phase[c]

SetupsAsked ==
    setups + Cardinality({ c \in Conns : /\ command[c].op = "Setup"
                                         /\ handler[c] \in {"sending", "waiting"}
                                         /\ resp[c] = <<>> })

\* A request is read and turned into a command.
Ask(c, p) ==
    /\ ~Panicked
    /\ handler[c] = "idle"
    /\ made[c] < MaxRequests
    /\ Polite => p.op \in Follows[phase[c]]
    /\ p.op = "Setup" => SetupsAsked < MaxSetups
    /\ handler' = [handler EXCEPT ![c] = "sending"]
    /\ command' = [command EXCEPT ![c] = p]
    /\ made' = [made EXCEPT ![c] = @ + 1]
    /\ announced' = [announced EXCEPT ![c] = IF p.op = "Announce" THEN p.key ELSE @]
    /\ UNCHANGED <<playerVars, resp, phase, taskVars>>

\* player_tx.send(..).await completes when the channel has room.
SendUnbounded(c) ==     \* mutant: an unbounded channel
    /\ handler[c] = "sending"
    /\ status = "running"
    /\ queue' = Append(queue, [from |-> c, put |-> FALSE, key |-> NoKey])
    /\ handler' = [handler EXCEPT ![c] = "waiting"]
    /\ UNCHANGED <<status, awaiting, notify_shutdown, control_tx, sessionVars,
                   command, resp, made, phase, announced, taskVars>>

SendTwice(c) ==     \* mutant: the command is sent again
    /\ handler[c] = "sending"
    /\ status = "running"
    /\ Len(queue) < PlayerCap
    /\ queue' = queue \o [i \in 1 .. 2 |-> [from |-> c, put |-> FALSE, key |-> NoKey]]
    /\ handler' = [handler EXCEPT ![c] = "waiting"]
    /\ UNCHANGED <<status, awaiting, notify_shutdown, control_tx, sessionVars,
                   command, resp, made, phase, announced, taskVars>>

Send(c) ==
    /\ handler[c] = "sending"
    /\ status = "running"
    /\ Len(queue) < PlayerCap
    /\ queue' = Append(queue, [from |-> c, put |-> FALSE, key |-> NoKey])
    /\ handler' = [handler EXCEPT ![c] = "waiting"]
    /\ UNCHANGED <<status, awaiting, notify_shutdown, control_tx, sessionVars,
                   command, resp, made, phase, announced, taskVars>>

\* rx.await? has its answer and the response is written.
Answered(c) ==
    /\ ~Panicked
    /\ handler[c] = "waiting"
    /\ resp[c] # <<>>
    /\ handler' = [handler EXCEPT ![c] = "idle"]
    /\ resp' = [resp EXCEPT ![c] = <<>>]
    /\ phase' = [phase EXCEPT ![c] = PhaseAfter(c)]
    /\ UNCHANGED <<playerVars, command, made, announced, taskVars>>

\* The player is gone: send or rx.await fails and the handler returns.
HandlerFailsToSend(c) ==     \* mutant: rx.await does not see the sender go
    /\ ~Panicked
    /\ status # "running"
    /\ handler[c] = "sending"
    /\ handler' = [handler EXCEPT ![c] = "closed"]
    /\ UNCHANGED <<playerVars, command, resp, made, phase, announced, taskVars>>

HandlerFails(c) ==
    /\ ~Panicked
    /\ status # "running"
    /\ \/ handler[c] = "sending"
       \/ handler[c] = "waiting" /\ resp[c] = <<>>
    /\ handler' = [handler EXCEPT ![c] = "closed"]
    /\ UNCHANGED <<playerVars, command, resp, made, phase, announced, taskVars>>

\* Between requests the peer disconnects, or the shutdown signal arrives.
CloseByPeer(c) ==     \* mutant: the read does not race the shutdown signal
    /\ ~Panicked
    /\ handler[c] = "idle"
    /\ status = "running"
    /\ handler' = [handler EXCEPT ![c] = "closed"]
    /\ UNCHANGED <<playerVars, command, resp, made, phase, announced, taskVars>>

Close(c) ==
    /\ ~Panicked
    /\ handler[c] = "idle"
    /\ handler' = [handler EXCEPT ![c] = "closed"]
    /\ UNCHANGED <<playerVars, command, resp, made, phase, announced, taskVars>>

Handler(c) ==
    \/ \E p \in Requests : Ask(c, p)
    \/ Send(c)
    \/ Answered(c)
    \/ HandlerFails(c)
    \/ Close(c)

-----------------------------------------------------------------------------
(***************************************************************************)
(* Player::run: one arm of the match per action.                           *)
(***************************************************************************)
Recv == /\ status = "running"
        /\ ~awaiting
        /\ queue # <<>>

Taken(op) ==
    /\ Recv
    /\ ~Head(queue).put
    /\ command[Head(queue).from].op = op
    /\ queue' = Tail(queue)

\* resp.send(..)
Answer(value) == resp' = [resp EXCEPT ![Head(queue).from] = <<value>>]

\* run returns, or is dropped: its locals and the channel go with it.
Stop(how) ==
    /\ status' = how
    /\ awaiting' = FALSE
    /\ notify_shutdown' = 0
    /\ control_tx' = 0
    /\ queue' = <<>>

\* run panics inside server::run's select, which ends the process.
Panic(how) ==
    /\ Recv
    /\ status' = how
    /\ queue' = Tail(queue)
    /\ UNCHANGED <<awaiting, notify_shutdown, control_tx, sessionVars, handlerVars, taskVars>>

othersOfAnswer == <<status, awaiting, handler, command, made, phase, announced>>

AnnounceKeepsCipher ==     \* mutant: a cipher that exists is kept
    /\ Taken("Announce")
    /\ LET key == command[Head(queue).from].key
       IN  /\ key \notin BadKeys
           /\ encryption' = key
           /\ cipher' = IF cipher = NoKey THEN key ELSE cipher
           /\ alac' = command[Head(queue).from].fmtp
    /\ Answer(0)
    /\ UNCHANGED <<airplay_volume, frame_buffer, sink, setups, teardowns,
                   notify_shutdown, control_tx, othersOfAnswer, taskVars>>

Announce ==
    /\ Taken("Announce")
    /\ LET key == command[Head(queue).from].key
       IN  /\ key \notin BadKeys
           /\ encryption' = key
           /\ cipher' = IF key # NoKey THEN key ELSE cipher
           /\ alac' = command[Head(queue).from].fmtp
    /\ Answer(0)
    /\ UNCHANGED <<airplay_volume, frame_buffer, sink, setups, teardowns,
                   notify_shutdown, control_tx, othersOfAnswer, taskVars>>

\* GenericArray::from_slice panics on a key of the wrong length.
AnnouncePanics ==
    /\ Recv
    /\ ~Head(queue).put
    /\ command[Head(queue).from].op = "Announce"
    /\ command[Head(queue).from].key \in BadKeys
    /\ Panic("bad key")

SetupWithoutSender ==     \* mutant: ControlSender is not spawned
    /\ Taken("Setup")
    /\ LET g == setups + 1
       IN  /\ setups' = g
           /\ notify_shutdown' = g
           /\ control_tx' = g
           /\ receiver' = [t \in Tasks |-> IF t[1] = g THEN "recv" ELSE receiver[t]]
    /\ Answer(0)
    /\ UNCHANGED <<encryption, cipher, alac, airplay_volume, frame_buffer, sink, teardowns,
                   othersOfAnswer, held, control_sender, missing, asking, socket, sent>>

Setup ==
    /\ Taken("Setup")
    /\ LET g == setups + 1
       IN  /\ setups' = g
           /\ notify_shutdown' = g
           /\ control_tx' = g
           /\ receiver' = [t \in Tasks |-> IF t[1] = g THEN "recv" ELSE receiver[t]]
           /\ control_sender' = [control_sender EXCEPT ![g] = "recv"]
    /\ Answer(0)
    /\ UNCHANGED <<encryption, cipher, alac, airplay_volume, frame_buffer, sink, teardowns,
                   othersOfAnswer, held, missing, asking, socket, sent>>

\* One of the `?` of the Setup arm: a socket cannot be bound or connected.
SetupFails ==
    /\ Faults
    /\ Recv
    /\ ~Head(queue).put
    /\ command[Head(queue).from].op = "Setup"
    /\ Stop("failed")
    /\ UNCHANGED <<sessionVars, handlerVars, taskVars>>

Record ==
    /\ Taken("Record")
    /\ frame_buffer' = Len(sink) + 1
    /\ sink' = Append(sink, Len(sink) + 1)
    /\ Answer(0)
    /\ UNCHANGED <<encryption, cipher, alac, airplay_volume, setups, teardowns,
                   notify_shutdown, control_tx, othersOfAnswer, taskVars>>

TeardownSilent ==     \* mutant: the answer is forgotten
    /\ Taken("Teardown")
    /\ notify_shutdown' = 0
    /\ encryption' = NoKey
    /\ cipher' = NoKey
    /\ alac' = FALSE
    /\ teardowns' = teardowns + 1
    /\ UNCHANGED <<airplay_volume, frame_buffer, sink, setups, control_tx, othersOfAnswer,
                   resp, taskVars>>

Teardown ==
    /\ Taken("Teardown")
    /\ notify_shutdown' = 0
    /\ encryption' = NoKey
    /\ cipher' = NoKey
    /\ alac' = FALSE
    /\ teardowns' = teardowns + 1
    /\ Answer(0)
    /\ UNCHANGED <<airplay_volume, frame_buffer, sink, setups, control_tx, othersOfAnswer, taskVars>>

SetParameter ==
    /\ Taken("SetParameter")
    /\ airplay_volume' = command[Head(queue).from].volume
    /\ Answer(0)
    /\ UNCHANGED <<encryption, cipher, alac, frame_buffer, sink, setups, teardowns,
                   notify_shutdown, control_tx, othersOfAnswer, taskVars>>

GetParameter ==
    /\ Taken("GetParameter")
    /\ Answer(airplay_volume)
    /\ UNCHANGED <<sessionVars, notify_shutdown, control_tx, othersOfAnswer, taskVars>>

\* The buffer's own part of a flush is Stream's Flush.
FlushBuffer ==
    /\ Taken("Flush")
    /\ Answer(0)
    /\ UNCHANGED <<sessionVars, notify_shutdown, control_tx, othersOfAnswer, taskVars>>

(***************************************************************************)
(* Command::PutPacket.  The packet reaches the buffer if there is one; if  *)
(* that reveals a gap, run goes on to send the request while it still      *)
(* holds the lock.  Without keys or decoder the arm is todo!(); a packet   *)
(* sent under other keys need not decode, and decode errors are unwrapped. *)
(***************************************************************************)
PutPacketTakes ==     \* mutant: what encryption.take() took is not put back
    /\ Recv
    /\ Head(queue).put
    /\ encryption # NoKey /\ cipher # NoKey /\ alac
    /\ queue' = Tail(queue)
    /\ \/ awaiting' = FALSE
       \/ awaiting' = (frame_buffer # 0 /\ control_tx # 0)
    /\ encryption' = NoKey
    /\ cipher' = NoKey
    /\ UNCHANGED <<status, notify_shutdown, control_tx, alac, airplay_volume, frame_buffer,
                   sink, setups, teardowns, handlerVars, taskVars>>

PutPacket ==
    /\ Recv
    /\ Head(queue).put
    /\ encryption # NoKey /\ cipher # NoKey /\ alac
    /\ queue' = Tail(queue)
    /\ \/ awaiting' = FALSE
       \/ awaiting' = (frame_buffer # 0 /\ control_tx # 0)
    /\ UNCHANGED <<status, notify_shutdown, control_tx, sessionVars, handlerVars, taskVars>>

PutPacketTodo ==
    /\ Recv
    /\ Head(queue).put
    /\ encryption = NoKey \/ cipher = NoKey \/ ~alac
    /\ Panic("todo")

PutPacketUndecodable ==
    /\ Recv
    /\ Head(queue).put
    /\ encryption # NoKey /\ cipher # NoKey
    /\ Faults \/ Head(queue).key # cipher
    /\ Panic("undecodable")

\* control_tx.send(..).await? completes, or fails on a closed channel.
MissingSent ==
    /\ status = "running"
    /\ awaiting
    /\ control_sender[control_tx] # "done"
    /\ Len(missing[control_tx]) < ControlCap
    /\ missing' = [missing EXCEPT ![control_tx] = Append(@, cipher)]
    /\ awaiting' = FALSE
    /\ UNCHANGED <<status, notify_shutdown, control_tx, queue, sessionVars, handlerVars,
                   receiver, held, control_sender, asking, socket, sent>>

MissingFails ==
    /\ status = "running"
    /\ awaiting
    /\ control_sender[control_tx] = "done"
    /\ Stop("failed")
    /\ UNCHANGED <<sessionVars, handlerVars, taskVars>>

\* Ctrl-C, or the end of the listener or of mdns: server::run's select drops
\* the player at whatever await it is.
ServerStops ==
    /\ status = "running"
    /\ Stop("shutdown")
    /\ UNCHANGED <<sessionVars, handlerVars, taskVars>>

PlayerStep ==
    \/ Announce \/ AnnouncePanics
    \/ Setup \/ SetupFails
    \/ Record \/ Teardown \/ SetParameter \/ GetParameter \/ FlushBuffer
    \/ PutPacket \/ PutPacketTodo \/ PutPacketUndecodable
    \/ MissingSent \/ MissingFails

-----------------------------------------------------------------------------
(***************************************************************************)
(* The UDP tasks of a generation.  Each loops over a select of its input   *)
(* and the shutdown signal; what it does with the input is outside the     *)
(* select.                                                                 *)
(***************************************************************************)
SignalledTo(g) == notify_shutdown # g

\* A client sends audio to the server socket of a session.
SendAudio(c, g) ==
    /\ ~Panicked
    /\ sent < MaxAudio
    /\ receiver[<<g, "server">>] # "unborn"
    /\ Polite => phase[c] = "recording" /\ handler[c] = "idle" /\ g = setups
    /\ socket' = [socket EXCEPT ![<<g, "server">>] = Append(@, announced[c])]
    /\ sent' = sent + 1
    /\ UNCHANGED <<playerVars, handlerVars, receiver, held, control_sender, missing, asking>>

\* recv_from yields a packet for the player.
Receive(t) ==
    /\ ~Panicked
    /\ receiver[t] = "recv"
    /\ socket[t] # <<>>
    /\ held' = [held EXCEPT ![t] = Head(socket[t])]
    /\ socket' = [socket EXCEPT ![t] = Tail(@)]
    /\ receiver' = [receiver EXCEPT ![t] = "sending"]
    /\ UNCHANGED <<playerVars, handlerVars, control_sender, missing, asking, sent>>

\* player_tx.send(PutPacket).await completes.
PassOn(t) ==
    /\ receiver[t] = "sending"
    /\ status = "running"
    /\ Len(queue) < PlayerCap
    /\ queue' = Append(queue, [from |-> t, put |-> TRUE, key |-> held[t]])
    /\ held' = [held EXCEPT ![t] = NoKey]
    /\ receiver' = [receiver EXCEPT ![t] = "recv"]
    /\ UNCHANGED <<status, awaiting, notify_shutdown, control_tx, sessionVars, handlerVars,
                   control_sender, missing, asking, socket, sent>>

\* The task returns on the signal, or because the player is gone when it
\* passes a packet on.
ReceiverIgnoresSignal(t) ==     \* mutant: recv_from does not race the signal
    /\ ~Panicked
    /\ receiver[t] = "sending" /\ status # "running"
    /\ receiver' = [receiver EXCEPT ![t] = "done"]
    /\ held' = [held EXCEPT ![t] = NoKey]
    /\ UNCHANGED <<playerVars, handlerVars, control_sender, missing, asking, socket, sent>>

ReceiverEnds(t) ==
    /\ ~Panicked
    /\ \/ receiver[t] = "recv" /\ SignalledTo(t[1])
       \/ receiver[t] = "sending" /\ status # "running"
    /\ receiver' = [receiver EXCEPT ![t] = "done"]
    /\ held' = [held EXCEPT ![t] = NoKey]
    /\ UNCHANGED <<playerVars, handlerVars, control_sender, missing, asking, socket, sent>>

\* It also returns on an empty datagram or a socket error.
ReceiverFails(t) ==
    /\ ~Panicked
    /\ Faults
    /\ receiver[t] = "recv"
    /\ receiver' = [receiver EXCEPT ![t] = "done"]
    /\ UNCHANGED <<playerVars, handlerVars, held, control_sender, missing, asking, socket, sent>>

\* ControlSender takes a request out of its channel; the datagram is sent,
\* which may bring the packet back through the control socket or be lost.
TakeMissingLocked(g) ==     \* mutant: ControlSender needs the buffer's Mutex
    /\ ~Panicked
    /\ ~awaiting
    /\ control_sender[g] = "recv"
    /\ missing[g] # <<>>
    /\ control_sender' = [control_sender EXCEPT ![g] = "sending"]
    /\ asking' = [asking EXCEPT ![g] = Head(missing[g])]
    /\ missing' = [missing EXCEPT ![g] = Tail(@)]
    /\ UNCHANGED <<playerVars, handlerVars, receiver, held, socket, sent>>

TakeMissing(g) ==
    /\ ~Panicked
    /\ control_sender[g] = "recv"
    /\ missing[g] # <<>>
    /\ control_sender' = [control_sender EXCEPT ![g] = "sending"]
    /\ asking' = [asking EXCEPT ![g] = Head(missing[g])]
    /\ missing' = [missing EXCEPT ![g] = Tail(@)]
    /\ UNCHANGED <<playerVars, handlerVars, receiver, held, socket, sent>>

SendMissing(g) ==
    /\ ~Panicked
    /\ control_sender[g] = "sending"
    /\ control_sender' = [control_sender EXCEPT ![g] = "recv"]
    /\ asking' = [asking EXCEPT ![g] = NoKey]
    /\ \/ UNCHANGED socket
       \/ /\ socket[<<g, "control">>] = <<>>
          /\ socket' = [socket EXCEPT ![<<g, "control">>] = Append(@, asking[g])]
    /\ UNCHANGED <<playerVars, handlerVars, receiver, held, missing, sent>>

\* The task returns on the signal, and its end of the channel closes.
ControlSenderEnds(g) ==
    /\ ~Panicked
    /\ control_sender[g] = "recv"
    /\ SignalledTo(g)
    /\ control_sender' = [control_sender EXCEPT ![g] = "done"]
    /\ missing' = [missing EXCEPT ![g] = <<>>]
    /\ UNCHANGED <<playerVars, handlerVars, receiver, held, asking, socket, sent>>

Task ==
    \/ \E t \in Tasks : Receive(t) \/ PassOn(t) \/ ReceiverEnds(t) \/ ReceiverFails(t)
    \/ \E g \in Gens : TakeMissing(g) \/ SendMissing(g) \/ ControlSenderEnds(g)

-----------------------------------------------------------------------------
Next ==
    \/ \E c \in Conns : Handler(c)
    \/ PlayerStep
    \/ ServerStops
    \/ \E c \in Conns, g \in Gens : SendAudio(c, g)
    \/ Task

Spec == Init /\ [][Next]_vars

(***************************************************************************)
(* Fairness.  tokio polls every task that is ready: the player, a handler  *)
(* that has a request, and the tasks.  Its mpsc channels serve waiting     *)
(* senders first come first, and select! polls its branches in random      *)
(* order, so neither a sender nor the shutdown branch is passed over for   *)
(* ever even when packets keep arriving.  Clients and sockets owe nothing. *)
(***************************************************************************)
Fairness ==
    /\ WF_vars(PlayerStep)
    /\ \A c \in Conns :
          /\ SF_vars(Send(c))
          /\ WF_vars(Answered(c) \/ HandlerFails(c))
          /\ WF_vars(status # "running" /\ Close(c))
    /\ \A t \in Tasks :
          /\ SF_vars(PassOn(t))
          /\ SF_vars(ReceiverEnds(t))
    /\ \A g \in Gens :
          /\ WF_vars(TakeMissing(g) \/ SendMissing(g))
          /\ SF_vars(ControlSenderEnds(g))

FairSpec == Spec /\ Fairness

-----------------------------------------------------------------------------
Command == [from : Conns, put : {FALSE}, key : {NoKey}]
PutPacketCommand == [from : Tasks, put : {TRUE}, key : Keys \cup {NoKey}]

\* Type invariant; both channels stay within their capacity.
TypeOK ==
    /\ status \in {"running", "shutdown", "failed", "todo", "undecodable", "bad key"}
    /\ awaiting \in BOOLEAN
    /\ encryption \in Keys \cup {NoKey}
    /\ cipher \in Keys \cup {NoKey}
    /\ alac \in BOOLEAN
    /\ airplay_volume \in Nat
    /\ notify_shutdown \in 0 .. setups
    /\ control_tx \in 0 .. setups
    /\ setups \in 0 .. MaxSetups
    /\ teardowns \in Nat
    /\ frame_buffer \in Nat
    /\ sink \in Seq(Nat)
    /\ queue \in Seq(Command \cup PutPacketCommand)
    /\ Len(queue) <= PlayerCap
    /\ handler \in [Conns -> {"idle", "sending", "waiting", "closed"}]
    /\ command \in [Conns -> Payloads]
    /\ resp \in [Conns -> Seq(Nat)]
    /\ made \in [Conns -> Nat]
    /\ phase \in [Conns -> {"new", "announced", "ready", "recording"}]
    /\ announced \in [Conns -> Keys \cup {NoKey}]
    /\ receiver \in [Tasks -> {"unborn", "recv", "sending", "done"}]
    /\ held \in [Tasks -> Keys \cup {NoKey}]
    /\ control_sender \in [Gens -> {"unborn", "recv", "sending", "done"}]
    /\ missing \in [Gens -> Seq(Keys \cup {NoKey})]
    /\ \A g \in Gens : Len(missing[g]) <= ControlCap
    /\ asking \in [Gens -> Keys \cup {NoKey}]
    /\ socket \in [Tasks -> Seq(Keys \cup {NoKey})]
    /\ sent \in Nat

\* The cipher is the one of the current keys: although Announce and Teardown
\* set the two variables apart, and a session may be announced over another
\* (mod.rs:170-174, 285-286, 355-356), no packet is decrypted under the key
\* of one session with the initialisation vector of another.
CipherMatches == encryption # NoKey => cipher = encryption

\* One answer per request: while the player runs, a handler that waits has
\* either its command in the channel, once, or its answer, and no other
\* handler has either (mod.rs:180, 267, 281, 289, 293, 296, 306).
Queued(c) == { i \in 1 .. Len(queue) : ~queue[i].put /\ queue[i].from = c }
OneAnswerEach ==
    status = "running" =>
        \A c \in Conns :
            Cardinality(Queued(c)) + Len(resp[c]) = IF handler[c] = "waiting" THEN 1 ELSE 0

\* A client that follows the protocol, alone, is served until its first
\* TEARDOWN: neither a packet that overtakes a request nor a closed channel
\* ends the player before (mod.rs:347, 352, 358), only a socket that SETUP
\* cannot open or a packet that does not decode.
FirstSessionSound ==
    teardowns = 0 => status # "todo" /\ (status = "failed" => setups = 0)

\* Nobody waits in a circle: a handler that waits for the player has room in the
\* channel, or its answer, or there is a command for the player to take; and a
\* player that waits for the control channel, with the buffer locked, waits for
\* a ControlSender that takes requests without the player's help, or has gone,
\* which ends the wait (mod.rs:337-347, control_sender.rs:23-54).
ControlMoves(g) ==
    \/ Len(missing[g]) < ControlCap
    \/ control_sender[g] = "recv" /\ missing[g] # <<>>
    \/ control_sender[g] \in {"sending", "done"}
NoCircularWait ==
    status = "running" =>
        /\ \A c \in Conns :
              \/ handler[c] \notin {"sending", "waiting"}
              \/ handler[c] = "sending" /\ Len(queue) < PlayerCap
              \/ resp[c] # <<>> \/ queue # <<>>
        /\ awaiting => control_tx \in Gens /\ ControlMoves(control_tx)

\* mod.rs:125-128: the player "processes requests [...] until the peer
\* disconnects **or** a shutdown notification is received".
StopsOnlyOnShutdown == status \in {"running", "shutdown"}

(***************************************************************************)
(* To its handlers the player is Service: the channel, the one-shot        *)
(* channels, the tasks and the ways run can end are not seen.              *)
(***************************************************************************)
Abstract == INSTANCE Service WITH
    Commands <- Requests,
    up       <- status = "running",
    open     <- [c \in Conns |-> handler[c] # "closed"],
    request  <- [c \in Conns |-> IF handler[c] \in {"sending", "waiting"}
                                 THEN <<command[c]>> ELSE <<>>],
    answer   <- resp,
    volume   <- airplay_volume

\* Each command takes effect once, in one step between the handler's send and
\* its rx.await, whatever the other connections and the tasks do in between,
\* and GET_PARAMETER answers the volume last set (mod.rs:167-306).
ServesAtomically == Abstract!Spec

\* No request is left waiting: it is answered, or fails because the player
\* has gone, even with a full channel and the player itself waiting to send.
RequestsEnd ==
    \A c \in Conns :
        handler[c] \in {"sending", "waiting"} ~> handler[c] \in {"idle", "closed"} \/ Panicked

\* The buffer's Mutex, held across control_tx.send(..).await (mod.rs:337-347),
\* is always released again.
LockReleased == awaiting ~> ~awaiting

\* A session that is torn down or replaced ends: each of its tasks returns.
TaskDone(g) == /\ \A t \in Tasks : t[1] = g => receiver[t] = "done"
               /\ control_sender[g] = "done"
SessionsEnd ==
    \A g \in Gens : (g <= setups /\ SignalledTo(g)) ~> (TaskDone(g) \/ Panicked)

\* Shutdown completes: once the player has stopped every handler returns,
\* which is what server::run waits for (server.rs:98-102).
ShutdownCompletes ==
    \A c \in Conns :
        status \in {"shutdown", "failed"} ~> handler[c] = "closed" \/ Panicked
=============================================================================
