-------------------------------- MODULE Server --------------------------------
(***************************************************************************)
(* The life of the process: server::run with its select over the listener, *)
(* mdns, the player and Ctrl-C, the accept loop of rtsp/listener.rs, the   *)
(* handler tasks it spawns, and the way out.  Exit is negotiated by        *)
(* dropping things: the broadcast sender, so that handlers see the signal, *)
(* and every clone of shutdown_complete_tx, so that recv() returns None.   *)
(*                                                                         *)
(* Abstracted: what a request does (Handler, Player); it is read, executed *)
(* and answered here.  What mdns advertises.                               *)
(***************************************************************************)
EXTENDS Naturals

CONSTANT Conns    \* the connections made to the server

ASSUME ServerAssumption == Conns \cap {"listener", "mdns", "player"} = {}

VARIABLES
    server,       \* select, waiting (for handlers), exited or panicked
    reason,       \* why the select ended (history)
    mdns,         \* starting or registered
    listener,     \* accepting or sleeping
    backoff,      \* of the accept() under way
    failures,     \* accepts that failed in it (history)
    slept,        \* seconds it has slept (history)
    peer,         \* away, queued (in the kernel's backlog), up, closed or reset
    handler,      \* none, reading, executing, writing or returned
    senders       \* who holds a clone of shutdown_complete_tx

listenerVars == <<listener, backoff, failures, slept>>
vars         == <<server, reason, mdns, listenerVars, peer, handler, senders>>

Owners == {"listener", "mdns", "player"}

Init ==
    /\ server = "select"
    /\ reason = "none"
    /\ mdns = "starting"
    /\ listener = "accepting"
    /\ backoff = 1
    /\ failures = 0
    /\ slept = 0
    /\ peer = [c \in Conns |-> "away"]
    /\ handler = [c \in Conns |-> "none"]
    /\ senders = Owners

Alive == server \in {"select", "waiting"}

-----------------------------------------------------------------------------
\* A branch of the select completes: the other futures are dropped where they
\* are, then player, mdns, notify_shutdown and the listener's sender.
EndSelectKeepsSender(why) ==     \* mutant: `server` and its sender live on
    /\ server = "select"
    /\ server' = "waiting"
    /\ reason' = why
    /\ senders' = senders \ {"mdns", "player"}

EndSelect(why) ==
    /\ server = "select"
    /\ server' = "waiting"
    /\ reason' = why
    /\ senders' = senders \ Owners

\* Ctrl-C, or player.run returns.
Stops(why) ==
    /\ EndSelect(why)
    /\ UNCHANGED <<mdns, listenerVars, peer, handler>>

\* mdns.run cannot create its responder.
MdnsFails ==
    /\ mdns = "starting"
    /\ EndSelect("mdns")
    /\ UNCHANGED <<mdns, listenerVars, peer, handler>>

\* The service is registered, and mdns.run waits for a signal that is only sent
\* when it has been dropped.
MdnsRegisters ==
    /\ server = "select"
    /\ mdns = "starting"
    /\ mdns' = "registered"
    /\ UNCHANGED <<server, reason, listenerVars, peer, handler, senders>>

\* player.run panics, and with it the main task.
PlayerPanics ==
    /\ server = "select"
    /\ server' = "panicked"
    /\ UNCHANGED <<reason, mdns, listenerVars, peer, handler, senders>>

\* shutdown_complete_rx.recv() returns None, and main returns.
Exit ==
    /\ server = "waiting"
    /\ senders = {}
    /\ server' = "exited"
    /\ UNCHANGED <<reason, mdns, listenerVars, peer, handler, senders>>

-----------------------------------------------------------------------------
(***************************************************************************)
(* Listener::run and accept.                                               *)
(***************************************************************************)
Accepting == server = "select" /\ listener = "accepting"

\* A handler is spawned with its clone of the sender, and accept() is called
\* afresh.
AcceptWithoutSender(c) ==     \* mutant: the handler has no _shutdown_complete
    /\ Accepting
    /\ peer[c] = "queued"
    /\ peer' = [peer EXCEPT ![c] = "up"]
    /\ handler' = [handler EXCEPT ![c] = "reading"]
    /\ backoff' = 1
    /\ failures' = 0
    /\ slept' = 0
    /\ UNCHANGED <<server, reason, mdns, listener, senders>>

AcceptKeepsBackoff(c) ==     \* mutant: the back off is not reset
    /\ Accepting
    /\ peer[c] = "queued"
    /\ peer' = [peer EXCEPT ![c] = "up"]
    /\ handler' = [handler EXCEPT ![c] = "reading"]
    /\ senders' = senders \cup {c}
    /\ failures' = 0
    /\ slept' = 0
    /\ UNCHANGED <<server, reason, mdns, listener, backoff>>

Accept(c) ==
    /\ Accepting
    /\ peer[c] = "queued"
    /\ peer' = [peer EXCEPT ![c] = "up"]
    /\ handler' = [handler EXCEPT ![c] = "reading"]
    /\ senders' = senders \cup {c}
    /\ backoff' = 1
    /\ failures' = 0
    /\ slept' = 0
    /\ UNCHANGED <<server, reason, mdns, listener>>

\* The peer has reset the connection while it was queued: accept() yields the
\* socket, but peer_addr() fails, and Connection::new(socket)? ends run.
AcceptReset(c) ==
    /\ Accepting
    /\ peer[c] = "reset"
    /\ handler[c] = "none"
    /\ EndSelect("connection")
    /\ UNCHANGED <<mdns, listenerVars, peer, handler>>

\* accept fails: sleep, or give up.
AcceptFailsLonger ==     \* mutant: the limit is one step further
    /\ Accepting
    /\ backoff <= 32
    /\ failures' = failures + 1
    /\ listener' = "sleeping"
    /\ UNCHANGED <<server, reason, mdns, backoff, slept, peer, handler, senders>>

AcceptFails ==
    /\ Accepting
    /\ backoff <= 16
    /\ failures' = failures + 1
    /\ listener' = "sleeping"
    /\ UNCHANGED <<server, reason, mdns, backoff, slept, peer, handler, senders>>

GiveUp ==
    /\ Accepting
    /\ backoff > 16
    /\ failures' = failures + 1
    /\ EndSelect("accept")
    /\ UNCHANGED <<mdns, listener, backoff, slept, peer, handler>>

WakeAfresh ==     \* mutant: the back off is declared inside the loop
    /\ server = "select"
    /\ listener = "sleeping"
    /\ slept' = 0
    /\ backoff' = 1
    /\ failures' = 0
    /\ listener' = "accepting"
    /\ UNCHANGED <<server, reason, mdns, peer, handler, senders>>

Wake ==
    /\ server = "select"
    /\ listener = "sleeping"
    /\ slept' = slept + backoff
    /\ backoff' = backoff * 2
    /\ listener' = "accepting"
    /\ UNCHANGED <<server, reason, mdns, failures, peer, handler, senders>>

-----------------------------------------------------------------------------
(***************************************************************************)
(* Handler tasks.  Only the read races the shutdown signal.                *)
(***************************************************************************)
StepKeepsSender(c, from, to) ==     \* mutant: the sender outlives the task
    /\ Alive
    /\ handler[c] = from
    /\ handler' = [handler EXCEPT ![c] = to]
    /\ UNCHANGED <<server, reason, mdns, listenerVars, peer, senders>>

Step(c, from, to) ==
    /\ Alive
    /\ handler[c] = from
    /\ handler' = [handler EXCEPT ![c] = to]
    /\ senders' = IF to = "returned" THEN senders \ {c} ELSE senders
    /\ UNCHANGED <<server, reason, mdns, listenerVars, peer>>

Read(c) == peer[c] = "up" /\ Step(c, "reading", "executing")

\* Also when the player is gone: some requests do not need it.
Executed(c) == Step(c, "executing", "writing")

\* An error, a panic, or the player is gone: the task ends, and drops what it
\* owns.
Fails(c) == Step(c, "executing", "returned")

Written(c) == peer[c] # "reset" /\ Step(c, "writing", "reading")

WriteFails(c) == peer[c] \in {"closed", "reset"} /\ Step(c, "writing", "returned")

ReadEnds(c) == peer[c] \in {"closed", "reset"} /\ Step(c, "reading", "returned")

Signalled(c) == server = "waiting" /\ Step(c, "reading", "returned")

-----------------------------------------------------------------------------
Connect(c) ==
    /\ Alive
    /\ peer[c] = "away"
    /\ peer' = [peer EXCEPT ![c] = "queued"]
    /\ UNCHANGED <<server, reason, mdns, listenerVars, handler, senders>>

\* The peer closes the connection, all it sent having been read, or resets it.
Leave(c, how) ==
    /\ Alive
    /\ \/ peer[c] = "up"
       \/ peer[c] = "queued" /\ how = "reset"
    /\ peer' = [peer EXCEPT ![c] = how]
    /\ UNCHANGED <<server, reason, mdns, listenerVars, handler, senders>>

Next ==
    \/ \E why \in {"ctrl_c", "player"} : Stops(why)
    \/ MdnsFails
    \/ MdnsRegisters
    \/ PlayerPanics
    \/ Exit
    \/ AcceptFails
    \/ GiveUp
    \/ Wake
    \/ \E c \in Conns :
          \/ Accept(c) \/ AcceptReset(c)
          \/ Read(c) \/ Executed(c) \/ Fails(c) \/ Written(c) \/ WriteFails(c)
          \/ ReadEnds(c) \/ Signalled(c)
          \/ Connect(c)
          \/ \E how \in {"closed", "reset"} : Leave(c, how)

(***************************************************************************)
(* Fairness of what the process itself does: it polls its tasks, an accept *)
(* with a connection in the queue returns one or fails, a sleep ends, the  *)
(* player answers or is gone.  The read and the signal race in a select!   *)
(* that polls them in random order, so the signal is not passed over for   *)
(* ever.                                                                   *)
(***************************************************************************)
TasksRun ==
    /\ WF_vars(Exit)
    /\ \A c \in Conns :
          WF_vars(peer[c] = "queued" /\ (Accept(c) \/ AcceptFails \/ GiveUp))
    /\ WF_vars(Wake)
    /\ \A c \in Conns :
          /\ WF_vars(Executed(c) \/ Fails(c))
          /\ WF_vars(WriteFails(c))
          /\ WF_vars(ReadEnds(c))
          /\ SF_vars(Signalled(c))

\* A peer reads the responses it is sent, so that a write completes.
PeersRead == \A c \in Conns : WF_vars(Written(c) \/ WriteFails(c))

Spec == Init /\ [][Next]_vars /\ TasksRun /\ PeersRead

-----------------------------------------------------------------------------
\* Type invariant.
TypeOK ==
    /\ server \in {"select", "waiting", "exited", "panicked"}
    /\ reason \in {"none", "ctrl_c", "mdns", "player", "accept", "connection"}
    /\ mdns \in {"starting", "registered"}
    /\ listener \in {"accepting", "sleeping"}
    /\ backoff \in {1, 2, 4, 8, 16, 32}
    /\ failures \in 0 .. 6
    /\ slept \in 0 .. 31
    /\ peer \in [Conns -> {"away", "queued", "up", "closed", "reset"}]
    /\ handler \in [Conns -> {"none", "reading", "executing", "writing", "returned"}]
    /\ senders \subseteq Owners \cup Conns

\* The handlers that have been spawned and have not returned.
Running == { c \in Conns : handler[c] \in {"reading", "executing", "writing"} }

\* Exactly the running parts hold a sender, wherever the tasks are and whatever
\* has ended: the three futures of the select and the handlers before the way
\* out, the handlers alone on it.  A clone too many and recv() never returns,
\* one too few and it returns too early; server.rs:98-100 counts on it ("the
\* only remaining `Sender` instances are held by connection handler tasks").
SendersExact ==
    /\ server = "select" => senders = Owners \cup Running
    /\ server \in {"waiting", "exited"} => senders = Running

\* The process exits only when every handler has returned: no request is cut
\* off, and no response left half written, by the exit (server.rs:98-102).
ExitsClean ==
    server = "exited" => \A c \in Conns : handler[c] \in {"none", "returned"}

\* The listener gives up only after six failures in a row and 31 seconds of
\* waiting; an accept in between starts the count anew (listener.rs:105-127).
\* The comment on accept promises another number: see GivesUpOnFourthTry.
GivesUpAfterSix == reason = "accept" => failures = 6 /\ slept = 31

\* Once the select has ended, whatever ended it, the process exits, if peers
\* read their responses (server.rs:78-104).
ExitCompletes == server = "waiting" ~> server = "exited"

\* A queued connection is accepted in the end, unless the peer leaves or the
\* server stops: a failing accept is retried or ends the server.
ConnectionsAccepted ==
    \A c \in Conns :
        peer[c] = "queued" ~> handler[c] # "none" \/ peer[c] = "reset" \/ server # "select"

\* listener.rs:103-104: "If accepting fails on the 4th try after waiting for 16
\* seconds, then this function returns with an error."
GivesUpOnFourthTry == reason = "accept" => failures = 4

\* server.rs:49-54: an error of the listener means that accepting "failed
\* multiple times", and "Errors encountered when handling individual
\* connections do not bubble up to this point."
OneConnectionIsHarmless == reason # "connection"
=============================================================================
