-------------------------------- MODULE Timing --------------------------------
(***************************************************************************)
(* The two timing tasks of one SETUP (player/timing_sender.rs,             *)
(* timing_receiver.rs): they share a connected UDP socket and the signal   *)
(* that ends the session, and nothing else.  One sends a request every     *)
(* three seconds, the other reads what comes back.                         *)
(*                                                                         *)
(* Abstracted: the contents of an answer, which is only logged.            *)
(***************************************************************************)
EXTENDS Naturals, Sequences

CONSTANT MaxQueued    \* bound: datagrams waiting in the socket

\* A 32 byte RTP packet of type 83, any other non-empty datagram, an empty one,
\* and an error of the socket, such as the peer's port being unreachable.
Inputs == {"answer", "other", "empty", "error"}

ASSUME TimingAssumption == MaxQueued \in Nat \ {0}

VARIABLES
    notify,           \* does the player hold the session's broadcast sender?
    timing_sender,    \* sleeping, sending or done
    timing_receiver,  \* recv or done
    socket            \* what recv_from will yield

timingVars == <<notify, timing_sender, timing_receiver, socket>>

TimingInit ==
    /\ notify = TRUE
    /\ timing_sender = "sleeping"
    /\ timing_receiver = "recv"
    /\ socket = <<>>

\* TEARDOWN, another SETUP, or the end of the player.
Drop ==
    /\ notify
    /\ notify' = FALSE
    /\ UNCHANGED <<timing_sender, timing_receiver, socket>>

\* The sleep is over.
Elapse ==
    /\ timing_sender = "sleeping"
    /\ timing_sender' = "sending"
    /\ UNCHANGED <<notify, timing_receiver, socket>>

\* socket.send(..).await, whatever becomes of it.
SendOrEnd ==     \* mutant: a send that fails ends the task
    /\ timing_sender = "sending"
    /\ timing_sender' \in {"sleeping", "done"}
    /\ UNCHANGED <<notify, timing_receiver, socket>>

Send ==
    /\ timing_sender = "sending"
    /\ timing_sender' = "sleeping"
    /\ UNCHANGED <<notify, timing_receiver, socket>>

SenderEnds ==
    /\ ~notify
    /\ timing_sender = "sleeping"
    /\ timing_sender' = "done"
    /\ UNCHANGED <<notify, timing_receiver, socket>>

\* An answer or anything else arrives, or is lost.  The socket goes with the
\* last of the tasks.
Arrive(input) ==
    /\ timing_sender # "done" \/ timing_receiver # "done"
    /\ Len(socket) < MaxQueued
    /\ socket' = Append(socket, input)
    /\ UNCHANGED <<notify, timing_sender, timing_receiver>>

\* A datagram is read, and logged or ignored.
Receive ==
    /\ timing_receiver = "recv"
    /\ socket # <<>>
    /\ Head(socket) \in {"answer", "other"}
    /\ socket' = Tail(socket)
    /\ UNCHANGED <<notify, timing_sender, timing_receiver>>

ReceiverFails ==
    /\ timing_receiver = "recv"
    /\ socket # <<>>
    /\ Head(socket) \in {"empty", "error"}
    /\ socket' = Tail(socket)
    /\ timing_receiver' = "done"
    /\ UNCHANGED <<notify, timing_sender>>

ReceiverEndsWhenQuiet ==     \* mutant: the signal is looked at when nothing arrives
    /\ ~notify
    /\ timing_receiver = "recv"
    /\ socket = <<>>
    /\ timing_receiver' = "done"
    /\ UNCHANGED <<notify, timing_sender, socket>>

ReceiverEnds ==
    /\ ~notify
    /\ timing_receiver = "recv"
    /\ timing_receiver' = "done"
    /\ UNCHANGED <<notify, timing_sender, socket>>

TimingNext ==
    \/ Drop \/ Elapse \/ Send \/ SenderEnds
    \/ \E input \in Inputs : Arrive(input)
    \/ Receive \/ ReceiverFails \/ ReceiverEnds

\* The tasks are polled and sleeps end.  select! polls its branches in random
\* order: neither the sleep nor a busy socket hides the signal for ever.
TimingFairness ==
    /\ WF_timingVars(Elapse) /\ WF_timingVars(Send) /\ WF_timingVars(Receive \/ ReceiverFails)
    /\ SF_timingVars(SenderEnds) /\ SF_timingVars(ReceiverEnds)

\* Both tasks return once the session is over, however busy the socket is: no
\* SETUP leaves a task behind (timing_sender.rs:29-33, timing_receiver.rs:36-40).
TasksEnd == ~notify ~> timing_sender = "done" /\ timing_receiver = "done"

\* As long as the session lasts the peer is asked again and again, also when
\* sends fail or the receiver has returned on a socket error, which nobody
\* notices (timing_sender.rs:20-27, timing_receiver.rs:31-33).
KeepsAsking == []<>(timing_sender = "sending" \/ ~notify)
=============================================================================
