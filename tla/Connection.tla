------------------------------ MODULE Connection ------------------------------
(***************************************************************************)
(* rtsp/connection.rs in the loop of Handler::run: bytes arrive in pieces  *)
(* that have nothing to do with messages, read_message cuts messages out   *)
(* of its buffer, and a response goes through a BufWriter back to the      *)
(* peer.  Bytes are counted from the start of the connection: the buffer   *)
(* holds those after `consumed` up to `filled`.                            *)
(***************************************************************************)
EXTENDS Naturals, Sequences

CONSTANTS
    Ends,         \* Ends[m]: the bytes of messages 1 .. m together
    Malformed,    \* the messages that do not parse
    Silent        \* requests left without a response: SETUP without ports

Messages == 1 .. Len(Ends)
Total    == Ends[Len(Ends)]
Start(m) == IF m = 1 THEN 0 ELSE Ends[m - 1]

ASSUME ConnectionAssumption ==
    /\ Ends \in Seq(Nat \ {0})
    /\ Len(Ends) > 0
    /\ \A m, n \in Messages : m < n => Ends[m] < Ends[n]
    /\ Malformed \subseteq Messages
    /\ Silent \subseteq Messages

VARIABLES
    written,      \* bytes the peer has sent
    peer,         \* open, closed or reset
    filled,       \* bytes read from the socket
    consumed,     \* bytes of messages returned
    task,         \* parsing, filling, executing, flushing, or how run ended
    delivered,    \* the messages returned
    buffered,     \* requests whose response was written to the BufWriter
    flushed       \* requests whose response has left it

peerVars == <<written, peer>>
readVars == <<filled, consumed, delivered>>
writeVars == <<buffered, flushed>>
connectionVars == <<peerVars, readVars, writeVars, task>>

ConnectionInit ==
    /\ written = 0
    /\ peer = "open"
    /\ filled = 0
    /\ consumed = 0
    /\ task = "parsing"
    /\ delivered = <<>>
    /\ buffered = {}
    /\ flushed = {}

-----------------------------------------------------------------------------
(***************************************************************************)
(* rtsp_types::Message::parse on the bytes after from up to to.  It may    *)
(* tell a malformed message before it is complete.                         *)
(***************************************************************************)
ParsesTo(from, to, m) == Start(m) = from /\ Ends[m] <= to /\ m \notin Malformed

ParseIncomplete(from, to) ==
    \/ from = to
    \/ \E m \in Messages : Start(m) = from /\ to < Ends[m]

ParseError(from, to) ==
    /\ from < to
    /\ \/ \E m \in Malformed : Start(m) = from
       \/ \A m \in Messages : Start(m) # from

\* parse_message: a message is cut off the buffer and returned.
ParseAndClear ==     \* mutant: the whole buffer is discarded
    /\ task = "parsing"
    /\ \E m \in Messages :
          /\ ParsesTo(consumed, filled, m)
          /\ delivered' = Append(delivered, m)
    /\ consumed' = filled
    /\ task' = "executing"
    /\ UNCHANGED <<peerVars, filled, writeVars>>

ParseOneTooFar ==     \* mutant: one byte of the next message goes too
    /\ task = "parsing"
    /\ \E m \in Messages :
          /\ ParsesTo(consumed, filled, m)
          /\ consumed' = Ends[m] + 1
          /\ delivered' = Append(delivered, m)
    /\ task' = "executing"
    /\ UNCHANGED <<peerVars, filled, writeVars>>

Parse ==
    /\ task = "parsing"
    /\ \E m \in Messages :
          /\ ParsesTo(consumed, filled, m)
          /\ consumed' = Ends[m]
          /\ delivered' = Append(delivered, m)
    /\ task' = "executing"
    /\ UNCHANGED <<peerVars, filled, writeVars>>

NeedMore ==
    /\ task = "parsing"
    /\ ParseIncomplete(consumed, filled)
    /\ task' = "filling"
    /\ UNCHANGED <<peerVars, readVars, writeVars>>

Invalid ==
    /\ task = "parsing"
    /\ ParseError(consumed, filled)
    /\ task' = "error"
    /\ UNCHANGED <<peerVars, readVars, writeVars>>

\* read_buf yields some of the bytes on their way.
Fill(n) ==
    /\ task = "filling"
    /\ peer # "reset"
    /\ filled < n /\ n <= written
    /\ filled' = n
    /\ task' = "parsing"
    /\ UNCHANGED <<peerVars, consumed, delivered, writeVars>>

\* read_buf yields 0 bytes.
EndOfStream ==
    /\ task = "filling"
    /\ peer = "closed"
    /\ filled = written
    /\ task' = IF consumed = filled THEN "none" ELSE "error"
    /\ UNCHANGED <<peerVars, readVars, writeVars>>

ReadFails ==
    /\ task = "filling"
    /\ peer = "reset"
    /\ task' = "error"
    /\ UNCHANGED <<peerVars, readVars, writeVars>>

\* The shutdown signal wins the select, and the read is dropped.
Cancelled ==
    /\ task = "filling"
    /\ task' = "abandoned"
    /\ UNCHANGED <<peerVars, readVars, writeVars>>

(***************************************************************************)
(* Handler::execute, by how it ends.  Handler and Player say which requests*)
(* do what; here any may fail, with an error or a panic: no player to ask, *)
(* a body or a header that does not parse, a method left to todo!(), or a  *)
(* message that is no request.                                             *)
(***************************************************************************)
Request == delivered[Len(delivered)]

ExecuteFails ==
    /\ task = "executing"
    /\ task' = "abandoned"
    /\ UNCHANGED <<peerVars, readVars, writeVars>>

\* The arm of SETUP returns Ok without writing when it finds no ports.
NoResponse ==
    /\ task = "executing"
    /\ Request \in Silent
    /\ task' = "parsing"
    /\ UNCHANGED <<peerVars, readVars, writeVars>>

\* write_response: into the BufWriter, then flush.
Write ==
    /\ task = "executing"
    /\ Request \notin Silent
    /\ buffered' = buffered \cup {Request}
    /\ task' = "flushing"
    /\ UNCHANGED <<peerVars, readVars, flushed>>

FlushForgotten ==     \* mutant: the response stays in the BufWriter
    /\ task = "flushing"
    /\ task' = "parsing"
    /\ UNCHANGED <<peerVars, readVars, writeVars>>

Flush ==
    /\ task = "flushing"
    /\ peer # "reset"
    /\ flushed' = buffered
    /\ task' = "parsing"
    /\ UNCHANGED <<peerVars, readVars, buffered>>

WriteFails ==
    /\ task = "flushing"
    /\ peer # "open"
    /\ task' = "abandoned"
    /\ UNCHANGED <<peerVars, readVars, writeVars>>

-----------------------------------------------------------------------------
PeerSends(n) ==
    /\ peer = "open"
    /\ written < n /\ n <= Total
    /\ written' = n
    /\ UNCHANGED <<peer, readVars, writeVars, task>>

PeerLeaves(how) ==
    /\ peer = "open"
    /\ peer' = how
    /\ UNCHANGED <<written, readVars, writeVars, task>>

Task == Parse \/ NeedMore \/ Invalid \/ (\E n \in 1 .. Total : Fill(n)) \/ EndOfStream
        \/ ReadFails \/ ExecuteFails \/ NoResponse \/ Write \/ Flush \/ WriteFails

ConnectionNext ==
    \/ Task
    \/ Cancelled
    \/ \E n \in 1 .. Total : PeerSends(n)
    \/ \E how \in {"closed", "reset"} : PeerLeaves(how)

\* The task is polled, and a request handed to the player is answered or fails
\* (Player's RequestsEnd); the peer owes nothing but to read what it is sent.
ConnectionSpec ==
    ConnectionInit /\ [][ConnectionNext]_connectionVars /\ WF_connectionVars(Task)

-----------------------------------------------------------------------------
Over == task \in {"none", "error", "abandoned"}

\* Type invariant; the buffer lies within what was sent.
TypeOK ==
    /\ written \in 0 .. Total
    /\ peer \in {"open", "closed", "reset"}
    /\ filled \in 0 .. written
    /\ consumed \in 0 .. filled
    /\ task \in {"parsing", "filling", "executing", "flushing", "none", "error", "abandoned"}
    /\ delivered \in Seq(Messages)
    /\ buffered \subseteq Messages \ Silent
    /\ flushed \subseteq buffered

(***************************************************************************)
(* To the handler the connection is MessageStream.                         *)
(***************************************************************************)
Abstract == INSTANCE MessageStream WITH
    complete <- { m \in Messages : Ends[m] <= written },
    partial  <- written # 0 /\ \A m \in Messages : Ends[m] # written,
    outcome  <- IF Over THEN task ELSE "open"

\* However the bytes are cut, the messages come out whole, in order and once,
\* also those that are in the buffer when the peer closes; None and the error
\* at the end of the stream mean what connection.rs:60-63 says.
ReadsMessages == Abstract!Spec

\* A request that has arrived is answered, and the answer leaves the process,
\* unless the connection ends: no byte is left in a buffer that nobody looks
\* at again (connection.rs:65-90, 101-116).  The exception is a SETUP without
\* ports, which is left unanswered on an open connection (handler.rs:150-204);
\* the requests behind it are not held up.
RequestsAnswered ==
    \A m \in Messages \ Silent : (Ends[m] <= written) ~> (m \in flushed \/ Over)
=============================================================================
