-------------------------------- MODULE Stream --------------------------------
(***************************************************************************)
(* One recorded stream: the FrameBuffer that Command::Record creates, the  *)
(* packets that Command::PutPacket adds to it, Command::Flush, and the     *)
(* audio thread that pulls samples through FrameBufferSource::next.  The   *)
(* Mutex around the buffer makes each of these calls one step.             *)
(*                                                                         *)
(* Packets are named by their position n in the sender's stream, an        *)
(* unbounded count of which the wire carries only SeqOf(n).  The network   *)
(* loses, reorders and repeats packets: Arrive(n) may happen never, once   *)
(* or many times.  readAt and writeAt are the positions the two markers    *)
(* stand for; received, asked and flushedTo are history.                   *)
(***************************************************************************)
EXTENDS FrameBuffer

CONSTANTS
    First,      \* the packet named by the RTP-Info header of RECORD
    Last,       \* the last packet of the stream
    Window,     \* longest outage, and longest lead of the sender, in packets
    Late,       \* may any packet, and any flush, fall behind the read marker?
    PacketLen   \* PacketLen[n]: samples of the decoded packet n

Packets == First .. Last

ASSUME StreamAssumption ==
    /\ First \in Nat
    /\ Last \in Nat
    /\ First <= Last
    /\ Window \in 1 .. Half - 2
    /\ Late \in BOOLEAN
    /\ PacketLen \in [Packets -> Nat]

VARIABLES
    fb,         \* the FrameBuffer behind the Mutex
    current,    \* the packet being played and the samples left of it
    output,     \* the last value FrameBufferSource::next returned
    readAt,     \* the packet that fb.read_marker stands for
    writeAt,    \* the packet that fb.write_marker stands for
    received,   \* packets added so far
    asked,      \* packets asked for again through ControlSender
    flushedTo   \* the furthest packet a flush has moved to

vars == <<fb, current, output, readAt, writeAt, received, asked, flushedTo>>

silence == [idx |-> First - 1, pos |-> 0]

(***************************************************************************)
(* Command::Record: a fresh buffer, and a source that has nothing current. *)
(* `current` keeps the last packet played when it is exhausted, which the  *)
(* code treats exactly as None.                                            *)
(***************************************************************************)
Init ==
    /\ fb = new(SeqOf(First))
    /\ current = [idx |-> First - 1, left |-> 0]
    /\ output = silence
    /\ readAt = First
    /\ writeAt = First
    /\ received = {}
    /\ asked = {}
    /\ flushedTo = First

(***************************************************************************)
(* Which packets the environment may deliver: none further than Window     *)
(* from the last one added, nor further ahead of the one being waited for. *)
(* A packet may well be behind the read marker: once a resent packet has   *)
(* moved the write marker back, the next one makes the player ask again    *)
(* for what it has, and the answer may come when that has been played.     *)
(* add_packet inserts it all the same, and the read marker never meets it  *)
(* again in this round.  Without Late only those come late that the stream *)
(* does not outlive by half a round of numbers, so all of them in a stream *)
(* of fewer than Half - 1 packets; Late lifts the restriction.             *)
(***************************************************************************)
LeftInLastHalf(n) == Last + 1 - n < Half

Reachable(n) ==
    /\ n - writeAt <= Window
    /\ writeAt - n <= Window
    /\ n - readAt < Window
    /\ Late \/ n >= readAt \/ LeftInLastHalf(n)

(***************************************************************************)
(* The packets a sender that has just sent n resolves a range of numbers   *)
(* to: for each number the latest packet that carried it.                  *)
(***************************************************************************)
Resolve(r, n) == { i \in n - SeqMod + 1 .. n - 1 : SeqOf(i) \in seq_iter(r) }

(***************************************************************************)
(* Command::PutPacket with a buffer: add_packet, and the request for the   *)
(* missing numbers unless the range is empty.                              *)
(***************************************************************************)
Missing(n) ==
    LET r == missing_seqs(fb, SeqOf(n))
    IN  IF is_empty(r) THEN {} ELSE Resolve(r, n)

Arrive(n) ==
    /\ Reachable(n)
    /\ fb' = add_packet(fb, SeqOf(n), n)
    /\ writeAt' = n
    /\ received' = received \cup {n}
    /\ asked' = asked \cup Missing(n)
    /\ UNCHANGED <<current, output, readAt, flushedTo>>

\* A packet that was asked for comes back.
Resend(n) == n \in asked \ received /\ Arrive(n)

(***************************************************************************)
(* Command::Flush.  FrameBufferSource keeps the packet it is playing.      *)
(***************************************************************************)
Flush(f) ==
    /\ f - writeAt <= Window
    /\ readAt - f <= Window
    /\ Late \/ f >= readAt
    /\ fb' = flush(fb, SeqOf(f))
    /\ readAt' = f
    /\ flushedTo' = IF f > flushedTo THEN f ELSE flushedTo
    /\ UNCHANGED <<current, output, writeAt, received, asked>>

(***************************************************************************)
(* FrameBufferSource::next, by the branch that returns: a sample of the    *)
(* current packet; the first sample of the packet popped; zero, because    *)
(* nothing could be popped or the packet popped has no samples.            *)
(***************************************************************************)
Sample(n, left) == [idx |-> n, pos |-> PacketLen[n] - left + 1]

PlayCurrent ==
    /\ current.left > 0
    /\ output' = Sample(current.idx, current.left)
    /\ current' = [current EXCEPT !.left = @ - 1]
    /\ UNCHANGED <<fb, readAt, writeAt, received, asked, flushedTo>>

PlayNext ==
    /\ current.left = 0
    /\ HasFront(fb)
    /\ fb' = pop_front(fb)
    /\ readAt' = readAt + 1
    /\ LET n == Front(fb)
       IN  IF PacketLen[n] > 0
           THEN /\ output' = Sample(n, PacketLen[n])
                /\ current' = [idx |-> n, left |-> PacketLen[n] - 1]
           ELSE /\ output' = silence
                /\ current' = [idx |-> n, left |-> 0]
    /\ UNCHANGED <<writeAt, received, asked, flushedTo>>

PlaySilence ==
    /\ current.left = 0
    /\ ~ HasFront(fb)
    /\ output' = silence
    /\ UNCHANGED <<fb, current, readAt, writeAt, received, asked, flushedTo>>

NextSample == PlayCurrent \/ PlayNext \/ PlaySilence

Next ==
    \/ \E n \in Packets : Arrive(n)
    \/ \E f \in First .. Last + 1 : Flush(f)
    \/ NextSample

Spec == Init /\ [][Next]_vars

(***************************************************************************)
(* Fairness.  The audio device keeps pulling samples, and a packet that    *)
(* was asked for comes back in the end.                                    *)
(***************************************************************************)
Fairness ==
    /\ WF_vars(NextSample)
    /\ \A n \in Packets : WF_vars(Resend(n))

FairSpec == Spec /\ Fairness

-----------------------------------------------------------------------------
\* Type invariant of the buffer, the source and the history.
TypeOK ==
    /\ DOMAIN fb = {"data", "read_marker", "write_marker"}
    /\ DOMAIN fb.data \subseteq SeqNums
    /\ \A k \in DOMAIN fb.data : fb.data[k] \in Packets
    /\ fb.read_marker \in SeqNums
    /\ fb.write_marker \in SeqNums
    /\ current \in [idx : First - 1 .. Last, left : Nat]
    /\ output \in [idx : First - 1 .. Last, pos : Int]
    /\ readAt \in Nat
    /\ writeAt \in Packets
    /\ received \subseteq Packets
    /\ asked \subseteq Int
    /\ flushedTo \in First .. Last + 1

\* No gap goes unnoticed: once a packet has been added, every packet after
\* the first and before it has been added or asked for, although add_packet
\* only compares with the last packet added and lets that marker move back
\* when a late packet arrives (frame_buffer.rs:33-40).
GapsRequested ==
    \A m \in received : \A n \in First + 1 .. m - 1 : n \in received \cup asked

\* Every packet asked for lies strictly between the first packet and one
\* that has arrived: a packet that is late or repeated never makes
\* Range::is_empty (mod.rs:341) see a gap that spans the whole number space.
AskedWithinStream ==
    \A n \in asked : n > First /\ \E m \in received : n < m

\* Nothing that arrived is lost before it is played or flushed: it is still
\* in the map, under its own number, until the read marker passes it, even
\* when the numbers wrap (frame_buffer.rs:35, 47, 54).  With Late a stale packet
\* may share its number, so this, PlaysInOrder and SilenceOnlyWhenStarved are
\* about the case without.
NothingLost ==
    ~Late => \A n \in received :
                n >= readAt => SeqOf(n) \in DOMAIN fb.data /\ fb.data[SeqOf(n)] = n

\* Seq's wrapping comparison is a strict total order on the keys present and
\* the key looked up, without which BTreeMap<Seq, _> is not a map at all
\* (frame_buffer.rs:12).  Only a packet that came late and that the read marker
\* has left more than Half - Window packets behind can break it: neither the
\* packets left behind more recently nor those ahead of a flush that goes back
\* do.
Held == { fb.data[k] : k \in DOMAIN fb.data }
LongLeft == Late /\ \E n \in Held : readAt - n > Half - Window

Keys == DOMAIN fb.data \cup {fb.read_marker}
TotallyOrdered ==
    /\ \A a, b \in Keys : a # b => (lt(a, b) <=> ~ lt(b, a))
    /\ \A a, b, c \in Keys : lt(a, b) /\ lt(b, c) => lt(a, c)
KeysOrdered == LongLeft \/ TotallyOrdered

\* Playback moves to a later packet, never an earlier one, and every packet
\* it jumps over was flushed: across losses, repeats and wrapped numbers the
\* audio is heard once, in order and without unrequested gaps.
PlaysInOrder ==
    [][~Late /\ current'.idx # current.idx =>
          /\ current'.idx > current.idx
          /\ \A i \in current.idx + 1 .. current'.idx - 1 : i < flushedTo]_vars

\* Silence is heard only while the packet to be played next has not arrived,
\* or has no samples (frame_buffer.rs:133-153): a packet that is there is
\* never passed over, whatever arrived before it and in which order.
SilenceOnlyWhenStarved ==
    [][~Late /\ output' = silence /\ output # silence =>
          (readAt \in received => PacketLen[readAt] = 0)]_vars

(***************************************************************************)
(* The stream is Playback: the buffer holds the packets its entries are,   *)
(* without those behind the read marker, which stands for the one to be    *)
(* played next.                                                            *)
(***************************************************************************)
Abstract == INSTANCE Playback WITH
    buffer <- { n \in Held : n >= readAt },
    at     <- readAt

\* What is heard is what a buffer without 16 bit numbers would play, sample
\* for sample: whatever wraps, is lost, repeated, reordered or flushed, each
\* call on the buffer and the source has the effect it has on a set of packets
\* and a position (frame_buffer.rs:33-70, 133-153).
PlaysAsIdeal == Abstract!Spec

\* Flush removes what lies before its target and moves nothing else
\* (frame_buffer.rs:44-45: "remove all entries up until, but without
\* requested Seq").
FlushRemovesAllBefore ==
    [][\A f \in First .. Last + 1 :
          Flush(f) => \A k \in DOMAIN fb'.data : ~ lt(k, SeqOf(f))]_vars

\* The gap property from the first packet on: rtp_info.rs:12 calls it the
\* "first packet that is a direct result of the request", so it is awaited
\* like any other.
FirstPacketRequested ==
    \A m \in received : \A n \in First .. m - 1 : n \in received \cup asked

\* If what is asked for comes back, playback never stalls: once the first
\* packet has arrived, playback catches up, again and again, with every packet
\* that has arrived, because each loss in between was noticed.
EventuallyPlayed ==
    First \in received ~> \A m \in received : readAt >= m
=============================================================================
