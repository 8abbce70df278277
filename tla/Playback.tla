------------------------------- MODULE Playback -------------------------------
(***************************************************************************)
(* What a recorded stream sounds like, without sequence numbers: a set of  *)
(* packets, named by their position in the sender's stream, and the one to *)
(* be played next.  No number wraps, no key is shared, nothing is removed  *)
(* but what is played or flushed.  Stream implements this module as long   *)
(* as flushes go forward and packets that come late do so in the last half *)
(* round of the stream.                                                    *)
(***************************************************************************)
EXTENDS Integers

CONSTANTS
    First,      \* the first packet
    Packets,    \* all of them
    PacketLen   \* PacketLen[n]: samples of packet n

VARIABLES
    buffer,     \* the packets there are to play
    at,         \* the packet to be played next
    current,    \* the packet being played and the samples left of it
    output      \* the sample heard last, or silence

vars == <<buffer, at, current, output>>

silence == [idx |-> First - 1, pos |-> 0]

Sample(n, left) == [idx |-> n, pos |-> PacketLen[n] - left + 1]

Init ==
    /\ buffer = {}
    /\ at = First
    /\ current = [idx |-> First - 1, left |-> 0]
    /\ output = silence

Add(n) ==
    /\ n >= at
    /\ buffer' = buffer \cup {n}
    /\ UNCHANGED <<at, current, output>>

SkipTo(f) ==
    /\ f >= at
    /\ at' = f
    /\ buffer' = { n \in buffer : n >= f }
    /\ UNCHANGED <<current, output>>

PlayOn ==
    /\ current.left > 0
    /\ output' = Sample(current.idx, current.left)
    /\ current' = [current EXCEPT !.left = @ - 1]
    /\ UNCHANGED <<buffer, at>>

\* A packet without samples is passed over in silence.
PlayNext ==
    /\ current.left = 0
    /\ at \in buffer
    /\ buffer' = buffer \ {at}
    /\ at' = at + 1
    /\ output' = IF PacketLen[at] > 0 THEN Sample(at, PacketLen[at]) ELSE silence
    /\ current' = [idx |-> at, left |-> IF PacketLen[at] > 0 THEN PacketLen[at] - 1 ELSE 0]

PlaySilence ==
    /\ current.left = 0
    /\ at \notin buffer
    /\ output' = silence
    /\ UNCHANGED <<buffer, at, current>>

Next ==
    \/ \E n \in Packets : Add(n)
    \/ \E f \in Packets \cup { n + 1 : n \in Packets } : SkipTo(f)
    \/ PlayOn \/ PlayNext \/ PlaySilence

Spec == Init /\ [][Next]_vars
=============================================================================
