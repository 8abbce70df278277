------------------------------ MODULE FlushLoop ------------------------------
(***************************************************************************)
(* FrameBuffer::flush one iteration of its loop at a time, from every      *)
(* buffer to every number, against the closed form `flush` that FrameBuffer *)
(* and the modules above it use.  What a packet holds does not matter      *)
(* here: each is its own number.                                           *)
(***************************************************************************)
EXTENDS FrameBuffer

VARIABLES self, before, seq

flushVars == <<self, before, seq>>

Buffers ==
    { [data |-> [k \in keys |-> k], read_marker |-> r, write_marker |-> 0] :
        keys \in SUBSET SeqNums, r \in SeqNums }

FlushInit ==
    /\ self \in Buffers
    /\ before = self
    /\ seq \in SeqNums

\* Mutants: the entry is left in place; the marker moves first.
FlushBodyKeeps ==
    /\ self.read_marker # seq
    /\ self' = [self EXCEPT !.read_marker = next(@)]
    /\ UNCHANGED <<before, seq>>

FlushBodySkips ==
    /\ self.read_marker # seq
    /\ self' = [self EXCEPT !.data = Without(@, {self.read_marker}),
                            !.read_marker = next(next(@))]
    /\ UNCHANGED <<before, seq>>

\* while self.read_marker != seq { remove; read_marker = read_marker.next() }
FlushBody ==
    /\ self.read_marker # seq
    /\ self' = [self EXCEPT !.data = Without(@, {self.read_marker}),
                            !.read_marker = next(@)]
    /\ UNCHANGED <<before, seq>>

-----------------------------------------------------------------------------
\* When the loop ends it has computed the closed form, for a target ahead
\* of the read marker, at it, or behind it, where the loop goes once around
\* the number space (frame_buffer.rs:46-49).
FlushComputed == self.read_marker = seq => self = flush(before, seq)

\* The loop meets its target from every marker.
FlushEnds == <>(self.read_marker = seq)
=============================================================================
