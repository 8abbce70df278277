----------------------------- MODULE FrameBuffer -----------------------------
(***************************************************************************)
(* player/frame_buffer.rs: FrameBuffer<S>, a map from sequence number to   *)
(* decoded packet with a read and a write marker.  The operators take and  *)
(* return the struct; the modules that extend this one decide who calls    *)
(* them and when.                                                          *)
(*                                                                         *)
(* The BTreeMap is modelled as a function from the keys present.  That is  *)
(* what a BTreeMap is only while Seq's ordering is a total order on its    *)
(* keys; Stream states and checks that condition (KeysOrdered).            *)
(***************************************************************************)
EXTENDS SeqNum

\* BTreeMap::insert (overwrites) and BTreeMap::remove
Insert(data, key, packet) ==
    [k \in DOMAIN data \cup {key} |-> IF k = key THEN packet ELSE data[k]]
Without(data, keys) == [k \in DOMAIN data \ keys |-> data[k]]

\* FrameBuffer::new
new(initial_seq) ==
    [data         |-> [k \in {} |-> 0],
     read_marker  |-> initial_seq,
     write_marker |-> initial_seq]

(***************************************************************************)
(* FrameBuffer::add_packet: the new state, and the Range it returns.       *)
(***************************************************************************)
add_packet(fb, seq, packet) ==
    [fb EXCEPT !.data = Insert(@, seq, packet), !.write_marker = seq]

\* Mutants: the range starts one late, or at the last packet itself.
missing_seqs_late(fb, seq)  == SeqRange(next(next(fb.write_marker)), seq)
missing_seqs_early(fb, seq) == SeqRange(fb.write_marker, seq)

missing_seqs(fb, seq) == SeqRange(next(fb.write_marker), seq)

(***************************************************************************)
(* FrameBuffer::flush.  The loop removes the entry at read_marker and      *)
(* advances until it meets `seq`: the keys it passes are the (seq - read)  *)
(* mod 2^16 numbers that start at read_marker.  FlushLoop checks that the  *)
(* loop computes this.                                                     *)
(***************************************************************************)
Passed(fb, seq) ==
    { (fb.read_marker + i) % SeqMod : i \in 0 .. ((seq - fb.read_marker) % SeqMod) - 1 }

\* Mutants: the requested packet is removed too; the marker is set outright.
flush_marker_only(fb, seq) == [fb EXCEPT !.read_marker = seq]
flush_inclusive(fb, seq) ==
    [fb EXCEPT !.data = Without(@, Passed(fb, seq) \cup {seq}), !.read_marker = seq]

flush(fb, seq) ==
    [fb EXCEPT !.data = Without(@, Passed(fb, seq)), !.read_marker = seq]

(***************************************************************************)
(* FrameBuffer::pop_front: Some when the entry at read_marker is present.  *)
(***************************************************************************)
HasFront(fb) == fb.read_marker \in DOMAIN fb.data

Front(fb) == fb.data[fb.read_marker]

\* Mutants: the marker does not wrap; the entry is read and not removed.
pop_front_unwrapped(fb) ==
    IF HasFront(fb)
    THEN [fb EXCEPT !.data = Without(@, {fb.read_marker}), !.read_marker = @ + 1]
    ELSE fb
pop_front_keeps(fb) ==
    IF HasFront(fb) THEN [fb EXCEPT !.read_marker = next(@)] ELSE fb

pop_front(fb) ==
    IF HasFront(fb)
    THEN [fb EXCEPT !.data = Without(@, {fb.read_marker}),
                    !.read_marker = next(@)]
    ELSE fb
=============================================================================
