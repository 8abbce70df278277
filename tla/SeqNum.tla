------------------------------- MODULE SeqNum -------------------------------
(***************************************************************************)
(* RTP sequence numbers as rtp_rs::Seq provides them: a u16 that wraps,    *)
(* with an ordering that compares by the signed wrapped difference.  The   *)
(* type is external to the repository; it is modelled from the way         *)
(* frame_buffer.rs, player/mod.rs and control_sender.rs use it: `next()`,  *)
(* the ordering behind BTreeMap<Seq, _> and Range<Seq>::is_empty(), and    *)
(* `seq_iter()`.                                                           *)
(***************************************************************************)
EXTENDS Integers

CONSTANT Half      \* half the number of sequence numbers, 2^15 in rtp_rs

ASSUME HalfAssumption == Half \in Nat /\ Half >= 4

SeqMod == 2 * Half

SeqNums == 0 .. SeqMod - 1

\* Seq::next: wrapping_add(1)
next(s) == (s + 1) % SeqMod

(***************************************************************************)
(* Seq - Seq as an i32: the difference brought into i16::MIN .. i16::MAX.  *)
(***************************************************************************)
sub(a, b) ==
    LET delta == a - b
    IN  IF delta < -Half THEN delta + SeqMod
        ELSE IF delta > Half - 1 THEN delta - SeqMod
        ELSE delta

\* Ord for Seq: (a - b).cmp(&0) is Less
lt(a, b) == sub(a, b) < 0

\* Range<Seq>, and Range::is_empty, which is !(start < end)
SeqRange(start, end) == [start |-> start, end |-> end]
Ranges == [start : SeqNums, end : SeqNums]
is_empty(r) == ~ lt(r.start, r.end)

(***************************************************************************)
(* Number of items of Range<Seq>::seq_iter(), which steps `start` forward  *)
(* for as long as start < end, and the numbers it yields.                  *)
(***************************************************************************)
seq_count(r) == IF is_empty(r) THEN 0 ELSE -sub(r.start, r.end)
seq_iter(r)  == { (r.start + i) % SeqMod : i \in 0 .. seq_count(r) - 1 }

\* The sequence number that carries the n-th packet of a stream
SeqOf(n) == n % SeqMod
=============================================================================
