---------------------------- MODULE PlaybackProofs ----------------------------
(***************************************************************************)
(* Stream implements Playback: unless any packet may be late, each call on *)
(* the buffer of 16 bit numbers has the effect it has on a set of packets  *)
(* and a position, for every size of the number space and of the stream.   *)
(* The packets behind the read marker, which the map keeps, are not heard: *)
(* none has the number of a packet that is still to be played.             *)
(***************************************************************************)
EXTENDS StreamProofs

\* The packets in the buffer that the refinement mapping shows.
Ahead == { n \in Held : n >= readAt }

\* An entry of the map is under its own number, in the window or left behind
\* in the last half round of the stream.
LEMMA EntryRecent ==
    ASSUME IInv, ~Late, NEW k \in DOMAIN fb.data
    PROVE  /\ fb.data[k] \in Int /\ SeqOf(fb.data[k]) = k
           /\ fb.data[k] < readAt + Window
           /\ readAt <= fb.data[k] \/ Last + 1 - fb.data[k] < Half
BY StreamAssumption DEF IInv, TypeOK, Packets, KeysOwn, WindowHeld, Recent, LeftInLastHalf

\* The numbers that the steps below compare.
LEMMA Positions ==
    IInv /\ ~Late =>
        /\ readAt \in Int /\ writeAt \in Int /\ Window \in Int /\ Half \in Nat
        /\ First \in Int /\ Last \in Int
        /\ Window <= Half - 2 /\ SeqMod = 2 * Half /\ readAt <= Last + 1
<1> SUFFICES ASSUME IInv, ~Late
             PROVE  readAt \in Int /\ writeAt \in Int /\ readAt <= Last + 1
  BY StreamAssumption, SeqModPositive
<1> QED BY StreamAssumption DEF IInv, TypeOK, Packets, WindowHeld

\* PutPacket adds the packet and displaces none; one behind the read marker
\* changes nothing that is heard.
LEMMA ArriveAdds ==
    ASSUME IInv, ~Late, NEW n \in Packets, Arrive(n)
    PROVE  IF n >= readAt THEN Abstract!Add(n) ELSE UNCHANGED Abstract!vars
<1>1. /\ n \in Int /\ n < readAt + Window /\ n <= Last
      /\ readAt <= n \/ Last + 1 - n < Half
      /\ SeqOf(n) \in SeqNums
  BY Positions, SeqOfType DEF Packets, Arrive, Reachable, LeftInLastHalf
<1>2. /\ DOMAIN fb'.data = DOMAIN fb.data \cup {SeqOf(n)}
      /\ fb'.data[SeqOf(n)] = n
      /\ \A k \in DOMAIN fb.data \ {SeqOf(n)} : fb'.data[k] = fb.data[k]
  BY <1>1, AddPacket, TypeBuffer DEF IInv, Arrive
<1>3. SeqOf(n) \in DOMAIN fb.data => fb.data[SeqOf(n)] = n
  <2> SUFFICES ASSUME SeqOf(n) \in DOMAIN fb.data PROVE fb.data[SeqOf(n)] = n
    OBVIOUS
  <2> DEFINE p == fb.data[SeqOf(n)]
  <2>1. /\ p \in Int /\ SeqOf(p) = SeqOf(n) /\ p < readAt + Window
        /\ readAt <= p \/ Last + 1 - p < Half
    BY EntryRecent
  <2> HIDE DEF p
  <2>2. p - n < SeqMod /\ n - p < SeqMod
    BY <1>1, <2>1, Positions
  <2>3. p = n
    BY <1>1, <2>1, <2>2, SeqOfInjective
  <2> QED BY <2>3 DEF p
<1>4. Held' = Held \cup {n}
  <2>1. Held' = { fb'.data[k] : k \in DOMAIN fb'.data }
    BY DEF Held
  <2>2. ASSUME NEW p \in Held' PROVE p \in Held \cup {n}
    <3>1. PICK k \in DOMAIN fb'.data : p = fb'.data[k]
      BY <2>1, <2>2
    <3>2. CASE k = SeqOf(n)
      BY <1>2, <3>1, <3>2
    <3>3. CASE k # SeqOf(n)
      BY <1>2, <3>1, <3>3 DEF Held
    <3> QED BY <3>2, <3>3
  <2>3. ASSUME NEW p \in Held PROVE p \in Held'
    <3>1. PICK k \in DOMAIN fb.data : p = fb.data[k]
      BY <2>3 DEF Held
    <3>2. fb'.data[k] = p /\ k \in DOMAIN fb'.data
      BY <1>2, <1>3, <3>1
    <3> QED BY <2>1, <3>2
  <2>4. n \in Held'
    BY <1>2, <2>1
  <2> QED BY <2>2, <2>3, <2>4
<1>5. UNCHANGED <<readAt, current, output>>
  BY DEF Arrive
<1>6. Ahead' = IF n >= readAt THEN Ahead \cup {n} ELSE Ahead
  <2>1. Ahead' = { m \in Held \cup {n} : m >= readAt }
    BY <1>4, <1>5 DEF Ahead
  <2> QED BY <2>1 DEF Ahead
<1>7. CASE n >= readAt
  BY <1>5, <1>6, <1>7 DEF Abstract!Add, Ahead
<1>8. CASE ~ (n >= readAt)
  <2>1. Ahead' = Ahead
    BY <1>6, <1>8
  <2> QED BY <1>5, <1>8, <2>1 DEF Abstract!vars, Ahead
<1> QED BY <1>7, <1>8

\* A flush removes the packets before its target and none after it.
LEMMA FlushSkips ==
    ASSUME IInv, ~Late, NEW f \in First .. Last + 1, Flush(f)
    PROVE  Abstract!SkipTo(f)
<1>1. f \in Int /\ f >= readAt /\ f - writeAt <= Window /\ f <= Last + 1 /\ SeqOf(f) \in SeqNums
  BY Positions, SeqOfType DEF Flush
<1>2. /\ DOMAIN fb'.data = DOMAIN fb.data \ Passed(fb, SeqOf(f))
      /\ \A k \in DOMAIN fb'.data : fb'.data[k] = fb.data[k]
  BY <1>1, FlushBuffer, TypeBuffer DEF IInv, Flush
<1>3. /\ f - readAt < SeqMod
      /\ Passed(fb, SeqOf(f)) = { SeqOf(readAt + i) : i \in 0 .. f - readAt - 1 }
  BY <1>1, PassedAreBefore
<1>4. ASSUME NEW k \in DOMAIN fb.data, fb.data[k] >= readAt
      PROVE  k \in Passed(fb, SeqOf(f)) <=> fb.data[k] < f
  <2> DEFINE p == fb.data[k]
  <2>1. p \in Int /\ SeqOf(p) = k /\ readAt <= p /\ p < readAt + Window
    BY <1>4, EntryRecent
  <2> HIDE DEF p
  <2>2. ASSUME p < f PROVE k \in Passed(fb, SeqOf(f))
    <3>1. p - readAt \in 0 .. f - readAt - 1 /\ readAt + (p - readAt) = p
      BY <1>1, <2>1, <2>2, Positions
    <3> QED BY <1>3, <2>1, <3>1
  <2>3. ASSUME k \in Passed(fb, SeqOf(f)) PROVE p < f
    <3>1. PICK i \in 0 .. f - readAt - 1 : SeqOf(p) = SeqOf(readAt + i)
      BY <1>3, <2>1, <2>3
    <3>2. /\ readAt + i \in Int
          /\ p - (readAt + i) < SeqMod /\ (readAt + i) - p < SeqMod
      BY <1>1, <1>3, <2>1, Positions
    <3>3. p = readAt + i
      BY <2>1, <3>1, <3>2, SeqOfInjective
    <3> QED BY <1>1, <3>3, Positions
  <2> QED BY <2>2, <2>3 DEF p
<1>5. readAt' = f /\ UNCHANGED <<current, output>>
  BY DEF Flush
<1>6. Ahead' = { n \in Ahead : n >= f }
  <2>1. Held' = { fb'.data[k] : k \in DOMAIN fb'.data } /\ Ahead' = { n \in Held' : n >= f }
    BY <1>5 DEF Held, Ahead
  <2>2. \A k \in DOMAIN fb.data : fb.data[k] \in Int
    BY EntryRecent
  <2>3. ASSUME NEW p \in Held', p >= f PROVE p \in Ahead
    <3>1. PICK k \in DOMAIN fb'.data : p = fb'.data[k]
      BY <2>1, <2>3
    <3>2. k \in DOMAIN fb.data /\ p = fb.data[k]
      BY <1>2, <3>1
    <3>3. p >= readAt
      BY <1>1, <2>2, <2>3, <3>2, Positions
    <3> QED BY <3>2, <3>3 DEF Held, Ahead
  <2>4. ASSUME NEW p \in Ahead, p >= f PROVE p \in Held'
    <3>1. PICK k \in DOMAIN fb.data : p = fb.data[k]
      BY <2>4 DEF Held, Ahead
    <3>2. fb.data[k] >= readAt /\ ~ (fb.data[k] < f)
      BY <1>1, <2>2, <2>4, <3>1 DEF Ahead
    <3>3. k \in DOMAIN fb'.data /\ fb'.data[k] = p
      BY <1>2, <1>4, <3>1, <3>2
    <3> QED BY <2>1, <3>3
  <2> QED BY <2>1, <2>3, <2>4
<1> QED BY <1>1, <1>5, <1>6 DEF Abstract!SkipTo, Ahead

\* The source plays the packet at the read marker if the buffer has it.
LEMMA FrontIsHeld ==
    ASSUME IInv, ~Late
    PROVE  HasFront(fb) <=> readAt \in Ahead
<1>1. HasFront(fb) <=> SeqOf(readAt) \in DOMAIN fb.data
  BY DEF HasFront, IInv, MarkersAgree
<1>2. HasFront(fb) => readAt \in Held
  BY FrontIsRead DEF HasFront, Front, Held
<1>3. readAt \in Held => SeqOf(readAt) \in DOMAIN fb.data
  BY EntryRecent DEF Held
<1> QED BY <1>1, <1>2, <1>3, Positions DEF Ahead

\* Taking the packet at the read marker out of the map is what the ideal buffer
\* does when it plays the packet that is due (frame_buffer.rs:141-150).
LEMMA PlayNextPlays ==
    ASSUME IInv, ~Late, PlayNext
    PROVE  Abstract!PlayNext
<1>1. Front(fb) = readAt /\ readAt \in Ahead
  BY FrontIsRead, FrontIsHeld DEF PlayNext
<1>2. /\ DOMAIN fb'.data = DOMAIN fb.data \ {fb.read_marker}
      /\ \A k \in DOMAIN fb'.data : fb'.data[k] = fb.data[k]
      /\ fb.read_marker = SeqOf(readAt)
  BY PopFront, TypeBuffer DEF IInv, PlayNext, MarkersAgree
<1>3. \A k \in DOMAIN fb.data : fb.data[k] = readAt <=> k = fb.read_marker
  BY <1>1, <1>2, EntryRecent DEF Front
<1>4. Held' = Held \ {readAt}
  <2>1. Held' = { fb'.data[k] : k \in DOMAIN fb'.data }
    BY DEF Held
  <2> QED BY <1>2, <1>3, <2>1 DEF Held
<1>5. current.left = 0 /\ readAt' = readAt + 1
  BY DEF PlayNext
<1>6. Ahead' = Ahead \ {readAt}
  <2>1. Ahead' = { n \in Held \ {readAt} : n >= readAt + 1 }
    BY <1>4, <1>5 DEF Ahead
  <2>2. \A n \in Held : n \in Int
    BY EntryRecent DEF Held
  <2> QED BY <2>1, <2>2, Positions DEF Ahead
<1>7. /\ output' = IF PacketLen[readAt] > 0
                   THEN Sample(readAt, PacketLen[readAt]) ELSE silence
      /\ current' = [idx |-> readAt,
                     left |-> IF PacketLen[readAt] > 0 THEN PacketLen[readAt] - 1 ELSE 0]
  BY <1>1 DEF PlayNext
<1> QED BY <1>1, <1>5, <1>6, <1>7
        DEF Abstract!PlayNext, Abstract!Sample, Abstract!silence, Sample, silence, Ahead

-----------------------------------------------------------------------------
\* What is heard is what a buffer without 16 bit numbers would play, sample for
\* sample, as long as flushes go forward and the packets that come late do so in
\* the last half round of the stream: the map keeps those, and they are not heard.
THEOREM StreamImplementsPlayback == ASSUME ~Late PROVE Spec => PlaysAsIdeal
<1>1. Init => Abstract!Init
  <2> SUFFICES ASSUME Init PROVE Abstract!Init
    OBVIOUS
  <2>1. DOMAIN fb.data = {}
    BY DEF Init, new
  <2> QED BY <2>1 DEF Init, Abstract!Init, Abstract!silence, silence, Held
<1>2. IInv /\ [Next]_vars => [Abstract!Next]_(Abstract!vars)
  <2> SUFFICES ASSUME IInv, [Next]_vars
               PROVE  [Abstract!Next]_(Abstract!vars)
    OBVIOUS
  <2>1. ASSUME NEW n \in Packets, Arrive(n) PROVE Abstract!Next \/ UNCHANGED Abstract!vars
    BY <2>1, ArriveAdds DEF Abstract!Next
  <2>2. ASSUME NEW f \in First .. Last + 1, Flush(f) PROVE Abstract!Next
    <3>1. f \in Packets \cup { n + 1 : n \in Packets }
      <4>1. f \in Packets \/ f = Last + 1
        BY StreamAssumption DEF Packets
      <4>2. Last \in Packets
        BY StreamAssumption DEF Packets
      <4> QED BY <4>1, <4>2
    <3> QED BY <2>2, <3>1, FlushSkips DEF Abstract!Next
  <2>3. CASE PlayCurrent
    <3>1. Abstract!PlayOn
      BY <2>3 DEF PlayCurrent, Abstract!PlayOn, Sample, Abstract!Sample, Held
    <3> QED BY <3>1 DEF Abstract!Next
  <2>4. CASE PlayNext
    BY <2>4, PlayNextPlays DEF Abstract!Next
  <2>5. CASE PlaySilence
    <3>1. Abstract!PlaySilence
      BY <2>5, FrontIsHeld DEF PlaySilence, Abstract!PlaySilence, Abstract!silence, silence, Held, Ahead
    <3> QED BY <3>1 DEF Abstract!Next
  <2>6. CASE UNCHANGED vars
    BY <2>6 DEF vars, Abstract!vars, Held
  <2> QED BY <2>1, <2>2, <2>3, <2>4, <2>5, <2>6 DEF Next, NextSample
<1> QED BY <1>1, <1>2, StreamInvariant, PTL DEF Spec, PlaysAsIdeal, Abstract!Spec
=============================================================================
