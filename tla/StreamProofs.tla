----------------------------- MODULE StreamProofs -----------------------------
(***************************************************************************)
(* Theorems about Stream: for every size of the number space, every length *)
(* of the stream and every window below half the number space, with        *)
(* packets lost, repeated and reordered and the numbers wrapping.          *)
(***************************************************************************)
EXTENDS Stream, SeqNumProofs

-----------------------------------------------------------------------------
(***************************************************************************)
(* The inductive invariant.                                                *)
(***************************************************************************)
\* What the markers of the buffer stand for.
MarkersAgree ==
    /\ fb.read_marker = SeqOf(readAt)
    /\ fb.write_marker = SeqOf(writeAt)
    /\ writeAt \in received \cup {First}

\* The source has samples left only of a packet.
PlayingPacket == current.left > 0 => current.idx \in Packets

\* Each packet in the buffer is there under its own number, and none is
\* further ahead than the window.
KeysOwn == \A k \in DOMAIN fb.data : SeqOf(fb.data[k]) = k /\ fb.data[k] < readAt + Window

\* Unless any packet may be late, what is in the buffer is in the window or
\* was left behind in the last half round of the stream, and the packets
\* between the one last played and the read marker were flushed.
Recent(n) == readAt <= n \/ LeftInLastHalf(n)
WindowHeld ==
    ~Late =>
        /\ writeAt < readAt + Window
        /\ readAt <= Last + 1
        /\ \A k \in DOMAIN fb.data : Recent(fb.data[k])
        /\ current.idx < readAt
        /\ \A i \in current.idx + 1 .. readAt - 1 : i < flushedTo

IInv ==
    /\ TypeOK
    /\ MarkersAgree
    /\ PlayingPacket
    /\ KeysOwn
    /\ WindowHeld
    /\ GapsRequested
    /\ AskedWithinStream
    /\ NothingLost

-----------------------------------------------------------------------------
(***************************************************************************)
(* What the operations of the buffer do.                                   *)
(***************************************************************************)
BufferFields(b) ==
    /\ DOMAIN b = {"data", "read_marker", "write_marker"}
    /\ DOMAIN b.data \subseteq SeqNums
    /\ \A k \in DOMAIN b.data : b.data[k] \in Packets
    /\ b.read_marker \in SeqNums
    /\ b.write_marker \in SeqNums

\* add_packet stores the packet, moves the write marker to it and leaves the
\* rest alone.
LEMMA AddPacket ==
    ASSUME NEW b, BufferFields(b), NEW s \in SeqNums, NEW p \in Packets
    PROVE  LET c == add_packet(b, s, p)
           IN  /\ BufferFields(c)
               /\ DOMAIN c.data = DOMAIN b.data \cup {s}
               /\ c.data[s] = p
               /\ \A k \in DOMAIN b.data \ {s} : c.data[k] = b.data[k]
               /\ c.read_marker = b.read_marker
               /\ c.write_marker = s
BY DEF add_packet, Insert, BufferFields

\* flush moves the read marker and removes exactly the entries it passes.
LEMMA FlushBuffer ==
    ASSUME NEW b, BufferFields(b), NEW s \in SeqNums
    PROVE  LET c == flush(b, s)
           IN  /\ BufferFields(c)
               /\ DOMAIN c.data = DOMAIN b.data \ Passed(b, s)
               /\ \A k \in DOMAIN c.data : c.data[k] = b.data[k]
               /\ c.read_marker = s
               /\ c.write_marker = b.write_marker
<1> DEFINE P == Passed(b, s)
<1> HIDE DEF P
<1>1. flush(b, s) = [b EXCEPT !.data = Without(@, P), !.read_marker = s]
  BY DEF flush, P
<1> QED BY <1>1 DEF P, Without, BufferFields

\* pop_front removes the entry at the read marker and advances by one.
LEMMA PopFront ==
    ASSUME NEW b, BufferFields(b), HasFront(b)
    PROVE  LET c == pop_front(b)
           IN  /\ BufferFields(c)
               /\ DOMAIN c.data = DOMAIN b.data \ {b.read_marker}
               /\ \A k \in DOMAIN c.data : c.data[k] = b.data[k]
               /\ c.read_marker = next(b.read_marker)
               /\ c.write_marker = b.write_marker
<1>1. next(b.read_marker) \in SeqNums
  BY SeqModPositive, Division DEF next, SeqNums, BufferFields
<1> QED BY <1>1 DEF pop_front, Without, BufferFields

-----------------------------------------------------------------------------
(***************************************************************************)
(* What a packet reveals.                                                  *)
(***************************************************************************)
\* The numbers requested when packet n arrives are exactly the packets
\* between the last one added and n: nothing when n is late or repeated,
\* although the numbers compared may have wrapped (mod.rs:338-346).
LEMMA MissingIsGap ==
    ASSUME TypeOK, MarkersAgree, NEW n \in Packets, Reachable(n)
    PROVE  Missing(n) = writeAt + 1 .. n - 1
<1> DEFINE r == missing_seqs(fb, SeqOf(n))
<1>1. /\ n \in Int /\ writeAt \in Int /\ Window \in Int /\ Half \in Nat
      /\ Window <= Half - 2 /\ SeqMod = 2 * Half
      /\ n - writeAt <= Window /\ writeAt - n <= Window
  BY StreamAssumption, SeqModPositive DEF TypeOK, Packets, Reachable
<1>2. r = [start |-> SeqOf(writeAt + 1), end |-> SeqOf(n)]
  <2>1. next(SeqOf(writeAt)) = SeqOf(writeAt + 1)
    BY <1>1, SeqOfNext
  <2> QED BY <2>1 DEF missing_seqs, SeqRange, MarkersAgree
<1> HIDE DEF r
<1>3. r.start = SeqOf(writeAt + 1) /\ r.end = SeqOf(n)
  BY <1>2
<1>4. /\ sub(SeqOf(writeAt + 1), SeqOf(n)) = writeAt + 1 - n
      /\ is_empty(r) <=> n <= writeAt + 1
  <2>1. sub(SeqOf(writeAt + 1), SeqOf(n)) = (writeAt + 1) - n
    BY <1>1, SubIsDistance
  <2>2. is_empty(r) <=> ~ (sub(SeqOf(writeAt + 1), SeqOf(n)) < 0)
    BY <1>3, Zenon DEF is_empty, lt
  <2> QED BY <1>1, <2>1, <2>2
<1>5. CASE n <= writeAt + 1
  <2>1. Missing(n) = {}
    BY <1>4, <1>5 DEF Missing, r
  <2> QED BY <1>1, <1>5, <2>1
<1>6. CASE n > writeAt + 1
  <2>1. Missing(n) = Resolve(r, n)
    BY <1>1, <1>4, <1>6 DEF Missing, r
  <2>2. seq_count(r) = n - writeAt - 1
    BY <1>1, <1>3, <1>4, <1>6 DEF seq_count
  <2>3. seq_iter(r) = { SeqOf(writeAt + 1 + i) : i \in 0 .. n - writeAt - 2 }
    <3>1. \A i \in Int : (r.start + i) % SeqMod = SeqOf(writeAt + 1 + i)
      BY <1>1, <1>2, SeqOfPlus
    <3>2. 0 .. seq_count(r) - 1 = 0 .. n - writeAt - 2
      BY <1>1, <2>2
    <3>3. seq_iter(r) = { (r.start + i) % SeqMod : i \in 0 .. n - writeAt - 2 }
      BY <3>2, Zenon DEF seq_iter
    <3>4. \A i \in 0 .. n - writeAt - 2 : (r.start + i) % SeqMod = SeqOf(writeAt + 1 + i)
      BY <3>1
    <3> QED BY <3>3, <3>4, Zenon
  <2>4. ASSUME NEW j \in Resolve(r, n) PROVE j \in writeAt + 1 .. n - 1
    <3>1. j \in n - SeqMod + 1 .. n - 1 /\ SeqOf(j) \in seq_iter(r)
      BY DEF Resolve
    <3>2. PICK i \in 0 .. n - writeAt - 2 : SeqOf(j) = SeqOf(writeAt + 1 + i)
      BY <2>3, <3>1
    <3>3. j = writeAt + 1 + i
      BY <1>1, <1>6, <3>1, <3>2, SeqOfInjective
    <3> QED BY <1>1, <3>1, <3>3
  <2>5. ASSUME NEW j \in writeAt + 1 .. n - 1 PROVE j \in Resolve(r, n)
    <3>1. j \in n - SeqMod + 1 .. n - 1
      BY <1>1
    <3>2. j - writeAt - 1 \in 0 .. n - writeAt - 2 /\ writeAt + 1 + (j - writeAt - 1) = j
      BY <1>1
    <3>3. SeqOf(j) \in seq_iter(r)
      BY <2>3, <3>2
    <3> QED BY <3>1, <3>3 DEF Resolve
  <2> QED BY <2>1, <2>4, <2>5
<1> QED BY <1>1, <1>5, <1>6

\* The packet that is popped is the one the read marker stands for: none of
\* those left behind has the marker's number.
LEMMA FrontIsRead ==
    ASSUME IInv, ~Late, HasFront(fb)
    PROVE  Front(fb) = readAt
<1>1. /\ fb.read_marker \in DOMAIN fb.data
      /\ fb.read_marker = SeqOf(readAt)
      /\ Front(fb) \in Int /\ readAt \in Int
      /\ SeqOf(Front(fb)) = SeqOf(readAt)
      /\ Front(fb) < readAt + Window
      /\ Recent(Front(fb)) /\ readAt <= Last + 1
  BY StreamAssumption DEF IInv, HasFront, Front, MarkersAgree, KeysOwn, WindowHeld, TypeOK, Packets
<1>2. Front(fb) - readAt < SeqMod /\ readAt - Front(fb) < SeqMod
  BY <1>1, SeqModPositive, StreamAssumption DEF Recent, LeftInLastHalf
<1> QED BY <1>1, <1>2, SeqOfInjective

\* The numbers a flush to packet f passes are those of the packets from the
\* read marker up to f, or, if f lies behind, up to where its number recurs.
LEMMA PassedNumbers ==
    ASSUME TypeOK, MarkersAgree, NEW f \in First .. Last + 1, NEW e \in {0, 1},
           f - readAt + SeqMod * e \in 0 .. SeqMod - 1
    PROVE  Passed(fb, SeqOf(f)) =
               { SeqOf(readAt + i) : i \in 0 .. (f - readAt + SeqMod * e) - 1 }
<1> DEFINE d == f - readAt + SeqMod * e
<1>1. /\ f \in Int /\ readAt \in Int /\ e \in Int /\ SeqMod \in Nat /\ SeqMod > 0
      /\ fb.read_marker = SeqOf(readAt) /\ d \in 0 .. SeqMod - 1
  BY StreamAssumption, SeqModPositive DEF TypeOK, MarkersAgree
<1>2. (SeqOf(f) - fb.read_marker) % SeqMod = d
  <2> DEFINE p == f \div SeqMod
             q == readAt \div SeqMod
  <2>1. f = SeqMod * p + SeqOf(f) /\ p \in Int /\ SeqOf(f) \in Int
    BY <1>1, Division DEF SeqOf
  <2>2. readAt = SeqMod * q + SeqOf(readAt) /\ q \in Int /\ SeqOf(readAt) \in Int
    BY <1>1, Division DEF SeqOf
  <2>3. SeqMod * (q - p - e) = SeqMod * q - SeqMod * p - SeqMod * e
    BY <1>1, <2>1, <2>2
  <2>4. SeqOf(f) - SeqOf(readAt) = SeqMod * (q - p - e) + d
    <3> HIDE DEF p, q
    <3>1. SeqMod * p \in Int /\ SeqMod * q \in Int /\ SeqMod * e \in Int
      BY <1>1, <2>1, <2>2
    <3> QED BY <1>1, <2>1, <2>2, <2>3, <3>1
  <2>5. q - p - e \in Int /\ SeqOf(f) - SeqOf(readAt) \in Int
    BY <1>1, <2>1, <2>2
  <2> HIDE DEF d
  <2>6. (SeqOf(f) - SeqOf(readAt)) % SeqMod = d
    BY <1>1, <2>4, <2>5, Remainder, Zenon
  <2> QED BY <1>1, <2>6
<1>3. \A i \in 0 .. d - 1 : (fb.read_marker + i) % SeqMod = SeqOf(readAt + i)
  BY <1>1, SeqOfPlus
<1> HIDE DEF d
<1>4. Passed(fb, SeqOf(f)) = { (fb.read_marker + i) % SeqMod : i \in 0 .. d - 1 }
  BY <1>2, Zenon DEF Passed
<1>5. Passed(fb, SeqOf(f)) = { SeqOf(readAt + i) : i \in 0 .. d - 1 }
  BY <1>3, <1>4, Zenon
<1> QED BY <1>5, Zenon DEF d

\* A flush forward passes the numbers of the packets before its target.
LEMMA PassedAreBefore ==
    ASSUME IInv, ~Late, NEW f \in First .. Last + 1, f >= readAt, f - writeAt <= Window
    PROVE  /\ f - readAt < SeqMod
           /\ Passed(fb, SeqOf(f)) = { SeqOf(readAt + i) : i \in 0 .. f - readAt - 1 }
<1>1. /\ f \in Int /\ readAt \in Int /\ writeAt \in Int /\ Window \in Int
      /\ Half \in Nat /\ SeqMod = 2 * Half /\ SeqMod \in Nat /\ SeqMod * 0 = 0
      /\ Window <= Half - 2
      /\ writeAt < readAt + Window
  BY StreamAssumption, SeqModPositive DEF IInv, TypeOK, Packets, WindowHeld
<1>2. f - readAt + SeqMod * 0 \in 0 .. SeqMod - 1 /\ f - readAt + SeqMod * 0 = f - readAt
  BY <1>1
<1>3. Passed(fb, SeqOf(f)) = { SeqOf(readAt + i) : i \in 0 .. (f - readAt + SeqMod * 0) - 1 }
  BY <1>2, PassedNumbers DEF IInv
<1> QED BY <1>1, <1>2, <1>3

\* A flush backward takes the marker once around, past everything ahead of
\* it: what is left is behind where the marker was.
LEMMA RewindLeavesBehind ==
    ASSUME IInv, NEW f \in First .. Last + 1, f < readAt, readAt - f <= Window,
           NEW k \in DOMAIN fb.data, k \notin Passed(fb, SeqOf(f))
    PROVE  fb.data[k] < readAt
<1>1. /\ f \in Int /\ readAt \in Int /\ Window \in Int
      /\ Half \in Nat /\ SeqMod = 2 * Half /\ SeqMod \in Nat /\ SeqMod * 1 = SeqMod
      /\ Window <= Half - 2
      /\ fb.data[k] \in Int /\ SeqOf(fb.data[k]) = k /\ fb.data[k] < readAt + Window
  BY StreamAssumption, SeqModPositive DEF IInv, TypeOK, Packets, KeysOwn
<1>2. f - readAt + SeqMod * 1 \in 0 .. SeqMod - 1
  BY <1>1
<1>3. Passed(fb, SeqOf(f)) = { SeqOf(readAt + i) : i \in 0 .. (f - readAt + SeqMod * 1) - 1 }
  BY <1>2, PassedNumbers DEF IInv
<1>4. CASE fb.data[k] >= readAt
  <2>1. /\ fb.data[k] - readAt \in 0 .. (f - readAt + SeqMod * 1) - 1
        /\ readAt + (fb.data[k] - readAt) = fb.data[k]
    BY <1>1, <1>4
  <2>2. k \in Passed(fb, SeqOf(f))
    BY <1>1, <1>3, <2>1
  <2> QED BY <2>2
<1> QED BY <1>1, <1>4

-----------------------------------------------------------------------------
(***************************************************************************)
(* The invariant holds.                                                    *)
(***************************************************************************)
\* Command::Record creates a buffer and a source that satisfy the invariant.
LEMMA InitIInv == Init => IInv
<1> SUFFICES ASSUME Init PROVE IInv
  OBVIOUS
<1> USE StreamAssumption
<1>1. First \in Packets /\ First \in Int /\ SeqOf(First) \in SeqNums
  BY SeqOfType DEF Packets
<1>2. /\ DOMAIN fb = {"data", "read_marker", "write_marker"}
      /\ DOMAIN fb.data = {}
      /\ fb.read_marker = SeqOf(First)
      /\ fb.write_marker = SeqOf(First)
  BY DEF Init, new
<1>3. TypeOK
  BY <1>1, <1>2 DEF Init, TypeOK, silence, Packets
<1>4. MarkersAgree /\ PlayingPacket
  BY <1>2 DEF Init, MarkersAgree, PlayingPacket
<1>5. KeysOwn /\ WindowHeld
  BY <1>2 DEF Init, KeysOwn, WindowHeld
<1>6. GapsRequested /\ AskedWithinStream /\ NothingLost
  BY DEF Init, GapsRequested, AskedWithinStream, NothingLost
<1> QED BY <1>3, <1>4, <1>5, <1>6 DEF IInv

\* The type invariant says what the lemmas on the buffer ask for.
LEMMA TypeBuffer == TypeOK => BufferFields(fb)
BY DEF TypeOK, BufferFields

\* Command::PutPacket preserves the invariant: the gap it requests is the
\* one between the last packet and this one, and the key it may overwrite
\* can only hold the same packet.
LEMMA ArriveIInv ==
    ASSUME IInv, NEW n \in Packets, Arrive(n)
    PROVE  IInv'
<1> USE StreamAssumption
<1>1. /\ n \in Int /\ readAt \in Int /\ writeAt \in Int /\ First \in Int
      /\ First <= n /\ First <= writeAt /\ Window \in Int
      /\ Half \in Nat /\ Window <= Half - 2 /\ SeqMod = 2 * Half
  BY SeqModPositive DEF IInv, TypeOK, Packets
<1>2. SeqOf(n) \in SeqNums
  BY <1>1, SeqOfType
<1>3. /\ BufferFields(fb')
      /\ DOMAIN fb'.data = DOMAIN fb.data \cup {SeqOf(n)}
      /\ fb'.data[SeqOf(n)] = n
      /\ \A k \in DOMAIN fb.data \ {SeqOf(n)} : fb'.data[k] = fb.data[k]
      /\ fb'.read_marker = fb.read_marker
      /\ fb'.write_marker = SeqOf(n)
  BY <1>2, AddPacket, TypeBuffer DEF IInv, Arrive
<1>4. Missing(n) = writeAt + 1 .. n - 1
  BY MissingIsGap DEF IInv, Arrive
<1>5. /\ writeAt' = n /\ received' = received \cup {n} /\ readAt' = readAt
      /\ asked' = asked \cup (writeAt + 1 .. n - 1)
      /\ UNCHANGED <<current, output, flushedTo>>
  BY <1>4 DEF Arrive
<1>6. TypeOK'
  BY <1>1, <1>3, <1>5 DEF IInv, TypeOK, BufferFields
<1>7. MarkersAgree' /\ PlayingPacket'
  BY <1>3, <1>5 DEF IInv, MarkersAgree, PlayingPacket
<1>8. GapsRequested'
  <2> SUFFICES ASSUME NEW m \in received', NEW i \in First + 1 .. m - 1
               PROVE  i \in received' \cup asked'
    BY DEF GapsRequested
  <2>1. CASE m \in received
    BY <1>5, <2>1 DEF IInv, GapsRequested
  <2>2. CASE m = n
    <3>1. CASE i < writeAt
      <4>1. writeAt \in received
        BY <1>1, <3>1 DEF IInv, MarkersAgree
      <4>2. i \in First + 1 .. writeAt - 1
        BY <1>1, <3>1, <2>2
      <4> QED BY <1>5, <4>1, <4>2 DEF IInv, GapsRequested
    <3>2. CASE i = writeAt
      BY <1>1, <1>5, <3>2 DEF IInv, MarkersAgree
    <3>3. CASE i > writeAt
      BY <1>1, <1>5, <2>2, <3>3
    <3> QED BY <1>1, <2>2, <3>1, <3>2, <3>3
  <2> QED BY <1>5, <2>1, <2>2
<1>9. AskedWithinStream'
  <2> SUFFICES ASSUME NEW i \in asked'
               PROVE  i > First /\ \E m \in received' : i < m
    BY <1>5 DEF AskedWithinStream
  <2>1. CASE i \in asked
    BY <1>5, <2>1 DEF IInv, AskedWithinStream
  <2>2. CASE i \in writeAt + 1 .. n - 1
    BY <1>1, <1>5, <2>2
  <2> QED BY <1>5, <2>1, <2>2
<1>10. n < readAt + Window /\ (~Late => Recent(n))
  BY <1>1 DEF Arrive, Reachable, Recent
<1>11. KeysOwn'
  BY <1>3, <1>5, <1>10 DEF IInv, KeysOwn
<1>12. WindowHeld'
  <2> SUFFICES ASSUME ~Late PROVE WindowHeld'
    BY DEF WindowHeld
  <2>1. (writeAt < readAt + Window)'
    BY <1>5, <1>10
  <2>2. \A k \in DOMAIN fb'.data : Recent(fb'.data[k])
    BY <1>3, <1>10 DEF IInv, WindowHeld
  <2> QED BY <1>5, <2>1, <2>2 DEF IInv, WindowHeld, Recent
<1>13. NothingLost'
  <2> SUFFICES ASSUME ~Late, NEW p \in received', p >= readAt
               PROVE  SeqOf(p) \in DOMAIN fb'.data /\ fb'.data[SeqOf(p)] = p
    BY <1>5 DEF NothingLost
  <2>1. CASE p = n
    BY <1>3, <2>1
  <2>2. CASE p \in received
    <3>1. SeqOf(p) \in DOMAIN fb.data /\ fb.data[SeqOf(p)] = p
      BY <2>2 DEF IInv, NothingLost
    <3>2. p < readAt + Window /\ p \in Int /\ p <= Last
      BY <2>2, <3>1 DEF IInv, KeysOwn, TypeOK, Packets
    <3>3. CASE SeqOf(p) = SeqOf(n)
      <4>1. p - n < SeqMod /\ n - p < SeqMod
        BY <1>1, <1>10, <3>2 DEF Recent, LeftInLastHalf
      <4>2. p = n
        BY <1>1, <3>2, <3>3, <4>1, SeqOfInjective
      <4> QED BY <2>1, <4>2
    <3>4. CASE SeqOf(p) # SeqOf(n)
      BY <1>3, <3>1, <3>4
    <3> QED BY <3>3, <3>4
  <2> QED BY <1>5, <2>1, <2>2
<1> QED BY <1>6, <1>7, <1>8, <1>9, <1>11, <1>12, <1>13 DEF IInv

\* Command::Flush preserves the invariant: the numbers it passes are those
\* of packets before its target, and of no packet in the window after it.
LEMMA FlushIInv ==
    ASSUME IInv, NEW f \in First .. Last + 1, Flush(f)
    PROVE  IInv'
<1> USE StreamAssumption
<1>1. /\ f \in Int /\ readAt \in Int /\ writeAt \in Int /\ First \in Int
      /\ flushedTo \in Int /\ Window \in Int
      /\ Half \in Nat /\ Window <= Half - 2 /\ SeqMod = 2 * Half
  BY SeqModPositive DEF IInv, TypeOK, Packets
<1>2. SeqOf(f) \in SeqNums
  BY <1>1, SeqOfType
<1>3. /\ BufferFields(fb')
      /\ DOMAIN fb'.data = DOMAIN fb.data \ Passed(fb, SeqOf(f))
      /\ \A k \in DOMAIN fb'.data : fb'.data[k] = fb.data[k]
      /\ fb'.read_marker = SeqOf(f)
      /\ fb'.write_marker = fb.write_marker
  BY <1>2, FlushBuffer, TypeBuffer DEF IInv, Flush
<1>4. /\ readAt' = f
      /\ flushedTo' = IF f > flushedTo THEN f ELSE flushedTo
      /\ UNCHANGED <<current, output, writeAt, received, asked>>
  BY DEF Flush
<1>5. TypeOK'
  BY <1>1, <1>3, <1>4 DEF IInv, TypeOK, BufferFields
<1>6. MarkersAgree' /\ PlayingPacket' /\ GapsRequested' /\ AskedWithinStream'
  BY <1>3, <1>4 DEF IInv, MarkersAgree, PlayingPacket, GapsRequested, AskedWithinStream
<1>7. ASSUME ~Late
      PROVE  /\ f >= readAt
             /\ f - readAt < SeqMod
             /\ Passed(fb, SeqOf(f)) = { SeqOf(readAt + i) : i \in 0 .. f - readAt - 1 }
  BY <1>1, <1>7, PassedAreBefore DEF Flush
<1>8. WindowHeld'
  <2> SUFFICES ASSUME ~Late PROVE WindowHeld'
    BY DEF WindowHeld
  <2>1. (writeAt < readAt + Window)' /\ (readAt <= Last + 1)'
    BY <1>1, <1>4, <1>7 DEF IInv, WindowHeld
  <2>2. ASSUME NEW k \in DOMAIN fb'.data PROVE f <= fb'.data[k] \/ LeftInLastHalf(fb'.data[k])
    <3> DEFINE p == fb.data[k]
    <3>1. /\ k \in DOMAIN fb.data /\ fb'.data[k] = p /\ p \in Int
          /\ SeqOf(p) = k /\ Recent(p)
      BY <1>3 DEF IInv, WindowHeld, KeysOwn, TypeOK, Packets
    <3> HIDE DEF p
    <3>2. CASE readAt <= p /\ p < f
      <4>1. p - readAt \in 0 .. f - readAt - 1 /\ readAt + (p - readAt) = p
        BY <1>1, <3>1, <3>2
      <4>2. k \in Passed(fb, SeqOf(f))
        BY <1>7, <3>1, <4>1
      <4> QED BY <1>3, <4>2
    <3> QED BY <1>1, <3>1, <3>2 DEF Recent
  <2>3. current'.idx < readAt' /\ \A i \in current'.idx + 1 .. readAt' - 1 : i < flushedTo'
    BY <1>1, <1>4, <1>7 DEF IInv, WindowHeld, TypeOK
  <2> QED BY <1>4, <2>1, <2>2, <2>3 DEF WindowHeld, Recent
<1>9. NothingLost'
  <2> SUFFICES ASSUME ~Late, NEW p \in received, p >= f
               PROVE  SeqOf(p) \in DOMAIN fb'.data /\ fb'.data[SeqOf(p)] = p
    BY <1>4 DEF NothingLost
  <2>1. p \in Int /\ p >= readAt
    BY <1>1, <1>7 DEF IInv, TypeOK, Packets
  <2>2. SeqOf(p) \in DOMAIN fb.data /\ fb.data[SeqOf(p)] = p
    BY <2>1 DEF IInv, NothingLost
  <2>3. p < readAt + Window
    BY <2>2 DEF IInv, KeysOwn
  <2>4. SeqOf(p) \notin Passed(fb, SeqOf(f))
    <3> SUFFICES ASSUME NEW i \in 0 .. f - readAt - 1, SeqOf(p) = SeqOf(readAt + i)
                 PROVE  FALSE
      BY <1>7
    <3>1. p - (readAt + i) < SeqMod /\ (readAt + i) - p < SeqMod /\ readAt + i \in Int
      BY <1>1, <2>1, <2>3
    <3>2. p = readAt + i
      BY <2>1, <3>1, SeqOfInjective
    <3> QED BY <1>1, <3>2
  <2> QED BY <1>3, <2>2, <2>4
<1>10. KeysOwn'
  <2> SUFFICES ASSUME NEW k \in DOMAIN fb'.data
               PROVE  SeqOf(fb'.data[k]) = k /\ fb'.data[k] < f + Window
    BY <1>4 DEF KeysOwn
  <2>1. /\ k \in DOMAIN fb.data /\ fb'.data[k] = fb.data[k] /\ fb.data[k] \in Int
        /\ SeqOf(fb.data[k]) = k /\ fb.data[k] < readAt + Window
    BY <1>3 DEF IInv, KeysOwn, TypeOK, Packets
  <2>2. CASE f >= readAt
    BY <1>1, <2>1, <2>2
  <2>3. CASE f < readAt
    <3>1. readAt - f <= Window
      BY DEF Flush
    <3>2. fb.data[k] < readAt
      BY <1>3, <2>1, <2>3, <3>1, RewindLeavesBehind
    <3> QED BY <1>1, <2>1, <3>1, <3>2
  <2> QED BY <1>1, <2>2, <2>3
<1> QED BY <1>5, <1>6, <1>8, <1>9, <1>10 DEF IInv

\* A sample of the current packet preserves the invariant.
LEMMA PlayCurrentIInv ==
    ASSUME IInv, PlayCurrent
    PROVE  IInv'
<1> USE StreamAssumption
<1>1. /\ current.idx \in Packets /\ current.left \in Nat /\ current.left > 0
      /\ current'.idx = current.idx /\ current'.left = current.left - 1
      /\ current' \in [idx : First - 1 .. Last, left : Nat]
  BY DEF IInv, TypeOK, PlayingPacket, PlayCurrent
<1>2. PacketLen[current.idx] \in Int /\ current.idx \in First .. Last
  BY <1>1 DEF Packets
<1>3. output' \in [idx : First - 1 .. Last, pos : Int]
  BY <1>1, <1>2 DEF PlayCurrent, Sample
<1>4. UNCHANGED <<fb, readAt, writeAt, received, asked, flushedTo>>
  BY DEF PlayCurrent
<1>5. TypeOK'
  BY <1>1, <1>3, <1>4 DEF IInv, TypeOK
<1>6. MarkersAgree' /\ PlayingPacket' /\ GapsRequested' /\ AskedWithinStream'
  BY <1>1, <1>4 DEF IInv, MarkersAgree, PlayingPacket, GapsRequested, AskedWithinStream
<1>7. KeysOwn' /\ WindowHeld' /\ NothingLost'
  BY <1>1, <1>4 DEF IInv, KeysOwn, WindowHeld, Recent, NothingLost
<1> QED BY <1>5, <1>6, <1>7 DEF IInv

\* pop_front preserves the invariant: it takes the packet the read marker
\* stands for.
LEMMA PlayNextIInv ==
    ASSUME IInv, PlayNext
    PROVE  IInv'
<1> USE StreamAssumption
<1> DEFINE n == Front(fb)
<1>1. /\ readAt \in Int /\ writeAt \in Int /\ Window \in Int /\ readAt >= 0
      /\ Half \in Nat /\ Window <= Half - 2 /\ SeqMod = 2 * Half
  BY SeqModPositive DEF IInv, TypeOK, Packets
<1>2. n \in Packets /\ PacketLen[n] \in Nat /\ n \in First .. Last
  BY DEF PlayNext, HasFront, Front, IInv, TypeOK, Packets
<1>3. /\ BufferFields(fb')
      /\ DOMAIN fb'.data = DOMAIN fb.data \ {fb.read_marker}
      /\ \A k \in DOMAIN fb'.data : fb'.data[k] = fb.data[k]
      /\ fb'.read_marker = SeqOf(readAt + 1)
      /\ fb'.write_marker = fb.write_marker
  BY <1>1, PopFront, TypeBuffer, SeqOfNext DEF IInv, PlayNext, MarkersAgree
<1>4. readAt' = readAt + 1 /\ UNCHANGED <<writeAt, received, asked, flushedTo>>
  BY DEF PlayNext
<1>5. /\ current'.idx = n
      /\ current' \in [idx : First - 1 .. Last, left : Nat]
      /\ output' \in [idx : First - 1 .. Last, pos : Int]
  <2> HIDE DEF n
  <2>1. CASE PacketLen[n] > 0
    <3>1. /\ output' = Sample(n, PacketLen[n])
          /\ current' = [idx |-> n, left |-> PacketLen[n] - 1]
      BY <2>1 DEF PlayNext, n
    <3> QED BY <1>2, <2>1, <3>1 DEF Sample
  <2>2. CASE ~ (PacketLen[n] > 0)
    <3>1. output' = silence /\ current' = [idx |-> n, left |-> 0]
      BY <2>2 DEF PlayNext, n
    <3> QED BY <1>2, <3>1 DEF silence
  <2> QED BY <2>1, <2>2
<1> HIDE DEF n
<1>6. TypeOK'
  BY <1>1, <1>3, <1>4, <1>5 DEF IInv, TypeOK, BufferFields
<1>7. MarkersAgree' /\ PlayingPacket' /\ GapsRequested' /\ AskedWithinStream'
  BY <1>2, <1>3, <1>4, <1>5 DEF IInv, MarkersAgree, PlayingPacket, GapsRequested, AskedWithinStream
<1>8. ASSUME ~Late PROVE n = readAt
  BY <1>8, FrontIsRead DEF PlayNext, n
<1>9. WindowHeld'
  <2> SUFFICES ASSUME ~Late PROVE WindowHeld'
    BY DEF WindowHeld
  <2>1. (writeAt < readAt + Window)' /\ (readAt <= Last + 1)'
    BY <1>1, <1>2, <1>4, <1>8 DEF IInv, WindowHeld
  <2>2. ASSUME NEW k \in DOMAIN fb'.data
        PROVE  readAt + 1 <= fb'.data[k] \/ LeftInLastHalf(fb'.data[k])
    <3>1. /\ k \in DOMAIN fb.data /\ k # SeqOf(readAt) /\ fb'.data[k] = fb.data[k]
          /\ fb.data[k] \in Int /\ SeqOf(fb.data[k]) = k /\ Recent(fb.data[k])
      BY <1>3 DEF IInv, WindowHeld, KeysOwn, TypeOK, Packets, MarkersAgree
    <3>2. fb.data[k] # readAt
      BY <3>1
    <3> QED BY <1>1, <3>1, <3>2 DEF Recent
  <2>3. current'.idx < readAt' /\ \A i \in current'.idx + 1 .. readAt' - 1 : i < flushedTo'
    BY <1>1, <1>4, <1>5, <1>8
  <2> QED BY <1>4, <2>1, <2>2, <2>3 DEF WindowHeld, Recent
<1>10. NothingLost'
  <2> SUFFICES ASSUME ~Late, NEW p \in received, p >= readAt + 1
               PROVE  SeqOf(p) \in DOMAIN fb'.data /\ fb'.data[SeqOf(p)] = p
    BY <1>4 DEF NothingLost
  <2>1. p \in Int /\ p >= readAt
    BY <1>1 DEF IInv, TypeOK, Packets
  <2>2. SeqOf(p) \in DOMAIN fb.data /\ fb.data[SeqOf(p)] = p
    BY <2>1 DEF IInv, NothingLost
  <2>3. p < readAt + Window
    BY <2>2 DEF IInv, KeysOwn
  <2>4. SeqOf(p) # SeqOf(readAt)
    <3> SUFFICES ASSUME SeqOf(p) = SeqOf(readAt) PROVE FALSE
      OBVIOUS
    <3>1. p - readAt < SeqMod /\ readAt - p < SeqMod
      BY <1>1, <2>1, <2>3
    <3>2. p = readAt
      BY <1>1, <2>1, <3>1, SeqOfInjective
    <3> QED BY <1>1, <3>2
  <2> QED BY <1>3, <2>2, <2>4 DEF IInv, MarkersAgree
<1>11. KeysOwn'
  <2>1. \A k \in DOMAIN fb.data : fb.data[k] \in Int
    BY DEF IInv, TypeOK, Packets
  <2> QED BY <1>1, <1>3, <1>4, <2>1 DEF IInv, KeysOwn
<1> QED BY <1>6, <1>7, <1>9, <1>10, <1>11 DEF IInv

\* So does a step that changes nothing but the sample, to silence.
LEMMA StutterIInv ==
    ASSUME IInv, UNCHANGED <<fb, current, readAt, writeAt, received, asked, flushedTo>>,
           output' \in {output, silence}
    PROVE  IInv'
<1>1. TypeOK'
  BY StreamAssumption DEF IInv, TypeOK, silence
<1>2. MarkersAgree' /\ PlayingPacket' /\ GapsRequested' /\ AskedWithinStream'
  BY DEF IInv, MarkersAgree, PlayingPacket, GapsRequested, AskedWithinStream
<1>3. KeysOwn' /\ WindowHeld' /\ NothingLost'
  BY DEF IInv, KeysOwn, WindowHeld, Recent, NothingLost
<1> QED BY <1>1, <1>2, <1>3 DEF IInv

\* Every step preserves the invariant.
LEMMA NextIInv == IInv /\ [Next]_vars => IInv'
<1> SUFFICES ASSUME IInv, [Next]_vars PROVE IInv'
  OBVIOUS
<1>1. ASSUME NEW n \in Packets, Arrive(n) PROVE IInv'
  BY <1>1, ArriveIInv
<1>2. ASSUME NEW f \in First .. Last + 1, Flush(f) PROVE IInv'
  BY <1>2, FlushIInv
<1>3. CASE PlayCurrent
  BY <1>3, PlayCurrentIInv
<1>4. CASE PlayNext
  BY <1>4, PlayNextIInv
<1>5. CASE PlaySilence
  BY <1>5, StutterIInv DEF PlaySilence
<1>6. CASE UNCHANGED vars
  BY <1>6, StutterIInv DEF vars
<1> QED BY <1>1, <1>2, <1>3, <1>4, <1>5, <1>6 DEF Next, NextSample

\* The inductive invariant holds of every state of a recorded stream.
THEOREM StreamInvariant == Spec => []IInv
BY InitIInv, NextIInv, PTL DEF Spec

\* The buffer, the source and the history keep their types: no marker leaves
\* the number space and no key of the map does.
THEOREM TypeCorrect == Spec => []TypeOK
<1>1. IInv => TypeOK
  BY DEF IInv
<1> QED BY <1>1, StreamInvariant, PTL

\* add_packet's comparison with the last packet alone leaves no loss
\* unnoticed: every packet before one that arrived, but the first, has
\* arrived or been requested.
THEOREM NoGapUnnoticed == Spec => []GapsRequested
<1>1. IInv => GapsRequested
  BY DEF IInv
<1> QED BY <1>1, StreamInvariant, PTL

\* Nothing outside the stream's gaps is ever requested.
THEOREM RequestsWithinStream == Spec => []AskedWithinStream
<1>1. IInv => AskedWithinStream
  BY DEF IInv
<1> QED BY <1>1, StreamInvariant, PTL

\* A packet that arrived stays in the map, under its number, until it is
\* played or flushed, if flushes go forward and packets come late only in the
\* last half round of the stream (~Late, in the property).
THEOREM NoPacketLost == Spec => []NothingLost
<1>1. IInv => NothingLost
  BY DEF IInv
<1> QED BY <1>1, StreamInvariant, PTL

\* Packets less than half a round apart have numbers in their order.
LEMMA SpanOrdered ==
    ASSUME NEW S, S \subseteq Int, \A m, n \in S : m - n < Half,
           \A k \in Keys : \E m \in S : k = SeqOf(m)
    PROVE  TotallyOrdered
<1>1. Half \in Nat
  BY SeqModPositive
<1>2. ASSUME NEW p \in S, NEW q \in S PROVE lt(SeqOf(p), SeqOf(q)) <=> p < q
  <2>1. p \in Int /\ q \in Int /\ p - q < Half /\ q - p < Half
    OBVIOUS
  <2>2. sub(SeqOf(p), SeqOf(q)) = p - q
    BY <2>1, SubIsDistance
  <2> QED BY <2>1, <2>2 DEF lt
<1>3. ASSUME NEW a \in Keys, NEW b \in Keys, a # b PROVE lt(a, b) <=> ~ lt(b, a)
  <2>1. PICK p \in S : a = SeqOf(p)
    OBVIOUS
  <2>2. PICK q \in S : b = SeqOf(q)
    OBVIOUS
  <2>3. p # q /\ p \in Int /\ q \in Int
    BY <1>3, <2>1, <2>2
  <2>4. (lt(a, b) <=> p < q) /\ (lt(b, a) <=> q < p)
    BY <1>2, <2>1, <2>2
  <2> QED BY <2>3, <2>4
<1>4. ASSUME NEW a \in Keys, NEW b \in Keys, NEW c \in Keys, lt(a, b), lt(b, c)
      PROVE  lt(a, c)
  <2>1. PICK p \in S : a = SeqOf(p)
    OBVIOUS
  <2>2. PICK q \in S : b = SeqOf(q)
    OBVIOUS
  <2>3. PICK r \in S : c = SeqOf(r)
    OBVIOUS
  <2>4. (lt(a, b) <=> p < q) /\ (lt(b, c) <=> q < r) /\ (lt(a, c) <=> p < r)
    BY <1>2, <2>1, <2>2, <2>3
  <2>5. p \in Int /\ q \in Int /\ r \in Int
    OBVIOUS
  <2> QED BY <1>4, <2>4, <2>5
<1> QED BY <1>3, <1>4 DEF TotallyOrdered

\* Whatever is late or flushed, forward or back, Seq's comparison orders the
\* keys of the map totally until a packet that came late has been left more
\* than Half - Window packets behind; so up to there, and always in a stream that
\* ends within half a round of its late packets, the BTreeMap is the map it
\* is modelled as.
THEOREM KeysStayOrdered == Spec => []KeysOrdered
<1>1. ASSUME IInv, ~LongLeft PROVE TotallyOrdered
  <2> DEFINE S == Held \cup {readAt}
  <2>1. /\ readAt \in Int /\ Window \in Int /\ Half \in Int /\ Last \in Int
        /\ Window > 0 /\ Window <= Half - 2
    BY <1>1, StreamAssumption, SeqModPositive DEF IInv, TypeOK
  <2>2. \A n \in Held : n \in Int /\ n <= Last /\ n < readAt + Window
    BY <1>1, StreamAssumption DEF IInv, TypeOK, KeysOwn, Packets, Held
  <2>3. \A m, n \in S : m - n < Half
    <3> SUFFICES ASSUME NEW m \in S, NEW n \in S PROVE m - n < Half
      OBVIOUS
    <3>1. m \in Int /\ n \in Int /\ m < readAt + Window
      BY <2>1, <2>2
    <3>2. CASE Late
      <4>1. readAt - n <= Half - Window
        BY <1>1, <2>1, <2>2, <3>2 DEF LongLeft
      <4> QED BY <2>1, <3>1, <4>1
    <3>3. CASE ~Late
      <4>1. readAt <= n \/ Last + 1 - n < Half
        BY <1>1, <2>1, <3>3 DEF IInv, WindowHeld, Recent, LeftInLastHalf, Held
      <4>2. m <= Last + 1
        BY <1>1, <2>1, <2>2, <3>3 DEF IInv, WindowHeld
      <4> QED BY <2>1, <3>1, <4>1, <4>2
    <3> QED BY <3>2, <3>3
  <2>4. \A k \in Keys : \E m \in S : k = SeqOf(m)
    BY <1>1 DEF IInv, MarkersAgree, KeysOwn, Keys, Held
  <2>5. S \subseteq Int
    BY <2>1, <2>2
  <2> QED BY <2>3, <2>4, <2>5, SpanOrdered
<1>2. IInv => KeysOrdered
  BY <1>1 DEF KeysOrdered
<1> QED BY <1>2, StreamInvariant, PTL

\* Playback goes forward only, and passes over nothing but what a flush
\* passed over, under the same condition.
THEOREM PlaybackInOrder == Spec => PlaysInOrder
<1> DEFINE A == ~Late /\ current'.idx # current.idx =>
                   /\ current'.idx > current.idx
                   /\ \A i \in current.idx + 1 .. current'.idx - 1 : i < flushedTo
<1>1. IInv /\ [Next]_vars => [A]_vars
  <2> SUFFICES ASSUME IInv, [Next]_vars, ~Late, current'.idx # current.idx
               PROVE  /\ current'.idx > current.idx
                      /\ \A i \in current.idx + 1 .. current'.idx - 1 : i < flushedTo
    OBVIOUS
  <2>1. PlayNext
    <3>1. current'.idx = current.idx \/ PlayNext
      BY DEF Next, NextSample, Arrive, Flush, PlayCurrent, PlaySilence, vars, IInv, TypeOK
    <3> QED BY <3>1
  <2>2. Front(fb) = readAt
    BY <2>1, FrontIsRead DEF PlayNext
  <2>3. current'.idx = Front(fb)
    BY <2>1 DEF PlayNext
  <2>4. current.idx < readAt /\ \A i \in current.idx + 1 .. readAt - 1 : i < flushedTo
    BY DEF IInv, WindowHeld
  <2>5. current.idx \in Int /\ readAt \in Int
    BY StreamAssumption DEF IInv, TypeOK
  <2> QED BY <2>2, <2>3, <2>4, <2>5
<1> QED BY <1>1, StreamInvariant, PTL DEF Spec, PlaysInOrder

\* The listener hears silence only for want of the packet that is due, under
\* the same condition.
THEOREM SilenceMeansStarved == Spec => SilenceOnlyWhenStarved
<1> DEFINE A == ~Late /\ output' = silence /\ output # silence =>
                   (readAt \in received => PacketLen[readAt] = 0)
<1>1. IInv /\ [Next]_vars => [A]_vars
  <2> SUFFICES ASSUME IInv, [Next]_vars, ~Late, output' = silence, output # silence,
                      readAt \in received
               PROVE  PacketLen[readAt] = 0
    OBVIOUS
  <2>1. HasFront(fb)
    <3>1. SeqOf(readAt) \in DOMAIN fb.data
      BY DEF IInv, NothingLost, TypeOK
    <3> QED BY <3>1 DEF IInv, MarkersAgree, HasFront
  <2>2. Front(fb) = readAt
    BY <2>1, FrontIsRead
  <2>3. readAt \in Packets /\ readAt # First - 1 /\ PacketLen[readAt] \in Nat
    BY StreamAssumption DEF IInv, TypeOK, Packets
  <2>4. ~ PlayCurrent
    <3> SUFFICES ASSUME PlayCurrent PROVE FALSE
      OBVIOUS
    <3>1. current.idx \in Packets
      BY DEF PlayCurrent, IInv, PlayingPacket
    <3>2. output'.idx = current.idx /\ output'.idx = First - 1
      BY DEF PlayCurrent, Sample, silence
    <3> QED BY <3>1, <3>2, StreamAssumption DEF Packets
  <2>5. PlayNext
    BY <2>1, <2>4 DEF Next, NextSample, Arrive, Flush, PlaySilence, vars
  <2>6. CASE PacketLen[readAt] > 0
    <3>1. output' = Sample(readAt, PacketLen[readAt])
      BY <2>2, <2>5, <2>6 DEF PlayNext
    <3>2. output'.idx = readAt /\ output'.idx = First - 1
      BY <3>1 DEF Sample, silence
    <3> QED BY <2>3, <3>2
  <2> QED BY <2>3, <2>6
<1> QED BY <1>1, StreamInvariant, PTL DEF Spec, SilenceOnlyWhenStarved
=============================================================================
