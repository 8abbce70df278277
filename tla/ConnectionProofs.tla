--------------------------- MODULE ConnectionProofs ---------------------------
(***************************************************************************)
(* However many messages a peer sends, however long they are and however   *)
(* the bytes are cut, Connection implements MessageStream.                 *)
(***************************************************************************)
EXTENDS Connection, TLAPS

\* Where the first n messages end.
EndOf(n) == IF n = 0 THEN 0 ELSE Ends[n]

\* The buffer starts where a message starts, the one after those returned.
Aligned ==
    /\ Len(delivered) <= Len(Ends)
    /\ consumed = EndOf(Len(delivered))

\* read_buf is awaited only for a buffer without a complete message.
FillsIncomplete == task = "filling" => ParseIncomplete(consumed, filled)

\* What is executed is a message that was returned.
ExecutesRequest == task = "executing" => delivered # <<>>

ConnectionInv == TypeOK /\ Aligned /\ FillsIncomplete /\ ExecutesRequest

-----------------------------------------------------------------------------
\* Offsets are numbers, and a message lies after those before it.
LEMMA Offsets ==
    /\ Len(Ends) \in Nat \ {0}
    /\ \A m \in Messages : Ends[m] \in Nat \ {0} /\ Ends[m] <= Total
    /\ \A m, n \in Messages : m < n => Ends[m] < Ends[n]
    /\ Total \in Nat
<1>1. /\ Len(Ends) \in Nat \ {0}
      /\ \A m \in Messages : Ends[m] \in Nat \ {0}
      /\ \A m, n \in Messages : m < n => Ends[m] < Ends[n]
  BY ConnectionAssumption DEF Messages
<1>2. Len(Ends) \in Messages
  BY <1>1 DEF Messages
<1>3. ASSUME NEW m \in Messages PROVE Ends[m] <= Ends[Len(Ends)]
  <2>1. CASE m = Len(Ends)
    BY <1>1, <2>1
  <2>2. CASE m < Len(Ends)
    BY <1>1, <1>2, <2>2
  <2> QED BY <1>1, <2>1, <2>2 DEF Messages
<1> QED BY <1>1, <1>2, <1>3 DEF Total

\* Only one message starts where the first n end, message n + 1.
LEMMA StartsAfter ==
    ASSUME NEW n \in 0 .. Len(Ends), NEW m \in Messages
    PROVE  Start(m) = EndOf(n) <=> m = n + 1
<1>1. m \in Nat \ {0} /\ m <= Len(Ends)
  BY Offsets DEF Messages
<1>2. CASE m = 1
  BY <1>1, <1>2, Offsets DEF Start, EndOf, Messages
<1>3. CASE m # 1
  <2>1. m - 1 \in Messages /\ Start(m) = Ends[m - 1]
    BY <1>1, <1>3, Offsets DEF Messages, Start
  <2>2. CASE n = 0
    BY <1>3, <2>1, <2>2, Offsets DEF EndOf
  <2>3. CASE n # 0
    <3>1. n \in Messages /\ EndOf(n) = Ends[n]
      BY <2>3, Offsets DEF Messages, EndOf
    <3>2. \/ m - 1 < n \/ m - 1 = n \/ n < m - 1
      BY <1>1, <3>1, Offsets DEF Messages
    <3> QED BY <1>1, <2>1, <3>1, <3>2, Offsets
  <2> QED BY <2>2, <2>3
<1> QED BY <1>2, <1>3

\* What has arrived up to byte w: message k + 1 lies behind it if w does not
\* reach its end, and every message up to k if w reaches the end of k.
LEMMA EndsBefore ==
    ASSUME NEW k \in 0 .. Len(Ends), NEW w \in Nat, EndOf(k) <= w,
           k < Len(Ends) => w < Ends[k + 1]
    PROVE  \A m \in Messages : Ends[m] <= w <=> m <= k
<1> SUFFICES ASSUME NEW m \in Messages PROVE Ends[m] <= w <=> m <= k
  OBVIOUS
<1>1. m \in Nat \ {0} /\ m <= Len(Ends) /\ Len(Ends) \in Nat
  BY Offsets DEF Messages
<1>2. CASE m <= k
  <2>1. k \in Messages /\ EndOf(k) = Ends[k]
    BY <1>1, <1>2 DEF Messages, EndOf
  <2>2. Ends[m] <= Ends[k]
    <3>1. m = k \/ m < k
      BY <1>1, <1>2
    <3> QED BY <2>1, <3>1, Offsets
  <2> QED BY <1>2, <2>1, <2>2, Offsets
<1>3. CASE k < m
  <2>1. k + 1 \in Messages /\ k < Len(Ends)
    BY <1>1, <1>3 DEF Messages
  <2>2. Ends[k + 1] <= Ends[m]
    <3>1. m = k + 1 \/ k + 1 < m
      BY <1>1, <1>3
    <3> QED BY <2>1, <3>1, Offsets
  <2> QED BY <1>1, <1>3, <2>1, <2>2, Offsets
<1> QED BY <1>1, <1>2, <1>3

-----------------------------------------------------------------------------
\* The message returned is the next one.
LEMMA ParseIsNext ==
    ASSUME ConnectionInv, NEW m \in Messages, ParsesTo(consumed, filled, m)
    PROVE  m = Len(delivered) + 1
<1>1. Len(delivered) \in 0 .. Len(Ends) /\ Start(m) = EndOf(Len(delivered))
  BY Offsets DEF ConnectionInv, TypeOK, Aligned, ParsesTo
<1> QED BY <1>1, StartsAfter

\* The invariant holds throughout.
THEOREM ConnectionInvariant == ConnectionSpec => []ConnectionInv
<1>1. ConnectionInit => ConnectionInv
  BY Offsets DEF ConnectionInit, ConnectionInv, TypeOK, Aligned, FillsIncomplete, ExecutesRequest, EndOf
<1>2. ConnectionInv /\ [ConnectionNext]_connectionVars => ConnectionInv'
  <2> SUFFICES ASSUME ConnectionInv, [ConnectionNext]_connectionVars PROVE ConnectionInv'
    OBVIOUS
  <2> USE DEF ConnectionInv
  <2>1. CASE Parse
    <3>1. PICK m \in Messages : /\ ParsesTo(consumed, filled, m)
                                /\ consumed' = Ends[m]
                                /\ delivered' = Append(delivered, m)
      BY <2>1 DEF Parse
    <3>2. m = Len(delivered) + 1
      BY <3>1, ParseIsNext
    <3>3. Len(delivered') = m /\ delivered' \in Seq(Messages)
      BY <3>1, <3>2 DEF TypeOK
    <3>4. Ends[m] \in Nat \ {0} /\ Ends[m] <= filled
      BY <3>1, Offsets DEF ParsesTo
    <3>5. TypeOK'
      BY <2>1, <3>1, <3>3, <3>4, Offsets DEF Parse, TypeOK, peerVars, writeVars
    <3>6. Aligned'
      BY <3>1, <3>3, Offsets DEF Aligned, EndOf, Messages
    <3>7. FillsIncomplete'
      BY <2>1 DEF Parse, FillsIncomplete
    <3>8. ExecutesRequest'
      BY <3>1, <3>2, <3>3, Offsets DEF ExecutesRequest, TypeOK, Messages
    <3> QED BY <3>5, <3>6, <3>7, <3>8
  <2>2. CASE NeedMore \/ Invalid \/ EndOfStream \/ ReadFails \/ Cancelled \/ WriteFails
             \/ ExecuteFails \/ NoResponse
    BY <2>2 DEF NeedMore, Invalid, EndOfStream, ReadFails, Cancelled, WriteFails,
                ExecuteFails, NoResponse, TypeOK, Aligned, FillsIncomplete, ExecutesRequest,
                peerVars, readVars, writeVars, EndOf, ParseIncomplete
  <2>3. ASSUME NEW n \in 1 .. Total, Fill(n) PROVE ConnectionInv'
    BY <2>3, Offsets DEF Fill, TypeOK, Aligned, FillsIncomplete, ExecutesRequest,
                         peerVars, writeVars, EndOf
  <2>4. CASE Write \/ Flush
    <3>1. task = "executing" => Request \in Messages
      BY DEF TypeOK, ExecutesRequest, Request
    <3> QED BY <2>4, <3>1 DEF Write, Flush, TypeOK, Aligned, FillsIncomplete, ExecutesRequest,
                              peerVars, readVars, EndOf
  <2>5. ASSUME NEW n \in 1 .. Total, PeerSends(n) PROVE ConnectionInv'
    BY <2>5, Offsets DEF PeerSends, TypeOK, Aligned, FillsIncomplete, ExecutesRequest,
                         readVars, writeVars, EndOf, ParseIncomplete
  <2>6. ASSUME NEW how \in {"closed", "reset"}, PeerLeaves(how) PROVE ConnectionInv'
    BY <2>6 DEF PeerLeaves, TypeOK, Aligned, FillsIncomplete, ExecutesRequest,
                readVars, writeVars, EndOf, ParseIncomplete
  <2>7. CASE UNCHANGED connectionVars
    BY <2>7 DEF connectionVars, peerVars, readVars, writeVars, TypeOK, Aligned, FillsIncomplete,
                ExecutesRequest, EndOf, ParseIncomplete
  <2> QED BY <2>1, <2>2, <2>3, <2>4, <2>5, <2>6, <2>7 DEF ConnectionNext, Task
<1> QED BY <1>1, <1>2, PTL DEF ConnectionSpec

\* Offsets stay ordered: what is returned was read, and what is read was sent.
THEOREM ConnectionTypeCorrect == ConnectionSpec => []TypeOK
<1>1. ConnectionInv => TypeOK
  BY DEF ConnectionInv
<1> QED BY <1>1, ConnectionInvariant, PTL

-----------------------------------------------------------------------------
(***************************************************************************)
(* The refinement.  d is the number of messages returned.                  *)
(***************************************************************************)
complete == { m \in Messages : Ends[m] <= written }
partial  == written # 0 /\ \A m \in Messages : Ends[m] # written

\* A buffer that ends inside the message after those returned: everything
\* complete has been returned, and if bytes are left a message was cut off.
LEMMA CutOff ==
    ASSUME ConnectionInv, ParseIncomplete(consumed, written)
    PROVE  /\ \A m \in complete : m < Len(delivered) + 1
           /\ consumed # written <=> partial
<1> DEFINE d == Len(delivered)
<1>1. /\ d \in 0 .. Len(Ends) /\ consumed = EndOf(d)
      /\ written \in Nat /\ consumed \in Nat /\ consumed <= written /\ written <= Total
  BY Offsets DEF ConnectionInv, TypeOK, Aligned
<1>2. d < Len(Ends) => written < Ends[d + 1]
  <2> SUFFICES ASSUME d < Len(Ends) PROVE written < Ends[d + 1]
    OBVIOUS
  <2>1. d + 1 \in Messages
    BY <1>1, Offsets DEF Messages
  <2>2. CASE consumed = written
    <3>1. CASE d = 0
      BY <1>1, <2>1, <2>2, <3>1, Offsets DEF EndOf
    <3>2. CASE d # 0
      <4>1. d \in Messages /\ d < d + 1 /\ written = Ends[d]
        BY <1>1, <2>2, <3>2 DEF Messages, EndOf
      <4> QED BY <2>1, <4>1, Offsets
    <3> QED BY <3>1, <3>2
  <2>3. CASE consumed # written
    <3>1. PICK m \in Messages : Start(m) = consumed /\ written < Ends[m]
      BY <2>3 DEF ParseIncomplete
    <3>2. m = d + 1
      BY <1>1, <3>1, StartsAfter
    <3> QED BY <3>1, <3>2
  <2> QED BY <2>2, <2>3
<1> HIDE DEF d
<1>3. \A m \in Messages : Ends[m] <= written <=> m <= d
  BY <1>1, <1>2, EndsBefore
<1>4. \A m \in complete : m < d + 1
  BY <1>1, <1>3 DEF complete, Messages
<1>5. consumed = written => ~partial
  <2> SUFFICES ASSUME consumed = written, written # 0 PROVE \E m \in Messages : Ends[m] = written
    BY DEF partial
  <2>1. d \in Messages /\ Ends[d] = written
    BY <1>1 DEF EndOf, Messages
  <2> QED BY <2>1
<1>6. ASSUME consumed # written PROVE partial
  <2>1. written # 0
    BY <1>1, <1>6
  <2>2. ASSUME NEW m \in Messages, Ends[m] = written PROVE FALSE
    <3>1. m \in Nat \ {0} /\ m <= d
      BY <1>1, <1>3, <2>2 DEF Messages
    <3>2. d \in Messages /\ consumed = Ends[d]
      BY <1>1, <3>1 DEF EndOf, Messages
    <3>3. m = d \/ m < d
      BY <1>1, <3>1
    <3> QED BY <1>1, <1>6, <2>2, <3>2, <3>3, Offsets
  <2> QED BY <2>1, <2>2 DEF partial
<1> QED BY <1>4, <1>5, <1>6 DEF d

\* An error of the parser means that the next message is malformed, and some of
\* it has arrived.
LEMMA ErrorIsNext ==
    ASSUME ConnectionInv, ParseError(consumed, filled)
    PROVE  /\ Len(delivered) + 1 \in Malformed
           /\ partial \/ Len(delivered) + 1 \in complete
<1> DEFINE d == Len(delivered)
<1>1. /\ d \in 0 .. Len(Ends) /\ consumed = EndOf(d)
      /\ written \in Nat /\ consumed \in Nat /\ consumed < written /\ written <= Total
  BY Offsets DEF ConnectionInv, TypeOK, Aligned, ParseError
<1>2. d < Len(Ends)
  <2> SUFFICES ASSUME d = Len(Ends) PROVE FALSE
    BY <1>1, Offsets
  <2>1. consumed = Total
    BY <1>1, Offsets DEF EndOf, Total
  <2> QED BY <1>1, <2>1, Offsets
<1>3. d + 1 \in Messages
  BY <1>1, <1>2, Offsets DEF Messages
<1>4. Start(d + 1) = consumed
  BY <1>1, <1>3, StartsAfter
<1>5. PICK m \in Malformed : Start(m) = consumed
  BY <1>3, <1>4 DEF ParseError
<1>6. m \in Messages /\ m = d + 1
  BY <1>1, <1>5, StartsAfter, ConnectionAssumption
<1>7. CASE Ends[d + 1] <= written
  BY <1>3, <1>5, <1>6, <1>7 DEF complete
<1>8. CASE ~(Ends[d + 1] <= written)
  <2>1. written < Ends[d + 1]
    BY <1>1, <1>3, <1>8, Offsets
  <2>2. ParseIncomplete(consumed, written)
    BY <1>3, <1>4, <2>1 DEF ParseIncomplete
  <2>3. partial
    BY <1>1, <2>2, CutOff
  <2> QED BY <1>5, <1>6, <2>3
<1> QED BY <1>7, <1>8

\* read_message hands over the messages of the stream, whole, in order and
\* once, and ends as its comment says (connection.rs:53-63).
THEOREM ConnectionImplementsStream == ConnectionSpec => ReadsMessages
<1>1. ConnectionInit => Abstract!Init
  BY Offsets DEF ConnectionInit, Abstract!Init, Over
<1>2. ConnectionInv /\ [ConnectionNext]_connectionVars => [Abstract!Next]_(Abstract!vars)
  <2> SUFFICES ASSUME ConnectionInv, [ConnectionNext]_connectionVars
               PROVE  [Abstract!Next]_(Abstract!vars)
    OBVIOUS
  <2>1. CASE Parse
    <3>1. PICK m \in Messages : /\ ParsesTo(consumed, filled, m)
                                /\ delivered' = Append(delivered, m)
      BY <2>1 DEF Parse
    <3>2. m = Len(delivered) + 1
      BY <3>1, ParseIsNext
    <3>3. m \notin Malformed /\ Ends[m] <= written
      BY <3>1, Offsets DEF ParsesTo, ConnectionInv, TypeOK
    <3>4. Abstract!Deliver
      BY <2>1, <3>1, <3>2, <3>3
      DEF Abstract!Deliver, Abstract!NextMessage, Parse, Over, peerVars
    <3> QED BY <3>4 DEF Abstract!Next
  <2>2. CASE Invalid
    <3>1. Abstract!End("error")
      BY <2>2 DEF Invalid, Abstract!End, Over, peerVars, readVars
    <3>2. /\ Len(delivered) + 1 \in Malformed
          /\ partial \/ Len(delivered) + 1 \in complete
      BY <2>2, ErrorIsNext DEF Invalid
    <3>3. Len(delivered) \in Nat
      BY DEF ConnectionInv, TypeOK
    <3>4. Abstract!EndError
      BY <3>1, <3>2, <3>3
      DEF Abstract!EndError, Abstract!Drained, Abstract!NextMessage, partial, complete
    <3> QED BY <3>4 DEF Abstract!Next
  <2>3. CASE EndOfStream
    <3>1. ParseIncomplete(consumed, written)
      BY <2>3 DEF EndOfStream, ConnectionInv, FillsIncomplete
    <3>2. /\ \A m \in complete : m < Len(delivered) + 1
          /\ consumed # written <=> partial
      BY <3>1, CutOff
    <3>3. Abstract!Drained
      BY <3>2 DEF Abstract!Drained, Abstract!NextMessage, complete
    <3>4. CASE consumed = filled
      <4>1. Abstract!End("none")
        BY <2>3, <3>4 DEF EndOfStream, Abstract!End, Over, peerVars, readVars
      <4>2. Abstract!EndNone
        BY <2>3, <3>2, <3>3, <3>4, <4>1 DEF EndOfStream, Abstract!EndNone, partial
      <4> QED BY <4>2 DEF Abstract!Next
    <3>5. CASE consumed # filled
      <4>1. Abstract!End("error")
        BY <2>3, <3>5 DEF EndOfStream, Abstract!End, Over, peerVars, readVars
      <4>2. Abstract!EndError
        BY <2>3, <3>2, <3>3, <3>5, <4>1 DEF EndOfStream, Abstract!EndError, partial
      <4> QED BY <4>2 DEF Abstract!Next
    <3> QED BY <3>4, <3>5
  <2>4. CASE ReadFails
    <3>1. Abstract!EndError
      BY <2>4 DEF ReadFails, Abstract!EndError, Abstract!End, Over, peerVars, readVars
    <3> QED BY <3>1 DEF Abstract!Next
  <2>5. CASE Cancelled \/ WriteFails \/ ExecuteFails
    <3>1. Abstract!Abandon
      BY <2>5 DEF Cancelled, WriteFails, ExecuteFails, Abstract!Abandon, Abstract!End, Over,
                  peerVars, readVars
    <3> QED BY <3>1 DEF Abstract!Next
  <2>6. CASE NeedMore \/ NoResponse \/ Write \/ Flush \/ \E n \in 1 .. Total : Fill(n)
    BY <2>6 DEF NeedMore, NoResponse, Write, Flush, Fill, Abstract!vars, Over, peerVars,
                readVars
  <2>7. ASSUME NEW n \in 1 .. Total, PeerSends(n) PROVE Abstract!Next
    <3>1. complete \subseteq complete'
      BY <2>7, Offsets DEF PeerSends, complete, ConnectionInv, TypeOK
    <3>2. partial' \in BOOLEAN
      BY DEF partial
    <3>3. Abstract!Send
      BY <2>7, <3>1, <3>2
      DEF PeerSends, Abstract!Send, Over, readVars, complete, partial
    <3> QED BY <3>3 DEF Abstract!Next
  <2>8. ASSUME NEW how \in {"closed", "reset"}, PeerLeaves(how) PROVE Abstract!Next
    <3>1. Abstract!Leave(how)
      BY <2>8 DEF PeerLeaves, Abstract!Leave, Over, readVars
    <3> QED BY <3>1 DEF Abstract!Next
  <2>9. CASE UNCHANGED connectionVars
    BY <2>9 DEF connectionVars, Abstract!vars, Over, peerVars, readVars
  <2> QED BY <2>1, <2>2, <2>3, <2>4, <2>5, <2>6, <2>7, <2>8, <2>9 DEF ConnectionNext, Task
<1> QED BY <1>1, <1>2, ConnectionInvariant, PTL DEF ConnectionSpec, ReadsMessages, Abstract!Spec
=============================================================================
