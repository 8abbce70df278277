----------------------------- MODULE PartsProofs -----------------------------
(***************************************************************************)
(* The decryption of a packet for every block size and every packet, and   *)
(* the loop of a flush for every buffer.                                   *)
(***************************************************************************)
EXTENDS MCParts, SeqNumProofs, SequenceTheorems, WellFoundedInduction

\* A set of numbers that is not empty has a least one.
LEMMA LeastElement ==
    ASSUME NEW T \in SUBSET Nat, T # {}
    PROVE  \E x \in T : \A y \in T : x <= y
<1> DEFINE R == OpToRel(<, Nat)
<1>1. IsWellFoundedOn(R, Nat)
  BY NatLessThanWellFounded, Zenon
<1>2. \A y, x \in Nat : y < x => <<y, x>> \in R
  BY Zenon DEF OpToRel
<1> HIDE DEF R
<1>3. PICK x \in T : \A y \in T : ~ (<<y, x>> \in R)
  BY <1>1, WFMin, Zenon
<1>4. \A y \in T : ~(y < x)
  BY <1>2, <1>3
<1> QED BY <1>4

-----------------------------------------------------------------------------
(***************************************************************************)
(* Decrypt.                                                                *)
(***************************************************************************)

\* unpad strips zeros off the end, and none of the first `from` bytes.
LEMMA UnpadStrips ==
    ASSUME NEW s \in Seq(Bytes), NEW from \in 0 .. Len(s)
    PROVE  \E n \in from .. Len(s) :
              /\ Unpad(s, from) = SubSeq(s, 1, n)
              /\ \A i \in n + 1 .. Len(s) : s[i] = 0
<1> DEFINE Cut(n) == /\ \A i \in n + 1 .. Len(s) : s[i] = 0
                     /\ n = from \/ s[n] # 0
           T == { k \in 0 .. Len(s) - from : k = Len(s) - from \/ s[Len(s) - k] # 0 }
<1>1. Len(s) \in Nat /\ from \in Nat /\ from <= Len(s)
  BY LenProperties
<1>2. T \in SUBSET Nat /\ Len(s) - from \in T
  BY <1>1
<1>3. PICK k \in T : \A j \in T : k <= j
  BY <1>2, LeastElement
<1>4. /\ k \in Nat /\ k <= Len(s) - from
      /\ k = Len(s) - from \/ s[Len(s) - k] # 0
  BY <1>1, <1>3
<1>5. Len(s) - k \in from .. Len(s)
  BY <1>1, <1>4
<1>6. ASSUME NEW i \in (Len(s) - k) + 1 .. Len(s) PROVE s[i] = 0
  <2>1. Len(s) - i \in 0 .. k - 1 /\ Len(s) - (Len(s) - i) = i
    BY <1>1, <1>4, <1>6
  <2>2. Len(s) - i \notin T
    BY <1>1, <1>3, <1>4, <2>1
  <2> QED BY <1>1, <1>4, <2>1, <2>2
<1>7. Cut(Len(s) - k)
  BY <1>1, <1>4, <1>6
<1> DEFINE m == CHOOSE n \in from .. Len(s) : Cut(n)
<1>8. m \in from .. Len(s) /\ Cut(m)
  BY <1>5, <1>7
<1>9. Unpad(s, from) = SubSeq(s, 1, m)
  BY DEF Unpad
<1> QED BY <1>8, <1>9

\* A length is some whole blocks and a rest.
LEMMA Blocks ==
    ASSUME NEW n \in Nat
    PROVE  /\ n - (n % Block) = Block * (n \div Block)
           /\ Block * (n \div Block) \in Nat
           /\ n % Block \in 0 .. Block - 1
<1> DEFINE q == n \div Block
           r == n % Block
           x == Block * q
<1>1. Block \in Nat /\ Block > 0 /\ n \in Int
  BY DecryptAssumption
<1>2. n = x + r /\ q \in Int /\ r \in 0 .. Block - 1
  BY <1>1, Division, Zenon
<1> HIDE DEF q, r
<1>3. ASSUME q <= -1 PROVE FALSE
  <2>1. x <= Block * (-1)
    BY <1>1, <1>2, <1>3
  <2> QED BY <1>1, <1>2, <2>1
<1>4. x \in Int
  BY <1>1, <1>2
<1>5. x >= 0
  BY <1>1, <1>2, <1>3
<1> HIDE DEF x
<1>6. n - r = x /\ x \in Nat
  BY <1>2, <1>4, <1>5
<1> QED BY <1>2, <1>6 DEF q, r, x

\* The lengths the code computes: whole blocks, the rest, one block more.
LEMMA Lengths ==
    ASSUME NEW p, len(p) \in Nat
    PROVE  /\ aeslen(p) \in Nat /\ aeslen(p) <= len(p)
           /\ be(p) \in Nat /\ be(p) = aeslen(p) + Block
           /\ len(p) < be(p)
<1> DEFINE x == Block * (len(p) \div Block)
           r == len(p) % Block
<1>1. len(p) - r = x /\ x \in Nat /\ r \in 0 .. Block - 1
  BY Blocks, Zenon
<1>2. aeslen(p) = len(p) - r /\ be(p) = x + Block
  BY DEF aeslen, be
<1>3. Block \in Nat
  BY DecryptAssumption
<1> HIDE DEF x, r
<1> QED BY <1>1, <1>2, <1>3

Deciphered ==
    /\ packet \in Seq(Bytes)
    /\ decrypted \in Seq(Bytes)
    /\ Len(decrypted) = be(packet)

\* What decrypt_padded_vec_mut leaves: a prefix, without zeros only.
Stripped ==
    /\ result \in Seq(Bytes)
    /\ aeslen(packet) <= Len(result) /\ Len(result) <= be(packet)
    /\ \A i \in 1 .. Len(result) : result[i] = decrypted[i]
    /\ \A i \in Len(result) + 1 .. be(packet) : decrypted[i] = 0

DecryptInv ==
    /\ pc \in {"decrypt", "copy"} => Deciphered
    /\ pc = "copy" => Stripped
    /\ DecodesWhatWasSent
    /\ PanicsOnlyOnZeros

LEMMA DecryptPaddedInv ==
    ASSUME DecryptInv, DecryptPadded PROVE DecryptInv'
<1> USE DecryptAssumption
<1>1. Deciphered /\ Deciphered'
  BY DEF DecryptInv, DecryptPadded, Deciphered, be, len
<1>2. len(packet) \in Nat
  BY <1>1 DEF Deciphered, len
<1>3. Len(decrypted) - Block \in 0 .. Len(decrypted) /\ Len(decrypted) - Block = aeslen(packet)
  BY <1>1, <1>2, Lengths DEF Deciphered
<1>4. PICK n \in aeslen(packet) .. Len(decrypted) :
         /\ result' = SubSeq(decrypted, 1, n)
         /\ \A i \in n + 1 .. Len(decrypted) : decrypted[i] = 0
  BY <1>1, <1>3, UnpadStrips DEF DecryptPadded, Deciphered
<1>5. n \in Nat /\ n <= Len(decrypted) /\ Len(decrypted) \in Nat
  BY <1>1, <1>2, <1>4, Lengths DEF Deciphered
<1>6. /\ result' \in Seq(Bytes)
      /\ Len(result') = n
      /\ \A i \in 1 .. n : result'[i] = decrypted[i]
  <2>1. \A i \in 1 .. n : decrypted[i] \in Bytes
    BY <1>1, <1>5 DEF Deciphered
  <2>2. /\ SubSeq(decrypted, 1, n) \in Seq(Bytes)
        /\ Len(SubSeq(decrypted, 1, n)) = IF 1 <= n THEN n - 1 + 1 ELSE 0
        /\ \A i \in 1 .. n - 1 + 1 : SubSeq(decrypted, 1, n)[i] = decrypted[1 + i - 1]
    BY <1>5, <2>1, SubSeqProperties
  <2> QED BY <1>4, <1>5, <2>2
<1>7. Stripped'
  <2>1. decrypted' = decrypted /\ be(packet') = be(packet) /\ aeslen(packet') = aeslen(packet)
    BY DEF DecryptPadded
  <2>2. Len(decrypted) = be(packet) /\ aeslen(packet) \in Nat
    BY <1>1, <1>2, Lengths DEF Deciphered
  <2> QED BY <1>4, <1>5, <1>6, <2>1, <2>2 DEF Stripped
<1> QED BY <1>1, <1>7 DEF DecryptPadded, DecryptInv, DecodesWhatWasSent, PanicsOnlyOnZeros

LEMMA CopyRestInv ==
    ASSUME DecryptInv, CopyRest PROVE DecryptInv'
<1>1. Deciphered /\ Stripped
  BY DEF DecryptInv, CopyRest
<1>2. len(packet) \in Nat /\ Len(result) \in Nat /\ len(packet) <= Len(result)
  BY <1>1 DEF Deciphered, Stripped, CopyRest, len
<1>3. /\ aeslen(packet) \in Nat /\ be(packet) = aeslen(packet) + Block
      /\ aeslen(packet) <= len(packet)
      /\ Block \in Nat
  BY <1>2, Lengths, DecryptAssumption
<1>4. DOMAIN result = 1 .. Len(result)
  BY <1>1 DEF Stripped
<1>5. result' = [i \in 1 .. Len(result) |->
                   IF aeslen(packet) < i /\ i <= len(packet) THEN packet[i] ELSE result[i]]
  BY <1>4 DEF CopyRest
<1>6. Len(result') = Len(result)
  BY <1>2, <1>5
<1>7. DecodesWhatWasSent'
  <2>1. packet' = packet /\ decrypted' = decrypted /\ pc' = "done"
    BY DEF CopyRest
  <2>2. ASSUME NEW i \in 1 .. len(packet)
        PROVE  result'[i] = IF i <= aeslen(packet) THEN decrypted[i] ELSE packet[i]
    <3>1. i \in 1 .. Len(result)
      BY <1>2
    <3>2. result[i] = decrypted[i]
      BY <1>1, <3>1 DEF Stripped
    <3> QED BY <1>2, <1>3, <1>5, <3>1, <3>2
  <2>3. Len(result') - len(packet) \in 0 .. Block
    BY <1>1, <1>2, <1>3, <1>6 DEF Stripped
  <2> QED BY <2>1, <2>2, <2>3 DEF DecodesWhatWasSent, len, aeslen
<1> QED BY <1>7 DEF CopyRest, DecryptInv, PanicsOnlyOnZeros

LEMMA CopyPanicsInv ==
    ASSUME DecryptInv, CopyPanics PROVE DecryptInv'
<1>1. Deciphered /\ Stripped
  BY DEF DecryptInv, CopyPanics
<1>2. len(packet) \in Nat /\ Len(result) \in Nat /\ len(packet) > Len(result)
  BY <1>1 DEF Deciphered, Stripped, CopyPanics, len
<1>3. aeslen(packet) \in Nat /\ be(packet) \in Nat /\ aeslen(packet) <= Len(result)
  BY <1>1, <1>2, Lengths DEF Stripped
<1>4. /\ len(packet) > aeslen(packet)
      /\ \A i \in len(packet) .. be(packet) : decrypted[i] = 0
  BY <1>1, <1>2, <1>3 DEF Stripped
<1>5. PanicsOnlyOnZeros'
  BY <1>4 DEF CopyPanics, PanicsOnlyOnZeros, len, aeslen, be
<1> QED BY <1>5 DEF CopyPanics, DecryptInv, DecodesWhatWasSent

\* The invariant of the decryption holds throughout.
THEOREM DecryptInvariant == Spec => []DecryptInv
<1>1. Init => DecryptInv
  <2> SUFFICES ASSUME Init PROVE DecryptInv
    OBVIOUS
  <2>1. CASE DecryptDone
    <3>1. len(packet) = 0 /\ Len(result) = 0
      BY <2>1 DEF DecryptDone, len
    <3> QED BY <2>1, <3>1, DecryptAssumption
            DEF DecryptDone, DecryptInv, DecodesWhatWasSent, PanicsOnlyOnZeros
  <2>2. CASE DecryptInit
    <3>1. PICK n \in 0 .. MaxLen : packet \in [1 .. n -> Bytes]
      BY <2>2 DEF DecryptInit, Strings
    <3>2. n \in Nat
      BY <3>1, DecryptAssumption
    <3>3. packet \in Seq(Bytes) /\ Len(packet) = n
      BY <3>1, <3>2
    <3>4. be(packet) \in Nat
      BY <3>2, <3>3, Lengths DEF len
    <3>5. decrypted \in [1 .. be(packet) -> Bytes]
      BY <2>2 DEF DecryptInit, Strings
    <3>6. decrypted \in Seq(Bytes) /\ Len(decrypted) = be(packet)
      BY <3>4, <3>5
    <3> QED BY <2>2, <3>3, <3>6
            DEF DecryptInit, DecryptInv, Deciphered, DecodesWhatWasSent, PanicsOnlyOnZeros
  <2> QED BY <2>1, <2>2 DEF Init
<1>2. DecryptInv /\ [Next]_vars => DecryptInv'
  <2> SUFFICES ASSUME DecryptInv, [Next]_vars PROVE DecryptInv'
    OBVIOUS
  <2>1. CASE DecryptNext
    BY <2>1, DecryptPaddedInv, CopyRestInv, CopyPanicsInv DEF DecryptNext
  <2>2. CASE UNCHANGED decryptVars
    BY <2>2 DEF decryptVars, DecryptInv, Deciphered, Stripped, DecodesWhatWasSent,
                PanicsOnlyOnZeros, len, aeslen, be
  <2> QED BY <2>1, <2>2 DEF Next, vars
<1> QED BY <1>1, <1>2, PTL DEF Spec

\* The decoder is given what was sent, for every block size and packet
\* (mod.rs:309-322).
THEOREM DecodedIsSent == Spec => []DecodesWhatWasSent
<1>1. DecryptInv => DecodesWhatWasSent
  BY DEF DecryptInv
<1> QED BY <1>1, DecryptInvariant, PTL

\* The slice panics on no other packets than those that decrypt to zeros from
\* the last byte on, and on none of whole blocks (mod.rs:322).
THEOREM PanicNeedsZeros == Spec => []PanicsOnlyOnZeros
<1>1. DecryptInv => PanicsOnlyOnZeros
  BY DEF DecryptInv
<1> QED BY <1>1, DecryptInvariant, PTL

-----------------------------------------------------------------------------
(***************************************************************************)
(* FlushLoop.                                                              *)
(***************************************************************************)

\* The numbers passed in the first d iterations, and the iterations in all.
PassedIn(d) == { SeqOf(before.read_marker + i) : i \in 0 .. d - 1 }
Iterations  == SeqOf(seq - before.read_marker)

\* The buffer after d iterations.
After(d) == [data         |-> Without(before.data, PassedIn(d)),
             read_marker  |-> SeqOf(before.read_marker + d),
             write_marker |-> before.write_marker]

\* The loop has done some of its iterations, and no more than it has to.
FlushInv ==
    /\ seq \in SeqNums
    /\ before.read_marker \in SeqNums
    /\ before = [data         |-> before.data,
                 read_marker  |-> before.read_marker,
                 write_marker |-> before.write_marker]
    /\ \E d \in 0 .. Iterations : self = After(d)

\* All iterations together lead to the target.
LEMMA IterationsReach ==
    ASSUME NEW s \in SeqNums, NEW r \in SeqNums
    PROVE  /\ SeqOf(s - r) \in 0 .. SeqMod - 1
           /\ SeqOf(r + SeqOf(s - r)) = s
<1>1. s \in Int /\ r \in Int /\ SeqMod \in Nat /\ SeqMod > 0 /\ s \in 0 .. SeqMod - 1
  BY SeqModPositive DEF SeqNums
<1>2. s - r \in Int /\ SeqOf(s - r) \in SeqNums
  BY <1>1, SeqOfType
<1>3. (SeqOf(s - r) + r) % SeqMod = SeqOf((s - r) + r)
  BY <1>1, <1>2, SeqOfPlus
<1>4. SeqOf(s) = s
  <2>1. s = SeqMod * 0 + s
    BY <1>1
  <2> QED BY <1>1, <2>1, Remainder DEF SeqOf
<1>5. SeqOf(s - r) + r = r + SeqOf(s - r) /\ (s - r) + r = s
  BY <1>1, <1>2 DEF SeqNums
<1> QED BY <1>2, <1>3, <1>4, <1>5 DEF SeqOf, SeqNums

\* A number has an own number only once in a round: after d iterations the
\* marker is at the target exactly if d is all of them.
LEMMA ReachedAtEnd ==
    ASSUME NEW s \in SeqNums, NEW r \in SeqNums, NEW d \in 0 .. SeqOf(s - r)
    PROVE  SeqOf(r + d) = s <=> d = SeqOf(s - r)
<1> DEFINE e == SeqOf(s - r)
<1>1. e \in 0 .. SeqMod - 1 /\ SeqOf(r + e) = s
  BY IterationsReach
<1> HIDE DEF e
<1>2. r \in Int /\ SeqMod \in Nat /\ d \in 0 .. e
  BY SeqModPositive DEF SeqNums, e
<1>3. r + d \in Int /\ r + e \in Int /\ (r + d) - (r + e) < SeqMod /\ (r + e) - (r + d) < SeqMod
  BY <1>1, <1>2
<1>4. ASSUME SeqOf(r + d) = s PROVE d = e
  <2>1. r + d = r + e
    BY <1>1, <1>3, <1>4, SeqOfInjective
  <2> QED BY <1>1, <1>2, <2>1
<1> QED BY <1>1, <1>4 DEF e

\* One more iteration.
LEMMA FlushBodyInv ==
    ASSUME FlushInv, FlushBody PROVE FlushInv'
<1> DEFINE r == before.read_marker
<1>1. PICK d \in 0 .. Iterations : self = After(d)
  BY DEF FlushInv
<1>2. /\ seq \in SeqNums /\ r \in SeqNums /\ r \in Int
      /\ Iterations \in Int /\ d \in Nat /\ d \in 0 .. SeqOf(seq - r)
  <2>1. seq \in SeqNums /\ r \in SeqNums
    BY DEF FlushInv
  <2>2. Iterations \in 0 .. SeqMod - 1
    BY <2>1, IterationsReach DEF Iterations
  <2> QED BY <1>1, <2>1, <2>2, SeqModPositive DEF SeqNums, Iterations
<1>3. self.read_marker = SeqOf(r + d)
  BY <1>1 DEF After
<1>4. d + 1 \in 0 .. Iterations
  <2>1. d # Iterations
    BY <1>2, <1>3, ReachedAtEnd DEF FlushBody, Iterations
  <2> QED BY <1>1, <1>2, <2>1
<1>5. next(self.read_marker) = SeqOf(r + (d + 1))
  <2>1. next(SeqOf(r + d)) = SeqOf((r + d) + 1) /\ (r + d) + 1 = r + (d + 1)
    BY <1>2, SeqOfNext
  <2> QED BY <1>3, <2>1
<1>6. PassedIn(d + 1) = PassedIn(d) \cup {self.read_marker}
  <2>1. 0 .. (d + 1) - 1 = (0 .. d - 1) \cup {d}
    BY <1>2
  <2> QED BY <1>3, <2>1 DEF PassedIn
<1>7. Without(self.data, {self.read_marker}) = Without(before.data, PassedIn(d + 1))
  <2>1. self.data = Without(before.data, PassedIn(d))
    BY <1>1 DEF After
  <2> QED BY <1>6, <2>1 DEF Without
<1>8. self' = After(d + 1)
  BY <1>1, <1>5, <1>7 DEF FlushBody, After
<1>9. UNCHANGED <<before, seq>>
  BY DEF FlushBody
<1>10. self' = After(d + 1)' /\ Iterations' = Iterations
  BY <1>8, <1>9 DEF After, PassedIn, Iterations
<1> QED BY <1>4, <1>9, <1>10 DEF FlushInv

\* From the buffers the loop starts with on.
THEOREM FlushInvariant == Spec => []FlushInv
<1>1. Init => FlushInv
  <2> SUFFICES ASSUME Init PROVE FlushInv
    OBVIOUS
  <2>1. /\ seq \in SeqNums /\ self = before
        /\ \E keys \in SUBSET SeqNums : \E r \in SeqNums :
              before = [data |-> [k \in keys |-> k], read_marker |-> r, write_marker |-> 0]
    <3>1. 0 \in SeqNums
      BY SeqModPositive DEF SeqNums
    <3>2. CASE FlushDone
      <4>1. [k \in {} |-> 0] = [k \in {} |-> k]
        OBVIOUS
      <4> QED BY <3>1, <3>2, <4>1 DEF FlushDone, new
    <3>3. CASE FlushInit
      BY <3>1, <3>3 DEF FlushInit, Buffers
    <3> QED BY <3>2, <3>3 DEF Init
  <2>2. PICK keys \in SUBSET SeqNums, r \in SeqNums :
           before = [data |-> [k \in keys |-> k], read_marker |-> r, write_marker |-> 0]
    BY <2>1
  <2>3. Iterations \in Nat
    BY <2>1, <2>2, IterationsReach DEF Iterations
  <2>4. SeqOf(r + 0) = r
    <3>1. r \in Int /\ r + 0 = r /\ r \in 0 .. SeqMod - 1 /\ r = SeqMod * 0 + r
      BY SeqModPositive DEF SeqNums
    <3> QED BY <3>1, SeqModPositive, Remainder DEF SeqOf
  <2>5. PassedIn(0) = {}
    BY DEF PassedIn
  <2>6. Without([k \in keys |-> k], {}) = [k \in keys |-> k]
    BY DEF Without
  <2>7. self = After(0)
    BY <2>1, <2>2, <2>4, <2>5, <2>6 DEF After
  <2> QED BY <2>1, <2>2, <2>3, <2>7 DEF FlushInv
<1>2. FlushInv /\ [Next]_vars => FlushInv'
  <2> SUFFICES ASSUME FlushInv, [Next]_vars PROVE FlushInv'
    OBVIOUS
  <2>1. CASE FlushBody
    BY <2>1, FlushBodyInv
  <2>2. CASE UNCHANGED flushVars
    BY <2>2 DEF flushVars, FlushInv, Iterations, After, PassedIn
  <2> QED BY <2>1, <2>2 DEF Next, vars
<1> QED BY <1>1, <1>2, PTL DEF Spec

\* For every buffer and target, in every number space, the loop computes the
\* closed form that Stream and its proofs use (frame_buffer.rs:46-49).
THEOREM FlushIsClosedForm == Spec => []FlushComputed
<1>1. FlushInv => FlushComputed
  <2> SUFFICES ASSUME FlushInv, self.read_marker = seq PROVE self = flush(before, seq)
    BY DEF FlushComputed
  <2> DEFINE r == before.read_marker
  <2>1. PICK d \in 0 .. Iterations : self = After(d)
    BY DEF FlushInv
  <2>2. SeqOf(r + d) = seq /\ seq \in SeqNums /\ r \in SeqNums
    BY <2>1 DEF After, FlushInv
  <2>3. d = Iterations
    BY <2>1, <2>2, ReachedAtEnd DEF Iterations
  <2>4. PassedIn(d) = Passed(before, seq)
    BY <2>3 DEF PassedIn, Passed, Iterations, SeqOf
  <2>5. self = [data |-> Without(before.data, Passed(before, seq)), read_marker |-> seq,
                write_marker |-> before.write_marker]
    BY <2>1, <2>2, <2>4 DEF After
  <2>6. \A a, b, c, x, y :
           [[data |-> a, read_marker |-> b, write_marker |-> c]
               EXCEPT !.data = x, !.read_marker = y]
             = [data |-> x, read_marker |-> y, write_marker |-> c]
    <3> TAKE a, b, c, x, y
    <3> DEFINE S == [data : {a, x}, read_marker : {b, y}, write_marker : {c}]
               t == [data |-> a, read_marker |-> b, write_marker |-> c]
    <3>1. t \in S
      OBVIOUS
    <3>2. [t EXCEPT !.data = x, !.read_marker = y] \in S
      BY <3>1
    <3>3. \A u \in S : u.data = x /\ u.read_marker = y
                        => u = [data |-> x, read_marker |-> y, write_marker |-> c]
      OBVIOUS
    <3> QED BY <3>2, <3>3
  <2>7. flush(before, seq) = [[data |-> before.data, read_marker |-> before.read_marker,
                               write_marker |-> before.write_marker]
           EXCEPT !.data = Without(before.data, Passed(before, seq)), !.read_marker = seq]
    BY DEF flush, FlushInv
  <2> QED BY <2>5, <2>6, <2>7, Zenon
<1> QED BY <1>1, FlushInvariant, PTL
=============================================================================
