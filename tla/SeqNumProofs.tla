---------------------------- MODULE SeqNumProofs ----------------------------
(***************************************************************************)
(* Lemmas about the sequence numbers of SeqNum: how the numbers on the     *)
(* wire relate to the positions of the packets that carry them.            *)
(***************************************************************************)
EXTENDS SeqNum, TLAPS

\* A multiple of m strictly between -m and m is 0.
LEMMA SmallMultiple ==
    ASSUME NEW m \in Nat, m > 0, NEW d \in Int, -m < m * d, m * d < m
    PROVE  d = 0
<1>1. CASE d >= 1
  <2>1. m * d >= m
    BY <1>1, SMT
  <2> QED BY <2>1
<1>2. CASE d <= -1
  <2>1. m * d <= -m
    BY <1>2, SMT
  <2> QED BY <2>1
<1> QED BY <1>1, <1>2

\* A number is its quotient and its remainder.
LEMMA Division ==
    ASSUME NEW m \in Nat, m > 0, NEW n \in Int
    PROVE  /\ n = m * (n \div m) + (n % m)
           /\ n \div m \in Int
           /\ n % m \in 0 .. m - 1
OBVIOUS

\* The remainder is the only number below m that differs by a multiple.
LEMMA Remainder ==
    ASSUME NEW m \in Nat, m > 0, NEW n \in Int, NEW r \in 0 .. m - 1,
           NEW d \in Int, n = m * d + r
    PROVE  n % m = r
<1> DEFINE q == n \div m
<1>1. /\ n = m * q + (n % m) /\ q \in Int /\ n % m \in 0 .. m - 1
  BY Division
<1>2. m * (q - d) = m * q - m * d
  BY <1>1
<1>3. m * (q - d) = r - (n % m)
  BY <1>1, <1>2
<1>4. q - d = 0
  BY <1>1, <1>3, SmallMultiple
<1> QED BY <1>1, <1>4

\* The size of the number space, as the proofs use it.
LEMMA SeqModPositive ==
    SeqMod \in Nat /\ SeqMod > 0 /\ SeqMod = 2 * Half /\ Half \in Nat /\ Half >= 4
BY HalfAssumption DEF SeqMod

\* A position has a number.
LEMMA SeqOfType == ASSUME NEW n \in Int PROVE SeqOf(n) \in SeqNums
BY SeqModPositive, Division DEF SeqOf, SeqNums

\* Adding to a number and wrapping is adding to the position.
LEMMA SeqOfPlus ==
    ASSUME NEW n \in Int, NEW i \in Int
    PROVE  (SeqOf(n) + i) % SeqMod = SeqOf(n + i)
<1> DEFINE M == SeqMod
           q == n \div M
           p == (n + i) \div M
<1>1. M \in Nat /\ M > 0
  BY SeqModPositive
<1>2. n = M * q + SeqOf(n) /\ q \in Int /\ SeqOf(n) \in Int
  BY <1>1, Division DEF SeqOf
<1>3. n + i = M * p + SeqOf(n + i) /\ p \in Int /\ SeqOf(n + i) \in 0 .. M - 1
  BY <1>1, Division DEF SeqOf
<1>4. M * (p - q) = M * p - M * q
  BY <1>1, <1>2, <1>3
<1>5. SeqOf(n) + i = M * (p - q) + SeqOf(n + i)
  BY <1>1, <1>2, <1>3, <1>4
<1>6. p - q \in Int /\ SeqOf(n) + i \in Int
  BY <1>2, <1>3
<1>7. (SeqOf(n) + i) % M = SeqOf(n + i)
  BY <1>1, <1>3, <1>5, <1>6, Remainder, Zenon
<1> QED BY <1>7

\* Seq::next moves to the number of the next position.
LEMMA SeqOfNext ==
    ASSUME NEW n \in Int PROVE next(SeqOf(n)) = SeqOf(n + 1)
BY SeqOfPlus DEF next

\* Two positions less than SeqMod apart that share a number are the same.
LEMMA SeqOfInjective ==
    ASSUME NEW a \in Int, NEW b \in Int, SeqOf(a) = SeqOf(b),
           a - b < SeqMod, b - a < SeqMod
    PROVE  a = b
<1> DEFINE M == SeqMod
           p == a \div M
           q == b \div M
<1>1. M \in Nat /\ M > 0
  BY SeqModPositive
<1>2. a = M * p + SeqOf(a) /\ p \in Int /\ SeqOf(a) \in Int
  BY <1>1, Division DEF SeqOf
<1>3. b = M * q + SeqOf(b) /\ q \in Int
  BY <1>1, Division DEF SeqOf
<1>4. M * (p - q) = M * p - M * q
  BY <1>1, <1>2, <1>3
<1>5. M * (p - q) = a - b
  BY <1>1, <1>2, <1>3, <1>4
<1>6. p - q = 0
  BY <1>1, <1>2, <1>3, <1>5, SmallMultiple
<1> QED BY <1>2, <1>3, <1>6

\* Seq's wrapped difference is the distance of the positions, as long as
\* they are less than half the number space apart.
LEMMA SubIsDistance ==
    ASSUME NEW a \in Int, NEW b \in Int, a - b < Half, b - a < Half
    PROVE  sub(SeqOf(a), SeqOf(b)) = a - b
<1> DEFINE M == SeqMod
           p == a \div M
           q == b \div M
           d == SeqOf(a) - SeqOf(b)
<1>1. M \in Nat /\ M > 0 /\ M = 2 * Half /\ Half \in Nat
  BY SeqModPositive
<1>2. a = M * p + SeqOf(a) /\ p \in Int /\ SeqOf(a) \in 0 .. M - 1
  BY <1>1, Division DEF SeqOf
<1>3. b = M * q + SeqOf(b) /\ q \in Int /\ SeqOf(b) \in 0 .. M - 1
  BY <1>1, Division DEF SeqOf
<1>4. M * (p - q) = M * p - M * q
  BY <1>1, <1>2, <1>3
<1>5. d = (a - b) - M * (p - q) /\ d \in Int /\ -M < d /\ d < M
  BY <1>1, <1>2, <1>3, <1>4
<1>6. p - q \in {-1, 0, 1}
  <2> DEFINE e == p - q
  <2>1. e \in Int /\ M * e < 2 * M /\ -(2 * M) < M * e
    BY <1>1, <1>2, <1>3, <1>5
  <2> HIDE DEF e, M
  <2>2. CASE e >= 2
    <3>1. M * e >= M * 2
      BY <1>1, <2>1, <2>2
    <3> QED BY <3>1, <2>1, <1>1
  <2>3. CASE e <= -2
    <3>1. M * e <= M * (-2)
      BY <1>1, <2>1, <2>3
    <3> QED BY <3>1, <2>1, <1>1
  <2> QED BY <2>1, <2>2, <2>3 DEF e
<1>7. M * 0 = 0 /\ M * 1 = M /\ M * (-1) = -M
  BY <1>1
<1>8. d = a - b \/ d = (a - b) - M \/ d = (a - b) + M
  BY <1>1, <1>5, <1>6, <1>7
<1> QED BY <1>1, <1>5, <1>8 DEF sub
=============================================================================
