-------------------------- MODULE BufferSizingProofs --------------------------
(* What is proved about BufferSizing for every rate, round trip and limit.    *)
EXTENDS BufferSizing, TLAPS

LEMMA ClampedBounds ==
    ASSUME NEW n \in Nat
    PROVE  Clamped(n) \in Nat /\ BufMin <= Clamped(n) /\ Clamped(n) <= BufMax
BY SizingAssumption DEF Clamped

(* There is one multiple of a number within its reach.                        *)
LEMMA Multiples ==
    ASSUME NEW a \in Nat \ {0}, NEW q \in Int, NEW m \in Int,
           a * q - a < m * a, m * a < a * q + a
    PROVE  m = q
<1>1. CASE m >= q + 1
  <2>1. m * a >= (q + 1) * a
    BY <1>1
  <2> QED
    BY <2>1
<1>2. CASE m <= q - 1
  <2>1. m * a <= (q - 1) * a
    BY <1>2
  <2> QED
    BY <2>1
<1> QED
  BY <1>1, <1>2

(* A multiple leaves no remainder.                                            *)
LEMMA NoRemainder ==
    ASSUME NEW a \in Nat \ {0}, NEW q \in Int
    PROVE  (q * a) % a = 0
<1> DEFINE x == q * a
           d == x \div a
           r == x % a
<1>1. x \in Int /\ d \in Int /\ r \in Int /\ 0 <= r /\ r < a /\ x = a * d + r
  OBVIOUS
<1>2. x = q * a
  OBVIOUS
<1> SUFFICES r = 0
  OBVIOUS
<1> HIDE DEF x, d, r
<1>3. a * d - a < q * a /\ q * a < a * d + a
  BY <1>1, <1>2
<1>4. q = d
  BY <1>1, <1>3, Multiples
<1> QED
  BY <1>1, <1>2, <1>4

(* Rounding up to a multiple adds less than one.                              *)
LEMMA AlignedBounds ==
    ASSUME NEW n \in Nat
    PROVE  /\ Aligned(n) \in Nat /\ Aligned(n) % Align = 0
           /\ n <= Aligned(n) /\ Aligned(n) < n + Align
<1> DEFINE q == (n + Align - 1) \div Align
           r == (n + Align - 1) % Align
<1>1. Align \in Nat \ {0}
  BY SizingAssumption
<1>2. q \in Nat /\ r \in Nat /\ r < Align /\ n + Align - 1 = Align * q + r
  BY <1>1
<1>3. Aligned(n) = q * Align
  BY DEF Aligned
<1> HIDE DEF q, r
<1>4. q * Align = Align * q /\ Align * q \in Nat
  BY <1>1, <1>2
<1>5. (q * Align) % Align = 0
  <2>1. q \in Int
    BY <1>2
  <2> QED
    BY <1>1, <2>1, NoRemainder, Zenon
<1> QED
  BY <1>1, <1>2, <1>3, <1>4, <1>5

(* Rounding up does not lift a size above the maximum, which is a multiple.   *)
LEMMA AlignedWithinMax ==
    ASSUME NEW n \in Nat, n <= BufMax
    PROVE  Aligned(n) <= BufMax
<1> DEFINE q == (n + Align - 1) \div Align
           m == BufMax \div Align
<1>1. Align \in Nat \ {0} /\ BufMax \in Nat /\ BufMax % Align = 0
  BY SizingAssumption
<1>2. q \in Nat /\ Aligned(n) = q * Align
  BY <1>1 DEF Aligned
<1>3. m \in Nat /\ BufMax = Align * m
  BY <1>1
<1>4. Aligned(n) < BufMax + Align
  BY <1>1, AlignedBounds
<1> HIDE DEF q, m
<1>5. CASE q >= m + 1
  <2>1. q * Align >= (m + 1) * Align
    BY <1>1, <1>2, <1>3, <1>5
  <2> QED
    BY <1>1, <1>2, <1>3, <1>4, <2>1
<1>6. CASE q <= m
  <2>1. q * Align <= m * Align
    BY <1>1, <1>2, <1>3, <1>6
  <2> QED
    BY <1>1, <1>2, <1>3, <2>1
<1> QED
  BY <1>2, <1>3, <1>5, <1>6

(* Whatever the counters and the probes say, and whatever an undefined        *)
(* conversion makes of it, the buffers get a multiple of a page between       *)
(* kBufMin and kBufMax (compute_bdp_buf()).                                   *)
THEOREM SizesInBounds ==
    ASSUME NEW rate \in Nat, NEW rtt \in Nat, NEW size \in Sizes(rate, rtt)
    PROVE  size \in BufMin..BufMax /\ size % Align = 0
<1>1. CASE rate = 0 \/ rtt = 0
  BY <1>1, SizingAssumption DEF Sizes
<1>2. CASE ~(rate = 0 \/ rtt = 0)
  <2>1. Bytes(rate, rtt) \in Nat
    <3>1. rate * rtt \in Nat /\ Unit \in Nat \ {0}
      BY SizingAssumption
    <3> QED
      BY <3>1 DEF Bytes
  <2>2. Word \in Nat
    BY SizingAssumption
  <2>3. PICK n \in Converted(Bytes(rate, rtt)) : size = Aligned(Clamped(n))
    BY <1>2 DEF Sizes
  <2>4. n \in Nat
    BY <2>1, <2>2, <2>3 DEF Converted
  <2>5. Clamped(n) \in Nat /\ BufMin <= Clamped(n) /\ Clamped(n) <= BufMax
    BY <2>4, ClampedBounds
  <2>6. size \in Nat /\ size % Align = 0 /\ Clamped(n) <= size /\ size <= BufMax
    BY <2>3, <2>5, AlignedBounds, AlignedWithinMax
  <2> QED
    BY <2>5, <2>6, SizingAssumption
<1> QED
  BY <1>1, <1>2

(* A round does not shrink the doubled product below two fifths.              *)
LEMMA BytesFall ==
    ASSUME NEW p \in Nat, NEW r \in Nat, NEW p2 \in Nat, NEW r2 \in Nat,
           NextRound(p, r, p2, r2)
    PROVE  Bytes(p, r) \in Nat /\ Bytes(p2, r2) \in Nat
           /\ Bytes(p, r) <= 2 * Bytes(p2, r2) + 2
<1> DEFINE x == p * r
           y == p2 * r2
           b == x \div Unit
           c == y \div Unit
           d == y % Unit
<1>1. x \in Nat /\ y \in Nat /\ Unit \in Nat /\ Unit > 0
  BY SizingAssumption
<1>2. 2 * y >= x
  <2>1. 1000 * p2 >= 999 * p /\ 10 * r2 >= 7 * r
    BY DEF NextRound
  <2>2. (1000 * p2) * (10 * r2) >= (999 * p) * (7 * r)
    <3> DEFINE s == 1000 * p2
               t == 10 * r2
               u == 999 * p
               v == 7 * r
    <3>1. s \in Nat /\ t \in Nat /\ u \in Nat /\ v \in Nat /\ s >= u /\ t >= v
      BY <2>1
    <3> HIDE DEF s, t, u, v
    <3>2. s * t >= u * t
      BY <3>1
    <3>3. u * t >= u * v
      BY <3>1
    <3>4. s * t >= u * v
      BY <3>1, <3>2, <3>3
    <3> QED
      BY <3>4 DEF s, t, u, v
  <2>3. 10000 * y >= 6993 * x
    BY <2>2
  <2> QED
    BY <1>1, <2>3
<1>3. b \in Nat /\ c \in Nat /\ d \in Nat /\ d < Unit /\ y = Unit * c + d
  BY <1>1
<1>4. Unit * b <= x
  BY <1>1
<1>5. b <= 2 * c + 2
  <2> HIDE DEF x, y, b, c, d
  <2>1. Unit * b <= Unit * (2 * c) + 2 * d
    BY <1>1, <1>2, <1>3, <1>4
  <2>2. CASE b >= 2 * c + 2
    <3>1. Unit * b >= Unit * (2 * c + 2)
      BY <1>1, <1>3, <2>2
    <3> QED
      BY <1>1, <1>3, <2>1, <3>1
  <2> QED
    BY <1>3, <2>2
<1> QED
  BY <1>3, <1>5 DEF Bytes

(* As long as the conversions are defined, one round shrinks the buffers to   *)
(* a quarter at most: "Sizing from the instantaneous rate shrinks the buffers *)
(* while the link is idle" (tuner.cpp:387) and is what the peak avoids.       *)
THEOREM BuffersFallGently ==
    ASSUME NEW p \in Nat, NEW r \in Nat, NEW p2 \in Nat, NEW r2 \in Nat,
           NextRound(p, r, p2, r2), Bytes(p, r) < Word, Bytes(p2, r2) < Word,
           NEW size \in Sizes(p, r), NEW size2 \in Sizes(p2, r2)
    PROVE  size <= 4 * size2
<1>1. size \in BufMin..BufMax /\ size2 \in BufMin..BufMax
  BY SizesInBounds
<1>2. CASE p = 0 \/ r = 0
  <2>1. size = IdleBuf
    BY <1>2 DEF Sizes
  <2> QED
    BY <1>1, <2>1, SizingAssumption
<1>3. CASE p2 = 0 \/ r2 = 0
  <2>1. p = 0 \/ r = 0
    BY <1>3 DEF NextRound
  <2> QED
    BY <1>2, <2>1
<1>4. CASE ~(p = 0 \/ r = 0 \/ p2 = 0 \/ r2 = 0)
  <2> DEFINE b == Bytes(p, r)
             c == Bytes(p2, r2)
  <2>1. b \in Nat /\ c \in Nat /\ b <= 2 * c + 2
    BY BytesFall
  <2>2. size = Aligned(Clamped(b)) /\ size2 = Aligned(Clamped(c))
    BY <1>4, <2>1 DEF Sizes, Converted
  <2> HIDE DEF b, c
  <2>3. size < Clamped(b) + Align /\ Clamped(c) <= size2 /\ size2 \in Int
    <3>1. Clamped(b) \in Nat /\ Clamped(c) \in Nat
      BY <2>1, ClampedBounds
    <3>2. Aligned(Clamped(b)) < Clamped(b) + Align
      BY <3>1, AlignedBounds
    <3>3. Clamped(c) <= Aligned(Clamped(c)) /\ Aligned(Clamped(c)) \in Nat
      BY <3>1, AlignedBounds
    <3> QED
      BY <2>2, <3>2, <3>3
  <2>4. Clamped(b) <= 2 * Clamped(c) + 2
    BY <2>1, SizingAssumption DEF Clamped
  <2>5. Clamped(c) \in Nat /\ Clamped(b) \in Nat /\ BufMin <= Clamped(c)
    BY <2>1, ClampedBounds
  <2> QED
    BY <1>1, <2>3, <2>4, <2>5, SizingAssumption
<1> QED
  BY <1>2, <1>3, <1>4

(* buffer_loop() writes the maximum of the buffers before their default size. *)
(* The default stays within the maximum at every moment in between: the old   *)
(* default is within the new maximum, and the new default as well.            *)
THEOREM RestWithinMax ==
    ASSUME NEW size \in BufMin..BufMax, NEW size2 \in BufMin..BufMax,
           size <= 4 * size2
    PROVE  Rest(size) <= size2 /\ Rest(size2) <= size2
<1>1. size \in Nat /\ size2 \in Nat /\ RestMin <= BufMin
  BY SizingAssumption
<1>2. size \div 4 <= size2 /\ size2 \div 4 <= size2
  BY <1>1
<1> QED
  BY <1>1, <1>2, SizingAssumption DEF Rest
=============================================================================
