------------------------- MODULE FrameCounterProofs -------------------------
(* Theorems about FrameCounter, for every width of the counters and every   *)
(* gap smaller than the wire counter's range.                               *)
EXTENDS FrameCounter, TLAPS

\* Multiplication by the width is monotone: the one nonlinear fact used.
LEMMA MulMonotone ==
    ASSUME NEW w \in Nat, NEW a \in Int, NEW b \in Int, a >= b + 1
    PROVE  a * w >= b * w + w
<1>1. PICK d \in Nat : a = b + 1 + d
  <2>1. a - b - 1 \in Nat /\ a = b + 1 + (a - b - 1)
    OBVIOUS
  <2>2. QED
    BY <2>1
<1>2. a * w = b * w + w + d * w
  BY <1>1, SMT
<1>3. d * w >= 0 /\ b * w \in Int /\ d * w \in Int
  BY <1>1, SMT
<1>4. QED
  BY <1>2, <1>3

\* Quotient and remainder of a counter.
LEMMA DivMod ==
    ASSUME NEW w \in Nat \ {0}, NEW n \in Nat
    PROVE  /\ n \div w \in Nat
           /\ n % w \in 0 .. w - 1
           /\ n = ((n \div w) * w) + (n % w)
BY SMT

\* The same for a time, which may be negative before it is wrapped.
LEMMA IntDivMod ==
    ASSUME NEW w \in Nat \ {0}, NEW n \in Int
    PROVE  /\ n \div w \in Int
           /\ n % w \in 0 .. w - 1
           /\ n = ((n \div w) * w) + (n % w)
BY SMT

\* Quotient and remainder are unique.
LEMMA DivModUnique ==
    ASSUME NEW w \in Nat \ {0}, NEW q1 \in Int, NEW q2 \in Int,
           NEW r1 \in 0 .. w - 1, NEW r2 \in 0 .. w - 1,
           q1 * w + r1 = q2 * w + r2
    PROVE  q1 = q2 /\ r1 = r2
<1> DEFINE p1 == q1 * w
           p2 == q2 * w
<1>0. p1 \in Int /\ p2 \in Int /\ p1 + r1 = p2 + r2
  BY SMT
<1>1. CASE q1 >= q2 + 1
  <2>1. p1 >= p2 + w
    BY <1>1, MulMonotone
  <2> HIDE DEF p1, p2
  <2>2. QED
    BY <1>0, <2>1
<1>2. CASE q2 >= q1 + 1
  <2>1. p2 >= p1 + w
    BY <1>2, MulMonotone
  <2> HIDE DEF p1, p2
  <2>2. QED
    BY <1>0, <2>1
<1>3. CASE q1 = q2
  BY <1>3, <1>0
<1>4. QED
  BY <1>1, <1>2, <1>3

\* The remainder of a sum of a multiple and a small number.
LEMMA ModOfSum ==
    ASSUME NEW w \in Nat \ {0}, NEW q \in Int, NEW r \in 0 .. w - 1
    PROVE  (q * w + r) % w = r
<1> DEFINE n == q * w + r
           q1 == n \div w
           r1 == n % w
<1>1. n \in Int
  BY SMT
<1>2. q1 \in Int /\ r1 \in 0 .. w - 1 /\ n = (q1 * w) + r1
  BY <1>1, IntDivMod
<1>3. q * w + r = q1 * w + r1
  BY <1>2
<1> HIDE DEF q1, r1
<1>4. r = r1
  BY <1>2, <1>3, DivModUnique
<1>5. QED
  BY <1>4 DEF r1

-----------------------------------------------------------------------------

\* A number below the modulus is its own remainder.
LEMMA SmallMod ==
    ASSUME NEW m \in Nat \ {0}, NEW x \in 0 .. m - 1
    PROVE  x % m = x
BY SMT

\* The two halves of a counter: its epoch q and its wire value.
LEMMA Halves ==
    ASSUME NEW last \in Fcnt
    PROVE  LET q == last \div WireMod
               l == last % WireMod
           IN  /\ FcntMod \in Nat \ {0}
               /\ q \in 0 .. Epochs - 1
               /\ l \in 0 .. WireMod - 1
               /\ q * WireMod \in Nat
               /\ last = (q * WireMod) + l
               /\ (q * WireMod) + WireMod <= FcntMod
               /\ q + 1 = Epochs => (q * WireMod) + WireMod = FcntMod
               /\ q + 1 < Epochs => (q * WireMod) + WireMod < FcntMod
<1> DEFINE q == last \div WireMod
           l == last % WireMod
<1> USE FrameCounterAssumption
<1>1. FcntMod \in Nat \ {0}
  BY SMT DEF FcntMod
<1>2. last \in Nat /\ last < FcntMod
  BY <1>1 DEF Fcnt
<1>3. q \in Nat /\ l \in 0 .. WireMod - 1 /\ last = (q * WireMod) + l
  BY <1>2, DivMod
<1> HIDE DEF q, l
<1>4. q * WireMod \in Nat
  BY <1>3, SMT
<1>5. q < Epochs
  <2>1. SUFFICES ASSUME q + 1 >= Epochs + 1 PROVE FALSE
    BY <1>3
  <2>2. (q + 1) * WireMod >= (Epochs * WireMod) + WireMod
    BY <1>3, <2>1, MulMonotone
  <2>3. (q + 1) * WireMod = (q * WireMod) + WireMod
    BY <1>3, SMT
  <2> DEFINE p == q * WireMod
  <2> HIDE DEF p
  <2>4. p + WireMod >= FcntMod + WireMod /\ p \in Nat
    BY <2>2, <2>3, <1>4 DEF FcntMod, p
  <2>5. last = p + l
    BY <1>3 DEF p
  <2>6. QED
    BY <2>4, <2>5, <1>1, <1>2, <1>3
<1>6. q + 1 = Epochs => (q * WireMod) + WireMod = FcntMod
  <2>1. (q + 1) * WireMod = (q * WireMod) + WireMod
    BY <1>3, SMT
  <2>2. QED
    BY <2>1 DEF FcntMod
<1>7. q + 1 < Epochs => (q * WireMod) + WireMod < FcntMod
  <2>1. SUFFICES ASSUME Epochs >= (q + 1) + 1
                 PROVE  (q * WireMod) + WireMod < FcntMod
    BY <1>3
  <2>2. Epochs * WireMod >= ((q + 1) * WireMod) + WireMod
    BY <1>3, <2>1, MulMonotone
  <2>3. (q + 1) * WireMod = (q * WireMod) + WireMod
    BY <1>3, SMT
  <2> DEFINE p == q * WireMod
  <2> HIDE DEF p
  <2>4. FcntMod >= (p + WireMod) + WireMod /\ p \in Nat
    BY <2>2, <2>3, <1>4 DEF FcntMod, p
  <2>5. p + WireMod < FcntMod
    BY <2>4, <1>1
  <2>6. QED
    BY <2>5 DEF p
<1>8. q + 1 = Epochs \/ q + 1 < Epochs
  BY <1>3, <1>5
<1>9. (q * WireMod) + WireMod <= FcntMod
  <2> DEFINE p == q * WireMod
  <2>1. p \in Nat
    BY <1>4
  <2>2. p + WireMod = FcntMod \/ p + WireMod < FcntMod
    BY <1>6, <1>7, <1>8
  <2> HIDE DEF p
  <2>3. p + WireMod <= FcntMod
    BY <2>1, <2>2, <1>1
  <2>4. QED
    BY <2>3 DEF p
<1>10. QED
  BY <1>1, <1>3, <1>4, <1>5, <1>6, <1>7, <1>9 DEF q, l

\* Reconstruct by cases, the arithmetic of wrapping_add resolved.
LEMMA ReconstructCases ==
    ASSUME NEW last \in Fcnt, NEW wire \in 0 .. WireMod - 1
    PROVE  LET p == (last \div WireMod) * WireMod
               l == last % WireMod
           IN  \/ wire >= l /\ Reconstruct(last, wire) = p + wire
               \/ wire < l /\ p + WireMod < FcntMod
                           /\ Reconstruct(last, wire) = (p + WireMod) + wire
               \/ wire < l /\ p + WireMod = FcntMod
                           /\ Reconstruct(last, wire) = wire
<1> DEFINE p == (last \div WireMod) * WireMod
           l == last % WireMod
<1> USE FrameCounterAssumption
<1>1. /\ p \in Nat /\ l \in 0 .. WireMod - 1 /\ FcntMod \in Nat \ {0}
      /\ p + WireMod = FcntMod \/ p + WireMod < FcntMod
  <2>1. last \div WireMod + 1 = Epochs \/ last \div WireMod + 1 < Epochs
    BY Halves
  <2>2. QED
    BY <2>1, Halves
<1>2. Reconstruct(last, wire) =
        IF wire >= l THEN p + wire ELSE ((p + WireMod) % FcntMod) + wire
  BY DEF Reconstruct
<1> HIDE DEF p, l
<1>3. CASE wire >= l
  BY <1>2, <1>3 DEF p, l
<1>4. CASE ~(wire >= l) /\ p + WireMod < FcntMod
  <2>1. (p + WireMod) % FcntMod = p + WireMod
    <3>1. p + WireMod \in 0 .. FcntMod - 1
      BY <1>1, <1>4
    <3>2. QED
      BY <3>1, <1>1, SmallMod
  <2>2. wire < l
    BY <1>1, <1>4
  <2>3. QED
    BY <1>2, <1>4, <2>1, <2>2 DEF p, l
<1>5. CASE ~(wire >= l) /\ p + WireMod = FcntMod
  <2>1. FcntMod % FcntMod = 0
    BY <1>1, SMT
  <2>2. wire < l
    BY <1>1, <1>5
  <2>3. 0 + wire = wire
    OBVIOUS
  <2>4. QED
    BY <1>2, <1>5, <2>1, <2>2, <2>3 DEF p, l
<1>6. QED
  BY <1>1, <1>3, <1>4, <1>5

-----------------------------------------------------------------------------

\* What next_fcnt_down returns for a fresh frame: a counter of the session, at
\* most MAX_FCNT_GAP above the last one, with the low half seen on the wire.
THEOREM NextFcntDownSound ==
    ASSUME NEW last \in Fcnt, NEW wire \in 0 .. WireMod - 1,
           NextFcntDown(last, wire) # NoFcnt
    PROVE  /\ NextFcntDown(last, wire) \in Fcnt
           /\ NextFcntDown(last, wire) \in last + 1 .. last + MaxFcntGap
           /\ NextFcntDown(last, wire) % WireMod = wire
<1> DEFINE f == NextFcntDown(last, wire)
           q == last \div WireMod
           p == q * WireMod
           l == last % WireMod
<1> USE FrameCounterAssumption
<1>1. /\ FcntMod \in Nat \ {0} /\ q \in Nat /\ p \in Nat
      /\ l \in 0 .. WireMod - 1 /\ last = p + l /\ p + WireMod <= FcntMod
      /\ Epochs \in Nat /\ q + 1 <= Epochs
      /\ q + 1 = Epochs => p + WireMod = FcntMod
  BY Halves
<1> HIDE DEF q, l
<1>2. last # NoFcnt /\ last \in Nat
  BY <1>1 DEF Fcnt, NoFcnt
<1>3. f = Reconstruct(last, wire) /\ f - last \in 1 .. MaxFcntGap
  BY <1>2 DEF NextFcntDown, Fresh
<1>4. /\ (p + wire) % WireMod = wire
      /\ ((p + WireMod) + wire) % WireMod = wire
  <2>1. (p + wire) % WireMod = wire
    BY <1>1, ModOfSum
  <2>2. ((q + 1) * WireMod) + wire = (p + WireMod) + wire
    BY <1>1, SMT
  <2>3. (((q + 1) * WireMod) + wire) % WireMod = wire
    BY <1>1, ModOfSum
  <2>4. QED
    BY <2>1, <2>2, <2>3
<1>5. \/ wire >= l /\ f = p + wire
      \/ wire < l /\ p + WireMod < FcntMod /\ f = (p + WireMod) + wire
      \/ wire < l /\ f = wire
  BY <1>3, ReconstructCases DEF q, l
<1> HIDE DEF f, p
<1>6. CASE wire >= l /\ f = p + wire
  <2>1. f \in Fcnt /\ f \in last + 1 .. last + MaxFcntGap
    BY <1>1, <1>2, <1>3, <1>6 DEF Fcnt
  <2>2. QED
    BY <2>1, <1>4, <1>6 DEF f
<1>7. CASE wire < l /\ p + WireMod < FcntMod /\ f = (p + WireMod) + wire
  <2>1. f \in last + 1 .. last + MaxFcntGap
    BY <1>1, <1>2, <1>3, <1>7
  <2>2. f \in Fcnt
    <3>1. q + 1 < Epochs
      BY <1>1, <1>7
    <3>2. Epochs >= (q + 1) + 1
      BY <3>1, <1>1
    <3>3. Epochs * WireMod >= ((q + 1) * WireMod) + WireMod
      BY <3>2, <1>1, MulMonotone
    <3>4. (q + 1) * WireMod = p + WireMod
      BY <1>1, SMT DEF p
    <3>5. FcntMod >= (p + WireMod) + WireMod
      BY <3>3, <3>4 DEF FcntMod
    <3>6. QED
      BY <3>5, <1>1, <1>7 DEF Fcnt
  <2>3. QED
    BY <2>1, <2>2, <1>4, <1>7 DEF f
<1>8. CASE wire < l /\ f = wire
  BY <1>1, <1>3, <1>8
<1>9. QED
  BY <1>5, <1>6, <1>7, <1>8

\* Exactness: a frame at most MAX_FCNT_GAP ahead of the last accepted one is
\* rebuilt to its own counter from the low half alone.
THEOREM NextFcntDownExact ==
    ASSUME NEW last \in Fcnt, NEW c \in Fcnt,
           c > last, c <= last + MaxFcntGap
    PROVE  NextFcntDown(last, c % WireMod) = c
<1> DEFINE q == last \div WireMod
           p == q * WireMod
           l == last % WireMod
           qc == c \div WireMod
           pc == qc * WireMod
           w == c % WireMod
<1> USE FrameCounterAssumption
<1>1. /\ FcntMod \in Nat \ {0} /\ q \in Nat /\ p \in Nat
      /\ l \in 0 .. WireMod - 1 /\ last = p + l /\ p + WireMod <= FcntMod
  BY Halves
<1>2. /\ qc \in Nat /\ pc \in Nat /\ w \in 0 .. WireMod - 1 /\ c = pc + w
      /\ pc + WireMod <= FcntMod
  BY Halves
<1>3. \/ w >= l /\ Reconstruct(last, w) = p + w
      \/ w < l /\ p + WireMod < FcntMod /\ Reconstruct(last, w) = (p + WireMod) + w
      \/ w < l /\ p + WireMod >= FcntMod
  <2>1. \/ w >= l /\ Reconstruct(last, w) = p + w
        \/ w < l /\ p + WireMod < FcntMod
                 /\ Reconstruct(last, w) = (p + WireMod) + w
        \/ w < l /\ p + WireMod = FcntMod /\ Reconstruct(last, w) = w
    BY <1>2, ReconstructCases
  <2> HIDE DEF q, p, l, qc, pc, w
  <2>2. p + WireMod = FcntMod => p + WireMod >= FcntMod
    BY <1>1
  <2>3. QED
    BY <2>1, <2>2
<1> HIDE DEF q, l, qc, w
<1>4. (q + 1) * WireMod = p + WireMod
  BY <1>1, SMT
<1>5. qc >= q
  <2>1. SUFFICES ASSUME q >= qc + 1 PROVE FALSE
    BY <1>1, <1>2
  <2>2. p >= pc + WireMod
    BY <1>1, <1>2, <2>1, MulMonotone
  <2> HIDE DEF p, pc
  <2>3. QED
    BY <1>1, <1>2, <2>2
<1>6. qc <= q + 1
  <2>1. SUFFICES ASSUME qc >= (q + 1) + 1 PROVE FALSE
    BY <1>1, <1>2
  <2>2. pc >= ((q + 1) * WireMod) + WireMod
    BY <1>1, <1>2, <2>1, MulMonotone
  <2> HIDE DEF p, pc
  <2>3. pc >= (p + WireMod) + WireMod
    BY <2>2, <1>4
  <2>4. QED
    BY <1>1, <1>2, <2>3
<1>7. pc = p \/ pc = p + WireMod
  <2>1. qc = q \/ qc = q + 1
    BY <1>1, <1>2, <1>5, <1>6
  <2>2. QED
    BY <1>4, <2>1
<1> HIDE DEF p, pc
<1>8. Reconstruct(last, w) = c
  BY <1>1, <1>2, <1>3, <1>7
<1>9. Fresh(last, c) /\ last # NoFcnt
  BY <1>1, <1>2 DEF Fresh, NoFcnt
<1>10. QED
  BY <1>8, <1>9 DEF NextFcntDown, w
=============================================================================
