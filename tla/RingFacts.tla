----------------------------- MODULE RingFacts ------------------------------
(* What the proofs about ring buffers use: indices that count modulo their *)
(* width M, and the slot an index stands for, its remainder by the size d  *)
(* of the ring, which divides M.                                           *)
EXTENDS Integers, FiniteSets, FiniteSetsExt, FiniteSetTheorems, WellFoundedInduction, TLAPS

(* A leaf goes to Zenon, unless it names the SMT solver, which alone does   *)
(* arithmetic.                                                             *)
USE ZenonT(60)

(* The remainder, as unsigned arithmetic uses it.                   *)
LEMMA ModRange ==
  ASSUME NEW d \in Nat \ {0}, NEW n \in Int
  PROVE  n % d \in 0..(d - 1)
BY SMTT(60)

(* Division with remainder.                                                *)
LEMMA ModDiv ==
  ASSUME NEW d \in Nat \ {0}, NEW n \in Int
  PROVE  n \div d \in Int /\ n = d * (n \div d) + (n % d)
BY SMTT(60)

(* A multiple of d closer to 0 than d is 0.                                *)
LEMMA NearMultiple ==
  ASSUME NEW d \in Nat \ {0}, NEW q \in Int, d * q < d, d * q > 0 - d
  PROVE  q = 0
<1>1. q >= 1 => d * q >= d
  BY SMTT(60)
<1>2. q <= -1 => d * q <= 0 - d
  BY SMTT(60)
<1>3. QED
  BY SMTT(60), <1>1, <1>2

(* The remainder is the one number in range.                               *)
LEMMA ModUnique ==
  ASSUME NEW d \in Nat \ {0}, NEW q \in Int, NEW r \in 0..(d - 1)
  PROVE  (d * q + r) % d = r
<1> DEFINE n == d * q + r
           k == n \div d
           m == n % d
<1>1. n \in Int
  BY SMTT(60)
<1>2. k \in Int /\ m \in 0..(d - 1) /\ d * q + r = d * k + m
  BY <1>1, ModDiv, ModRange
<1> HIDE DEF n, k, m
<1>3. d * (q - k) = m - r /\ q - k \in Int
  BY SMTT(60), <1>2
<1>4. d * (q - k) < d /\ d * (q - k) > 0 - d
  BY SMTT(60), <1>2, <1>3
<1>5. q - k = 0
  BY <1>3, <1>4, NearMultiple
<1>6. m = r
  BY SMTT(60), <1>2, <1>3, <1>5
<1>7. QED
  BY <1>6 DEF m, n

(* The remainder of a number within one round of the counter.              *)
LEMMA ModRound ==
  ASSUME NEW d \in Nat \ {0}, NEW r \in 0..(d - 1)
  PROVE  r % d = r /\ (r + d) % d = r /\ (r - d) % d = r
<1>1. r = d * 0 + r /\ r + d = d * 1 + r /\ r - d = d * (-1) + r
  BY SMTT(60)
<1>2. (d * 0 + r) % d = r /\ (d * 1 + r) % d = r /\ (d * (-1) + r) % d = r
  BY SMTT(60), ModUnique
<1>3. QED
  BY <1>1, <1>2

(* A multiple of d does not change the remainder.                          *)
LEMMA ModShift ==
  ASSUME NEW d \in Nat \ {0}, NEW n \in Int, NEW k \in Int
  PROVE  (n + d * k) % d = n % d
<1> DEFINE q == n \div d
           r == n % d
<1>1. q \in Int /\ r \in 0..(d - 1) /\ n = d * q + r
  BY ModDiv, ModRange
<1> HIDE DEF q, r
<1>2. n + d * k = d * (q + k) + r /\ q + k \in Int
  BY SMTT(60), <1>1
<1>3. (d * (q + k) + r) % d = r
  BY <1>1, <1>2, ModUnique
<1>4. QED
  BY <1>2, <1>3 DEF r

(* Fewer than d numbers in a row have different remainders.                *)
LEMMA ModApart ==
  ASSUME NEW d \in Nat \ {0}, NEW n \in Int, NEW m \in Int, n < m, m - n < d
  PROVE  n % d # m % d
<1> SUFFICES ASSUME n % d = m % d PROVE FALSE
  OBVIOUS
<1> DEFINE q == n \div d
           k == m \div d
           r == n % d
<1>1. q \in Int /\ k \in Int /\ r \in 0..(d - 1) /\ n = d * q + r /\ m = d * k + r
  BY ModDiv, ModRange
<1> HIDE DEF q, k, r
<1>2. d * (k - q) = m - n /\ k - q \in Int
  BY SMTT(60), <1>1
<1>3. k - q = 0
  BY SMTT(60), <1>2, NearMultiple
<1>4. QED
  BY SMTT(60), <1>2, <1>3

-----------------------------------------------------------------------------
(* How far index b is ahead of a.                                          *)
LEMMA RingDistance ==
  ASSUME NEW M \in Nat \ {0}, NEW a \in 0..(M - 1), NEW b \in 0..(M - 1)
  PROVE  (b - a) % M = IF a <= b THEN b - a ELSE b - a + M
<1>2. \A r \in 0..(M - 1) : r % M = r /\ (r + M) % M = r /\ (r - M) % M = r
  BY ModRound
<1>3. a <= b => (b - a) % M = b - a
  BY SMTT(60), <1>2
<1>4. ~(a <= b) => (b - a) % M = b - a + M
  <2> SUFFICES ASSUME ~(a <= b) PROVE (b - a) % M = b - a + M
    OBVIOUS
  <2>1. b - a + M \in 0..(M - 1) /\ (b - a + M) - M = b - a
    BY SMTT(60)
  <2>2. QED
    BY <1>2, <2>1
<1>5. QED
  BY <1>3, <1>4

(* The next index of a ring: back to 0 at the end.                         *)
LEMMA RingNext ==
  ASSUME NEW M \in Nat \ {0}, NEW n \in 0..(M - 1)
  PROVE  (n + 1) % M = IF n + 1 = M THEN 0 ELSE n + 1
<1>1. \A r \in 0..(M - 1) : r % M = r /\ (r + M) % M = r
  BY ModRound
<1>2. CASE n + 1 = M
  <2>1. n + 1 = 0 + M /\ 0 \in 0..(M - 1)
    BY SMTT(60), <1>2
  <2>2. QED
    BY <1>1, <1>2, <2>1
<1>3. CASE n + 1 # M
  BY SMTT(60), <1>1, <1>3
<1>4. QED
  BY <1>2, <1>3

(* An index that wraps stands for the same slot.                           *)
LEMMA SlotWraps ==
  ASSUME NEW d \in Nat \ {0}, NEW M \in Nat, M % d = 0, NEW n \in Int
  PROVE  (n + M) % d = n % d
<1> DEFINE q == M \div d
<1>1. q \in Int /\ M = d * q + (M % d)
  BY SMTT(60), ModDiv
<1>2. M = d * q
  BY SMTT(60), <1>1
<1> HIDE DEF q
<1>3. (n + d * q) % d = n % d
  BY <1>1, ModShift
<1>4. QED
  BY <1>2, <1>3

(* The slots of the n entries from index a on.                             *)
Slots(a, n, d) == {(a + k) % d : k \in 0..(n - 1)}

(* A ring of d slots with indices that wrap at M, its n entries being from *)
(* index a up to b.                                                        *)
IsRing(a, b, n, d, M) ==
  /\ d \in Nat \ {0} /\ M \in Nat /\ M % d = 0 /\ d < M
  /\ a \in 0..(M - 1) /\ b \in 0..(M - 1) /\ n = (b - a) % M

(* The number of entries is in range, and 0 just when the indices agree.   *)
LEMMA RingCount ==
  ASSUME NEW a, NEW b, NEW n, NEW d, NEW M, IsRing(a, b, n, d, M)
  PROVE  n \in Nat /\ n < M /\ (a = b <=> n = 0)
<1> USE DEF IsRing
<1>1. n = IF a <= b THEN b - a ELSE b - a + M
  BY SMTT(60), RingDistance
<1>2. QED
  BY SMTT(60), <1>1

(* Putting an entry at index b, where there is room: one more slot.        *)
CanPut(a, b, n, d, M) ==
  /\ IsRing(a, (b + 1) % M, n + 1, d, M)
  /\ b % d \in 0..(d - 1)
  /\ b % d \notin Slots(a, n, d)
  /\ Slots(a, n + 1, d) = Slots(a, n, d) \cup {b % d}

(* An entry can be put into a ring that is not full.                       *)
LEMMA RingPut ==
  ASSUME NEW a, NEW b, NEW n, NEW d, NEW M, IsRing(a, b, n, d, M), n < d
  PROVE  CanPut(a, b, n, d, M)
<1> USE DEF CanPut
<1> USE DEF IsRing
<1>0. M \in Nat \ {0} /\ a \in Int /\ b \in Int
  BY SMTT(60)
<1>1. n = IF a <= b THEN b - a ELSE b - a + M
  BY <1>0, RingDistance
<1>2. n \in Nat
  BY SMTT(60), <1>1
<1> DEFINE c == (b + 1) % M
<1>3. c = IF b + 1 = M THEN 0 ELSE b + 1
  BY SMTT(60), <1>0, RingNext
<1>4. c \in 0..(M - 1)
  BY SMTT(60), <1>3
<1>5. (c - a) % M = IF a <= c THEN c - a ELSE c - a + M
  BY <1>0, <1>4, RingDistance
<1>6. (c - a) % M = n + 1
  BY SMTT(60), <1>1, <1>3, <1>5
<1>7. b % d = (a + n) % d
  <2>1. a + n = b \/ a + n = b + M
    BY SMTT(60), <1>1
  <2>2. (b + M) % d = b % d
    BY <1>0, SlotWraps
  <2>3. QED
    BY <2>1, <2>2
<1>8. b % d \notin Slots(a, n, d)
  <2> SUFFICES ASSUME NEW k \in 0..(n - 1) PROVE (a + k) % d # b % d
    BY DEF Slots
  <2>1. a + k \in Int /\ a + n \in Int /\ a + k < a + n /\ (a + n) - (a + k) < d
    BY SMTT(60), <1>2
  <2>2. QED
    BY <1>7, <2>1, ModApart
<1>9. Slots(a, n + 1, d) = Slots(a, n, d) \cup {b % d}
  <2>1. 0..((n + 1) - 1) = (0..(n - 1)) \cup {n}
    BY SMTT(60), <1>2
  <2>2. QED
    BY <1>7, <2>1 DEF Slots
<1>10. b % d \in 0..(d - 1)
  BY SMTT(60), ModRange
<1>11. IsRing(a, c, n + 1, d, M)
  BY <1>4, <1>6
<1>12. QED
  BY <1>8, <1>9, <1>10, <1>11

(* Taking the entry at index a: its slot is the one that goes.             *)
CanTake(a, b, n, d, M) ==
  /\ IsRing((a + 1) % M, b, n - 1, d, M)
  /\ n \in Nat /\ n > 0
  /\ a % d \in 0..(d - 1)
  /\ a % d \in Slots(a, n, d)
  /\ Slots((a + 1) % M, n - 1, d) = Slots(a, n, d) \ {a % d}

(* The oldest entry can be taken from a ring that is not empty.            *)
LEMMA RingTake ==
  ASSUME NEW a, NEW b, NEW n, NEW d, NEW M, IsRing(a, b, n, d, M), n <= d, a # b
  PROVE  CanTake(a, b, n, d, M)
<1> USE DEF CanTake
<1> USE DEF IsRing
<1>0. M \in Nat \ {0} /\ a \in Int /\ b \in Int
  BY SMTT(60)
<1>1. n = IF a <= b THEN b - a ELSE b - a + M
  BY SMTT(60), <1>0, RingDistance
<1>2. n \in Nat /\ n > 0
  BY SMTT(60), <1>1
<1> DEFINE c == (a + 1) % M
<1>3. c = IF a + 1 = M THEN 0 ELSE a + 1
  BY SMTT(60), <1>0, RingNext
<1>4. c \in 0..(M - 1)
  BY SMTT(60), <1>3
<1>5. (b - c) % M = IF c <= b THEN b - c ELSE b - c + M
  BY <1>0, <1>4, RingDistance
<1>6. (b - c) % M = n - 1
  BY SMTT(60), <1>1, <1>3, <1>5
<1>7. a % d \in Slots(a, n, d)
  <2>1. 0 \in 0..(n - 1) /\ a + 0 = a
    BY SMTT(60), <1>2
  <2>2. QED
    BY <2>1 DEF Slots
<1>8. \A k \in Int : (c + k) % d = (a + (k + 1)) % d
  <2> SUFFICES ASSUME NEW k \in Int PROVE (c + k) % d = (a + (k + 1)) % d
    OBVIOUS
  <2>1. c + k \in Int /\ (a + (k + 1) = c + k \/ a + (k + 1) = (c + k) + M)
    BY SMTT(60), <1>3
  <2> HIDE DEF c
  <2>2. ((c + k) + M) % d = (c + k) % d
    BY <2>1, SlotWraps
  <2>3. QED
    BY <2>1, <2>2
<1>9. \A k \in 1..(n - 1) : (a + k) % d # a % d
  <2> SUFFICES ASSUME NEW k \in 1..(n - 1) PROVE (a + k) % d # a % d
    OBVIOUS
  <2>1. a + k \in Int /\ a < a + k /\ (a + k) - a < d
    BY SMTT(60), <1>2
  <2>2. QED
    BY SMTT(60), <2>1, ModApart
<1>16. IsRing(c, b, n - 1, d, M)
  BY <1>4, <1>6
<1> HIDE DEF c, IsRing
<1>10. Slots(c, n - 1, d) = {(a + k) % d : k \in 1..(n - 1)}
  <2>1. \A k \in 0..((n - 1) - 1) : k + 1 \in 1..(n - 1) /\ (c + k) % d = (a + (k + 1)) % d
    BY SMTT(60), <1>2, <1>8
  <2>2. \A k \in 1..(n - 1) : /\ k - 1 \in 0..((n - 1) - 1)
                              /\ (c + (k - 1)) % d = (a + ((k - 1) + 1)) % d
                              /\ (k - 1) + 1 = k
    BY SMTT(60), <1>2, <1>8
  <2>3. Slots(c, n - 1, d) \subseteq {(a + k) % d : k \in 1..(n - 1)}
    BY <2>1 DEF Slots
  <2>4. \A k \in 1..(n - 1) : (a + k) % d = (c + (k - 1)) % d
    BY <2>2
  <2>5. {(a + k) % d : k \in 1..(n - 1)} \subseteq Slots(c, n - 1, d)
    <3> SUFFICES ASSUME NEW k \in 1..(n - 1) PROVE (a + k) % d \in Slots(c, n - 1, d)
      OBVIOUS
    <3>1. k - 1 \in 0..((n - 1) - 1) /\ (a + k) % d = (c + (k - 1)) % d
      BY <2>2, <2>4
    <3>2. QED
      BY <3>1 DEF Slots
  <2>6. QED
    BY <2>3, <2>5
<1>11. 0..(n - 1) = {0} \cup 1..(n - 1) /\ a + 0 = a
  BY SMTT(60), <1>0, <1>2
<1>12. Slots(a, n, d) = {a % d} \cup {(a + k) % d : k \in 1..(n - 1)}
  BY <1>11 DEF Slots
<1>13. Slots(c, n - 1, d) = Slots(a, n, d) \ {a % d}
  BY <1>9, <1>10, <1>12
<1>14. a % d \in 0..(d - 1)
  BY <1>0, ModRange DEF IsRing
<1>15. QED
  BY <1>2, <1>7, <1>13, <1>14, <1>16 DEF c

(* The slots of a ring of d are numbers below d.                           *)
LEMMA SlotsInRing ==
  ASSUME NEW d \in Nat \ {0}, NEW a \in Int, NEW n \in Int
  PROVE  Slots(a, n, d) \subseteq 0..(d - 1)
<1>1. \A k \in 0..(n - 1) : a + k \in Int
  BY SMTT(60)
<1>2. QED
  BY <1>1, ModRange DEF Slots

(* A ring that holds each of the things in S at most once holds no more    *)
(* entries than there are things.                                          *)
LEMMA RingHolds ==
  ASSUME NEW d \in Nat \ {0}, NEW a \in Int, NEW n \in Nat, n <= d, NEW q, NEW S, IsFiniteSet(S),
         \A s \in Slots(a, n, d) : q[s] \in S,
         \A r, s \in Slots(a, n, d) : q[r] = q[s] => r = s
  PROVE  n <= Cardinality(S)
<1> DEFINE f == [k \in 0..(n - 1) |-> q[(a + k) % d]]
<1>1. \A k \in 0..(n - 1) : (a + k) % d \in Slots(a, n, d)
  BY DEF Slots
<1>2. ASSUME NEW j \in 0..(n - 1), NEW k \in 0..(n - 1), j < k PROVE f[j] # f[k]
  <2>1. a + j \in Int /\ a + k \in Int /\ a + j < a + k /\ (a + k) - (a + j) < d
    BY SMTT(60), <1>2
  <2>2. (a + j) % d # (a + k) % d
    BY <2>1, ModApart
  <2>3. QED
    BY <1>1, <2>2
<1>3. f \in Injection(0..(n - 1), S)
  <2>1. f \in [0..(n - 1) -> S]
    BY <1>1
  <2> HIDE DEF f
  <2>2. \A j, k \in 0..(n - 1) : f[j] = f[k] => j = k
    BY SMTT(60), <1>2
  <2>3. QED
    BY <2>1, <2>2 DEF Injection, IsInjective
<1> HIDE DEF f
<1>4. Cardinality(0..(n - 1)) <= Cardinality(S)
  BY <1>3, FS_Injection
<1>5. Cardinality(0..(n - 1)) = n
  BY SMTT(60), FS_Interval
<1>6. QED
  BY <1>4, <1>5

(* A non-empty set of natural numbers has a smallest one.                  *)
LEMMA MinIn ==
  ASSUME NEW S \in SUBSET Nat, S # {}
  PROVE  Min(S) \in S
<1>1. PICK x \in S : \A y \in S : ~(<<y, x>> \in OpToRel(<, Nat))
  BY NatLessThanWellFounded, WFMin
<1>2. \A y \in S : x <= y
  <2> SUFFICES ASSUME NEW y \in S, ~(x <= y) PROVE FALSE
    OBVIOUS
  <2>1. y < x /\ <<y, x>> \in Nat \X Nat
    BY SMTT(60)
  <2>2. <<y, x>> \in OpToRel(<, Nat)
    BY <2>1, Zenon DEF OpToRel
  <2>3. QED
    BY <1>1, <2>2
<1>3. QED
  BY <1>2 DEF Min
=============================================================================
