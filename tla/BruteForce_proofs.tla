-------------------------- MODULE BruteForce_proofs --------------------------
(***************************************************************************)
(* The invariants of BruteForce hold of every run of a single- or          *)
(* multi-value index, for every set of labels and vectors and every block  *)
(* size.                                                                   *)
(***************************************************************************)
EXTENDS BruteForce, FlatKinds_proofs

-----------------------------------------------------------------------------
(* Capacity.                                                                *)

LEMMA Division ==
  ASSUME NEW a \in Nat, NEW b \in Nat \ {0}
  PROVE  \E q \in Nat, r \in 0..(b - 1) : r = a % b /\ a = b * q + r
<1>1. a % b \in 0..(b - 1)
  OBVIOUS
<1>2. PICK q \in Nat : q = a \div b
  OBVIOUS
<1>3. a % b = a - b * (a \div b)
  OBVIOUS
<1>4. PICK m \in Int, r \in 0..(b - 1) : m = b * q /\ r = a % b
  BY <1>1, <1>2
<1>5. r = a - m
  BY <1>2, <1>3, <1>4
<1>6. a = m + r
  BY <1>5
<1>7. a = b * q + r
  BY <1>4, <1>6
<1>8. QED
  BY <1>4, <1>7, Zenon

LEMMA Remainder ==
  ASSUME NEW a \in Nat, NEW b \in Nat \ {0}, NEW q \in Nat, NEW r \in 0..(b - 1), a = b * q + r
  PROVE  a % b = r
<1>1. PICK p \in Nat, t \in 0..(b - 1) : t = a % b /\ a = b * p + t
  BY Division
<1>2. CASE q = p
  BY <1>1, <1>2
<1>3. CASE q < p
  <2>1. b * p >= b * (q + 1)
    BY <1>1, <1>3
  <2>2. QED
    BY <1>1, <2>1
<1>4. CASE q > p
  <2>1. b * q >= b * (p + 1)
    BY <1>1, <1>4
  <2>2. QED
    BY <1>1, <2>1
<1>5. QED
  BY <1>1, <1>2, <1>3, <1>4

\* A block more or less does not change the remainder.
LEMMA BlockMore ==
  /\ BlockSize \in Nat \ {0} /\ 0 % BlockSize = 0
  /\ \A a \in Nat : (a + BlockSize) % BlockSize = a % BlockSize
  /\ \A a \in Nat \ {0} : a % BlockSize = 0 => a >= BlockSize
<1>1. BlockSize \in Nat \ {0}
  BY BlockSizeAssumption
<1>2. ASSUME NEW a \in Nat PROVE (a + BlockSize) % BlockSize = a % BlockSize
  <2>1. PICK q \in Nat, r \in 0..(BlockSize - 1) : r = a % BlockSize /\ a = BlockSize * q + r
    BY <1>1, Division
  <2>2. BlockSize * (q + 1) = BlockSize * q + BlockSize
    BY <1>1
  <2>3. a + BlockSize = BlockSize * (q + 1) + r /\ q + 1 \in Nat /\ a + BlockSize \in Nat
    BY <1>1, <2>1, <2>2
  <2>4. (a + BlockSize) % BlockSize = r
    BY <1>1, <2>3, Remainder
  <2>5. QED
    BY <2>1, <2>4
<1>3. ASSUME NEW a \in Nat, a < BlockSize PROVE a % BlockSize = a
  <2>1. a = BlockSize * 0 + a /\ a \in 0..(BlockSize - 1)
    BY <1>1, <1>3
  <2>2. QED
    BY <1>1, <2>1, Remainder
<1>4. 0 < BlockSize
  BY <1>1
<1>5. 0 % BlockSize = 0
  BY <1>3, <1>4
<1>6. ASSUME NEW a \in Nat \ {0}, a % BlockSize = 0 PROVE a >= BlockSize
  BY <1>1, <1>3, <1>6
<1>7. QED
  BY <1>1, <1>2, <1>5, <1>6

-----------------------------------------------------------------------------
(* Capacity.                                                                *)

\* What holds of the capacity cap of an index of n elements between calls.
Fits(cap, n) ==
  /\ cap \in Nat /\ cap % BlockSize = 0
  /\ n <= cap /\ cap < n + 2 * BlockSize
  /\ n = 0 => cap = 0

LEMMA GrowFits ==
  ASSUME NEW n \in Nat, NEW cap, Fits(cap, n)
  PROVE  Fits(Grow(cap, n).cap, n + 1) /\ Grow(cap, n).ok
<1>1. cap \in Nat /\ cap % BlockSize = 0 /\ n <= cap /\ cap < n + 2 * BlockSize
  BY DEF Fits
<1>2. CASE n >= cap
  <2>1. cap = n
    BY <1>1, <1>2
  <2>2. Grow(cap, n).cap = cap + BlockSize /\ Grow(cap, n).ok
    BY <1>1, <1>2, <2>1 DEF Grow
  <2>3. /\ cap + BlockSize \in Nat /\ n + 1 <= cap + BlockSize
        /\ cap + BlockSize < n + 1 + 2 * BlockSize /\ n + 1 # 0
    BY <1>1, <2>1, BlockSizeAssumption
  <2>4. (cap + BlockSize) % BlockSize = 0
    BY <1>1, BlockMore
  <2>5. QED
    BY <2>2, <2>3, <2>4 DEF Fits
<1>3. CASE ~ (n >= cap)
  <2>1. Grow(cap, n).cap = cap /\ Grow(cap, n).ok
    BY <1>3 DEF Grow
  <2>2. n + 1 <= cap /\ cap < n + 1 + 2 * BlockSize /\ n + 1 # 0
    BY <1>1, <1>3, BlockSizeAssumption
  <2>3. QED
    BY <1>1, <2>1, <2>2 DEF Fits
<1>4. QED
  BY <1>2, <1>3

LEMMA ShrinkFits ==
  ASSUME NEW n \in Nat, NEW cap, Fits(cap, n + 1)
  PROVE  Fits(Shrink(cap, n).cap, n) /\ Shrink(cap, n).ok
<1>1. /\ cap \in Nat /\ cap % BlockSize = 0 /\ n + 1 <= cap /\ cap < n + 1 + 2 * BlockSize
      /\ BlockSize \in Nat \ {0}
  BY BlockSizeAssumption DEF Fits
<1>2. cap >= BlockSize
  <2>1. cap \in Nat \ {0}
    BY <1>1
  <2>2. QED
    BY <1>1, <2>1, BlockMore
<1>3. cap <= n + 2 * BlockSize /\ n <= cap
  BY <1>1
<1>4. CASE n % BlockSize # 0
  <2>1. Shrink(cap, n).cap = cap /\ Shrink(cap, n).ok
    BY <1>4 DEF Shrink
  <2>2. n # 0
    BY <1>4, BlockMore
  <2>3. cap # n + 2 * BlockSize
    <3>1. n + BlockSize \in Nat /\ n + 2 * BlockSize = (n + BlockSize) + BlockSize
      BY <1>1
    <3>2. (n + 2 * BlockSize) % BlockSize = n % BlockSize
      BY <3>1, BlockMore
    <3>3. QED
      BY <1>1, <1>4, <3>2
  <2>4. cap < n + 2 * BlockSize
    BY <1>1, <1>3, <2>3
  <2>5. QED
    BY <1>1, <1>3, <2>1, <2>2, <2>4 DEF Fits
<1>5. CASE n % BlockSize = 0 /\ n = 0
  <2>1. Shrink(cap, n).cap = 0 /\ Shrink(cap, n).ok
    BY <1>1, <1>2, <1>5 DEF Shrink
  <2>2. 0 < 0 + 2 * BlockSize /\ 0 <= 0 /\ 0 \in Nat
    BY <1>1
  <2>3. QED
    BY <1>5, <2>1, <2>2, BlockMore DEF Fits
<1>6. CASE n % BlockSize = 0 /\ n # 0 /\ cap >= n + 2 * BlockSize
  <2>1. cap = n + 2 * BlockSize
    BY <1>1, <1>3, <1>6
  <2>2. Shrink(cap, n).cap = cap - BlockSize /\ Shrink(cap, n).ok
    BY <1>1, <1>2, <1>6, <2>1 DEF Shrink
  <2>3. /\ cap - BlockSize = n + BlockSize /\ n + BlockSize \in Nat
        /\ n <= n + BlockSize /\ n + BlockSize < n + 2 * BlockSize
    BY <1>1, <2>1
  <2>4. (n + BlockSize) % BlockSize = 0
    BY <1>6, BlockMore
  <2>5. QED
    BY <1>6, <2>2, <2>3, <2>4 DEF Fits
<1>7. CASE n % BlockSize = 0 /\ n # 0 /\ ~ (cap >= n + 2 * BlockSize)
  <2>1. Shrink(cap, n).cap = cap /\ Shrink(cap, n).ok
    BY <1>1, <1>2, <1>7 DEF Shrink
  <2>2. cap < n + 2 * BlockSize
    BY <1>1, <1>7
  <2>3. QED
    BY <1>1, <1>3, <1>7, <2>1, <2>2 DEF Fits
<1>8. QED
  BY <1>4, <1>5, <1>6, <1>7

\* n removals in a row go through states in which the capacity fits.
LEMMA ShrinkTimesFits ==
  ASSUME NEW count \in Nat, NEW n \in 0..count, NEW cap, Fits(cap, count)
  PROVE  Fits(ShrinkTimes(cap, count, n).cap, count - n) /\ ShrinkTimes(cap, count, n).ok
<1> DEFINE Next1(s, i) == LET r == Shrink(s.cap, count - i)
                          IN  [cap |-> r.cap, ok |-> s.ok /\ r.ok]
           Run(t, m) == t = [i \in 0..m |-> IF i = 0 THEN [cap |-> cap, ok |-> TRUE]
                                            ELSE Next1(t[i - 1], i)]
           Right(s, i) == Fits(s.cap, count - i) /\ s.ok
           T == {m \in Nat : \E t : Run(t, m)}
<1>1. n \in Nat
  OBVIOUS
<1>2. 0 \in T
  <2>1. Run([i \in 0..0 |-> [cap |-> cap, ok |-> TRUE]], 0)
    OBVIOUS
  <2>2. QED
    BY <2>1
<1>3. ASSUME NEW m \in 1..n, m - 1 \in T PROVE m \in T
  <2>1. PICK t : Run(t, m - 1)
    BY <1>3
  <2> HIDE DEF Next1
  <2>2. PICK u : u = [i \in 0..m |-> IF i = m THEN Next1(t[m - 1], m) ELSE t[i]]
    OBVIOUS
  <2>3. ASSUME NEW i \in 0..m
        PROVE  u[i] = IF i = 0 THEN [cap |-> cap, ok |-> TRUE] ELSE Next1(u[i - 1], i)
    <3>1. CASE i = m
      BY <2>2, <3>1
    <3>2. CASE i # m
      <4>1. i \in 0..(m - 1) /\ u[i] = t[i] /\ (i # 0 => u[i - 1] = t[i - 1])
        BY <2>2, <3>2
      <4>2. QED
        BY <2>1, <4>1
    <3>3. QED
      BY <3>1, <3>2
  <2>4. Run(u, m)
    BY <2>2, <2>3
  <2>5. m \in Nat
    OBVIOUS
  <2>6. QED
    BY <2>4, <2>5
<1>4. \E t : Run(t, n)
  <2> HIDE DEF Run
  <2>1. 0..n \subseteq T
    BY <1>1, <1>2, <1>3, UpToInduction
  <2>2. QED
    BY <1>1, <2>1
<1>5. PICK a : a = CHOOSE t : Run(t, n)
  OBVIOUS
<1>6. Run(a, n)
  BY <1>4, <1>5
<1>7. ShrinkTimes(cap, count, n) = a[n]
  BY <1>5 DEF ShrinkTimes
<1> HIDE DEF Next1
<1>8. ASSUME NEW i \in 0..n
      PROVE  a[i] = IF i = 0 THEN [cap |-> cap, ok |-> TRUE] ELSE Next1(a[i - 1], i)
  <2>1. QED
    BY <1>6
<1> DEFINE S == {i \in 0..n : Right(a[i], i)}
<1>9. 0 \in S
  <2>1. 0 \in 0..n /\ count - 0 = count
    OBVIOUS
  <2>2. a[0] = [cap |-> cap, ok |-> TRUE]
    BY <1>8, <2>1
  <2>3. a[0].cap = cap /\ a[0].ok
    BY <2>2
  <2>4. QED
    BY <2>1, <2>3
<1>10. ASSUME NEW i \in 1..n, i - 1 \in S PROVE i \in S
  <2>1. /\ Fits(a[i - 1].cap, (count - i) + 1) /\ a[i - 1].ok
        /\ count - i \in Nat
    <3>1. count - (i - 1) = (count - i) + 1 /\ count - i \in Nat
      OBVIOUS
    <3>2. QED
      BY <1>10, <3>1
  <2>2. PICK r : r = Shrink(a[i - 1].cap, count - i)
    OBVIOUS
  <2>3. Fits(r.cap, count - i) /\ r.ok
    BY <2>1, <2>2, ShrinkFits
  <2>4. a[i] = [cap |-> r.cap, ok |-> a[i - 1].ok /\ r.ok]
    <3>1. i \in 0..n /\ i # 0
      OBVIOUS
    <3>2. QED
      BY <1>8, <2>2, <3>1 DEF Next1
  <2>5. a[i].cap = r.cap /\ a[i].ok
    <3>1. PICK x : x = (a[i - 1].ok /\ r.ok)
      BY Zenon
    <3>2. a[i] = [cap |-> r.cap, ok |-> x]
      BY <2>4, <3>1, Zenon
    <3>3. a[i].cap = r.cap /\ a[i].ok = x
      BY <3>2
    <3>4. x
      BY <2>1, <2>3, <3>1, Zenon
    <3>5. QED
      BY <3>3, <3>4, Zenon
  <2>7. Fits(a[i].cap, count - i)
    BY <2>3, <2>5, Zenon
  <2>6. QED
    BY <2>5, <2>7
<1>11. 0..n \subseteq S
  <2> HIDE DEF S
  <2>1. QED
    BY <1>1, <1>9, <1>10, UpToInduction
<1>12. QED
  BY <1>1, <1>7, <1>11

-----------------------------------------------------------------------------
(* What an index holds.                                                     *)

\* What the raw data container holds.
Blobs == [vec : Vectors, processed : BOOLEAN]

\* The vectors of label k.
Held(f, k) == {f.vectors[i].vec : i \in Holding(f, k)}

\* No vector is held twice.
Distinct(f) ==
  \A i, j \in 1..Count(f) : f.vectors[i].vec = f.vectors[j].vec => i = j

LEMMA FollowsHolds ==
  ASSUME NEW f, NEW l, NEW h, NEW up, Follows(f, l, h, up), Distinct(f)
  PROVE  /\ Distinct(h)
         /\ \A k : k # l => Held(h, k) = Held(f, k)
<1>1. \A j \in 1..Count(h) : /\ From(up, j) \in 1..Count(f)
                             /\ h.labels[j] = f.labels[From(up, j)]
                             /\ h.vectors[j] = f.vectors[From(up, j)]
  BY DEF Follows
<1>2. Distinct(h)
  BY <1>1 DEF Distinct, Follows
<1>3. ASSUME NEW k, k # l PROVE Held(h, k) = Held(f, k)
  <2>1. ASSUME NEW x \in Held(h, k) PROVE x \in Held(f, k)
    <3>1. PICK j \in 1..Count(h) : h.labels[j] = k /\ x = h.vectors[j].vec
      BY <2>1 DEF Held, Holding
    <3>2. QED
      BY <1>1, <3>1 DEF Held, Holding
  <2>2. ASSUME NEW x \in Held(f, k) PROVE x \in Held(h, k)
    <3>1. PICK i \in 1..Count(f) : f.labels[i] = k /\ x = f.vectors[i].vec
      BY <2>2 DEF Held, Holding
    <3>2. PICK j \in 1..Count(h) : From(up, j) = i
      BY <1>3, <3>1 DEF Follows
    <3>3. QED
      BY <1>1, <3>1, <3>2 DEF Held, Holding
  <2>3. QED
    BY <2>1, <2>2
<1>4. QED
  BY <1>2, <1>3

LEMMA RemovedHolds ==
  ASSUME NEW f, Count(f) \in Nat, NEW id \in 1..Count(f), NEW l, f.labels[id] = l,
         NEW h, Removed(f, h, id), Distinct(f)
  PROVE  /\ Distinct(h)
         /\ Held(h, l) = Held(f, l) \ {f.vectors[id].vec}
         /\ \A k : k # l => Held(h, k) = Held(f, k)
<1>1. PICK N \in Nat : N = Count(f) /\ id \in 1..N
  OBVIOUS
<1>2. /\ Count(h) = N - 1
      /\ \A j \in 1..(N - 1) : /\ h.labels[j] = f.labels[Before(f, id, j)]
                               /\ h.vectors[j] = f.vectors[Before(f, id, j)]
  BY <1>1 DEF Removed
<1>3. \A j \in 1..(N - 1) : Before(f, id, j) \in 1..N /\ Before(f, id, j) # id
  BY <1>1 DEF Before
<1>4. \A i, j \in 1..(N - 1) : Before(f, id, i) = Before(f, id, j) => i = j
  BY <1>1 DEF Before
<1>5. ASSUME NEW i \in 1..N, i # id PROVE \E j \in 1..(N - 1) : Before(f, id, j) = i
  <2>1. CASE i = N
    <3>1. id \in 1..(N - 1) /\ Before(f, id, id) = i
      BY <1>1, <1>5, <2>1 DEF Before
    <3>2. QED
      BY <3>1
  <2>2. CASE i # N
    <3>1. i \in 1..(N - 1) /\ Before(f, id, i) = i
      BY <1>1, <1>5, <2>2 DEF Before
    <3>2. QED
      BY <3>1
  <2>3. QED
    BY <2>1, <2>2
<1>6. Distinct(h)
  BY <1>1, <1>2, <1>3, <1>4 DEF Distinct
<1>7. ASSUME NEW k, NEW x
      PROVE  x \in Held(h, k) <=> x \in Held(f, k) /\ ~ (k = l /\ x = f.vectors[id].vec)
  <2>1. ASSUME x \in Held(h, k)
        PROVE  x \in Held(f, k) /\ ~ (k = l /\ x = f.vectors[id].vec)
    <3>1. PICK j \in 1..(N - 1) : h.labels[j] = k /\ x = h.vectors[j].vec
      BY <1>2, <2>1 DEF Held, Holding
    <3>2. PICK i \in 1..N : i = Before(f, id, j) /\ i # id
      BY <1>3
    <3>3. f.labels[i] = k /\ x = f.vectors[i].vec
      BY <1>2, <3>1, <3>2
    <3>4. x # f.vectors[id].vec
      BY <1>1, <3>2, <3>3 DEF Distinct
    <3>5. QED
      BY <1>1, <3>2, <3>3, <3>4 DEF Held, Holding
  <2>2. ASSUME x \in Held(f, k), ~ (k = l /\ x = f.vectors[id].vec)
        PROVE  x \in Held(h, k)
    <3>1. PICK i \in 1..N : f.labels[i] = k /\ x = f.vectors[i].vec
      BY <1>1, <2>2 DEF Held, Holding
    <3>2. i # id
      BY <2>2, <3>1
    <3>3. PICK j \in 1..(N - 1) : Before(f, id, j) = i
      BY <1>5, <3>2
    <3>4. QED
      BY <1>2, <3>1, <3>3 DEF Held, Holding
  <2>3. QED
    BY <2>1, <2>2
<1>8. Held(h, l) = Held(f, l) \ {f.vectors[id].vec}
  BY <1>7
<1>9. ASSUME NEW k, k # l PROVE Held(h, k) = Held(f, k)
  <2>1. \A x : x \in Held(h, k) <=> x \in Held(f, k)
    BY <1>7, <1>9
  <2>2. QED
    BY <2>1, Zenon
<1>10. QED
  BY <1>6, <1>8, <1>9

LEMMA AppendedHolds ==
  ASSUME NEW f, Count(f) \in Nat, NEW g, NEW l, NEW b, Appended(f, g, l, b), Distinct(f),
         \A i \in 1..Count(f) : f.vectors[i].vec # b.vec
  PROVE  /\ Distinct(g)
         /\ Held(g, l) = Held(f, l) \cup {b.vec}
         /\ \A k : k # l => Held(g, k) = Held(f, k)
<1>1. PICK N \in Nat : N = Count(f)
  OBVIOUS
<1>2. /\ Count(g) = N + 1 /\ g.labels[N + 1] = l /\ g.vectors[N + 1] = b
      /\ \A j \in 1..N : g.labels[j] = f.labels[j] /\ g.vectors[j] = f.vectors[j]
  BY <1>1 DEF Appended
<1>3. \A j : j \in 1..(N + 1) <=> j \in 1..N \/ j = N + 1
  BY <1>1
<1>4. Distinct(g)
  BY <1>1, <1>2, <1>3 DEF Distinct
<1>5. ASSUME NEW k, NEW x
      PROVE  x \in Held(g, k) <=> x \in Held(f, k) \/ (k = l /\ x = b.vec)
  <2>1. ASSUME x \in Held(g, k) PROVE x \in Held(f, k) \/ (k = l /\ x = b.vec)
    <3>1. PICK j \in 1..(N + 1) : g.labels[j] = k /\ x = g.vectors[j].vec
      BY <1>2, <2>1 DEF Held, Holding
    <3>2. CASE j = N + 1
      BY <1>2, <3>1, <3>2
    <3>3. CASE j # N + 1
      <4>1. j \in 1..N /\ f.labels[j] = k /\ x = f.vectors[j].vec
        BY <1>2, <1>3, <3>1, <3>3
      <4>2. QED
        BY <1>1, <4>1 DEF Held, Holding
    <3>4. QED
      BY <3>2, <3>3
  <2>2. ASSUME x \in Held(f, k) PROVE x \in Held(g, k)
    <3>1. PICK j \in 1..N : f.labels[j] = k /\ x = f.vectors[j].vec
      BY <1>1, <2>2 DEF Held, Holding
    <3>2. j \in 1..(N + 1) /\ g.labels[j] = k /\ x = g.vectors[j].vec
      BY <1>2, <1>3, <3>1
    <3>3. QED
      BY <1>2, <3>2 DEF Held, Holding
  <2>3. ASSUME k = l, x = b.vec PROVE x \in Held(g, k)
    <3>1. N + 1 \in 1..(N + 1)
      BY <1>3
    <3>2. QED
      BY <1>2, <2>3, <3>1 DEF Held, Holding
  <2>4. QED
    BY <2>1, <2>2, <2>3
<1>6. Held(g, l) = Held(f, l) \cup {b.vec}
  BY <1>5
<1>7. ASSUME NEW k, k # l PROVE Held(g, k) = Held(f, k)
  <2>1. \A x : x \in Held(g, k) <=> x \in Held(f, k)
    BY <1>5, <1>7
  <2>2. QED
    BY <2>1, Zenon
<1>8. QED
  BY <1>4, <1>6, <1>7

-----------------------------------------------------------------------------
(* The inductive invariant.                                                 *)

\* Between calls the lookup is exact, no vector is held twice, the capacity
\* is right for the number of vectors, and no assert has failed.
BruteForceInv ==
  /\ multi \in BOOLEAN
  /\ FlatOK(Blobs, flat)
  /\ Distinct(flat)
  /\ Fits(capacity, Count(flat))
  /\ assertsHold = TRUE
  /\ \A id \in DOMAIN updated : updated[id] \in Nat \X Labels

LEMMA EmptyIsRight == Init => BruteForceInv
<1> SUFFICES ASSUME Init PROVE BruteForceInv
  OBVIOUS
<1>1. PICK e : e = EmptyFlat
  OBVIOUS
<1>2. Len(<<>>) = 0 /\ 1..0 = {}
  OBVIOUS
<1>3. /\ e.labels = <<>> /\ e.vectors = <<>> /\ e.ids = [k \in Labels |-> <<>>]
      /\ e = [labels |-> e.labels, vectors |-> e.vectors, ids |-> e.ids]
  BY <1>1 DEF EmptyFlat
<1>4. Count(e) = 0
  BY <1>2, <1>3 DEF Count
<1>5. e \in FlatOf(Blobs)
  <2>1. <<>> \in Seq(Labels) /\ <<>> \in Seq(Blobs) /\ <<>> \in Seq(Nat \ {0})
    OBVIOUS
  <2>2. e.labels \in Seq(Labels) /\ e.vectors \in Seq(Blobs) /\ Len(e.labels) = Len(e.vectors)
    BY <1>3, <2>1
  <2>3. e.ids \in [Labels -> Seq(Nat \ {0})]
    BY <1>3, <2>1
  <2>4. QED
    BY <1>3, <2>2, <2>3 DEF FlatOf
<1>6. \A k \in Labels : Len(e.ids[k]) = 0
  BY <1>2, <1>3
<1>7. Covers(e, Everywhere(e), {})
  <2>1. ASSUME NEW k \in Labels PROVE ListsOnce(e.ids[k], Everywhere(e)[k], Holding(e, k) \ {})
    <3>1. Everywhere(e)[k] = {} /\ Holding(e, k) \ {} = {}
      BY <1>2, <1>4, <1>6 DEF Everywhere, Holding
    <3>2. QED
      BY <3>1 DEF ListsOnce
  <2>2. QED
    BY <2>1 DEF Covers
<1>8. \A k \in Labels : Len(e.ids[k]) <= 1
  BY <1>6
<1>9. FlatOK(Blobs, e) /\ Distinct(e)
  BY <1>2, <1>4, <1>5, <1>7, <1>8 DEF FlatOK, Distinct
<1>10. Fits(0, 0)
  <2>1. 0 < 0 + 2 * BlockSize /\ 0 <= 0 /\ 0 \in Nat
    BY BlockMore
  <2>2. QED
    BY <2>1, BlockMore DEF Fits
<1>11. \A id \in DOMAIN NoUpdates : NoUpdates[id] \in Nat \X Labels
  <2>1. DOMAIN NoUpdates = {}
    BY DEF NoUpdates
  <2>2. QED
    BY <2>1
<1>12. flat = e /\ capacity = 0 /\ updated = NoUpdates /\ assertsHold = TRUE /\ multi \in BOOLEAN
  BY <1>1 DEF Init
<1>13. QED
  BY <1>4, <1>9, <1>10, <1>11, <1>12 DEF BruteForceInv

\* The four parts of the next state.
LEMMA RightAfter ==
  ASSUME BruteForceInv, UNCHANGED multi, FlatOK(Blobs, flat'), Distinct(flat'),
         Fits(capacity', Count(flat')), assertsHold' = TRUE,
         \A id \in DOMAIN updated' : updated'[id] \in Nat \X Labels
  PROVE  BruteForceInv'
<1>1. multi' = multi /\ multi \in BOOLEAN
  BY DEF BruteForceInv
<1>2. FlatOK(Blobs, flat)'
  BY <1>1 DEF FlatOK
<1>3. QED
  BY <1>1, <1>2 DEF BruteForceInv

\* The removals of a call leave the capacity right and fail no assert.
LEMMA ShrinksRight ==
  ASSUME BruteForceInv, NEW h, FlatOK(Blobs, h), Count(h) \in 0..Count(flat),
         NEW held, held, ShrinkAfter(h, held)
  PROVE  Fits(capacity', Count(h)) /\ assertsHold' = TRUE
<1>1. PICK N \in Nat : N = Count(flat)
  <2>1. flat \in FlatOf(Blobs)
    BY DEF BruteForceInv, FlatOK
  <2>2. QED
    BY <2>1, FlatFacts
<1>2. PICK m \in 0..N : m = N - Count(h)
  BY <1>1
<1>3. N - m = Count(h)
  BY <1>1, <1>2
<1>4. PICK s : s = ShrinkTimes(capacity, N, m)
  OBVIOUS
<1>5. Fits(capacity, N) /\ assertsHold = TRUE
  BY <1>1 DEF BruteForceInv
<1>6. Fits(s.cap, N - m) /\ s.ok
  BY <1>4, <1>5, ShrinkTimesFits
<1>7. capacity' = s.cap /\ assertsHold' = (assertsHold /\ s.ok /\ held)
  BY <1>1, <1>2, <1>4 DEF ShrinkAfter
<1>8. assertsHold' = TRUE
  BY <1>5, <1>6, <1>7, Zenon
<1>9. QED
  BY <1>3, <1>6, <1>7, <1>8

\* Nothing but label l has changed.
OthersStay(l) == \A k \in Labels : k # l => Held(flat', k) = Held(flat, k)

\* addVector keeps the invariant, and l has v besides or in place of the others.
LEMMA AddKeeps ==
  ASSUME BruteForceInv, NEW l \in Labels, NEW v \in Vectors, AddVector(l, v)
  PROVE  /\ BruteForceInv'
         /\ OthersStay(l)
         /\ \A k \in Labels : ~ (v \in Held(flat, k))
         /\ Held(flat', l) = IF multi THEN Held(flat, l) \cup {v} ELSE {v}
<1>1. /\ multi \in BOOLEAN /\ FlatOK(Blobs, flat) /\ Distinct(flat)
      /\ Fits(capacity, Count(flat)) /\ assertsHold = TRUE
  BY DEF BruteForceInv
<1>2. flat \in FlatOf(Blobs) /\ Count(flat) \in Nat
  BY <1>1, FlatFacts DEF FlatOK
<1>3. \A i \in 1..Count(flat) : flat.vectors[i].vec # v
  BY DEF AddVector, Present
<1>4. \A k \in Labels : ~ (v \in Held(flat, k))
  BY <1>3 DEF Held, Holding
<1>5. UNCHANGED multi /\ \A id \in DOMAIN updated' : updated'[id] \in Nat \X Labels
  <2>1. updated' = NoUpdates /\ DOMAIN NoUpdates = {} /\ UNCHANGED multi
    BY DEF AddVector, NoUpdates
  <2>2. QED
    BY <2>1
<1>6. CASE (multi \/ ~ IsLabelExists(flat, l)) /\ Append1(l, v)
  <2>1. PICK b : b = Processed(v)
    OBVIOUS
  <2>2. b \in Blobs /\ b.vec = v
    BY <2>1 DEF Processed, Blobs
  <2>3. flat' = AppendVector(flat, l, b)
    BY <1>6, <2>1 DEF Append1
  <2>4. FlatOK(Blobs, flat') /\ Appended(flat, flat', l, b)
    BY <1>1, <1>6, <2>2, <2>3, AppendAdds
  <2>5. \A i \in 1..Count(flat) : flat.vectors[i].vec # b.vec
    BY <1>3, <2>2
  <2>6. /\ Distinct(flat') /\ Held(flat', l) = Held(flat, l) \cup {b.vec}
        /\ \A k : k # l => Held(flat', k) = Held(flat, k)
    BY <1>1, <1>2, <2>4, <2>5, AppendedHolds
  <2>7. PICK g : g = Grow(capacity, Count(flat))
    OBVIOUS
  <2>8. Fits(g.cap, Count(flat) + 1) /\ g.ok
    BY <1>1, <1>2, <2>7, GrowFits
  <2>9. capacity' = g.cap /\ assertsHold' = (assertsHold /\ g.ok)
    BY <1>6, <2>7 DEF Append1
  <2>10. Count(flat') = Count(flat) + 1
    BY <2>4 DEF Appended
  <2>11. Fits(capacity', Count(flat')) /\ assertsHold' = TRUE
    <3>1. assertsHold' = TRUE
      BY <1>1, <2>8, <2>9, Zenon
    <3>2. QED
      BY <2>8, <2>9, <2>10, <3>1
  <2>12. BruteForceInv'
    BY <1>5, <2>4, <2>6, <2>11, RightAfter
  <2>13. Held(flat', l) = IF multi THEN Held(flat, l) \cup {v} ELSE {v}
    <3>1. CASE multi
      BY <2>2, <2>6, <3>1
    <3>2. CASE ~ multi
      <4>1. flat.ids[l] = <<>> /\ Len(<<>>) = 0 /\ 1..0 = {}
        BY <1>6, <3>2 DEF IsLabelExists
      <4>2. ListsOnce(flat.ids[l], {}, Holding(flat, l))
        BY <1>1, <4>1, ListFacts
      <4>3. Held(flat, l) = {}
        BY <4>2 DEF ListsOnce, Held
      <4>4. QED
        BY <2>2, <2>6, <3>2, <4>3
    <3>3. QED
      BY <3>1, <3>2
  <2>14. QED
    BY <1>4, <2>6, <2>12, <2>13 DEF OthersStay
<1>7. CASE ~ multi /\ IsLabelExists(flat, l) /\ Overwrite(l, v)
  <2>1. PICK n \in Nat : n = Len(flat.ids[l])
    BY <1>1, ListFacts
  <2>2. n = 1
    <3>1. n # 0
      <4>1. flat.ids[l] # <<>> /\ flat.ids[l] \in Seq(Nat \ {0})
        BY <1>1, <1>7, ListFacts DEF IsLabelExists
      <4>2. QED
        BY <2>1, <4>1, EmptySeq
    <3>2. n <= 1
      BY <1>1, <1>7, <2>1, Zenon DEF FlatOK
    <3>3. QED
      BY <3>1, <3>2
  <2>3. PICK id : id = flat.ids[l][1]
    OBVIOUS
  <2>4. Holding(flat, l) = {id}
    <3>1. ListsOnce(flat.ids[l], 1..1, Holding(flat, l))
      BY <1>1, <2>1, <2>2, ListFacts
    <3>2. 1 \in 1..1 /\ \A q \in 1..1 : q = 1
      OBVIOUS
    <3>3. QED
      BY <2>3, <3>1, <3>2 DEF ListsOnce
  <2>5. id \in 1..Count(flat) /\ flat.labels[id] = l
    BY <2>4 DEF Holding
  <2>6. PICK b : b = Raw(v)
    OBVIOUS
  <2>7. b \in Blobs /\ b.vec = v
    BY <2>6 DEF Raw, Blobs
  <2>8. flat' = UpdateElement(flat, id, b)
    BY <1>7, <2>3, <2>6 DEF Overwrite
  <2>9. /\ FlatOK(Blobs, flat')
        /\ flat'.labels = flat.labels /\ Count(flat') = Count(flat) /\ flat'.vectors[id] = b
        /\ \A j \in 1..Count(flat) : j # id => flat'.vectors[j] = flat.vectors[j]
    BY <1>1, <2>5, <2>7, <2>8, OverwriteChanges
  <2>10. \A k : Holding(flat', k) = Holding(flat, k)
    BY <2>9 DEF Holding
  <2>11. Distinct(flat')
    BY <1>1, <1>3, <2>5, <2>7, <2>9 DEF Distinct
  <2>12. Held(flat', l) = {v}
    BY <2>4, <2>7, <2>9, <2>10 DEF Held
  <2>13. OthersStay(l)
    <3>1. ASSUME NEW k \in Labels, k # l PROVE Held(flat', k) = Held(flat, k)
      <4>1. \A i \in Holding(flat, k) : flat'.vectors[i] = flat.vectors[i]
        BY <2>5, <2>9, <3>1 DEF Holding
      <4>2. QED
        BY <2>10, <4>1 DEF Held
    <3>2. QED
      BY <3>1 DEF OthersStay
  <2>14. Fits(capacity', Count(flat')) /\ assertsHold' = TRUE
    BY <1>1, <1>7, <2>9 DEF Overwrite
  <2>15. BruteForceInv'
    BY <1>5, <2>9, <2>11, <2>14, RightAfter
  <2>16. Held(flat', l) = IF multi THEN Held(flat, l) \cup {v} ELSE {v}
    BY <1>7, <2>12, Zenon
  <2>17. QED
    BY <1>4, <2>13, <2>15, <2>16
<1>8. QED
  BY <1>6, <1>7 DEF AddVector

\* deleteVector, with or without the map, keeps the invariant and empties l.
LEMMA DeleteKeeps ==
  ASSUME BruteForceInv, NEW l \in Labels, DeleteVector(l) \/ DeleteAndGetUpdatedIds(l)
  PROVE  /\ BruteForceInv'
         /\ OthersStay(l)
         /\ Held(flat', l) = {}
<1>1. multi \in BOOLEAN /\ FlatOK(Blobs, flat) /\ Distinct(flat)
  BY DEF BruteForceInv
<1>2. PICK r : r = DeleteVectorAndGetUpdatedIds(flat, l)
  OBVIOUS
<1>3. Deleted(Blobs, flat, l, r)
  BY <1>1, <1>2, DeletionDeletes
<1>4. PICK h : h = r.flat
  OBVIOUS
<1>5. /\ FlatOK(Blobs, h) /\ Count(h) \in 0..Count(flat)
      /\ Follows(flat, l, h, r.updated) /\ Holding(h, l) = {}
  BY <1>3, <1>4 DEF Deleted
<1>6. /\ flat' = h /\ ShrinkAfter(h, DeletionAsserts(flat, l)) /\ UNCHANGED multi
      /\ updated' = NoUpdates \/ updated' = r.updated
  BY <1>2, <1>4 DEF DeleteVector, DeleteAndGetUpdatedIds
<1>7. Fits(capacity', Count(h)) /\ assertsHold' = TRUE
  <2>1. DeletionAsserts(flat, l)
    BY <1>1, DeletionFinds
  <2>2. QED
    BY <1>5, <1>6, <2>1, ShrinksRight
<1>8. Distinct(h) /\ \A k : k # l => Held(h, k) = Held(flat, k)
  BY <1>1, <1>5, FollowsHolds
<1>9. \A id \in DOMAIN updated' : updated'[id] \in Nat \X Labels
  <2>1. CASE updated' = NoUpdates
    <3>1. DOMAIN NoUpdates = {}
      BY DEF NoUpdates
    <3>2. QED
      BY <2>1, <3>1
  <2>2. CASE updated' = r.updated
    <3>1. PICK up : up = r.updated
      OBVIOUS
    <3>2. ASSUME NEW id \in DOMAIN up PROVE up[id] \in Nat \X Labels
      <4>1. /\ up[id] = <<From(up, id), flat.labels[From(up, id)]>>
            /\ From(up, id) \in 1..Count(flat)
        BY <1>5, <3>1, <3>2 DEF Follows
      <4>2. flat.labels[From(up, id)] \in Labels
        BY <1>1, <4>1, FlatFacts DEF FlatOK
      <4>3. From(up, id) \in Nat
        BY <4>1
      <4>4. QED
        BY <4>1, <4>2, <4>3
    <3>3. QED
      BY <2>2, <3>1, <3>2
  <2>3. QED
    BY <1>6, <2>1, <2>2
<1>10. BruteForceInv'
  BY <1>5, <1>6, <1>7, <1>8, <1>9, RightAfter
<1>11. QED
  BY <1>5, <1>6, <1>8, <1>10 DEF OthersStay, Held

\* deleteVectorById keeps the invariant and takes one vector from l, which in
\* a single-value index is all it has.
LEMMA DeleteOneKeeps ==
  ASSUME BruteForceInv, NEW l \in Labels, NEW id \in 1..Count(flat), DeleteById(l, id)
  PROVE  /\ BruteForceInv'
         /\ OthersStay(l)
         /\ IF multi THEN \E v \in Held(flat, l) : Held(flat', l) = Held(flat, l) \ {v}
            ELSE Held(flat', l) = {}
<1>1. multi \in BOOLEAN /\ FlatOK(Blobs, flat) /\ Distinct(flat)
  BY DEF BruteForceInv
<1>2. Count(flat) \in Nat
  BY <1>1, FlatFacts DEF FlatOK
<1>3. PICK h : h = DeleteVectorById(flat, l, id)
  OBVIOUS
<1>4. /\ flat' = h /\ ShrinkAfter(h, DeletionByIdAsserts(flat, l, id)) /\ UNCHANGED multi
      /\ updated' = NoUpdates
      /\ flat.labels[id] = l
  BY <1>3 DEF DeleteById
<1>5. \A x \in DOMAIN updated' : updated'[x] \in Nat \X Labels
  <2>1. DOMAIN NoUpdates = {}
    BY DEF NoUpdates
  <2>2. QED
    BY <1>4, <2>1
<1>6. CASE multi
  <2>1. FlatOK(Blobs, h) /\ Removed(flat, h, id) /\ DeletionByIdAsserts(flat, l, id)
    BY <1>1, <1>3, <1>4, <1>6, DeleteByIdDeletes
  <2>2. Count(h) \in 0..Count(flat)
    BY <1>2, <2>1 DEF Removed
  <2>3. PICK v : v = flat.vectors[id].vec
    OBVIOUS
  <2>4. /\ Distinct(h) /\ Held(h, l) = Held(flat, l) \ {v}
        /\ \A k : k # l => Held(h, k) = Held(flat, k)
    BY <1>1, <1>2, <1>4, <2>1, <2>3, RemovedHolds
  <2>5. Fits(capacity', Count(h)) /\ assertsHold' = TRUE
    BY <1>4, <2>1, <2>2, ShrinksRight
  <2>6. BruteForceInv'
    BY <1>4, <1>5, <2>1, <2>4, <2>5, RightAfter
  <2>7. v \in Held(flat, l)
    BY <1>4, <2>3 DEF Held, Holding
  <2>8. QED
    BY <1>4, <1>6, <2>4, <2>6, <2>7 DEF OthersStay
<1>7. CASE ~ multi
  <2>1. IsLabelExists(flat, l)
    <3>1. id \in Holding(flat, l)
      BY <1>4 DEF Holding
    <3>2. PICK q \in 1..Len(flat.ids[l]) : flat.ids[l][q] = id
      BY <1>1, <3>1, ListFacts DEF ListsOnce
    <3>3. flat.ids[l] # <<>>
      <4>1. Len(<<>>) = 0 /\ 1..0 = {}
        OBVIOUS
      <4>2. QED
        BY <3>2, <4>1
    <3>4. QED
      BY <3>3 DEF IsLabelExists
  <2>2. PICK r : r = DeleteSingle(flat, l)
    OBVIOUS
  <2>3. h = r.flat
    BY <1>3, <1>7, <2>1, <2>2, Zenon DEF DeleteVectorById
  <2>4. Deleted(Blobs, flat, l, r)
    BY <1>1, <1>7, <2>1, <2>2, DeleteSingleDeletes
  <2>5. /\ FlatOK(Blobs, h) /\ Count(h) \in 0..Count(flat)
        /\ Follows(flat, l, h, r.updated) /\ Holding(h, l) = {}
    BY <2>3, <2>4 DEF Deleted
  <2>6. Fits(capacity', Count(h)) /\ assertsHold' = TRUE
    <3>1. DeletionByIdAsserts(flat, l, id)
      BY <1>1, <1>7, DeletionFinds DEF DeletionByIdAsserts
    <3>2. QED
      BY <1>4, <2>5, <3>1, ShrinksRight
  <2>7. Distinct(h) /\ \A k : k # l => Held(h, k) = Held(flat, k)
    BY <1>1, <2>5, FollowsHolds
  <2>8. BruteForceInv'
    BY <1>4, <1>5, <2>5, <2>6, <2>7, RightAfter
  <2>9. Held(h, l) = {}
    BY <2>5 DEF Held
  <2>10. QED
    BY <1>4, <1>7, <2>7, <2>8, <2>9 DEF OthersStay
<1>8. QED
  BY <1>6, <1>7, Zenon

LEMMA NextKeeps == BruteForceInv /\ [Next]_vars => BruteForceInv'
<1> SUFFICES ASSUME BruteForceInv, [Next]_vars PROVE BruteForceInv'
  OBVIOUS
<1>1. ASSUME NEW l \in Labels, NEW v \in Vectors, AddVector(l, v) PROVE BruteForceInv'
  BY <1>1, AddKeeps
<1>2. ASSUME NEW l \in Labels, DeleteVector(l) \/ DeleteAndGetUpdatedIds(l) PROVE BruteForceInv'
  BY <1>2, DeleteKeeps
<1>3. ASSUME NEW l \in Labels, NEW id \in 1..Count(flat), DeleteById(l, id) PROVE BruteForceInv'
  BY <1>3, DeleteOneKeeps
<1>4. CASE UNCHANGED vars
  BY <1>4 DEF vars, BruteForceInv, FlatOK
<1>5. QED
  BY <1>1, <1>2, <1>3, <1>4 DEF Next

\* The inductive invariant holds of every run of an index of either kind.
THEOREM BruteForceInvHolds == Spec => []BruteForceInv
<1>1. QED
  BY EmptyIsRight, NextKeeps, PTL DEF Spec

\* The lookup and idToLabelMapping are inverse after every call, however many
\* vectors have been swapped into freed positions.
THEOREM LookupAlwaysInverse == Spec => []LookupIsInverse
<1>1. BruteForceInv => LookupIsInverse
  <2> SUFFICES ASSUME BruteForceInv, NEW l \in Labels
               PROVE  /\ Range(flat.ids[l]) = {i \in 1..Count(flat) : flat.labels[i] = l}
                      /\ IsInjective(flat.ids[l])
                      /\ ~ multi => Len(flat.ids[l]) <= 1
    BY DEF LookupIsInverse
  <2>1. FlatOK(Blobs, flat)
    BY DEF BruteForceInv
  <2>2. PICK n \in Nat : n = Len(flat.ids[l])
    BY <2>1, ListFacts
  <2>3. DOMAIN flat.ids[l] = 1..n
    BY <2>1, <2>2, ListFacts, LenProperties
  <2>4. ListsOnce(flat.ids[l], 1..n, Holding(flat, l))
    BY <2>1, <2>2, ListFacts
  <2>5. Range(flat.ids[l]) = Holding(flat, l)
    BY <2>3, <2>4 DEF Range, ListsOnce
  <2>6. IsInjective(flat.ids[l])
    BY <2>3, <2>4 DEF IsInjective, ListsOnce
  <2>7. ~ multi => Len(flat.ids[l]) <= 1
    BY <2>1, Zenon DEF FlatOK
  <2>8. QED
    BY <2>5, <2>6, <2>7, Zenon DEF Holding
<1>2. QED
  BY <1>1, BruteForceInvHolds, PTL

\* Every variable ranges over what the code declares it to hold.
THEOREM BruteForceTypes == Spec => []TypeOK
<1>1. BruteForceInv => TypeOK
  <2> SUFFICES ASSUME BruteForceInv PROVE TypeOK
    OBVIOUS
  <2>1. FlatOK(Blobs, flat) /\ flat \in FlatOf(Blobs)
    BY DEF BruteForceInv, FlatOK
  <2>2. /\ flat.labels \in Seq(Labels) /\ flat.vectors \in Seq(Blobs)
        /\ flat.ids \in [Labels -> Seq(Nat \ {0})] /\ Len(flat.labels) = Len(flat.vectors)
    BY <2>1 DEF FlatOf
  <2>3. capacity \in Nat
    BY DEF BruteForceInv, Fits
  <2>4. assertsHold \in BOOLEAN
    BY DEF BruteForceInv
  <2>5. multi \in BOOLEAN /\ \A id \in DOMAIN updated : updated[id] \in Nat \X Labels
    BY DEF BruteForceInv
  <2>6. QED
    BY <2>2, <2>3, <2>4, <2>5 DEF TypeOK, Blobs
<1>2. QED
  BY <1>1, BruteForceInvHolds, PTL

\* No sequence of calls makes an assert of growByBlock, shrinkByBlock (on
\* counts and capacities), removeVector, replaceIdOfLabel or deleteVectorById
\* fail, each evaluated in the state in which the code comes to it.
THEOREM AssertsNeverFail == Spec => []AssertsHold
<1>1. BruteForceInv => AssertsHold
  BY DEF BruteForceInv, AssertsHold
<1>2. QED
  BY <1>1, BruteForceInvHolds, PTL

\* The metadata has room for every id and wastes less than two blocks.
THEOREM CapacityAlwaysFits == Spec => []CapacityFits
<1>1. BruteForceInv => CapacityFits
  BY DEF BruteForceInv, Fits, CapacityFits
<1>2. QED
  BY <1>1, BruteForceInvHolds, PTL

\* The map that deleteVectorAndGetUpdatedIds returns is exact: it names the
\* vectors that have moved, each with the id it had before the call.
THEOREM UpdatedIdsAlwaysExact == Spec => UpdatedIdsAreExact
<1>1. ASSUME BruteForceInv, NEW l \in Labels, DeleteAndGetUpdatedIds(l)
      PROVE  UpdatedIdsStep(l)
  <2>1. multi \in BOOLEAN /\ FlatOK(Blobs, flat)
    BY <1>1 DEF BruteForceInv
  <2>2. PICK r : r = DeleteVectorAndGetUpdatedIds(flat, l)
    OBVIOUS
  <2>3. Follows(flat, l, r.flat, r.updated)
    BY <2>1, <2>2, DeletionDeletes DEF Deleted
  <2>4. flat' = r.flat /\ updated' = r.updated
    BY <1>1, <2>2 DEF DeleteAndGetUpdatedIds
  <2>5. Follows(flat, l, flat', updated')
    BY <2>3, <2>4
  <2>6. ASSUME NEW id \in 1..Count(flat')
        PROVE  LET from == IF id \in DOMAIN updated' THEN updated'[id]
                           ELSE <<id, flat.labels[id]>>
               IN  /\ flat'.vectors[id] = flat.vectors[from[1]]
                   /\ flat'.labels[id] = from[2]
                   /\ flat.labels[from[1]] = from[2]
    <3>1. PICK x : x = From(updated', id)
      OBVIOUS
    <3>2. /\ flat'.labels[id] = flat.labels[x] /\ flat'.vectors[id] = flat.vectors[x]
      BY <2>5, <3>1 DEF Follows
    <3>3. PICK from : from = IF id \in DOMAIN updated' THEN updated'[id]
                             ELSE <<id, flat.labels[id]>>
      OBVIOUS
    <3>4. from = <<x, flat.labels[x]>>
      BY <2>5, <3>1, <3>3 DEF Follows, From
    <3>5. from[1] = x /\ from[2] = flat.labels[x]
      BY <3>4
    <3>6. QED
      BY <3>2, <3>3, <3>5
  <2>7. DOMAIN updated' \subseteq 1..Count(flat')
    BY <2>5 DEF Follows
  <2>8. QED
    BY <2>6, <2>7 DEF UpdatedIdsStep
<1>2. BruteForceInv /\ [Next]_vars => [\A l \in Labels : UpdatedIdsStep(l)]_vars
  <2> SUFFICES ASSUME BruteForceInv, NEW l \in Labels PROVE UpdatedIdsStep(l)
    BY Zenon
  <2>1. QED
    BY <1>1, Zenon DEF UpdatedIdsStep
<1>3. QED
  BY <1>2, BruteForceInvHolds, PTL DEF Spec, UpdatedIdsAreExact

-----------------------------------------------------------------------------
(* The store of vectors under labels.                                       *)

LEMMA RangeIsHolding ==
  ASSUME NEW f \in FlatOf(Blobs), Covers(f, Everywhere(f), {}), NEW k \in Labels
  PROVE  Range(f.ids[k]) = Holding(f, k)
<1>1. PICK s \in Seq(Nat \ {0}) : s = f.ids[k]
  BY FlatFacts
<1>2. PICK n \in Nat : n = Len(s) /\ DOMAIN s = 1..n
  BY <1>1, LenProperties
<1>3. Holding(f, k) \ {} = Holding(f, k)
  OBVIOUS
<1>4. ListsOnce(s, 1..n, Holding(f, k))
  BY <1>1, <1>2, <1>3 DEF Covers, Everywhere
<1>5. Range(s) = Holding(f, k)
  BY <1>2, <1>4 DEF Range, ListsOnce
<1>6. QED
  BY <1>1, <1>5

\* A call that changes only label l changes the content at l only.
LEMMA ContentChangesAt ==
  ASSUME BruteForceInv, BruteForceInv', NEW l \in Labels, OthersStay(l)
  PROVE  /\ \A k \in Labels : content[k] = Held(flat, k)
         /\ content' = [content EXCEPT ![l] = Held(flat', l)]
<1>1. content = [k \in Labels |-> Held(flat, k)]
  <2>1. flat \in FlatOf(Blobs) /\ Covers(flat, Everywhere(flat), {})
    BY DEF BruteForceInv, FlatOK
  <2>2. \A k \in Labels : Range(flat.ids[k]) = Holding(flat, k)
    BY <2>1, RangeIsHolding
  <2>3. QED
    BY <2>2 DEF content, Held
<1>2. content' = [k \in Labels |-> Held(flat', k)]
  <2>1. flat' \in FlatOf(Blobs) /\ Covers(flat', Everywhere(flat'), {})
    BY DEF BruteForceInv, FlatOK
  <2>2. \A k \in Labels : Range(flat'.ids[k]) = Holding(flat', k)
    BY <2>1, RangeIsHolding
  <2>3. QED
    BY <2>2 DEF content, Held
<1>3. \A k \in Labels : k # l => Held(flat', k) = Held(flat, k)
  BY DEF OthersStay
<1>4. QED
  BY <1>1, <1>2, <1>3

\* The step that a store makes, for the kind of the index.
StoreNext == IF multi THEN MultiStore!Next ELSE SingleStore!Next

LEMMA AddIsStep ==
  ASSUME BruteForceInv, NEW l \in Labels, NEW v \in Vectors, AddVector(l, v)
  PROVE  StoreNext
<1>1. /\ BruteForceInv' /\ OthersStay(l)
      /\ \A k \in Labels : ~ (v \in Held(flat, k))
      /\ Held(flat', l) = IF multi THEN Held(flat, l) \cup {v} ELSE {v}
  BY AddKeeps
<1>2. /\ \A k \in Labels : content[k] = Held(flat, k)
      /\ content' = [content EXCEPT ![l] = Held(flat', l)]
  BY <1>1, ContentChangesAt
<1>3. ~ (v \in UNION {content[k] : k \in Labels})
  BY <1>1, <1>2
<1>4. CASE multi
  <2>1. content' = [content EXCEPT ![l] = content[l] \cup {v}]
    BY <1>1, <1>2, <1>4
  <2>2. MultiStore!Add(l, v)
    BY <1>3, <2>1 DEF MultiStore!Add, MultiStore!Stored
  <2>3. MultiStore!Next
    BY <2>2 DEF MultiStore!Next
  <2>4. QED
    BY <1>4, <2>3, Zenon DEF StoreNext
<1>5. CASE ~ multi
  <2>1. content' = [content EXCEPT ![l] = {v}]
    BY <1>1, <1>2, <1>5
  <2>2. SingleStore!Add(l, v)
    BY <1>3, <2>1 DEF SingleStore!Add, SingleStore!Stored
  <2>3. SingleStore!Next
    BY <2>2 DEF SingleStore!Next
  <2>4. QED
    BY <1>5, <2>3, Zenon DEF StoreNext
<1>6. QED
  BY <1>4, <1>5, Zenon

\* A step that empties a label is one of either store.
LEMMA EmptyingIsStep ==
  ASSUME BruteForceInv, BruteForceInv', NEW l \in Labels, OthersStay(l), Held(flat', l) = {}
  PROVE  StoreNext
<1>1. content' = [content EXCEPT ![l] = {}]
  BY ContentChangesAt
<1>2. MultiStore!Next
  BY <1>1 DEF MultiStore!Next, MultiStore!Delete
<1>3. SingleStore!Next
  BY <1>1 DEF SingleStore!Next, SingleStore!Delete
<1>4. QED
  BY <1>2, <1>3, Zenon DEF StoreNext

LEMMA DeleteOneIsStep ==
  ASSUME BruteForceInv, NEW l \in Labels, NEW id \in 1..Count(flat), DeleteById(l, id)
  PROVE  StoreNext
<1>1. /\ BruteForceInv' /\ OthersStay(l)
      /\ IF multi THEN \E v \in Held(flat, l) : Held(flat', l) = Held(flat, l) \ {v}
         ELSE Held(flat', l) = {}
  BY DeleteOneKeeps
<1>2. CASE multi
  <2>1. PICK v \in Held(flat, l) : Held(flat', l) = Held(flat, l) \ {v}
    BY <1>1, <1>2
  <2>2. content[l] = Held(flat, l) /\ content' = [content EXCEPT ![l] = Held(flat', l)]
    BY <1>1, ContentChangesAt
  <2>3. v \in Vectors
    <3>1. flat \in FlatOf(Blobs)
      BY DEF BruteForceInv, FlatOK
    <3>2. PICK i \in 1..Count(flat) : v = flat.vectors[i].vec
      BY <2>1 DEF Held, Holding
    <3>3. flat.vectors[i] \in Blobs
      BY <3>1, FlatFacts
    <3>4. QED
      BY <3>2, <3>3 DEF Blobs
  <2>4. MultiStore!DeleteOne(l, v)
    BY <2>1, <2>2 DEF MultiStore!DeleteOne
  <2>5. MultiStore!Next
    BY <2>3, <2>4 DEF MultiStore!Next
  <2>6. QED
    BY <1>2, <2>5, Zenon DEF StoreNext
<1>3. CASE ~ multi
  <2>1. Held(flat', l) = {}
    BY <1>1, <1>3, Zenon
  <2>2. QED
    BY <1>1, <2>1, EmptyingIsStep
<1>4. QED
  BY <1>2, <1>3, Zenon

\* Every call does to the content what a store of vectors under labels does:
\* the refinement of VectorStore, of its single- or multi-value kind.
THEOREM BruteForceIsStore == Spec => StepsOfStore
<1>1. ASSUME BruteForceInv, Next PROVE StoreNext
  <2>1. ASSUME NEW l \in Labels, NEW v \in Vectors, AddVector(l, v) PROVE StoreNext
    BY <1>1, <2>1, AddIsStep
  <2>2. ASSUME NEW l \in Labels, DeleteVector(l) \/ DeleteAndGetUpdatedIds(l) PROVE StoreNext
    <3>1. BruteForceInv' /\ OthersStay(l) /\ Held(flat', l) = {}
      BY <1>1, <2>2, DeleteKeeps
    <3>2. QED
      BY <1>1, <3>1, EmptyingIsStep
  <2>3. ASSUME NEW l \in Labels, NEW id \in 1..Count(flat), DeleteById(l, id) PROVE StoreNext
    BY <1>1, <2>3, DeleteOneIsStep
  <2>4. QED
    BY <1>1, <2>1, <2>2, <2>3 DEF Next
<1>2. BruteForceInv /\ [Next]_vars =>
        [content' # content => IF multi THEN MultiStore!Next ELSE SingleStore!Next]_vars
  BY <1>1, Zenon DEF StoreNext
<1>3. QED
  BY <1>2, BruteForceInvHolds, PTL DEF Spec, StepsOfStore

=============================================================================
