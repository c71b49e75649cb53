-------------------------- MODULE TieredSVS_proofs ---------------------------
(***************************************************************************)
(* SVSInv is an inductive invariant of the tiered SVS index, of either     *)
(* kind, for every set of labels and all thresholds; the invariants that   *)
(* the runs check follow from it.                                          *)
(***************************************************************************)
EXTENDS TieredSVSInv, FlatKinds_proofs, FiniteSetTheorems

-----------------------------------------------------------------------------
(* The buffer.                                                              *)

LEMMA BufferIsFlat ==
  ASSUME NEW f
  PROVE  BufferOK(f) <=> FlatOK(Numbers, f)
<1>1. Numbers = Nat \ {0}
  BY DEF Numbers
<1>2. ASSUME f \in FlatOf(Numbers), NEW k \in Labels
      PROVE  /\ Range(f.ids[k]) = {i \in 1..Count(f) : f.labels[i] = k} /\ IsInjective(f.ids[k])
             <=> ListsOnce(f.ids[k], Everywhere(f)[k], Holding(f, k) \ {})
  <2>1. PICK s \in Seq(Nat \ {0}) : s = f.ids[k]
    BY <1>2, FlatFacts
  <2>2. PICK n \in Nat : n = Len(s) /\ DOMAIN s = 1..n
    BY <2>1, LenProperties
  <2>3. Everywhere(f)[k] = 1..n
    BY <2>1, <2>2 DEF Everywhere
  <2>4. PICK H : H = Holding(f, k) /\ H = {i \in 1..Count(f) : f.labels[i] = k}
    BY DEF Holding
  <2>5. ListsOnce(s, 1..n, H) <=> /\ \A q \in 1..n : s[q] \in H
                                  /\ \A x \in H : \E q \in 1..n : s[q] = x
                                  /\ \A q, r \in 1..n : s[q] = s[r] => q = r
    BY <2>2 DEF ListsOnce
  <2>6. IsInjective(s) <=> \A q, r \in 1..n : s[q] = s[r] => q = r
    BY <2>2 DEF IsInjective
  <2>7. Range(s) = H <=> /\ \A q \in 1..n : s[q] \in H
                         /\ \A x \in H : \E q \in 1..n : s[q] = x
    BY <2>2 DEF Range
  <2>8. Range(s) = H /\ IsInjective(s) <=> ListsOnce(s, 1..n, H)
    BY <2>5, <2>6, <2>7, Zenon
  <2>9. Holding(f, k) \ {} = H
    BY <2>4
  <2>10. QED
    BY <2>1, <2>3, <2>4, <2>8, <2>9
<1>3. f \in FlatOf(Numbers) <=>
        /\ f \in [labels : Seq(Labels), vectors : Seq(Numbers), ids : [Labels -> Seq(Numbers)]]
        /\ Len(f.labels) = Len(f.vectors)
  BY <1>1 DEF FlatOf
<1>4. ASSUME BufferOK(f) PROVE FlatOK(Numbers, f)
  <2>1. f \in FlatOf(Numbers)
    BY <1>3, <1>4, Zenon DEF BufferOK
  <2>2. Covers(f, Everywhere(f), {})
    BY <1>2, <1>4, <2>1, Zenon DEF BufferOK, Covers
  <2>3. QED
    BY <1>4, <2>1, <2>2, Zenon DEF BufferOK, FlatOK
<1>5. ASSUME FlatOK(Numbers, f) PROVE BufferOK(f)
  <2>1. f \in FlatOf(Numbers) /\ Covers(f, Everywhere(f), {})
    BY <1>5, Zenon DEF FlatOK
  <2>2. ASSUME NEW k \in Labels
        PROVE  Range(f.ids[k]) = {i \in 1..Count(f) : f.labels[i] = k} /\ IsInjective(f.ids[k])
    BY <1>2, <2>1, Zenon DEF Covers
  <2>3. QED
    BY <1>3, <1>5, <2>1, <2>2, Zenon DEF BufferOK, FlatOK
<1>6. QED
  BY <1>4, <1>5

\* The vectors of a label, and when a label has one.
LEMMA VectorsHeld ==
  ASSUME NEW f, f \in FlatOf(Numbers)
  PROVE  /\ \A k, x : x \in VectorsOf(f, k) <=>
                        \E i \in 1..Count(f) : f.labels[i] = k /\ f.vectors[i] = x
         /\ \A k : VectorsOf(f, k) \subseteq Numbers
<1>1. DOMAIN f.labels = 1..Count(f)
  BY FlatFacts, LenProperties DEF Count
<1>2. \A k, x : x \in VectorsOf(f, k) <=>
                  \E i \in 1..Count(f) : f.labels[i] = k /\ f.vectors[i] = x
  BY <1>1 DEF VectorsOf
<1>3. \A i \in 1..Count(f) : f.vectors[i] \in Numbers
  BY FlatFacts
<1>4. QED
  BY <1>2, <1>3

LEMMA LabelHasVector ==
  ASSUME NEW f, FlatOK(Numbers, f), NEW k \in Labels
  PROVE  /\ IsLabelExists(f, k) <=> Holding(f, k) # {}
         /\ IsLabelExists(f, k) <=> VectorsOf(f, k) # {}
         /\ ~ multi /\ IsLabelExists(f, k) => Holding(f, k) = {f.ids[k][1]}
<1>1. f \in FlatOf(Numbers)
  BY DEF FlatOK
<1>2. PICK s \in Seq(Nat \ {0}) : s = f.ids[k]
  BY ListFacts
<1>3. PICK n \in Nat : n = Len(s)
  BY <1>2, LenProperties
<1>4. ListsOnce(s, 1..n, Holding(f, k))
  BY <1>2, <1>3, ListFacts
<1>5. s = <<>> <=> n = 0
  BY <1>2, <1>3, EmptySeq
<1>6. Holding(f, k) # {} <=> n # 0
  BY <1>3, <1>4 DEF ListsOnce
<1>7. IsLabelExists(f, k) <=> Holding(f, k) # {}
  BY <1>2, <1>5, <1>6 DEF IsLabelExists
<1>8. VectorsOf(f, k) # {} <=> Holding(f, k) # {}
  <2>1. \A x : x \in VectorsOf(f, k) <=> \E i \in 1..Count(f) : f.labels[i] = k /\ f.vectors[i] = x
    BY <1>1, VectorsHeld
  <2>2. \A i : i \in Holding(f, k) <=> i \in 1..Count(f) /\ f.labels[i] = k
    BY DEF Holding
  <2>3. VectorsOf(f, k) # {} <=> \E x : x \in VectorsOf(f, k)
    OBVIOUS
  <2>4. Holding(f, k) # {} <=> \E i : i \in Holding(f, k)
    OBVIOUS
  <2>5. QED
    BY <2>1, <2>2, <2>3, <2>4, Zenon
<1>9. ASSUME ~ multi, IsLabelExists(f, k) PROVE Holding(f, k) = {f.ids[k][1]}
  <2>1. Len(f.ids[k]) <= 1
    BY <1>9, Zenon DEF FlatOK
  <2>2. n # 0
    BY <1>9, <1>6, <1>7
  <2>3. n = 1
    <3>1. n <= 1
      BY <1>2, <1>3, <2>1, Zenon
    <3>2. QED
      BY <2>2, <3>1
  <2>4. PICK H : H = Holding(f, k)
    OBVIOUS
  <2>5. (\A q \in 1..1 : s[q] \in H) /\ \A x \in H : \E q \in 1..1 : s[q] = x
    BY <1>4, <2>3, <2>4 DEF ListsOnce
  <2>6. H = {s[1]}
    BY <2>5
  <2>7. QED
    BY <1>2, <2>4, <2>6
<1>10. QED
  BY <1>7, <1>8, <1>9

LEMMA AppendedVectors ==
  ASSUME NEW f \in FlatOf(Numbers), NEW g \in FlatOf(Numbers), NEW l, NEW v, Appended(f, g, l, v)
  PROVE  \A k : VectorsOf(g, k) = IF k = l THEN VectorsOf(f, k) \cup {v} ELSE VectorsOf(f, k)
<1>1. PICK N \in Nat : N = Count(f)
  BY FlatFacts
<1>2. /\ Count(g) = N + 1 /\ g.labels[N + 1] = l /\ g.vectors[N + 1] = v
      /\ \A j \in 1..N : g.labels[j] = f.labels[j] /\ g.vectors[j] = f.vectors[j]
  BY <1>1 DEF Appended
<1>3. \A j : j \in 1..(N + 1) <=> j \in 1..N \/ j = N + 1
  BY <1>1
<1>4. ASSUME NEW k, NEW x
      PROVE  x \in VectorsOf(g, k) <=> x \in VectorsOf(f, k) \/ (k = l /\ x = v)
  <2>1. x \in VectorsOf(g, k) <=> \E i \in 1..(N + 1) : g.labels[i] = k /\ g.vectors[i] = x
    BY <1>2, VectorsHeld
  <2>2. x \in VectorsOf(f, k) <=> \E i \in 1..N : f.labels[i] = k /\ f.vectors[i] = x
    BY <1>1, VectorsHeld
  <2>3. QED
    BY <1>2, <1>3, <2>1, <2>2
<1>5. QED
  BY <1>4

LEMMA RemovedVectors ==
  ASSUME NEW f \in FlatOf(Numbers), NEW h \in FlatOf(Numbers), NEW id \in 1..Count(f),
         Removed(f, h, id)
  PROVE  \A k, x : /\ x \in VectorsOf(h, k) => x \in VectorsOf(f, k)
                   /\ x \in VectorsOf(f, k) /\ x # f.vectors[id] => x \in VectorsOf(h, k)
<1>1. PICK N \in Nat : N = Count(f) /\ id \in 1..N
  BY FlatFacts
<1>2. /\ Count(h) = N - 1
      /\ \A j \in 1..(N - 1) : /\ h.labels[j] = f.labels[Before(f, id, j)]
                               /\ h.vectors[j] = f.vectors[Before(f, id, j)]
  BY <1>1 DEF Removed
<1>3. \A j \in 1..(N - 1) : Before(f, id, j) \in 1..N
  BY <1>1 DEF Before
<1>4. \A i \in 1..N : i # id => \E j \in 1..(N - 1) : Before(f, id, j) = i
  <2>1. SUFFICES ASSUME NEW i \in 1..N, i # id
                 PROVE  \E j \in 1..(N - 1) : Before(f, id, j) = i
    OBVIOUS
  <2>2. CASE i = N
    <3>1. id \in 1..(N - 1) /\ Before(f, id, id) = i
      BY <1>1, <2>1, <2>2 DEF Before
    <3>2. QED
      BY <3>1
  <2>3. CASE i # N
    <3>1. i \in 1..(N - 1) /\ Before(f, id, i) = i
      BY <1>1, <2>1, <2>3 DEF Before
    <3>2. QED
      BY <3>1
  <2>4. QED
    BY <2>2, <2>3
<1>5. ASSUME NEW k, NEW x
      PROVE  /\ x \in VectorsOf(h, k) => x \in VectorsOf(f, k)
             /\ x \in VectorsOf(f, k) /\ x # f.vectors[id] => x \in VectorsOf(h, k)
  <2>1. x \in VectorsOf(h, k) <=> \E i \in 1..(N - 1) : h.labels[i] = k /\ h.vectors[i] = x
    BY <1>2, VectorsHeld
  <2>2. x \in VectorsOf(f, k) <=> \E i \in 1..N : f.labels[i] = k /\ f.vectors[i] = x
    BY <1>1, VectorsHeld
  <2>3. x \in VectorsOf(h, k) => x \in VectorsOf(f, k)
    BY <1>2, <1>3, <2>1, <2>2
  <2>4. ASSUME x \in VectorsOf(f, k), x # f.vectors[id] PROVE x \in VectorsOf(h, k)
    <3>1. PICK i \in 1..N : f.labels[i] = k /\ f.vectors[i] = x
      BY <2>2, <2>4
    <3>2. PICK j \in 1..(N - 1) : Before(f, id, j) = i
      BY <1>4, <2>4, <3>1
    <3>3. QED
      BY <1>2, <2>1, <3>1, <3>2
  <2>5. QED
    BY <2>3, <2>4
<1>6. QED
  BY <1>5

LEMMA DeletedVectors ==
  ASSUME NEW f \in FlatOf(Numbers), NEW l \in Labels, NEW r, Deleted(Numbers, f, l, r)
  PROVE  /\ r.flat \in FlatOf(Numbers)
         /\ \A k : VectorsOf(r.flat, k) = IF k = l THEN {} ELSE VectorsOf(f, k)
<1>1. PICK g : g = r.flat
  OBVIOUS
<1>2. PICK up : up = r.updated
  OBVIOUS
<1>3. g \in FlatOf(Numbers) /\ Follows(f, l, g, up) /\ Holding(g, l) = {}
  BY <1>1, <1>2 DEF Deleted, FlatOK
<1>4. \A j \in 1..Count(g) : /\ From(up, j) \in 1..Count(f)
                             /\ g.labels[j] = f.labels[From(up, j)]
                             /\ g.vectors[j] = f.vectors[From(up, j)]
  BY <1>3 DEF Follows
<1>5. \A x \in 1..Count(f) : f.labels[x] # l => \E j \in 1..Count(g) : From(up, j) = x
  BY <1>3 DEF Follows
<1>6. ASSUME NEW k, k # l PROVE VectorsOf(g, k) = VectorsOf(f, k)
  <2>1. ASSUME NEW x PROVE x \in VectorsOf(g, k) <=> x \in VectorsOf(f, k)
    <3>1. x \in VectorsOf(g, k) <=> \E i \in 1..Count(g) : g.labels[i] = k /\ g.vectors[i] = x
      BY <1>3, VectorsHeld
    <3>2. x \in VectorsOf(f, k) <=> \E i \in 1..Count(f) : f.labels[i] = k /\ f.vectors[i] = x
      BY VectorsHeld
    <3>3. x \in VectorsOf(g, k) => x \in VectorsOf(f, k)
      BY <1>4, <3>1, <3>2
    <3>4. ASSUME x \in VectorsOf(f, k) PROVE x \in VectorsOf(g, k)
      <4>1. PICK i \in 1..Count(f) : f.labels[i] = k /\ f.vectors[i] = x
        BY <3>2, <3>4
      <4>2. PICK j \in 1..Count(g) : From(up, j) = i
        BY <1>5, <1>6, <4>1
      <4>3. QED
        BY <1>4, <3>1, <4>1, <4>2
    <3>5. QED
      BY <3>3, <3>4
  <2>2. QED
    BY <2>1
<1>7. VectorsOf(g, l) = {}
  <2>1. \A x : ~ (x \in VectorsOf(g, l))
    BY <1>3, VectorsHeld DEF Holding
  <2>2. QED
    BY <2>1
<1>8. QED
  BY <1>1, <1>3, <1>6, <1>7

LEMMA OverwrittenVectors ==
  ASSUME NEW f \in FlatOf(Numbers), NEW g \in FlatOf(Numbers), NEW l, NEW id,
         Holding(f, l) = {id}, NEW v, g.labels = f.labels, Count(g) = Count(f),
         g.vectors[id] = v, \A j \in 1..Count(f) : j # id => g.vectors[j] = f.vectors[j]
  PROVE  \A k : VectorsOf(g, k) = IF k = l THEN {v} ELSE VectorsOf(f, k)
<1>1. \A j \in 1..Count(f) : f.labels[j] = l <=> j = id
  BY DEF Holding
<1>2. id \in 1..Count(f) /\ f.labels[id] = l
  BY DEF Holding
<1>3. ASSUME NEW k, NEW x
      PROVE  x \in VectorsOf(g, k) <=> IF k = l THEN x = v ELSE x \in VectorsOf(f, k)
  <2>1. x \in VectorsOf(g, k) <=> \E i \in 1..Count(f) : f.labels[i] = k /\ g.vectors[i] = x
    BY VectorsHeld
  <2>2. x \in VectorsOf(f, k) <=> \E i \in 1..Count(f) : f.labels[i] = k /\ f.vectors[i] = x
    BY VectorsHeld
  <2>3. QED
    BY <1>1, <1>2, <2>1, <2>2
<1>4. QED
  BY <1>3

-----------------------------------------------------------------------------
(* Replaying the journal.                                                   *)

LEMMA SwapsRun ==
  ASSUME NEW L, NEW s, Len(s) \in Nat
  PROVE  /\ AppliedSwaps(L, s)[0] = L
         /\ \A k \in 1..Len(s) : AppliedSwaps(L, s)[k] = ApplySwap(AppliedSwaps(L, s)[k - 1], s[k])
<1>1. PICK n \in Nat : n = Len(s)
  OBVIOUS
<1> DEFINE Run(t, m) == t = [k \in 0..m |-> IF k = 0 THEN L ELSE ApplySwap(t[k - 1], s[k])]
           T == {m \in Nat : \E t : Run(t, m)}
<1>2. 0 \in T
  <2>1. Run([k \in 0..0 |-> L], 0)
    OBVIOUS
  <2>2. QED
    BY <2>1
<1>3. ASSUME NEW m \in 1..n, m - 1 \in T PROVE m \in T
  <2>1. PICK t : Run(t, m - 1)
    BY <1>3
  <2>2. PICK u : u = [k \in 0..m |-> IF k = m THEN ApplySwap(t[m - 1], s[m]) ELSE t[k]]
    OBVIOUS
  <2>3. ASSUME NEW k \in 0..m
        PROVE  u[k] = IF k = 0 THEN L ELSE ApplySwap(u[k - 1], s[k])
    <3>1. CASE k = m
      BY <2>2, <3>1
    <3>2. CASE k # m
      <4>1. k \in 0..(m - 1) /\ u[k] = t[k] /\ (k # 0 => u[k - 1] = t[k - 1])
        BY <2>2, <3>2
      <4>2. QED
        BY <2>1, <4>1
    <3>3. QED
      BY <3>1, <3>2
  <2>4. Run(u, m)
    BY <2>2, <2>3
  <2>5. m \in Nat
    OBVIOUS
  <2>6. QED
    BY <2>4, <2>5
<1>4. \E t : Run(t, n)
  <2> HIDE DEF Run
  <2>1. 0..n \subseteq T
    BY <1>1, <1>2, <1>3, UpToInduction
  <2>2. QED
    BY <1>1, <2>1
<1>5. PICK a : a = CHOOSE t : Run(t, n)
  OBVIOUS
<1>6. Run(a, n)
  BY <1>4, <1>5
<1>7. AppliedSwaps(L, s) = a
  BY <1>1, <1>5 DEF AppliedSwaps
<1>8. ASSUME NEW k \in 0..n
      PROVE  a[k] = IF k = 0 THEN L ELSE ApplySwap(a[k - 1], s[k])
  BY <1>6
<1>9. QED
  BY <1>1, <1>7, <1>8

\* The records of a journal, one after the other.
LEMMA SwapsConcat ==
  ASSUME NEW S, NEW L, NEW s \in Seq(S), NEW t \in Seq(S)
  PROVE  ApplySwapsToLabelsArray(L, s \o t)
           = ApplySwapsToLabelsArray(ApplySwapsToLabelsArray(L, s), t)
<1>1. PICK n \in Nat : n = Len(s)
  BY LenProperties
<1>2. PICK m \in Nat : m = Len(t)
  BY LenProperties
<1>3. PICK c : c = s \o t
  OBVIOUS
<1>4. /\ Len(c) = n + m
      /\ \A k \in 1..n : c[k] = s[k]
      /\ \A k \in 1..m : c[n + k] = t[k]
  <2>1. Len(c) = n + m /\ \A k \in 1..(n + m) : c[k] = IF k <= n THEN s[k] ELSE t[k - n]
    BY <1>1, <1>2, <1>3, ConcatProperties
  <2>2. QED
    BY <2>1
<1>5. PICK C : C = AppliedSwaps(L, c)
  OBVIOUS
<1>6. PICK A : A = AppliedSwaps(L, s)
  OBVIOUS
<1>7. PICK B : B = AppliedSwaps(A[n], t)
  OBVIOUS
<1>8. C[0] = L /\ \A k \in 1..(n + m) : C[k] = ApplySwap(C[k - 1], c[k])
  <2>1. Len(c) = n + m /\ Len(c) \in Nat
    BY <1>4
  <2>2. C[0] = L /\ \A k \in 1..Len(c) : C[k] = ApplySwap(C[k - 1], c[k])
    BY <1>5, <2>1, SwapsRun
  <2>3. QED
    BY <2>1, <2>2
<1>9. A[0] = L /\ \A k \in 1..n : A[k] = ApplySwap(A[k - 1], s[k])
  BY <1>1, <1>6, SwapsRun
<1>10. B[0] = A[n] /\ \A k \in 1..m : B[k] = ApplySwap(B[k - 1], t[k])
  BY <1>2, <1>7, SwapsRun
<1>11. C[n] = A[n]
  <2> DEFINE T == {k \in 0..n : C[k] = A[k]}
  <2>1. 0 \in T
    BY <1>8, <1>9
  <2>2. ASSUME NEW k \in 1..n, k - 1 \in T PROVE k \in T
    <3>1. C[k] = ApplySwap(C[k - 1], c[k]) /\ A[k] = ApplySwap(A[k - 1], s[k]) /\ c[k] = s[k]
      BY <1>4, <1>8, <1>9
    <3>2. QED
      BY <2>2, <3>1
  <2>3. 0..n \subseteq T
    <3> HIDE DEF T
    <3>1. QED
      BY <2>1, <2>2, UpToInduction
  <2>4. QED
    BY <2>3
<1>12. C[n + m] = B[m]
  <2> DEFINE T == {k \in 0..m : C[n + k] = B[k]}
  <2>1. 0 \in T
    BY <1>10, <1>11
  <2>2. ASSUME NEW k \in 1..m, k - 1 \in T PROVE k \in T
    <3>1. /\ C[n + k] = ApplySwap(C[n + k - 1], c[n + k])
          /\ B[k] = ApplySwap(B[k - 1], t[k]) /\ c[n + k] = t[k]
      BY <1>4, <1>8, <1>10
    <3>2. n + (k - 1) = n + k - 1
      OBVIOUS
    <3>3. QED
      BY <2>2, <3>1, <3>2
  <2>3. 0..m \subseteq T
    <3> HIDE DEF T
    <3>1. QED
      BY <2>1, <2>2, UpToInduction
  <2>4. QED
    BY <2>3
<1>13. ApplySwapsToLabelsArray(L, c) = C[n + m]
  BY <1>4, <1>5 DEF ApplySwapsToLabelsArray
<1>14. ApplySwapsToLabelsArray(L, s) = A[n]
  BY <1>1, <1>6 DEF ApplySwapsToLabelsArray
<1>15. ApplySwapsToLabelsArray(A[n], t) = B[m]
  BY <1>2, <1>7 DEF ApplySwapsToLabelsArray
<1>16. QED
  BY <1>3, <1>12, <1>13, <1>14, <1>15

LEMMA NoSwaps ==
  ASSUME NEW L
  PROVE  ApplySwapsToLabelsArray(L, <<>>) = L
<1>1. Len(<<>>) = 0 /\ Len(<<>>) \in Nat
  OBVIOUS
<1>2. AppliedSwaps(L, <<>>)[0] = L
  BY <1>1, SwapsRun
<1>3. QED
  BY <1>1, <1>2 DEF ApplySwapsToLabelsArray

LEMMA OneSwap ==
  ASSUME NEW L, NEW r
  PROVE  ApplySwapsToLabelsArray(L, <<r>>) = ApplySwap(L, r)
<1>1. Len(<<r>>) = 1 /\ Len(<<r>>) \in Nat /\ <<r>>[1] = r
  OBVIOUS
<1>2. /\ AppliedSwaps(L, <<r>>)[0] = L
      /\ \A k \in 1..1 : AppliedSwaps(L, <<r>>)[k] = ApplySwap(AppliedSwaps(L, <<r>>)[k - 1], <<r>>[k])
  BY <1>1, SwapsRun
<1>3. AppliedSwaps(L, <<r>>)[1] = ApplySwap(L, r)
  BY <1>1, <1>2
<1>4. QED
  BY <1>1, <1>3 DEF ApplySwapsToLabelsArray

\* M is L after the record r.
SwapEffect(L, r, M, S) ==
  /\ M \in Seq(S) /\ Len(M) = Len(L)
  /\ \A i \in 1..Len(L) : i # r[2] /\ i # r[3] => M[i] = L[i]
  /\ r[2] = r[3] /\ r[3] <= Len(L) => M[r[3]] = Skip
  /\ r[2] # r[3] /\ r[3] <= Len(L) => M[r[3]] = IF r[2] <= Len(L) THEN L[r[2]] ELSE Skip
  /\ r[2] # r[3] /\ r[2] <= Len(L) => M[r[2]] = Skip

LEMMA ApplySwapType ==
  ASSUME NEW S, Skip \in S, NEW L \in Seq(S), NEW r, r[2] \in Numbers, r[3] \in Numbers
  PROVE  SwapEffect(L, r, ApplySwap(L, r), S)
<1>1. PICK n \in Nat : n = Len(L) /\ L \in [1..n -> S] /\ DOMAIN L = 1..n
  BY LenProperties
<1>2. PICK M : M = ApplySwap(L, r)
  OBVIOUS
<1>3. PICK o \in Nat \ {0} : o = r[2]
  BY DEF Numbers
<1>4. PICK w \in Nat \ {0} : w = r[3]
  BY DEF Numbers
<1>5. M = IF o = w \/ o > n
          THEN IF w <= n THEN [L EXCEPT ![w] = Skip] ELSE L
          ELSE [L EXCEPT ![w] = L[o], ![o] = Skip]
  BY <1>1, <1>2, <1>3, <1>4 DEF ApplySwap
<1>6. M \in [1..n -> S]
  BY <1>1, <1>5
<1>7. M \in Seq(S) /\ Len(M) = n
  <2>1. M \in Seq(S)
    BY <1>6, SeqDef
  <2>2. QED
    BY <1>6, <2>1, LenProperties
<1>8. /\ \A i \in 1..n : i # o /\ i # w => M[i] = L[i]
      /\ o = w /\ w <= n => M[w] = Skip
      /\ o # w /\ w <= n => M[w] = IF o <= n THEN L[o] ELSE Skip
      /\ o # w /\ o <= n => M[o] = Skip
  BY <1>1, <1>5
<1>9. QED
  BY <1>1, <1>2, <1>3, <1>4, <1>7, <1>8 DEF SwapEffect

-----------------------------------------------------------------------------
(* The journal leads to what is left of the copy.                           *)

\* The vector at position i of f was copied.
OnCopyAt(f, C, i) == f.vectors[i] \in C[f.labels[i]]

LEMMA TracksFacts ==
  ASSUME NEW L, NEW f, NEW C
  PROVE  Tracks(L, f, C) <=>
           /\ L \in Seq(Labels \cup {Skip})
           /\ \A i \in 1..Len(L) :
                L[i] = IF i <= Count(f) /\ OnCopyAt(f, C, i) THEN f.labels[i] ELSE Skip
           /\ \A i \in 1..Count(f) : OnCopyAt(f, C, i) => i <= Len(L)
BY DEF Tracks, OnCopyAt

\* Only the labels of the buffer count, and which positions are on the copy.
LEMMA TracksAlike ==
  ASSUME NEW L, NEW f, NEW C, Tracks(L, f, C), NEW g, g.labels = f.labels, NEW D,
         \A i \in 1..Count(f) : OnCopyAt(g, D, i) <=> OnCopyAt(f, C, i)
  PROVE  Tracks(L, g, D)
<1>1. Count(g) = Count(f)
  BY DEF Count
<1>2. PICK n : n = Count(f)
  OBVIOUS
<1>3. Len(L) \in Nat
  BY LenProperties, TracksFacts
<1>4. /\ L \in Seq(Labels \cup {Skip})
      /\ \A i \in 1..Len(L) : L[i] = IF i <= n /\ OnCopyAt(f, C, i) THEN f.labels[i] ELSE Skip
      /\ \A i \in 1..n : OnCopyAt(f, C, i) => i <= Len(L)
  BY <1>2, TracksFacts
<1>5. \A i \in 1..Len(L) : i <= n => (OnCopyAt(g, D, i) <=> OnCopyAt(f, C, i))
  BY <1>2, <1>3
<1>6. QED
  BY <1>1, <1>2, <1>4, <1>5, TracksFacts

LEMMA CopyTracks ==
  ASSUME NEW f \in FlatOf(Numbers), NEW C, \A k \in Labels : C[k] = VectorsOf(f, k)
  PROVE  Tracks(f.labels, f, C)
<1>1. PICK n \in Nat : n = Count(f) /\ n = Len(f.labels)
  BY FlatFacts
<1>2. f.labels \in Seq(Labels \cup {Skip})
  <2>1. f.labels \in Seq(Labels)
    BY FlatFacts
  <2>2. QED
    BY <2>1
<1>3. \A i \in 1..n : OnCopyAt(f, C, i)
  <2>1. \A i \in 1..n : f.labels[i] \in Labels
    BY <1>1, FlatFacts
  <2>2. \A i \in 1..n : f.vectors[i] \in VectorsOf(f, f.labels[i])
    BY <1>1, VectorsHeld
  <2>3. QED
    BY <2>1, <2>2 DEF OnCopyAt
<1>4. PICK L : L = f.labels
  OBVIOUS
<1>5. L \in Seq(Labels \cup {Skip}) /\ Len(L) = n
  BY <1>1, <1>2, <1>4
<1>6. \A i \in 1..n : L[i] = IF i <= n /\ OnCopyAt(f, C, i) THEN f.labels[i] ELSE Skip
  BY <1>1, <1>3, <1>4
<1>7. \A i \in 1..n : OnCopyAt(f, C, i) => i <= n
  BY <1>1
<1>8. Tracks(L, f, C)
  BY <1>1, <1>5, <1>6, <1>7, TracksFacts
<1>9. QED
  BY <1>4, <1>8

LEMMA AppendTracks ==
  ASSUME NEW f \in FlatOf(Numbers), NEW g, NEW l, NEW v, Appended(f, g, l, v), NEW C,
         ~ (v \in C[l]), NEW L, Tracks(L, f, C)
  PROVE  Tracks(L, g, C)
<1>1. PICK n \in Nat : n = Count(f)
  BY FlatFacts
<1>2. /\ Count(g) = n + 1 /\ g.labels[n + 1] = l /\ g.vectors[n + 1] = v
      /\ \A j \in 1..n : g.labels[j] = f.labels[j] /\ g.vectors[j] = f.vectors[j]
  BY <1>1 DEF Appended
<1>3. /\ L \in Seq(Labels \cup {Skip})
      /\ \A i \in 1..Len(L) : L[i] = IF i <= n /\ OnCopyAt(f, C, i) THEN f.labels[i] ELSE Skip
      /\ \A i \in 1..n : OnCopyAt(f, C, i) => i <= Len(L)
  BY <1>1, TracksFacts
<1>4. PICK m \in Nat : m = Len(L)
  BY <1>3, LenProperties
<1>5. \A i \in 1..n : g.labels[i] = f.labels[i] /\ (OnCopyAt(g, C, i) <=> OnCopyAt(f, C, i))
  BY <1>2 DEF OnCopyAt
<1>6. ~ OnCopyAt(g, C, n + 1)
  BY <1>2 DEF OnCopyAt
<1>7. \A i \in 1..m : L[i] = IF i <= n + 1 /\ OnCopyAt(g, C, i) THEN g.labels[i] ELSE Skip
  BY <1>3, <1>4, <1>5, <1>6
<1>8. \A i \in 1..(n + 1) : OnCopyAt(g, C, i) => i <= m
  BY <1>3, <1>4, <1>5, <1>6
<1>9. QED
  BY <1>2, <1>3, <1>4, <1>7, <1>8, TracksFacts

LEMMA OverwriteTracks ==
  ASSUME NEW f \in FlatOf(Numbers), NEW id \in 1..Count(f), NEW g, g.labels = f.labels,
         \A j \in 1..Count(f) : j # id => g.vectors[j] = f.vectors[j], NEW C,
         ~ (g.vectors[id] \in C[f.labels[id]]), NEW L, Tracks(L, f, C)
  PROVE  Tracks(ApplySwap(L, <<Skip, id, id>>), g, C)
<1>1. PICK n \in Nat : n = Count(f) /\ n = Count(g) /\ id \in 1..n
  BY FlatFacts DEF Count
<1>2. /\ L \in Seq(Labels \cup {Skip})
      /\ \A i \in 1..Len(L) : L[i] = IF i <= n /\ OnCopyAt(f, C, i) THEN f.labels[i] ELSE Skip
      /\ \A i \in 1..n : OnCopyAt(f, C, i) => i <= Len(L)
  BY <1>1, TracksFacts
<1>3. PICK m \in Nat : m = Len(L)
  BY <1>2, LenProperties
<1>4. PICK M : M = ApplySwap(L, <<Skip, id, id>>)
  OBVIOUS
<1>5. PICK r : r = <<Skip, id, id>>
  OBVIOUS
<1>6. id \in Numbers /\ Skip \in Labels \cup {Skip}
  BY <1>1 DEF Numbers
<1>7. /\ M \in Seq(Labels \cup {Skip}) /\ Len(M) = m
      /\ \A i \in 1..m : i # id => M[i] = L[i]
      /\ id <= m => M[id] = Skip
  <2>1. r[2] = id /\ r[3] = id
    BY <1>5
  <2>2. M = ApplySwap(L, r) /\ r[2] \in Numbers /\ r[3] \in Numbers
    BY <1>4, <1>5, <1>6, <2>1
  <2>3. PICK S : S = Labels \cup {Skip}
    OBVIOUS
  <2>4. Skip \in S /\ L \in Seq(S)
    BY <1>2, <2>3
  <2>5. /\ M \in Seq(S) /\ Len(M) = Len(L)
        /\ \A i \in 1..Len(L) : i # r[2] /\ i # r[3] => M[i] = L[i]
        /\ r[2] = r[3] /\ r[3] <= Len(L) => M[r[3]] = Skip
    BY <2>2, <2>4, ApplySwapType DEF SwapEffect
  <2>6. QED
    BY <1>3, <2>1, <2>3, <2>5
<1>8. \A i \in 1..n : i # id => (OnCopyAt(g, C, i) <=> OnCopyAt(f, C, i))
  BY <1>1 DEF OnCopyAt
<1>9. ~ OnCopyAt(g, C, id)
  BY DEF OnCopyAt
<1>10. \A i \in 1..m : M[i] = IF i <= n /\ OnCopyAt(g, C, i) THEN g.labels[i] ELSE Skip
  BY <1>1, <1>2, <1>3, <1>7, <1>8, <1>9
<1>11. \A i \in 1..n : OnCopyAt(g, C, i) => i <= m
  BY <1>1, <1>2, <1>3, <1>8, <1>9
<1>12. QED
  BY <1>1, <1>3, <1>4, <1>7, <1>10, <1>11, TracksFacts

-----------------------------------------------------------------------------
(* The records of a deletion.                                               *)

\* s lists the elements of D from the greatest down.
ListsDown(s, m, D) ==
  /\ s \in [1..m -> D]
  /\ \A x \in D : \E k \in 1..m : s[k] = x
  /\ \A j, k \in 1..m : j < k => s[j] > s[k]

LEMMA CanListDown ==
  ASSUME NEW n \in Nat, NEW D \in SUBSET (1..n)
  PROVE  \E m \in Nat : \E s : ListsDown(s, m, D)
<1> DEFINE T == {b \in 0..n : \A E \in SUBSET (1..b) : \E m \in Nat : \E s : ListsDown(s, m, E)}
<1>1. 0 \in T
  <2>1. SUFFICES ASSUME NEW E \in SUBSET (1..0) PROVE \E m \in Nat : \E s : ListsDown(s, m, E)
    OBVIOUS
  <2>2. E = {}
    BY <2>1
  <2>3. ListsDown([k \in 1..0 |-> 0], 0, E)
    BY <2>2 DEF ListsDown
  <2>4. QED
    BY <2>3
<1>2. ASSUME NEW b \in 1..n, b - 1 \in T PROVE b \in T
  <2>1. SUFFICES ASSUME NEW E \in SUBSET (1..b) PROVE \E m \in Nat : \E s : ListsDown(s, m, E)
    OBVIOUS
  <2>2. CASE ~ (b \in E)
    <3>1. E \in SUBSET (1..(b - 1))
      BY <2>2
    <3>2. QED
      BY <1>2, <3>1
  <2>3. CASE b \in E
    <3>1. PICK F \in SUBSET (1..(b - 1)) : F = E \ {b}
      <4>1. E \ {b} \in SUBSET (1..(b - 1))
        BY <1>2
      <4>2. QED
        BY <4>1
    <3>2. PICK m \in Nat : \E s : ListsDown(s, m, F)
      BY <1>2, <3>1
    <3>3. PICK s : ListsDown(s, m, F)
      BY <3>2
    <3>4. PICK t : t = [k \in 1..(m + 1) |-> IF k = 1 THEN b ELSE s[k - 1]]
      OBVIOUS
    <3>5. /\ \A k \in 1..m : s[k] \in F
          /\ \A x \in F : \E k \in 1..m : s[k] = x
          /\ \A j, k \in 1..m : j < k => s[j] > s[k]
      BY <3>3 DEF ListsDown
    <3>6. \A k \in 1..(m + 1) : k = 1 \/ (k - 1 \in 1..m /\ t[k] = s[k - 1])
      BY <3>4
    <3>7. t[1] = b
      BY <3>4
    <3>8. t \in [1..(m + 1) -> E]
      BY <2>3, <3>1, <3>4, <3>5, <3>6
    <3>9. ASSUME NEW x \in E PROVE \E k \in 1..(m + 1) : t[k] = x
      <4>1. CASE x = b
        BY <3>7, <4>1
      <4>2. CASE x # b
        <5>1. PICK k \in 1..m : s[k] = x
          BY <3>1, <3>5, <4>2
        <5>2. k + 1 \in 1..(m + 1) /\ t[k + 1] = x
          BY <3>4, <5>1
        <5>3. QED
          BY <5>2
      <4>3. QED
        BY <4>1, <4>2
    <3>10. ASSUME NEW j \in 1..(m + 1), NEW k \in 1..(m + 1), j < k PROVE t[j] > t[k]
      <4>0. k # 1
        BY <3>10
      <4>1. k - 1 \in 1..m /\ t[k] = s[k - 1] /\ s[k - 1] \in 1..(b - 1)
        BY <3>1, <3>5, <3>6, <4>0
      <4>2. CASE j = 1
        BY <3>7, <4>1, <4>2
      <4>3. CASE j # 1
        <5>1. j - 1 \in 1..m /\ t[j] = s[j - 1] /\ j - 1 < k - 1
          BY <3>6, <3>10, <4>3
        <5>2. QED
          BY <3>5, <4>1, <5>1
      <4>4. QED
        BY <4>2, <4>3
    <3>11. ListsDown(t, m + 1, E)
      BY <3>8, <3>9, <3>10 DEF ListsDown
    <3>12. QED
      BY <3>11
  <2>4. QED
    BY <2>2, <2>3
<1>3. 0..n \subseteq T
  <2> HIDE DEF T
  <2>1. QED
    BY <1>1, <1>2, UpToInduction
<1>4. QED
  BY <1>3

\* s lists the elements of D, each once.
Enumerates(s, m, D) ==
  /\ s \in [1..m -> D]
  /\ \A x \in D : \E k \in 1..m : s[k] = x
  /\ \A j, k \in 1..m : s[j] = s[k] => j = k

LEMMA DownIsOnce ==
  ASSUME NEW m \in Nat, NEW D \in SUBSET Nat, NEW s, ListsDown(s, m, D)
  PROVE  Enumerates(s, m, D)
<1>1. \A j \in 1..m : s[j] \in Nat
  BY DEF ListsDown
<1>2. \A j, k \in 1..m : j < k => s[j] # s[k]
  BY <1>1 DEF ListsDown
<1>3. \A j, k \in 1..m : s[j] = s[k] => j = k
  BY <1>2
<1>4. QED
  BY <1>3 DEF ListsDown, Enumerates

\* A list without repetition is as long as the set it lists.
LEMMA ListLength ==
  ASSUME NEW m \in Nat, NEW s, NEW D, Enumerates(s, m, D)
  PROVE  Cardinality(D) = m
<1>1. s \in Bijection(1..m, D)
  BY DEF Enumerates, Bijection, Injection, Surjection, IsInjective
<1>2. ExistsBijection(1..m, D)
  BY <1>1 DEF ExistsBijection
<1>3. QED
  BY <1>2, FS_CountingElements

\* The ids of a label of the buffer, in descending order.
LEMMA DescendingLists ==
  ASSUME NEW ids \in Seq(Nat \ {0}), NEW n \in Nat, NEW D \in SUBSET (1..n),
         ListsOnce(ids, 1..Len(ids), D)
  PROVE  ListsDown(Descending(ids), Len(ids), D)
<1>1. PICK m \in Nat : m = Len(ids) /\ DOMAIN ids = 1..m
  BY LenProperties
<1>2. ids \in [1..m -> D]
  <2>1. ids \in [1..m -> Nat \ {0}]
    BY <1>1, LenProperties
  <2>2. \A k \in 1..m : ids[k] \in D
    BY <1>1 DEF ListsOnce
  <2>3. QED
    BY <2>1, <2>2
<1>3. (\A x \in D : \E k \in 1..m : ids[k] = x) /\ \A j, k \in 1..m : ids[j] = ids[k] => j = k
  BY <1>1 DEF ListsOnce
<1>4. Range(ids) = D
  BY <1>1, <1>2, <1>3 DEF Range
<1>5. PICK w \in Nat : \E s : ListsDown(s, w, D)
  BY CanListDown
<1>6. PICK s : ListsDown(s, w, D)
  BY <1>5
<1>7. w = m
  <2>1. Enumerates(ids, m, D)
    BY <1>2, <1>3 DEF Enumerates
  <2>2. Enumerates(s, w, D)
    <3>1. D \in SUBSET Nat
      OBVIOUS
    <3>2. QED
      BY <1>6, <3>1, DownIsOnce
  <2>3. Cardinality(D) = m /\ Cardinality(D) = w
    BY <2>1, <2>2, ListLength
  <2>4. QED
    BY <2>3
<1> DEFINE Good(t) == Range(t) = D /\ \A j, k \in 1..m : j < k => t[j] > t[k]
<1>8. s \in [1..m -> D] /\ Good(s)
  <2>1. s \in [1..m -> D] /\ DOMAIN s = 1..m
    BY <1>6, <1>7 DEF ListsDown
  <2>2. Range(s) = D
    BY <1>6, <1>7, <2>1 DEF Range, ListsDown
  <2>3. QED
    BY <1>6, <1>7, <2>1, <2>2 DEF ListsDown
<1>9. PICK d : d = Descending(ids)
  OBVIOUS
<1>10. d = CHOOSE t \in [1..m -> D] : Good(t)
  BY <1>1, <1>4, <1>9 DEF Descending
<1>11. d \in [1..m -> D] /\ Good(d)
  <2> HIDE DEF Good
  <2>1. \E t \in [1..m -> D] : Good(t)
    BY <1>8
  <2>2. QED
    BY <1>10, <2>1
<1>12. \A x \in D : \E k \in 1..m : d[k] = x
  <2>1. DOMAIN d = 1..m /\ Range(d) = D
    BY <1>11
  <2>2. QED
    BY <2>1 DEF Range
<1>13. QED
  BY <1>1, <1>9, <1>11, <1>12 DEF ListsDown

\* Each id of D gets the vector that was at old, outside D, or loses its own.
Swapping(old, D) ==
  /\ D \subseteq Numbers /\ old \in [D -> Numbers]
  /\ \A x, y \in D : old[x] = old[y] => x = y
  /\ \A x \in D : old[x] \in D => old[x] = x

\* The records sw swap in the order of the list d.
SwapsAlong(sw, d, m, old) ==
  /\ sw \in Seq(SwapRecord) /\ Len(sw) = m
  /\ \A k \in 1..m : sw[k][2] = old[d[k]] /\ sw[k][3] = d[k]

\* The labels after all swaps.
SwappedLabels(L, old, D, M) ==
  /\ M \in Seq(Labels \cup {Skip}) /\ Len(M) = Len(L)
  /\ \A i \in 1..Len(L) :
       M[i] = IF i \in D THEN IF old[i] # i /\ old[i] <= Len(L) THEN L[old[i]] ELSE Skip
              ELSE IF \E x \in D : old[x] = i THEN Skip ELSE L[i]

\* Swaps of different positions commute.
LEMMA SwapsCommute ==
  ASSUME NEW D, NEW old, Swapping(old, D), NEW m \in Nat, NEW d, Enumerates(d, m, D),
         NEW sw, SwapsAlong(sw, d, m, old), NEW L \in Seq(Labels \cup {Skip})
  PROVE  SwappedLabels(L, old, D, ApplySwapsToLabelsArray(L, sw))
<1>1. PICK S : S = Labels \cup {Skip}
  OBVIOUS
<1>2. L \in Seq(S) /\ Skip \in S
  BY <1>1
<1>3. PICK n \in Nat : n = Len(L)
  BY <1>2, LenProperties
<1>4. PICK A : A = AppliedSwaps(L, sw)
  OBVIOUS
<1>5. A[0] = L /\ \A k \in 1..m : A[k] = ApplySwap(A[k - 1], sw[k])
  <2>1. Len(sw) = m /\ Len(sw) \in Nat
    BY DEF SwapsAlong
  <2>2. QED
    BY <1>4, <2>1, SwapsRun
<1>6. \A k \in 1..m : /\ d[k] \in D /\ d[k] \in Numbers /\ old[d[k]] \in Numbers
                      /\ sw[k][2] = old[d[k]] /\ sw[k][3] = d[k]
  BY DEF Enumerates, Swapping, SwapsAlong
<1>7. \A j, k \in 1..m : j # k => /\ d[j] # d[k] /\ old[d[j]] # d[k] /\ d[j] # old[d[k]]
                                  /\ old[d[j]] # old[d[k]]
  BY <1>6 DEF Enumerates, Swapping
<1> DEFINE Touched(k, i) == \E j \in 1..k : i = d[j] \/ i = old[d[j]]
           Final(i) == IF i \in D /\ old[i] # i /\ old[i] <= n THEN L[old[i]] ELSE Skip
           After(k) == /\ A[k] \in Seq(S) /\ Len(A[k]) = n
                       /\ \A i \in 1..n : A[k][i] = IF Touched(k, i) THEN Final(i) ELSE L[i]
           T == {k \in 0..m : After(k)}
<1>8. 0 \in T
  <2>1. \A i : ~ Touched(0, i)
    OBVIOUS
  <2>2. After(0)
    <3> HIDE DEF Touched
    <3>1. QED
      BY <1>2, <1>3, <1>5, <2>1
  <2>3. QED
    BY <2>2
<1>9. ASSUME NEW k \in 1..m, k - 1 \in T PROVE k \in T
  <2>1. A[k - 1] \in Seq(S) /\ Len(A[k - 1]) = n
    BY <1>9
  <2>2. \A i \in 1..n : A[k - 1][i] = IF Touched(k - 1, i) THEN Final(i) ELSE L[i]
    BY <1>9
  <2>3. PICK o \in Numbers : o = old[d[k]] /\ o = sw[k][2]
    BY <1>6
  <2>4. PICK w \in Numbers : w = d[k] /\ w = sw[k][3]
    BY <1>6
  <2>5. ~ Touched(k - 1, o) /\ ~ Touched(k - 1, w)
    <3>1. \A j \in 1..(k - 1) : j \in 1..m /\ j # k
      OBVIOUS
    <3>2. QED
      BY <1>7, <2>3, <2>4, <3>1
  <2>6. \A i : Touched(k, i) <=> Touched(k - 1, i) \/ i = w \/ i = o
    <3>1. \A j : j \in 1..k <=> j \in 1..(k - 1) \/ j = k
      OBVIOUS
    <3>2. QED
      BY <2>3, <2>4, <3>1
  <2>7. PICK B : B = A[k - 1]
    OBVIOUS
  <2>8. PICK M : M = ApplySwap(B, sw[k]) /\ M = A[k]
    BY <1>5, <2>7
  <2>9. /\ M \in Seq(S) /\ Len(M) = n
        /\ \A i \in 1..n : i # o /\ i # w => M[i] = B[i]
        /\ o = w /\ w <= n => M[w] = Skip
        /\ o # w /\ w <= n => M[w] = IF o <= n THEN B[o] ELSE Skip
        /\ o # w /\ o <= n => M[o] = Skip
    <3>1. B \in Seq(S) /\ Len(B) = n
      BY <2>1, <2>7
    <3>2. PICK r : r = sw[k] /\ r[2] \in Numbers /\ r[3] \in Numbers /\ o = r[2] /\ w = r[3]
      BY <2>3, <2>4
    <3>3. M = ApplySwap(B, r)
      BY <2>8, <3>2
    <3>4. SwapEffect(B, r, M, S)
      BY <1>2, <3>1, <3>2, <3>3, ApplySwapType
    <3>5. QED
      BY <3>1, <3>2, <3>4 DEF SwapEffect
  <2>10. w \in D /\ old[w] = o /\ (o # w => ~ (o \in D))
    BY <1>6, <2>3, <2>4 DEF Swapping
  <2>11. o \in Nat \ {0} /\ w \in Nat \ {0}
    BY DEF Numbers
  <2> HIDE DEF Touched
  <2>12. ASSUME NEW i \in 1..n PROVE M[i] = IF Touched(k, i) THEN Final(i) ELSE L[i]
    <3>1. CASE i # o /\ i # w
      BY <2>2, <2>6, <2>7, <2>9, <3>1
    <3>2. CASE i = w
      <4>1. Touched(k, i) /\ w <= n
        BY <2>6, <3>2
      <4>2. Final(i) = IF o # w /\ o <= n THEN L[o] ELSE Skip
        BY <2>10, <3>2
      <4>3. o <= n => B[o] = L[o]
        BY <2>2, <2>5, <2>7, <2>11
      <4>4. QED
        BY <2>9, <3>2, <4>1, <4>2, <4>3
    <3>3. CASE i = o /\ i # w
      <4>1. Touched(k, i) /\ o <= n
        BY <2>6, <3>3
      <4>2. Final(i) = Skip
        BY <2>10, <3>3
      <4>3. QED
        BY <2>9, <3>3, <4>1, <4>2
    <3>4. QED
      BY <3>1, <3>2, <3>3
  <2>13. After(k)
    BY <2>8, <2>9, <2>12
  <2>14. QED
    BY <2>13
<1>10. After(m)
  <2> HIDE DEF After
  <2>1. 0..m \subseteq T
    <3> HIDE DEF T
    <3>1. QED
      BY <1>8, <1>9, UpToInduction
  <2>2. QED
    BY <2>1
<1>11. \A i : Touched(m, i) <=> i \in D \/ \E x \in D : old[x] = i
  BY <1>6 DEF Enumerates
<1>12. ApplySwapsToLabelsArray(L, sw) = A[m]
  BY <1>4 DEF ApplySwapsToLabelsArray, SwapsAlong
<1>13. PICK M : M = A[m]
  OBVIOUS
<1>14. M \in Seq(S) /\ Len(M) = n
  BY <1>10, <1>13
<1>15. ASSUME NEW i \in 1..n
       PROVE  M[i] = IF i \in D THEN IF old[i] # i /\ old[i] <= n THEN L[old[i]] ELSE Skip
                     ELSE IF \E x \in D : old[x] = i THEN Skip ELSE L[i]
  <2>1. M[i] = IF Touched(m, i) THEN Final(i) ELSE L[i]
    BY <1>10, <1>13
  <2> HIDE DEF Touched
  <2>2. QED
    BY <1>11, <2>1
<1>16. SwappedLabels(L, old, D, M)
  BY <1>1, <1>3, <1>14, <1>15 DEF SwappedLabels
<1>17. QED
  BY <1>12, <1>13, <1>16

\* Where the vector that a deletion reports for id comes from; id itself if none does.
Moves(up, D) == [x \in D |-> From(up, x)]

\* A deletion moves vectors of other labels from beyond the new end into the gaps.
LEMMA DeletionMoves ==
  ASSUME NEW f \in FlatOf(Numbers), NEW l, NEW g, NEW up, Follows(f, l, g, up),
         Holding(g, l) = {}, Count(g) \in 0..Count(f), NEW D, D = Holding(f, l)
  PROVE  /\ Swapping(Moves(up, D), D)
         /\ DOMAIN up = {x \in D : x <= Count(g)}
         /\ \A x \in DOMAIN up : From(up, x) \in (Count(g) + 1)..Count(f)
         /\ \A x \in (Count(g) + 1)..Count(f) : x \in D \/ \E y \in DOMAIN up : From(up, y) = x
<1>1. PICK N \in Nat, n \in Nat : N = Count(f) /\ n = Count(g) /\ n <= N
  BY FlatFacts
<1>2. \A i \in 1..N : i \in D <=> f.labels[i] = l
  BY <1>1 DEF Holding
<1>3. D \subseteq 1..N
  BY <1>1 DEF Holding
<1>4. DOMAIN up \subseteq 1..n
  BY <1>1 DEF Follows
<1>5. \A j \in DOMAIN up : j \in D
  BY <1>1, <1>2, <1>4 DEF Follows
<1>6. \A j \in 1..n : From(up, j) \in 1..N /\ ~ (From(up, j) \in D)
  <2>1. \A j \in 1..n : From(up, j) \in 1..N /\ g.labels[j] = f.labels[From(up, j)]
    BY <1>1 DEF Follows
  <2>2. \A j \in 1..n : g.labels[j] # l
    BY <1>1 DEF Holding
  <2>3. QED
    BY <1>2, <2>1, <2>2
<1>7. \A i, j \in 1..n : From(up, i) = From(up, j) => i = j
  BY <1>1 DEF Follows
<1>8. \A j : ~ (j \in DOMAIN up) => From(up, j) = j
  BY DEF From
<1>9. \A j \in DOMAIN up : From(up, j) \in (n + 1)..N
  <2>1. SUFFICES ASSUME NEW j \in DOMAIN up PROVE From(up, j) \in (n + 1)..N
    OBVIOUS
  <2>2. PICK x \in 1..N : x = From(up, j) /\ ~ (x \in D)
    BY <1>4, <1>6
  <2>3. ASSUME x <= n PROVE FALSE
    <3>1. x \in 1..n /\ ~ (x \in DOMAIN up)
      BY <1>5, <2>2, <2>3
    <3>2. From(up, x) = x
      BY <1>8, <3>1
    <3>3. x = j
      BY <1>4, <1>7, <2>2, <3>1, <3>2
    <3>4. QED
      BY <1>5, <2>2, <3>3
  <2>4. QED
    BY <2>2, <2>3
<1>10. \A x \in D : x <= n => x \in DOMAIN up
  <2>1. SUFFICES ASSUME NEW x \in D, x <= n, ~ (x \in DOMAIN up) PROVE FALSE
    OBVIOUS
  <2>2. x \in 1..n /\ From(up, x) = x
    BY <1>3, <1>8, <2>1
  <2>3. QED
    BY <1>6, <2>1, <2>2
<1>11. \A x \in (n + 1)..N : x \in D \/ \E y \in DOMAIN up : From(up, y) = x
  <2>1. SUFFICES ASSUME NEW x \in (n + 1)..N, ~ (x \in D) PROVE \E y \in DOMAIN up : From(up, y) = x
    OBVIOUS
  <2>2. x \in 1..N /\ f.labels[x] # l
    BY <1>2, <2>1
  <2>3. PICK j \in 1..n : From(up, j) = x
    BY <1>1, <2>2 DEF Follows
  <2>4. j \in DOMAIN up
    BY <1>8, <2>3
  <2>5. QED
    BY <2>3, <2>4
<1>12. PICK old : old = Moves(up, D)
  OBVIOUS
<1>13. \A x \in D : old[x] = From(up, x)
  BY <1>12 DEF Moves
<1>14. \A x \in D : IF x \in DOMAIN up THEN old[x] \in (n + 1)..N /\ ~ (old[x] \in D) ELSE old[x] = x
  BY <1>4, <1>6, <1>8, <1>9, <1>13
<1>15. Swapping(old, D)
  <2>1. D \subseteq Numbers
    BY <1>3 DEF Numbers
  <2>2. old \in [D -> Numbers]
    <3>1. \A x \in D : old[x] \in Numbers
      BY <1>3, <1>14 DEF Numbers
    <3>2. QED
      BY <1>12, <3>1 DEF Moves
  <2>3. ASSUME NEW x \in D, NEW y \in D, old[x] = old[y] PROVE x = y
    <3>1. CASE x \in DOMAIN up /\ y \in DOMAIN up
      BY <1>4, <1>7, <1>13, <2>3, <3>1
    <3>2. CASE ~ (x \in DOMAIN up /\ y \in DOMAIN up)
      BY <1>14, <2>3, <3>2
    <3>3. QED
      BY <3>1, <3>2
  <2>4. ASSUME NEW x \in D, old[x] \in D PROVE old[x] = x
    BY <1>14, <2>4
  <2>5. QED
    BY <2>1, <2>2, <2>3, <2>4 DEF Swapping
<1>16. DOMAIN up = {x \in D : x <= n}
  <2>1. \A x : x \in DOMAIN up <=> x \in D /\ x <= n
    BY <1>4, <1>5, <1>10
  <2>2. QED
    BY <2>1
<1>17. QED
  BY <1>1, <1>9, <1>11, <1>12, <1>15, <1>16

\* The records of a deletion swap what the deletion has moved.
LEMMA RecordsSwap ==
  ASSUME NEW f, FlatOK(Numbers, f), NEW l \in Labels, NEW r, Deleted(Numbers, f, l, r),
         NEW D, D = Holding(f, l)
  PROVE  \E m \in Nat : \E d :
           Enumerates(d, m, D) /\ SwapsAlong(SwapRecords(f.ids[l], r.updated), d, m, Moves(r.updated, D))
<1>1. f \in FlatOf(Numbers)
  BY DEF FlatOK
<1>2. PICK ids \in Seq(Nat \ {0}) : ids = f.ids[l]
  BY ListFacts
<1>3. PICK m \in Nat : m = Len(ids) /\ DOMAIN ids = 1..m
  BY LenProperties
<1>4. PICK N \in Nat : N = Count(f)
  BY <1>1, FlatFacts
<1>5. D \in SUBSET (1..N) /\ ListsOnce(ids, 1..Len(ids), D)
  <2>1. D \in SUBSET (1..N)
    BY <1>4 DEF Holding
  <2>2. QED
    BY <1>2, <2>1, ListFacts
<1>6. PICK d : d = Descending(ids)
  OBVIOUS
<1>7. Enumerates(d, m, D)
  <2>1. ListsDown(d, m, D)
    BY <1>3, <1>5, <1>6, DescendingLists
  <2>2. D \in SUBSET Nat
    BY <1>5
  <2>3. QED
    BY <2>1, <2>2, DownIsOnce
<1>8. PICK up : up = r.updated
  OBVIOUS
<1>9. /\ \A x \in DOMAIN up : up[x] = <<From(up, x), f.labels[From(up, x)]>>
      /\ \A x \in DOMAIN up : From(up, x) \in 1..N
  <2>1. Follows(f, l, r.flat, up)
    BY <1>8 DEF Deleted
  <2>2. QED
    BY <1>4, <2>1 DEF Follows
<1>10. \A x \in DOMAIN up : /\ up[x][1] = From(up, x) /\ up[x][2] = f.labels[From(up, x)]
                            /\ From(up, x) \in Numbers /\ f.labels[From(up, x)] \in Labels
  <2>1. \A i \in 1..N : f.labels[i] \in Labels /\ i \in Numbers
    BY <1>1, <1>4, FlatFacts DEF Numbers
  <2>2. QED
    BY <1>9, <2>1
<1> DEFINE Record(id) == IF id \in DOMAIN up THEN <<up[id][2], up[id][1], id>> ELSE <<Skip, id, id>>
<1>11. PICK sw : sw = SwapRecords(ids, up)
  OBVIOUS
<1>12. sw = [k \in 1..m |-> Record(d[k])]
  BY <1>3, <1>6, <1>11 DEF SwapRecords
<1>13. \A x \in D : Record(x) \in SwapRecord /\ Record(x)[2] = From(up, x) /\ Record(x)[3] = x
  <2>1. \A x \in D : x \in Numbers
    BY <1>5 DEF Numbers
  <2>2. ASSUME NEW x \in D, x \in DOMAIN up
        PROVE  Record(x) \in SwapRecord /\ Record(x)[2] = From(up, x) /\ Record(x)[3] = x
    <3>1. PICK o \in Numbers, k \in Labels : o = up[x][1] /\ k = up[x][2] /\ o = From(up, x)
      BY <1>10, <2>2
    <3>2. Record(x) = <<k, o, x>>
      BY <2>2, <3>1
    <3>3. QED
      BY <2>1, <3>1, <3>2 DEF SwapRecord
  <2>3. ASSUME NEW x \in D, ~ (x \in DOMAIN up)
        PROVE  Record(x) \in SwapRecord /\ Record(x)[2] = From(up, x) /\ Record(x)[3] = x
    <3>1. Record(x) = <<Skip, x, x>> /\ From(up, x) = x
      BY <2>3 DEF From
    <3>2. QED
      BY <2>1, <3>1 DEF SwapRecord
  <2>4. QED
    BY <2>2, <2>3
<1>14. \A k \in 1..m : d[k] \in D
  BY <1>7 DEF Enumerates
<1> HIDE DEF Record
<1>15. sw \in [1..m -> SwapRecord]
  BY <1>12, <1>13, <1>14
<1>16. sw \in Seq(SwapRecord) /\ Len(sw) = m
  <2>1. sw \in Seq(SwapRecord)
    BY <1>15, SeqDef
  <2>2. QED
    BY <1>15, <2>1, LenProperties
<1>17. \A x \in D : Moves(up, D)[x] = From(up, x)
  BY DEF Moves
<1>18. \A k \in 1..m : sw[k][2] = Moves(up, D)[d[k]] /\ sw[k][3] = d[k]
  BY <1>12, <1>13, <1>14, <1>17
<1>19. SwapsAlong(sw, d, m, Moves(up, D))
  BY <1>16, <1>18 DEF SwapsAlong
<1>20. QED
  BY <1>2, <1>7, <1>8, <1>11, <1>19

LEMMA DeletionTracks ==
  ASSUME NEW f, FlatOK(Numbers, f), NEW l \in Labels, NEW r, Deleted(Numbers, f, l, r),
         NEW sw, sw = SwapRecords(f.ids[l], r.updated), NEW C, NEW L, Tracks(L, f, C)
  PROVE  sw \in Seq(SwapRecord) /\ Tracks(ApplySwapsToLabelsArray(L, sw), r.flat, C)
<1>1. f \in FlatOf(Numbers)
  BY DEF FlatOK
<1>2. PICK D : D = Holding(f, l)
  OBVIOUS
<1>3. PICK g, up : g = r.flat /\ up = r.updated
  OBVIOUS
<1>4. /\ Follows(f, l, g, up) /\ Holding(g, l) = {} /\ Count(g) \in 0..Count(f)
  BY <1>3 DEF Deleted
<1>5. PICK N \in Nat, n \in Nat : N = Count(f) /\ n = Count(g) /\ n <= N
  BY <1>1, <1>4, FlatFacts
<1>6. PICK old : old = Moves(up, D)
  OBVIOUS
<1>7. /\ Swapping(old, D)
      /\ DOMAIN up = {x \in D : x <= n}
      /\ \A x \in DOMAIN up : From(up, x) \in (n + 1)..N
      /\ \A x \in (n + 1)..N : x \in D \/ \E y \in DOMAIN up : From(up, y) = x
  BY <1>1, <1>2, <1>4, <1>5, <1>6, DeletionMoves
<1>8. \A x \in D : old[x] = From(up, x)
  BY <1>6 DEF Moves
<1>9. PICK m \in Nat : \E d : Enumerates(d, m, D) /\ SwapsAlong(sw, d, m, old)
  BY <1>2, <1>3, <1>6, RecordsSwap
<1>10. /\ L \in Seq(Labels \cup {Skip})
       /\ \A i \in 1..Len(L) : L[i] = IF i <= N /\ OnCopyAt(f, C, i) THEN f.labels[i] ELSE Skip
       /\ \A i \in 1..N : OnCopyAt(f, C, i) => i <= Len(L)
  BY <1>5, TracksFacts
<1>11. PICK z \in Nat : z = Len(L)
  BY <1>10, LenProperties
<1>12. PICK M : M = ApplySwapsToLabelsArray(L, sw)
  OBVIOUS
<1>13. SwappedLabels(L, old, D, M)
  BY <1>7, <1>9, <1>10, <1>12, SwapsCommute
<1>14. /\ M \in Seq(Labels \cup {Skip}) /\ Len(M) = z
       /\ \A i \in 1..z :
            M[i] = IF i \in D THEN IF old[i] # i /\ old[i] <= z THEN L[old[i]] ELSE Skip
                   ELSE IF \E x \in D : old[x] = i THEN Skip ELSE L[i]
  BY <1>11, <1>13 DEF SwappedLabels
<1>15. \A j \in 1..n : /\ From(up, j) \in 1..N /\ g.labels[j] = f.labels[From(up, j)]
                       /\ OnCopyAt(g, C, j) <=> OnCopyAt(f, C, From(up, j))
  BY <1>4, <1>5 DEF Follows, OnCopyAt
<1>16. D \subseteq 1..N
  BY <1>2, <1>5 DEF Holding
<1>17. ASSUME NEW i \in 1..z
       PROVE  M[i] = IF i <= n /\ OnCopyAt(g, C, i) THEN g.labels[i] ELSE Skip
  <2>1. CASE i <= n /\ i \in D
    <3>1. i \in 1..n /\ i \in DOMAIN up
      BY <1>7, <2>1
    <3>2. PICK x \in (n + 1)..N : x = From(up, i) /\ x = old[i]
      BY <1>7, <1>8, <2>1, <3>1
    <3>3. M[i] = IF x <= z THEN L[x] ELSE Skip
      BY <1>14, <2>1, <3>2
    <3>4. x \in 1..N /\ (x <= z => x \in 1..z)
      BY <1>5, <1>11, <3>2
    <3>5. x <= z => L[x] = IF OnCopyAt(f, C, x) THEN f.labels[x] ELSE Skip
      BY <1>10, <1>11, <3>4
    <3>6. OnCopyAt(f, C, x) => x <= z
      BY <1>10, <1>11, <3>4
    <3>7. g.labels[i] = f.labels[x] /\ (OnCopyAt(g, C, i) <=> OnCopyAt(f, C, x))
      BY <1>15, <3>1, <3>2
    <3>8. QED
      BY <2>1, <3>3, <3>5, <3>6, <3>7
  <2>2. CASE i <= n /\ ~ (i \in D)
    <3>1. ~ (i \in DOMAIN up) /\ i \in 1..n
      BY <1>7, <2>2
    <3>2. From(up, i) = i
      BY <3>1 DEF From
    <3>3. ~ \E x \in D : old[x] = i
      <4>1. SUFFICES ASSUME NEW x \in D, old[x] = i PROVE FALSE
        OBVIOUS
      <4>2. CASE x \in DOMAIN up
        BY <1>7, <1>8, <2>2, <4>1, <4>2
      <4>3. CASE ~ (x \in DOMAIN up)
        <5>1. old[x] = x
          BY <1>8, <4>3 DEF From
        <5>2. QED
          BY <2>2, <4>1, <5>1
      <4>4. QED
        BY <4>2, <4>3
    <3>4. M[i] = L[i]
      BY <1>14, <2>2, <3>3
    <3>5. i <= N /\ L[i] = IF OnCopyAt(f, C, i) THEN f.labels[i] ELSE Skip
      BY <1>10, <1>11, <1>5, <3>1
    <3>6. g.labels[i] = f.labels[i] /\ (OnCopyAt(g, C, i) <=> OnCopyAt(f, C, i))
      BY <1>15, <3>1, <3>2
    <3>7. QED
      BY <2>2, <3>4, <3>5, <3>6
  <2>3. CASE ~ (i <= n)
    <3>1. M[i] = Skip
      <4>1. CASE i \in D
        <5>1. ~ (i \in DOMAIN up)
          BY <1>7, <2>3
        <5>2. old[i] = i
          BY <1>8, <4>1, <5>1 DEF From
        <5>3. QED
          BY <1>14, <4>1, <5>2
      <4>2. CASE ~ (i \in D) /\ i <= N
        <5>1. i \in (n + 1)..N
          BY <2>3, <4>2
        <5>2. PICK y \in DOMAIN up : From(up, y) = i
          BY <1>7, <4>2, <5>1
        <5>3. y \in D /\ old[y] = i
          BY <1>7, <1>8, <5>2
        <5>4. QED
          BY <1>14, <4>2, <5>3
      <4>3. CASE ~ (i <= N)
        <5>1. ~ (i \in D) /\ L[i] = Skip
          BY <1>10, <1>11, <1>16, <4>3
        <5>2. QED
          BY <1>14, <5>1
      <4>4. QED
        BY <4>1, <4>2, <4>3
    <3>2. QED
      BY <2>3, <3>1
  <2>4. QED
    BY <2>1, <2>2, <2>3
<1>18. ASSUME NEW i \in 1..n, OnCopyAt(g, C, i) PROVE i <= z
  <2>1. PICK x \in 1..N : x = From(up, i) /\ OnCopyAt(f, C, x)
    BY <1>15, <1>18
  <2>2. x <= z
    BY <1>10, <1>11, <2>1
  <2>3. i <= x
    <3>1. CASE i \in DOMAIN up
      BY <1>7, <2>1, <3>1
    <3>2. CASE ~ (i \in DOMAIN up)
      BY <2>1, <3>2 DEF From
    <3>3. QED
      BY <3>1, <3>2
  <2>4. QED
    BY <2>1, <2>2, <2>3
<1>19. Tracks(M, g, C)
  BY <1>5, <1>14, <1>17, <1>18, TracksFacts
<1>20. sw \in Seq(SwapRecord)
  BY <1>9 DEF SwapsAlong
<1>21. QED
  BY <1>3, <1>12, <1>19, <1>20

-----------------------------------------------------------------------------
(* The clean-up.                                                            *)

LEMMA RemovalRun ==
  ASSUME NEW f, NEW L, Len(L) \in Nat
  PROVE  /\ RemovalRounds(f, L)[0] = f
         /\ \A k \in 1..Len(L) :
              RemovalRounds(f, L)[k] = RemoveMoved(RemovalRounds(f, L)[k - 1], L, Len(L) + 1 - k)
<1>1. PICK n \in Nat : n = Len(L)
  OBVIOUS
<1> DEFINE Run(t, m) == t = [k \in 0..m |-> IF k = 0 THEN f
                                            ELSE RemoveMoved(t[k - 1], L, n + 1 - k)]
           T == {m \in Nat : \E t : Run(t, m)}
<1>2. 0 \in T
  <2>1. Run([k \in 0..0 |-> f], 0)
    OBVIOUS
  <2>2. QED
    BY <2>1
<1>3. ASSUME NEW m \in 1..n, m - 1 \in T PROVE m \in T
  <2>1. PICK t : Run(t, m - 1)
    BY <1>3
  <2>2. PICK u : u = [k \in 0..m |-> IF k = m THEN RemoveMoved(t[m - 1], L, n + 1 - m) ELSE t[k]]
    OBVIOUS
  <2>3. ASSUME NEW k \in 0..m
        PROVE  u[k] = IF k = 0 THEN f ELSE RemoveMoved(u[k - 1], L, n + 1 - k)
    <3>1. CASE k = m
      BY <2>2, <3>1
    <3>2. CASE k # m
      <4>1. k \in 0..(m - 1) /\ u[k] = t[k] /\ (k # 0 => u[k - 1] = t[k - 1])
        BY <2>2, <3>2
      <4>2. QED
        BY <2>1, <4>1
    <3>3. QED
      BY <3>1, <3>2
  <2>4. Run(u, m)
    BY <2>2, <2>3
  <2>5. m \in Nat
    OBVIOUS
  <2>6. QED
    BY <2>4, <2>5
<1>4. \E t : Run(t, n)
  <2> HIDE DEF Run
  <2>1. 0..n \subseteq T
    BY <1>1, <1>2, <1>3, UpToInduction
  <2>2. QED
    BY <1>1, <2>1
<1>5. PICK a : a = CHOOSE t : Run(t, n)
  OBVIOUS
<1>6. Run(a, n)
  BY <1>4, <1>5
<1>7. RemovalRounds(f, L) = a
  BY <1>1, <1>5 DEF RemovalRounds
<1>8. ASSUME NEW k \in 0..n
      PROVE  a[k] = IF k = 0 THEN f ELSE RemoveMoved(a[k - 1], L, n + 1 - k)
  BY <1>6
<1>9. QED
  BY <1>1, <1>7, <1>8

\* deleteVectorById of both kinds takes out the one vector.
LEMMA RemovesOne ==
  ASSUME multi \in BOOLEAN, NEW f, FlatOK(Numbers, f), NEW l \in Labels,
         NEW id \in 1..Count(f), f.labels[id] = l
  PROVE  /\ FlatOK(Numbers, DeleteVectorById(f, l, id))
         /\ Removed(f, DeleteVectorById(f, l, id), id)
<1>1. CASE multi
  BY <1>1, DeleteByIdDeletes
<1>2. CASE ~ multi
  <2>1. id \in Holding(f, l)
    BY DEF Holding
  <2>2. IsLabelExists(f, l)
    BY <2>1, LabelHasVector
  <2>3. /\ Deleted(Numbers, f, l, DeleteSingle(f, l))
        /\ \A i \in Holding(f, l) : Removed(f, DeleteSingle(f, l).flat, i)
    BY <1>2, <2>2, DeleteSingleDeletes
  <2>4. DeleteVectorById(f, l, id) = DeleteSingle(f, l).flat
    BY <1>2, <2>2, Zenon DEF DeleteVectorById
  <2>5. QED
    BY <2>1, <2>3, <2>4 DEF Deleted
<1>3. QED
  BY <1>1, <1>2

\* After k rounds what was copied is left in g at the positions up to b only.
Leaves(L, f, C, b, g) ==
  /\ FlatOK(Numbers, g) /\ Count(g) <= Count(f)
  /\ \A i \in 1..b : L[i] = IF i <= Count(g) /\ OnCopyAt(g, C, i) THEN g.labels[i] ELSE Skip
  /\ \A i \in 1..Count(g) : OnCopyAt(g, C, i) => i <= b
  /\ \A k \in Labels : \A x : /\ x \in VectorsOf(g, k) => x \in VectorsOf(f, k)
                              /\ x \in VectorsOf(f, k) /\ ~ (x \in C[k]) => x \in VectorsOf(g, k)

LEMMA RoundRemoves ==
  ASSUME multi \in BOOLEAN, NEW L, NEW f, Count(f) \in Nat, NEW C, NEW b \in Nat \ {0}, NEW g,
         Leaves(L, f, C, b, g)
  PROVE  Leaves(L, f, C, b - 1, RemoveMoved(g, L, b))
<1>1. g \in FlatOf(Numbers) /\ FlatOK(Numbers, g)
  BY DEF Leaves, FlatOK
<1>2. PICK n \in Nat : n = Count(g)
  BY <1>1, FlatFacts
<1>3. /\ \A i \in 1..b : L[i] = IF i <= n /\ OnCopyAt(g, C, i) THEN g.labels[i] ELSE Skip
      /\ \A i \in 1..n : OnCopyAt(g, C, i) => i <= b
      /\ n <= Count(f)
  BY <1>2 DEF Leaves
<1>4. \A k \in Labels : \A x :
         /\ x \in VectorsOf(g, k) => x \in VectorsOf(f, k)
         /\ x \in VectorsOf(f, k) /\ ~ (x \in C[k]) => x \in VectorsOf(g, k)
  BY DEF Leaves
<1>5. \A i \in 1..n : g.labels[i] \in Labels
  BY <1>1, <1>2, FlatFacts
<1>6. b \in 1..b
  OBVIOUS
<1>7. CASE L[b] = Skip
  <2>1. RemoveMoved(g, L, b) = g
    BY <1>7 DEF RemoveMoved
  <2>2. ~ (b <= n /\ OnCopyAt(g, C, b))
    <3>1. ASSUME b <= n /\ OnCopyAt(g, C, b) PROVE FALSE
      <4>1. L[b] = g.labels[b] /\ b \in 1..n
        BY <1>3, <1>6, <3>1
      <4>2. QED
        BY <1>5, <1>7, <4>1, SkipAssumption
    <3>2. QED
      BY <3>1
  <2>3. \A i \in 1..n : OnCopyAt(g, C, i) => i <= b - 1
    BY <1>3, <2>2
  <2>4. \A i \in 1..(b - 1) : L[i] = IF i <= n /\ OnCopyAt(g, C, i) THEN g.labels[i] ELSE Skip
    BY <1>3
  <2>5. Leaves(L, f, C, b - 1, g)
    BY <1>1, <1>2, <1>3, <1>4, <2>3, <2>4 DEF Leaves
  <2>6. QED
    BY <2>1, <2>5
<1>8. CASE L[b] # Skip
  <2>1. b \in 1..n /\ OnCopyAt(g, C, b) /\ L[b] = g.labels[b]
    BY <1>3, <1>6, <1>8
  <2>2. PICK l \in Labels : l = L[b] /\ l = g.labels[b]
    BY <1>5, <2>1
  <2>3. PICK h : h = DeleteVectorById(g, l, b)
    OBVIOUS
  <2>4. RemoveMoved(g, L, b) = h
    BY <1>8, <2>2, <2>3 DEF RemoveMoved
  <2>5. FlatOK(Numbers, h) /\ Removed(g, h, b)
    BY <1>1, <1>2, <2>1, <2>2, <2>3, RemovesOne
  <2>6. h \in FlatOf(Numbers)
    BY <2>5 DEF FlatOK
  <2>7. /\ Count(h) = n - 1
        /\ \A j \in 1..(n - 1) : /\ h.labels[j] = g.labels[IF j = b THEN n ELSE j]
                                 /\ h.vectors[j] = g.vectors[IF j = b THEN n ELSE j]
    BY <1>2, <2>5 DEF Removed, Before
  <2>8. \A j \in 1..(n - 1) : OnCopyAt(h, C, j) <=> OnCopyAt(g, C, IF j = b THEN n ELSE j)
    BY <2>7 DEF OnCopyAt
  <2>9. ASSUME NEW i \in 1..(b - 1)
        PROVE  L[i] = IF i <= n - 1 /\ OnCopyAt(h, C, i) THEN h.labels[i] ELSE Skip
    <3>1. i \in 1..b /\ i <= n /\ i <= n - 1 /\ i \in 1..(n - 1) /\ i # b
      BY <2>1
    <3>2. L[i] = IF OnCopyAt(g, C, i) THEN g.labels[i] ELSE Skip
      BY <1>3, <3>1
    <3>3. h.labels[i] = g.labels[i] /\ (OnCopyAt(h, C, i) <=> OnCopyAt(g, C, i))
      BY <2>7, <2>8, <3>1
    <3>4. QED
      BY <3>1, <3>2, <3>3
  <2>10. ASSUME NEW i \in 1..(n - 1), OnCopyAt(h, C, i) PROVE i <= b - 1
    <3>1. CASE i = b
      <4>1. OnCopyAt(g, C, n) /\ n \in 1..n
        BY <2>1, <2>8, <2>10, <3>1
      <4>2. n <= b
        BY <1>3, <4>1
      <4>3. QED
        BY <3>1, <4>2
    <3>2. CASE i # b
      <4>1. OnCopyAt(g, C, i) /\ i \in 1..n
        BY <2>8, <2>10, <3>2
      <4>2. QED
        BY <1>3, <3>2, <4>1
    <3>3. QED
      BY <3>1, <3>2
  <2>11. \A k, x : /\ x \in VectorsOf(h, k) => x \in VectorsOf(g, k)
                   /\ x \in VectorsOf(g, k) /\ x # g.vectors[b] => x \in VectorsOf(h, k)
    BY <1>1, <1>2, <2>1, <2>5, <2>6, RemovedVectors
  <2>12. ASSUME NEW k \in Labels, NEW x
         PROVE  /\ x \in VectorsOf(h, k) => x \in VectorsOf(f, k)
                /\ x \in VectorsOf(f, k) /\ ~ (x \in C[k]) => x \in VectorsOf(h, k)
    <3>1. x \in VectorsOf(h, k) => x \in VectorsOf(f, k)
      BY <1>4, <2>11
    <3>2. ASSUME x \in VectorsOf(f, k), ~ (x \in C[k]) PROVE x \in VectorsOf(h, k)
      <4>1. x \in VectorsOf(g, k)
        BY <1>4, <3>2
      <4>2. PICK i \in 1..n : g.labels[i] = k /\ g.vectors[i] = x
        BY <1>1, <1>2, <4>1, VectorsHeld
      <4>3. i # b
        BY <2>1, <3>2, <4>2 DEF OnCopyAt
      <4>4. PICK j \in 1..(n - 1) : (IF j = b THEN n ELSE j) = i
        <5>1. CASE i = n
          <6>1. b \in 1..(n - 1)
            BY <2>1, <4>3, <5>1
          <6>2. QED
            BY <5>1, <6>1
        <5>2. CASE i # n
          <6>1. i \in 1..(n - 1)
            BY <5>2
          <6>2. QED
            BY <4>3, <6>1
        <5>3. QED
          BY <5>1, <5>2
      <4>5. h.labels[j] = k /\ h.vectors[j] = x
        BY <2>7, <4>2, <4>4
      <4>6. QED
        BY <2>6, <2>7, <4>5, VectorsHeld
    <3>3. QED
      BY <3>1, <3>2
  <2>13. Count(h) <= Count(f)
    BY <1>2, <1>3, <2>7
  <2>14. Leaves(L, f, C, b - 1, h)
    BY <2>5, <2>7, <2>9, <2>10, <2>12, <2>13 DEF Leaves
  <2>15. QED
    BY <2>4, <2>14
<1>9. QED
  BY <1>7, <1>8

\* The clean-up removes exactly what was copied.
LEMMA CleanUpRemoves ==
  ASSUME multi \in BOOLEAN, NEW f, FlatOK(Numbers, f), NEW C, NEW L, Tracks(L, f, C),
         NEW g, g = RemovalRounds(f, L)[Len(L)]
  PROVE  /\ FlatOK(Numbers, g) /\ Count(g) <= Count(f)
         /\ \A k \in Labels : VectorsOf(g, k) = VectorsOf(f, k) \ C[k]
<1>1. f \in FlatOf(Numbers)
  BY DEF FlatOK
<1>2. PICK n \in Nat : n = Count(f) /\ Count(f) \in Nat
  BY <1>1, FlatFacts
<1>3. PICK m \in Nat : m = Len(L)
  BY LenProperties DEF Tracks
<1>4. PICK A : A = RemovalRounds(f, L)
  OBVIOUS
<1>5. A[0] = f /\ \A k \in 1..m : A[k] = RemoveMoved(A[k - 1], L, m + 1 - k)
  BY <1>3, <1>4, RemovalRun
<1> DEFINE T == {k \in 0..m : Leaves(L, f, C, m - k, A[k])}
<1>6. 0 \in T
  <2>1. Leaves(L, f, C, m, f)
    <3>1. /\ \A i \in 1..m : L[i] = IF i <= n /\ OnCopyAt(f, C, i) THEN f.labels[i] ELSE Skip
          /\ \A i \in 1..n : OnCopyAt(f, C, i) => i <= m
      BY <1>2, <1>3, TracksFacts
    <3>2. QED
      BY <1>2, <3>1 DEF Leaves
  <2>2. m - 0 = m
    OBVIOUS
  <2>3. QED
    BY <1>5, <2>1, <2>2
<1>7. ASSUME NEW k \in 1..m, k - 1 \in T PROVE k \in T
  <2>1. PICK b \in Nat \ {0} : b = m + 1 - k /\ b = m - (k - 1) /\ b - 1 = m - k
    OBVIOUS
  <2>2. Leaves(L, f, C, b, A[k - 1])
    BY <1>7, <2>1
  <2>3. Leaves(L, f, C, b - 1, RemoveMoved(A[k - 1], L, b))
    BY <1>2, <2>2, RoundRemoves
  <2>4. A[k] = RemoveMoved(A[k - 1], L, b)
    BY <1>5, <2>1
  <2>5. QED
    BY <2>1, <2>3, <2>4
<1>8. Leaves(L, f, C, 0, g)
  <2>1. 0..m \subseteq T
    <3> HIDE DEF T
    <3>1. QED
      BY <1>6, <1>7, UpToInduction
  <2>2. m - m = 0 /\ m \in 0..m
    OBVIOUS
  <2>3. Leaves(L, f, C, m - m, A[m])
    BY <2>1, <2>2
  <2>4. QED
    BY <1>3, <1>4, <2>2, <2>3
<1>9. g \in FlatOf(Numbers)
  BY <1>8 DEF Leaves, FlatOK
<1>10. PICK c \in Nat : c = Count(g)
  BY <1>9, FlatFacts
<1>11. \A i \in 1..c : ~ OnCopyAt(g, C, i)
  <2>1. \A i \in 1..c : OnCopyAt(g, C, i) => i <= 0
    BY <1>8, <1>10 DEF Leaves
  <2>2. QED
    BY <2>1
<1>12. ASSUME NEW k \in Labels PROVE VectorsOf(g, k) = VectorsOf(f, k) \ C[k]
  <2>1. \A x : /\ x \in VectorsOf(g, k) => x \in VectorsOf(f, k)
               /\ x \in VectorsOf(f, k) /\ ~ (x \in C[k]) => x \in VectorsOf(g, k)
    BY <1>8 DEF Leaves
  <2>2. ASSUME NEW x \in VectorsOf(g, k) PROVE ~ (x \in C[k])
    <3>1. PICK i \in 1..c : g.labels[i] = k /\ g.vectors[i] = x
      BY <1>9, <1>10, <2>2, VectorsHeld
    <3>2. QED
      BY <1>11, <3>1 DEF OnCopyAt
  <2>3. QED
    BY <2>1, <2>2
<1>13. QED
  BY <1>8, <1>12 DEF Leaves

-----------------------------------------------------------------------------
(* One label, step by step.                                                 *)

Phases == {"idle", "copy", "prepare", "set_impl", "add_vectors", "clean", "delete"}

ViewRecord ==
  [kind : {"multi", "single"}, call : {"add", "delete", "delete_svs", "none"}, phase : Phases,
   added : Nat, expected : SUBSET Numbers, buffer : SUBSET Numbers, svs : SUBSET Numbers,
   copy : SUBSET Numbers, fate : {"dropped", "kept"}, newest : {"exposed", "safe"}]

\* What is always so of a label, whatever the calls do.
ViewOK(q) ==
  /\ q \in ViewRecord
  /\ ~ (q.phase \in CopyPhases) => q.copy = {}
  /\ ~ (q.phase \in CopyPhases) /\ q.phase # "delete" => q.fate = "kept"
  /\ q.kind = "single" => \A x, y \in q.buffer : x = y

LEMMA LabelStartsAdd ==
  ASSUME NEW q, ViewOK(q), LabelOK(q), q.call = "none"
  PROVE  LabelOK([q EXCEPT !.call = "add", !.added = q.added + 1,
                           !.expected = IF q.kind = "multi" THEN q.expected \cup {q.added + 1}
                                        ELSE {q.added + 1}])
BY DEF ViewOK, ViewRecord, LabelOK, NumbersOK, ExposedOK, NothingLost, NothingElse, Arrived, CopyPhases, Numbers

LEMMA LabelStartsDelete ==
  ASSUME NEW q, ViewOK(q), LabelOK(q), q.call = "none"
  PROVE  LabelOK([q EXCEPT !.call = "delete", !.expected = {}])
BY DEF ViewOK, ViewRecord, LabelOK, NumbersOK, ExposedOK, NothingLost, NothingElse, Arrived, CopyPhases, Numbers

LEMMA LabelLeavesSVSForAdd ==
  ASSUME NEW q, ViewOK(q), LabelOK(q), q.call = "add", q.kind = "single"
  PROVE  LabelOK([q EXCEPT !.svs = {}])
BY DEF ViewOK, ViewRecord, LabelOK, NumbersOK, ExposedOK, NothingLost, NothingElse, Arrived, CopyPhases, Numbers

LEMMA LabelIsAppended ==
  ASSUME NEW q, ViewOK(q), LabelOK(q), q.call = "add", q.kind = "multi" \/ q.buffer = {}
  PROVE  LabelOK([q EXCEPT !.call = "none", !.buffer = q.buffer \cup {q.added}, !.newest = "safe"])
BY DEF ViewOK, ViewRecord, LabelOK, NumbersOK, ExposedOK, NothingLost, NothingElse, Arrived, CopyPhases, Numbers

LEMMA LabelIsOverwritten ==
  ASSUME NEW q, ViewOK(q), LabelOK(q), q.call = "add", q.kind = "single", q.buffer # {}
  PROVE  LabelOK([q EXCEPT !.call = "none", !.buffer = {q.added}, !.newest = "safe",
                           !.fate = IF q.phase \in CopyPhases THEN "dropped" ELSE q.fate])
BY DEF ViewOK, ViewRecord, LabelOK, NumbersOK, ExposedOK, NothingLost, NothingElse, Arrived, CopyPhases, Numbers

\* In place and while the update has a copy: what it will remove is the newer vector,
\* or neither of the two.
LEMMA LabelIsOverwrittenInPlace ==
  ASSUME NEW q, ViewOK(q), LabelOK(q), q.call = "add", q.kind = "single", q.buffer # {},
         q.phase \in CopyPhases
  PROVE  LabelOK([q EXCEPT !.call = "none", !.buffer = {q.added},
                           !.newest = IF q.newest = "exposed" \/ q.buffer \subseteq q.copy
                                      THEN "exposed" ELSE "safe"])
BY DEF ViewOK, ViewRecord, LabelOK, NumbersOK, ExposedOK, NothingLost, NothingElse, Arrived, CopyPhases, Numbers

LEMMA LabelNotInBuffer ==
  ASSUME NEW q, ViewOK(q), LabelOK(q), q.call = "delete", q.buffer = {}
  PROVE  LabelOK([q EXCEPT !.call = "delete_svs"])
BY DEF ViewOK, ViewRecord, LabelOK, NumbersOK, ExposedOK, NothingLost, NothingElse, Arrived, CopyPhases, Numbers

LEMMA LabelLeavesBuffer ==
  ASSUME NEW q, ViewOK(q), LabelOK(q), q.call = "delete"
  PROVE  LabelOK([q EXCEPT !.call = "delete_svs", !.buffer = {},
                           !.fate = IF q.phase \in CopyPhases THEN "dropped" ELSE q.fate])
BY DEF ViewOK, ViewRecord, LabelOK, NumbersOK, ExposedOK, NothingLost, NothingElse, Arrived, CopyPhases, Numbers

LEMMA LabelLeavesSVS ==
  ASSUME NEW q, ViewOK(q), LabelOK(q), q.call = "delete_svs"
  PROVE  LabelOK([q EXCEPT !.call = "none", !.svs = {}, !.newest = "safe"])
BY DEF ViewOK, ViewRecord, LabelOK, NumbersOK, ExposedOK, NothingLost, NothingElse, Arrived, CopyPhases, Numbers

LEMMA LabelGoesToSVS ==
  ASSUME NEW q, ViewOK(q), LabelOK(q), q.call = "add", q.phase = "idle"
  PROVE  LabelOK([q EXCEPT !.call = "none",
                           !.svs = IF q.kind = "multi" THEN q.svs \cup {q.added} ELSE {q.added},
                           !.newest = IF q.kind = "single" /\ q.buffer # {} THEN "exposed"
                                      ELSE "safe"])
BY DEF ViewOK, ViewRecord, LabelOK, NumbersOK, ExposedOK, NothingLost, NothingElse, Arrived, CopyPhases, Numbers

LEMMA LabelWaits ==
  ASSUME NEW q, ViewOK(q), LabelOK(q), q.phase = "idle"
  PROVE  LabelOK([q EXCEPT !.phase = "copy"])
BY DEF ViewOK, ViewRecord, LabelOK, NumbersOK, ExposedOK, NothingLost, NothingElse, Arrived, CopyPhases, Numbers

LEMMA LabelIsCopied ==
  ASSUME NEW q, ViewOK(q), LabelOK(q), q.phase = "copy",
         NEW p \in {"prepare", "clean"}, p = "clean" => q.buffer = {}
  PROVE  LabelOK([q EXCEPT !.phase = p, !.copy = q.buffer])
BY DEF ViewOK, ViewRecord, LabelOK, NumbersOK, ExposedOK, NothingLost, NothingElse, Arrived, CopyPhases, Numbers

LEMMA LabelIsPrepared ==
  ASSUME NEW q, ViewOK(q), LabelOK(q), q.phase = "prepare", NEW p \in {"set_impl", "add_vectors"}
  PROVE  LabelOK([q EXCEPT !.phase = p])
BY DEF ViewOK, ViewRecord, LabelOK, NumbersOK, ExposedOK, NothingLost, NothingElse, Arrived, CopyPhases, Numbers

LEMMA LabelIsBuilt ==
  ASSUME NEW q, ViewOK(q), LabelOK(q), q.phase = "set_impl", q.svs = {}
  PROVE  LabelOK([q EXCEPT !.phase = "clean", !.svs = q.copy])
BY DEF ViewOK, ViewRecord, LabelOK, NumbersOK, ExposedOK, NothingLost, NothingElse, Arrived, CopyPhases, Numbers

LEMMA LabelIsAdded ==
  ASSUME NEW q, ViewOK(q), LabelOK(q), q.phase = "add_vectors"
  PROVE  LabelOK([q EXCEPT !.phase = "clean",
                           !.svs = IF q.kind = "multi" THEN q.svs \cup q.copy
                                   ELSE IF q.copy = {} THEN q.svs ELSE q.copy])
BY DEF ViewOK, ViewRecord, LabelOK, NumbersOK, ExposedOK, NothingLost, NothingElse, Arrived, CopyPhases, Numbers

LEMMA LabelIsCleaned ==
  ASSUME NEW q, ViewOK(q), LabelOK(q), q.phase = "clean"
  PROVE  LabelOK([q EXCEPT !.phase = "delete", !.copy = {},
                           !.buffer = IF q.newest = "exposed" THEN {} ELSE q.buffer \ q.copy])
BY DEF ViewOK, ViewRecord, LabelOK, NumbersOK, ExposedOK, NothingLost, NothingElse, Arrived, CopyPhases, Numbers

LEMMA LabelIsDropped ==
  ASSUME NEW q, ViewOK(q), LabelOK(q), q.phase = "delete"
  PROVE  LabelOK([q EXCEPT !.phase = "idle", !.fate = "kept",
                           !.svs = IF q.fate = "dropped" THEN {} ELSE q.svs])
BY DEF ViewOK, ViewRecord, LabelOK, NumbersOK, ExposedOK, NothingLost, NothingElse, Arrived, CopyPhases, Numbers
-----------------------------------------------------------------------------
(* From the variables to the labels.                                        *)

\* The points of the main thread at which it serves a label.
LabelPoints == AddPoints \cup DeletePoints \cup DeleteSVSPoints

LEMMA MainFacts ==
  ASSUME VariablesInv
  PROVE  /\ main.pc \in LabelPoints => main = [pc |-> main.pc, label |-> main.label] /\ main.label \in Labels
         /\ main = Idle <=> main.pc = "idle"
         /\ main.pc = "add_threshold" => main.size \in Nat
         /\ main.pc \in LabelPoints \cup {"idle", "add_threshold", "schedule", "update", "updating"}
<1>1. main \in MainType
  BY DEF VariablesInv
<1>2. CASE main = Idle
  BY <1>2 DEF Idle, LabelPoints, AddPoints, DeletePoints, DeleteSVSPoints
<1>3. CASE main \in [pc : LabelPoints, label : Labels]
  BY <1>3 DEF Idle, LabelPoints, AddPoints, DeletePoints, DeleteSVSPoints
<1>4. CASE main \in [pc : {"add_threshold"}, size : Nat]
  BY <1>4 DEF Idle, LabelPoints, AddPoints, DeletePoints, DeleteSVSPoints
<1>5. CASE main \in [pc : {"schedule", "update", "updating"}]
  BY <1>5 DEF Idle, LabelPoints, AddPoints, DeletePoints, DeleteSVSPoints
<1>6. QED
  BY <1>1, <1>2, <1>3, <1>4, <1>5 DEF MainType, LabelPoints

LEMMA UpdateFacts ==
  ASSUME VariablesInv
  PROVE  /\ update.pc \in Phases
         /\ update = Idle <=> update.pc = "idle"
         /\ update.pc = "copy" => update = [pc |-> "copy", byMain |-> update.byMain]
         /\ HasCopy =>
              /\ update = [pc |-> update.pc, byMain |-> update.byMain,
                           labels |-> update.labels, vectors |-> update.vectors]
              /\ update.labels \in Seq(Labels) /\ update.vectors \in Seq(Numbers)
         /\ update.pc = "delete" =>
              /\ update = [pc |-> "delete", byMain |-> update.byMain, labels |-> update.labels]
              /\ update.labels \in SUBSET Labels
         /\ update # Idle => update.byMain \in BOOLEAN
<1>1. update \in UpdateType
  BY DEF VariablesInv
<1>2. CASE update = Idle
  BY <1>2 DEF Idle, Phases, HasCopy, CopyPhases
<1>3. CASE update \in [pc : {"copy"}, byMain : BOOLEAN]
  BY <1>3 DEF Idle, Phases, HasCopy, CopyPhases
<1>4. CASE update \in [pc : CopyPhases, byMain : BOOLEAN, labels : Seq(Labels), vectors : Seq(Numbers)]
  BY <1>4 DEF Idle, Phases, HasCopy, CopyPhases
<1>5. CASE update \in [pc : {"delete"}, byMain : BOOLEAN, labels : SUBSET Labels]
  BY <1>5 DEF Idle, Phases, HasCopy, CopyPhases
<1>6. QED
  BY <1>1, <1>2, <1>3, <1>4, <1>5 DEF UpdateType

LEMMA CopiedFacts ==
  ASSUME VariablesInv, HasCopy, NEW l
  PROVE  Copied(l) \subseteq Numbers
<1>1. /\ update.labels \in Seq(Labels) /\ update.vectors \in Seq(Numbers)
      /\ Len(update.labels) = Len(update.vectors)
  BY UpdateFacts DEF VariablesInv
<1>2. DOMAIN update.labels = 1..Len(update.vectors)
  BY <1>1, LenProperties
<1>3. \A i \in DOMAIN update.labels : update.vectors[i] \in Numbers
  BY <1>1, <1>2, ElementOfSeq
<1>4. QED
  BY <1>3 DEF Copied, VectorsOf

\* A label is as ViewOK says.
LEMMA ViewTyped ==
  ASSUME VariablesInv, FlatOK(Numbers, flat), NEW l \in Labels
  PROVE  ViewOK(View(l))
<1>1. Kind \in {"multi", "single"} /\ (Kind = "single" <=> ~ multi)
  <2>1. multi \in BOOLEAN
    BY DEF VariablesInv
  <2>2. CASE multi
    BY <2>2 DEF Kind
  <2>3. CASE ~ multi
    BY <2>3 DEF Kind
  <2>4. QED
    BY <2>1, <2>2, <2>3
<1>2. Call(l) \in {"add", "delete", "delete_svs", "none"}
  BY DEF Call
<1>3. update.pc \in Phases
  BY UpdateFacts
<1>4. added[l] \in Nat /\ expected[l] \in SUBSET Numbers /\ svs[l] \in SUBSET Numbers
  BY DEF VariablesInv
<1>5. flat \in FlatOf(Numbers)
  BY DEF FlatOK
<1>6. FlatVectors(l) \in SUBSET Numbers
  BY <1>5, VectorsHeld DEF FlatVectors
<1>7. CopyOf(l) \in SUBSET Numbers /\ (~ HasCopy => CopyOf(l) = {})
  BY CopiedFacts DEF CopyOf
<1>8. Fate(l) \in {"dropped", "kept"} /\ (~ HasCopy /\ update.pc # "delete" => Fate(l) = "kept")
  BY DEF Fate, ToDelete
<1>9. ~ multi => \A x, y \in FlatVectors(l) : x = y
  <2>1. SUFFICES ASSUME ~ multi, NEW x \in FlatVectors(l), NEW y \in FlatVectors(l) PROVE x = y
    OBVIOUS
  <2>2. PICK i \in 1..Count(flat) : flat.labels[i] = l /\ flat.vectors[i] = x
    BY <1>5, <2>1, VectorsHeld DEF FlatVectors
  <2>3. PICK j \in 1..Count(flat) : flat.labels[j] = l /\ flat.vectors[j] = y
    BY <1>5, <2>1, VectorsHeld DEF FlatVectors
  <2>4. i \in Holding(flat, l) /\ j \in Holding(flat, l)
    BY <2>2, <2>3 DEF Holding
  <2>5. i = j
    BY <2>1, <2>4, LabelHasVector
  <2>6. QED
    BY <2>2, <2>3, <2>5
<1>10. View(l) \in ViewRecord
  BY <1>1, <1>2, <1>3, <1>4, <1>6, <1>7, <1>8 DEF View, ViewRecord, Newest
<1>11. QED
  BY <1>1, <1>7, <1>8, <1>9, <1>10 DEF ViewOK, View, HasCopy

\* What does not change with the variables that stay.
LEMMA CallStays ==
  ASSUME UNCHANGED main, NEW l
  PROVE  Call(l)' = Call(l)
BY DEF Call

LEMMA BufferStays ==
  ASSUME UNCHANGED flat, NEW l
  PROVE  FlatVectors(l)' = FlatVectors(l)
BY Zenon DEF FlatVectors, VectorsOf

LEMMA UpdateStays ==
  ASSUME UNCHANGED <<update, journal>>
  PROVE  /\ HasCopy' = HasCopy
         /\ \A l : Copied(l)' = Copied(l) /\ CopyOf(l)' = CopyOf(l) /\ Fate(l)' = Fate(l)
<1>1. update' = update /\ journal' = journal
  OBVIOUS
<1>2. HasCopy' = HasCopy
  BY <1>1 DEF HasCopy
<1>3. \A l : Copied(l)' = Copied(l)
  BY <1>1, Zenon DEF Copied, VectorsOf
<1>4. \A l : CopyOf(l)' = CopyOf(l)
  BY <1>2, <1>3 DEF CopyOf
<1>5. ToDelete' = ToDelete
  BY <1>1, <1>2 DEF ToDelete
<1>6. \A l : Fate(l)' = Fate(l)
  BY <1>5 DEF Fate
<1>7. QED
  BY <1>2, <1>3, <1>4, <1>6

\* No vector of the buffer is exposed or stops to be.
SameExposed == \A k \in Labels : (k \in exposed' <=> k \in exposed) \/ FlatVectors(k) = {}

LEMMA CopiesStay ==
  ASSUME UNCHANGED <<update, journal, flat>>, SameExposed
  PROVE  Copies' = Copies
<1>1. ASSUME NEW k \in Labels
      PROVE  (Copied(k) \cup IF k \in exposed THEN FlatVectors(k) ELSE {})'
             = Copied(k) \cup IF k \in exposed THEN FlatVectors(k) ELSE {}
  <2>1. FlatVectors(k)' = FlatVectors(k) /\ Copied(k)' = Copied(k)
    BY BufferStays, UpdateStays
  <2>2. QED
    BY <2>1 DEF SameExposed
<1>2. QED
  BY <1>1 DEF Copies

LEMMA JournalStays ==
  ASSUME JournalInv, UNCHANGED <<multi, update, journal, flat>>, HasCopy => SameExposed
  PROVE  JournalInv'
<1>1. update' = update /\ journal' = journal /\ flat' = flat /\ HasCopy' = HasCopy
  BY UpdateStays
<1>2. HasCopy => Copies' = Copies
  BY CopiesStay
<1>3. QED
  BY <1>1, <1>2, Zenon DEF JournalInv

LEMMA BufferStaysOK ==
  ASSUME BufferOK(flat), UNCHANGED <<multi, flat>>
  PROVE  BufferOK(flat)'
BY Zenon DEF BufferOK

-----------------------------------------------------------------------------
(* Steps of the main thread that leave buffer, journal and update alone.    *)

\* What such a step changes: nothing but mode, svs, queue, scheduled, main and the
\* bookkeeping of what is expected, and of a vector of the buffer, while there is a
\* copy, not whether it is exposed.
Aside == UNCHANGED <<multi, flat, journal, update>> /\ (HasCopy => SameExposed)

LEMMA AsideKeeps ==
  ASSUME SVSInv, Aside
  PROVE  /\ BufferOK(flat)' /\ JournalInv'
         /\ HasCopy' = HasCopy /\ Count(flat)' = Count(flat)
         /\ (HasCopy => AllCopied' = AllCopied) /\ Full' = Full
         /\ FlatOK(Numbers, flat)
         /\ \A l \in Labels : ViewOK(View(l)) /\ LabelOK(View(l))
<1>1. /\ multi' = multi /\ flat' = flat /\ journal' = journal /\ update' = update
      /\ HasCopy => SameExposed
  BY DEF Aside
<1>2. BufferOK(flat)' /\ JournalInv'
  BY <1>1, BufferStaysOK, JournalStays DEF SVSInv
<1>3. Count(flat)' = Count(flat)
  BY <1>1 DEF Count
<1>4. HasCopy => AllCopied' = AllCopied
  <2>1. \A l : FlatVectors(l)' = FlatVectors(l)
    BY <1>1, BufferStays
  <2>2. HasCopy => Copies' = Copies
    BY <1>1, CopiesStay
  <2>3. QED
    BY <2>1, <2>2, Zenon DEF AllCopied
<1>5. Full' = Full
  BY <1>3 DEF Full
<1>6. FlatOK(Numbers, flat)
  BY BufferIsFlat DEF SVSInv
<1>7. \A l \in Labels : ViewOK(View(l)) /\ LabelOK(View(l))
  BY <1>6, ViewTyped DEF SVSInv, LabelsInv
<1>8. QED
  BY <1>1, <1>2, <1>3, <1>4, <1>5, <1>6, <1>7, UpdateStays

\* A label that such a step does not touch.
LEMMA ViewStays ==
  ASSUME Aside, NEW l, Call(l)' = Call(l), added'[l] = added[l], expected'[l] = expected[l],
         svs'[l] = svs[l], Newest(l)' = Newest(l)
  PROVE  View(l)' = View(l)
<1>1. /\ Kind' = Kind /\ update'.pc = update.pc /\ FlatVectors(l)' = FlatVectors(l)
      /\ CopyOf(l)' = CopyOf(l) /\ Fate(l)' = Fate(l)
  BY UpdateStays, BufferStays DEF Kind, Aside
<1>2. QED
  BY <1>1 DEF View

LEMMA StartAddKeeps ==
  ASSUME SVSInv, NEW l \in Labels, StartAdd(l)
  PROVE  SVSInv'
<1>1. /\ main = Idle
      /\ calls' = calls + 1
      /\ added' = [added EXCEPT ![l] = @ + 1]
      /\ expected' = [expected EXCEPT ![l] = IF multi THEN @ \cup {added'[l]} ELSE {added'[l]}]
      /\ main' = [pc |-> IF mode = "inplace" THEN "add_inplace"
                         ELSE IF multi THEN "add_flat" ELSE "add_check_svs", label |-> l]
      /\ UNCHANGED <<mode, svs, queue, scheduled, exposed>>
      /\ Aside
  BY DEF StartAdd, Aside, SameExposed
<1>2. VariablesInv /\ MainInv /\ BuildInv /\ SchedulingInv
  BY DEF SVSInv
<1>3. main.pc = "idle" /\ main'.label = l
      /\ main'.pc = IF mode = "inplace" THEN "add_inplace" ELSE IF multi THEN "add_flat" ELSE "add_check_svs"
  BY <1>1 DEF Idle
<1>4. multi' = multi /\ update' = update /\ journal' = journal /\ flat' = flat
  BY <1>1 DEF Aside
<1>5. added[l] \in Nat /\ added'[l] = added[l] + 1 /\ \A k \in Labels : k # l => added'[k] = added[k]
  BY <1>1, <1>2 DEF VariablesInv
<1>6. /\ expected'[l] = IF multi THEN expected[l] \cup {added[l] + 1} ELSE {added[l] + 1}
      /\ \A k \in Labels : k # l => expected'[k] = expected[k]
  BY <1>1, <1>2, <1>5 DEF VariablesInv
<1>7. VariablesInv'
  <2>1. added' \in [Labels -> Nat] /\ expected' \in [Labels -> SUBSET Numbers]
    BY <1>1, <1>2, <1>5 DEF VariablesInv, Numbers
  <2>2. main' \in MainType
    BY <1>1 DEF MainType, AddPoints
  <2>3. HasCopy' => Len(update.labels)' = Len(update.vectors)'
    BY <1>2, <1>4 DEF VariablesInv, HasCopy
  <2>4. QED
    BY <1>1, <1>2, <1>4, <2>1, <2>2, <2>3 DEF VariablesInv
<1>8. MainInv'
  BY <1>1, <1>2, <1>3, <1>4 DEF MainInv, VariablesInv
<1>9. LabelsInv'
  <2>1. SUFFICES ASSUME NEW k \in Labels PROVE LabelOK(View(k))'
    BY DEF LabelsInv
  <2>2. Call(k) = "none" /\ Call(k)' = IF k = l THEN "add" ELSE "none"
    BY <1>3 DEF Call, AddPoints, DeletePoints, DeleteSVSPoints
  <2>3. CASE k # l
    <3>1. View(k)' = View(k)
      BY <1>1, <1>5, <1>6, <2>2, <2>3, ViewStays DEF Newest
    <3>2. LabelOK(View(k)')
      BY <1>1, <3>1, AsideKeeps
    <3>3. QED
      BY <3>2 DEF LabelOK, NumbersOK, ExposedOK, NothingLost, NothingElse, Arrived
  <2>4. CASE k = l
    <3>1. PICK q : q = View(l)
      OBVIOUS
    <3>2. PICK r : r = [q EXCEPT !.call = "add", !.added = q.added + 1,
                         !.expected = IF q.kind = "multi" THEN q.expected \cup {q.added + 1}
                                      ELSE {q.added + 1}]
      OBVIOUS
    <3>3. View(l)' = r
      <4>1. /\ Kind' = Kind /\ FlatVectors(l)' = FlatVectors(l)
            /\ CopyOf(l)' = CopyOf(l) /\ Fate(l)' = Fate(l)
        BY <1>4, UpdateStays, BufferStays DEF Kind
      <4>2. Kind = "multi" <=> multi
        BY DEF Kind
      <4>3. QED
        BY <1>1, <1>4, <1>5, <1>6, <2>2, <2>4, <3>1, <3>2, <4>1, <4>2 DEF View, Newest
    <3>4. LabelOK(r)
      <4>1. q.call = "none" /\ ViewOK(q) /\ LabelOK(q)
        BY <1>1, <2>2, <2>4, <3>1, AsideKeeps DEF View
      <4>2. QED
        BY <3>2, <4>1, LabelStartsAdd
    <3>5. QED
      BY <2>4, <3>3, <3>4 DEF LabelOK, NumbersOK, ExposedOK, NothingLost, NothingElse, Arrived
  <2>5. QED
    BY <2>3, <2>4
<1>10. BuildInv'
  <2>1. SVSIsEmpty' = SVSIsEmpty
    BY <1>1 DEF SVSIsEmpty
  <2>2. QED
    BY <1>1, <1>2, <1>3, <1>4, <2>1, AsideKeeps DEF BuildInv
<1>11. SchedulingInv'
  BY <1>1, <1>2, <1>3, <1>4, AsideKeeps DEF SchedulingInv, UpdateComes
<1>12. QED
  BY <1>1, <1>7, <1>8, <1>9, <1>10, <1>11, AsideKeeps DEF SVSInv

LEMMA AsideTypes ==
  ASSUME VariablesInv, Aside, exposed' \subseteq Labels,
         mode' \in {"async", "inplace"}, svs' \in [Labels -> SUBSET Numbers],
         expected' \in [Labels -> SUBSET Numbers], added' \in [Labels -> Nat], calls' \in Nat,
         queue' \in [update : Nat, gc : Nat], scheduled' \in [update : BOOLEAN, gc : BOOLEAN],
         main' \in MainType
  PROVE  VariablesInv'
<1>1. multi' = multi /\ update' = update /\ journal' = journal
  BY DEF Aside
<1>2. HasCopy' => Len(update.labels)' = Len(update.vectors)'
  BY <1>1 DEF VariablesInv, HasCopy
<1>3. QED
  BY <1>1, <1>2 DEF VariablesInv

LEMMA LabelsAfter ==
  ASSUME \A k \in Labels : LabelOK(View(k)')
  PROVE  LabelsInv'
BY DEF LabelsInv, LabelOK, NumbersOK, ExposedOK, NothingLost, NothingElse, Arrived

\* A step that serves one label.
LEMMA LabelStep ==
  ASSUME SVSInv, Aside, NEW l, LabelOK(View(l)'),
         \A k \in Labels : k # l => /\ Call(k)' = Call(k) /\ added'[k] = added[k]
                                    /\ expected'[k] = expected[k] /\ svs'[k] = svs[k]
                                    /\ (k \in exposed' <=> k \in exposed)
  PROVE  LabelsInv'
<1>1. ASSUME NEW k \in Labels, k # l PROVE LabelOK(View(k)')
  <2>1. View(k)' = View(k)
    BY <1>1, ViewStays DEF Newest
  <2>2. QED
    BY <2>1, AsideKeeps
<1>2. QED
  BY <1>1, LabelsAfter

LEMMA LabelsStay ==
  ASSUME SVSInv, Aside, UNCHANGED <<added, expected, svs, exposed>>,
         \A k \in Labels : Call(k)' = Call(k)
  PROVE  LabelsInv'
<1>1. ASSUME NEW k \in Labels PROVE LabelOK(View(k)')
  <2>1. View(k)' = View(k)
    BY ViewStays DEF Newest
  <2>2. QED
    BY <2>1, AsideKeeps
<1>2. QED
  BY <1>1, LabelsAfter

\* What is known of the label that is served.
LEMMA ServedLabel ==
  ASSUME SVSInv, main.pc \in LabelPoints
  PROVE  /\ main.label \in Labels
         /\ Call(main.label) = IF main.pc \in AddPoints THEN "add"
                               ELSE IF main.pc \in DeletePoints THEN "delete" ELSE "delete_svs"
         /\ \A k \in Labels : k # main.label => Call(k) = "none"
         /\ update = Idle \/ ~ update.byMain
<1>1. main.label \in Labels
  BY MainFacts DEF SVSInv
<1>2. /\ Call(main.label) = IF main.pc \in AddPoints THEN "add"
                            ELSE IF main.pc \in DeletePoints THEN "delete" ELSE "delete_svs"
      /\ \A k \in Labels : k # main.label => Call(k) = "none"
  BY DEF Call, LabelPoints, AddPoints, DeletePoints, DeleteSVSPoints
<1>3. main.pc # "updating"
  BY DEF LabelPoints, AddPoints, DeletePoints, DeleteSVSPoints
<1>4. QED
  BY <1>1, <1>2, <1>3 DEF SVSInv, MainInv

LEMMA StartDeleteKeeps ==
  ASSUME SVSInv, NEW l \in Labels, StartDelete(l)
  PROVE  SVSInv'
<1>1. /\ main = Idle
      /\ calls' = calls + 1
      /\ expected' = [expected EXCEPT ![l] = {}]
      /\ main' = [pc |-> "delete_check_flat", label |-> l]
      /\ UNCHANGED <<mode, svs, queue, scheduled, added, exposed>>
      /\ Aside
  BY DEF StartDelete, Aside, SameExposed
<1>2. VariablesInv /\ MainInv /\ BuildInv /\ SchedulingInv
  BY DEF SVSInv
<1>3. main.pc = "idle" /\ main'.label = l /\ main'.pc = "delete_check_flat"
  BY <1>1 DEF Idle
<1>4. multi' = multi /\ update' = update /\ journal' = journal /\ flat' = flat
  BY <1>1 DEF Aside
<1>5. expected'[l] = {} /\ \A k \in Labels : k # l => expected'[k] = expected[k]
  BY <1>1, <1>2 DEF VariablesInv
<1>6. VariablesInv'
  <2>1. expected' \in [Labels -> SUBSET Numbers]
    BY <1>1, <1>2 DEF VariablesInv
  <2>2. main' \in MainType
    BY <1>1 DEF MainType, DeletePoints
  <2>3. QED
    BY <1>1, <1>2, <2>1, <2>2, AsideTypes DEF VariablesInv
<1>7. MainInv'
  BY <1>1, <1>2, <1>3, <1>4 DEF MainInv
<1>8. \A k \in Labels : Call(k) = "none" /\ Call(k)' = IF k = l THEN "delete" ELSE "none"
  BY <1>3 DEF Call, AddPoints, DeletePoints, DeleteSVSPoints
<1>9. LabelsInv'
  <2>1. PICK q : q = View(l)
    OBVIOUS
  <2>2. PICK r : r = [q EXCEPT !.call = "delete", !.expected = {}]
    OBVIOUS
  <2>3. View(l)' = r
    <3>1. /\ Kind' = Kind /\ FlatVectors(l)' = FlatVectors(l)
          /\ CopyOf(l)' = CopyOf(l) /\ Fate(l)' = Fate(l)
      BY <1>4, UpdateStays, BufferStays DEF Kind
    <3>2. QED
      BY <1>1, <1>4, <1>5, <1>8, <2>1, <2>2, <3>1 DEF View, Newest
  <2>4. q.call = "none" /\ ViewOK(q) /\ LabelOK(q)
    BY <1>1, <1>8, <2>1, AsideKeeps DEF View
  <2>5. LabelOK(View(l)')
    <3>1. LabelOK(r)
      BY <2>2, <2>4, LabelStartsDelete
    <3>2. QED
      BY <2>3, <3>1
  <2>6. QED
    BY <1>1, <1>5, <1>8, <2>5, LabelStep
<1>10. BuildInv'
  <2>1. SVSIsEmpty' = SVSIsEmpty
    BY <1>1 DEF SVSIsEmpty
  <2>2. QED
    BY <1>1, <1>2, <1>3, <1>4, <2>1, AsideKeeps DEF BuildInv
<1>11. SchedulingInv'
  BY <1>1, <1>2, <1>3, <1>4, AsideKeeps DEF SchedulingInv, UpdateComes
<1>12. QED
  BY <1>1, <1>6, <1>7, <1>9, <1>10, <1>11, AsideKeeps DEF SVSInv

\* The steps that look into a tier and change nothing but the point of the main thread.
LEMMA LookKeeps ==
  ASSUME SVSInv, NEW p, main' = [pc |-> p, label |-> main.label], Aside,
         UNCHANGED <<mode, svs, queue, scheduled, added, expected, exposed, calls>>,
         \/ main.pc = "add_check_svs" /\ p \in {"add_delete_svs", "add_flat"}
         \/ main.pc = "add_inplace" /\ p = "add_svs" /\ ~ SVSIsEmpty
         \/ main.pc = "delete_check_flat" /\ p = "delete_flat"
         \/ main.pc = "delete_check_svs" /\ p = "delete_svs"
  PROVE  SVSInv'
<1>1. VariablesInv /\ MainInv /\ BuildInv /\ SchedulingInv
  BY DEF SVSInv
<1>2. main.pc \in LabelPoints /\ p \in LabelPoints
  BY DEF LabelPoints, AddPoints, DeletePoints, DeleteSVSPoints
<1>3. main'.pc = p /\ main'.label = main.label /\ main.label \in Labels
  BY <1>2, ServedLabel
<1>4. multi' = multi /\ update' = update /\ journal' = journal /\ flat' = flat
  BY DEF Aside
<1>5. VariablesInv'
  <2>1. main' \in MainType
    BY <1>2, <1>3 DEF MainType, LabelPoints
  <2>2. QED
    BY <1>1, <2>1, AsideTypes DEF VariablesInv
<1>6. MainInv'
  BY <1>1, <1>3, <1>4 DEF MainInv
<1>7. LabelsInv'
  <2>1. \A k \in Labels : Call(k)' = Call(k)
    BY <1>3 DEF Call, AddPoints, DeletePoints, DeleteSVSPoints
  <2>2. QED
    BY <2>1, LabelsStay
<1>8. BuildInv'
  <2>1. SVSIsEmpty' = SVSIsEmpty
    BY DEF SVSIsEmpty
  <2>2. QED
    BY <1>1, <1>4, <2>1 DEF BuildInv
<1>9. SchedulingInv'
  BY <1>1, <1>2, <1>3, <1>4, AsideKeeps
     DEF SchedulingInv, UpdateComes, LabelPoints, AddPoints, DeletePoints, DeleteSVSPoints
<1>10. QED
  BY <1>5, <1>6, <1>7, <1>8, <1>9, AsideKeeps DEF SVSInv

LEMMA AddCheckSVSKeeps ==
  ASSUME SVSInv, AddCheckSVS
  PROVE  SVSInv'
<1>1. PICK p \in {"add_delete_svs", "add_flat"} : main' = [pc |-> p, label |-> main.label]
  BY DEF AddCheckSVS, Goto
<1>2. /\ main.pc = "add_check_svs" /\ Aside
      /\ UNCHANGED <<mode, svs, queue, scheduled, added, expected, exposed, calls>>
  BY DEF AddCheckSVS, Aside, SameExposed
<1>3. QED
  BY <1>1, <1>2, LookKeeps

LEMMA AddInplaceFindsSVSKeeps ==
  ASSUME SVSInv, AddInplaceFindsSVS
  PROVE  SVSInv'
<1>1. main' = [pc |-> "add_svs", label |-> main.label]
  BY DEF AddInplaceFindsSVS, Goto
<1>2. /\ main.pc = "add_inplace" /\ Aside /\ ~ SVSIsEmpty
      /\ UNCHANGED <<mode, svs, queue, scheduled, added, expected, exposed, calls>>
  BY DEF AddInplaceFindsSVS, Aside, SameExposed
<1>3. QED
  BY <1>1, <1>2, LookKeeps

\* A step that ends a call, or leaves the calls alone, and does not touch a label.
LEMMA PassKeeps ==
  ASSUME SVSInv, Aside, UNCHANGED <<svs, added, expected, exposed>>,
         main.pc \in {"idle", "add_threshold", "schedule"},
         main' = Idle \/ main' = [pc |-> "schedule"],
         VariablesInv', MainInv', SchedulingInv'
  PROVE  SVSInv'
<1>1. main'.pc \in {"idle", "schedule"}
  BY DEF Idle
<1>2. LabelsInv'
  <2>1. \A k \in Labels : Call(k)' = Call(k)
    BY <1>1 DEF Call, AddPoints, DeletePoints, DeleteSVSPoints
  <2>2. QED
    BY <2>1, LabelsStay
<1>3. BuildInv'
  <2>1. SVSIsEmpty' = SVSIsEmpty
    BY DEF SVSIsEmpty
  <2>2. update' = update
    BY DEF Aside
  <2>3. QED
    BY <2>1, <2>2 DEF BuildInv, SVSInv
<1>4. QED
  BY <1>2, <1>3, AsideKeeps DEF SVSInv

LEMMA AddCheckThresholdKeeps ==
  ASSUME SVSInv, AddCheckThreshold
  PROVE  SVSInv'
<1>1. /\ main.pc = "add_threshold" /\ Aside
      /\ UNCHANGED <<mode, svs, queue, scheduled, added, expected, exposed, calls>>
      /\ main' = IF main.size >= (IF SVSIsEmpty THEN TrainingTriggerThreshold
                                                ELSE UpdateTriggerThreshold)
                 THEN [pc |-> "schedule"] ELSE Idle
  BY DEF AddCheckThreshold, Aside, SameExposed
<1>2. VariablesInv /\ MainInv /\ SchedulingInv
  BY DEF SVSInv
<1>3. multi' = multi /\ update' = update /\ journal' = journal /\ flat' = flat
  BY <1>1 DEF Aside
<1>4. main' = Idle \/ main' = [pc |-> "schedule"]
  BY <1>1
<1>5. main'.pc \in {"idle", "schedule"}
  BY <1>4 DEF Idle
<1>6. VariablesInv'
  <2>1. main' \in MainType
    BY <1>4 DEF MainType
  <2>2. QED
    BY <1>1, <1>2, <2>1, AsideTypes DEF VariablesInv
<1>7. MainInv'
  BY <1>1, <1>2, <1>3, <1>5 DEF MainInv
<1>8. SchedulingInv'
  <2>1. UpdateComes => UpdateComes'
    <3>1. CASE queue.update > 0
      BY <1>1, <3>1 DEF UpdateComes
    <3>2. CASE main.size >= TrainingTriggerThreshold /\ main.size >= UpdateTriggerThreshold
      <4>1. main' = [pc |-> "schedule"]
        BY <1>1, <3>2
      <4>2. QED
        BY <4>1 DEF UpdateComes
    <3>3. QED
      BY <1>1, <3>1, <3>2 DEF UpdateComes
  <2>2. QED
    BY <1>1, <1>2, <1>3, <2>1, AsideKeeps DEF SchedulingInv
<1>9. QED
  BY <1>1, <1>4, <1>6, <1>7, <1>8, PassKeeps

LEMMA ScheduleUpdateKeeps ==
  ASSUME SVSInv, ScheduleUpdate
  PROVE  SVSInv'
<1>1. /\ main.pc = "schedule" /\ Aside /\ main' = Idle
      /\ scheduled' = [scheduled EXCEPT !.update = TRUE]
      /\ queue' = IF scheduled.update THEN queue ELSE [queue EXCEPT !.update = @ + 1]
      /\ UNCHANGED <<mode, svs, added, expected, exposed, calls>>
  BY DEF ScheduleUpdate, Aside, SameExposed
<1>2. VariablesInv /\ MainInv /\ SchedulingInv
  BY DEF SVSInv
<1>3. multi' = multi /\ update' = update /\ journal' = journal /\ flat' = flat
  BY <1>1 DEF Aside
<1>4. main'.pc = "idle"
  BY <1>1 DEF Idle
<1>5. queue \in [update : Nat, gc : Nat] /\ scheduled \in [update : BOOLEAN, gc : BOOLEAN]
  BY <1>2 DEF VariablesInv
<1>6. queue' \in [update : Nat, gc : Nat] /\ queue'.update > 0
  <2>1. CASE scheduled.update
    BY <1>1, <1>2, <1>5, <2>1 DEF SchedulingInv
  <2>2. CASE ~ scheduled.update
    BY <1>1, <1>5, <2>2
  <2>3. QED
    BY <2>1, <2>2
<1>7. VariablesInv'
  <2>1. main' \in MainType /\ scheduled' \in [update : BOOLEAN, gc : BOOLEAN]
    BY <1>1, <1>5 DEF MainType
  <2>2. QED
    BY <1>1, <1>2, <1>6, <2>1, AsideTypes DEF VariablesInv
<1>8. MainInv'
  BY <1>1, <1>2, <1>3, <1>4 DEF MainInv
<1>9. SchedulingInv'
  BY <1>6 DEF SchedulingInv, UpdateComes
<1>10. QED
  BY <1>1, <1>7, <1>8, <1>9, PassKeeps

LEMMA SetWriteModeKeeps ==
  ASSUME SVSInv, SetWriteMode
  PROVE  SVSInv'
<1>1. /\ main = Idle /\ Aside
      /\ mode' = IF mode = "async" THEN "inplace" ELSE "async"
      /\ UNCHANGED <<svs, queue, scheduled, main, added, expected, exposed, calls>>
  BY DEF SetWriteMode, Aside, SameExposed
<1>2. VariablesInv /\ MainInv /\ SchedulingInv
  BY DEF SVSInv
<1>3. multi' = multi /\ update' = update /\ journal' = journal /\ flat' = flat
  BY <1>1 DEF Aside
<1>4. main.pc = "idle" /\ main' = Idle
  BY <1>1 DEF Idle
<1>5. VariablesInv'
  <2>1. main' \in MainType
    BY <1>4 DEF MainType
  <2>2. QED
    BY <1>1, <1>2, <2>1, AsideTypes DEF VariablesInv
<1>6. MainInv'
  BY <1>1, <1>2, <1>3, <1>4 DEF MainInv
<1>7. SchedulingInv'
  BY <1>1, <1>2, <1>3, AsideKeeps DEF SchedulingInv, UpdateComes
<1>8. QED
  BY <1>1, <1>4, <1>5, <1>6, <1>7, PassKeeps

LEMMA CollectionKeeps ==
  ASSUME SVSInv, RunGC \/ SVSIndexGC
  PROVE  SVSInv'
<1>1. /\ Aside /\ UNCHANGED <<mode, svs, main, added, expected, exposed, calls>>
      /\ queue.update = queue'.update /\ scheduled.update = scheduled'.update
      /\ queue' \in [update : Nat, gc : Nat] /\ scheduled' \in [update : BOOLEAN, gc : BOOLEAN]
  <2>1. queue \in [update : Nat, gc : Nat] /\ scheduled \in [update : BOOLEAN, gc : BOOLEAN]
    BY DEF SVSInv, VariablesInv
  <2>2. PICK u, v : u = queue.gc /\ v = scheduled.gc
    OBVIOUS
  <2>3. /\ queue = [update |-> queue.update, gc |-> u] /\ u \in Nat /\ queue.update \in Nat
        /\ scheduled = [update |-> scheduled.update, gc |-> v] /\ scheduled.update \in BOOLEAN
    BY <2>1, <2>2
  <2>4. /\ Aside /\ UNCHANGED <<mode, svs, main, added, expected, exposed, calls>>
        /\ \E x \in Nat : queue' = [queue EXCEPT !.gc = x]
        /\ \E x \in BOOLEAN : scheduled' = [scheduled EXCEPT !.gc = x]
    <3>1. CASE RunGC
      <4>1. Aside /\ UNCHANGED <<mode, svs, main, added, expected, exposed, calls>>
        BY <3>1 DEF RunGC, Aside, SameExposed
      <4>2. queue' = [queue EXCEPT !.gc = queue.gc + 1] /\ scheduled' = [scheduled EXCEPT !.gc = TRUE]
        BY <3>1 DEF RunGC
      <4>3. queue.gc + 1 \in Nat
        BY <2>2, <2>3
      <4>4. QED
        BY <4>1, <4>2, <4>3
    <3>2. CASE SVSIndexGC
      <4>1. Aside /\ UNCHANGED <<mode, svs, main, added, expected, exposed, calls>>
        BY <3>2 DEF SVSIndexGC, Aside, SameExposed
      <4>2. queue' = [queue EXCEPT !.gc = queue.gc - 1] /\ scheduled' = [scheduled EXCEPT !.gc = FALSE]
        BY <3>2 DEF SVSIndexGC
      <4>3. queue.gc - 1 \in Nat
        BY <2>2, <2>3, <3>2 DEF SVSIndexGC
      <4>4. QED
        BY <4>1, <4>2, <4>3
    <3>3. QED
      BY <3>1, <3>2
  <2>5. PICK x \in Nat : queue' = [queue EXCEPT !.gc = x]
    BY <2>4
  <2>6. PICK y \in BOOLEAN : scheduled' = [scheduled EXCEPT !.gc = y]
    BY <2>4
  <2>7. queue' = [update |-> queue.update, gc |-> x]
    BY <2>3, <2>5
  <2>8. scheduled' = [update |-> scheduled.update, gc |-> y]
    BY <2>3, <2>6
  <2>9. QED
    BY <2>3, <2>4, <2>7, <2>8
<1>2. VariablesInv /\ MainInv /\ SchedulingInv /\ BuildInv
  BY DEF SVSInv
<1>3. multi' = multi /\ update' = update /\ journal' = journal /\ flat' = flat /\ main' = main
  BY <1>1 DEF Aside
<1>4. VariablesInv'
  BY <1>1, <1>2, AsideTypes DEF VariablesInv
<1>5. MainInv'
  BY <1>1, <1>2, <1>3 DEF MainInv
<1>6. LabelsInv'
  BY <1>1, <1>3, CallStays, LabelsStay
<1>7. BuildInv'
  <2>1. SVSIsEmpty' = SVSIsEmpty
    BY <1>1 DEF SVSIsEmpty
  <2>2. QED
    BY <1>1, <1>2, <1>3, <2>1, AsideKeeps DEF BuildInv
<1>8. SchedulingInv'
  BY <1>1, <1>2, <1>3, AsideKeeps DEF SchedulingInv, UpdateComes
<1>9. QED
  BY <1>1, <1>4, <1>5, <1>6, <1>7, <1>8, AsideKeeps DEF SVSInv

\* A step that goes on or ends a call, and may change SVS at its label.
LEMMA TouchKeeps ==
  ASSUME SVSInv, Aside, UNCHANGED <<mode, queue, scheduled, added, expected, calls>>,
         main.pc \in LabelPoints, NEW l \in Labels, l = main.label,
         \/ main' = Idle
         \/ \E p \in {"add_flat", "delete_check_svs"} :
              main' = [pc |-> p, label |-> l],
         svs' \in [Labels -> SUBSET Numbers], exposed' \subseteq Labels,
         \A k \in Labels : k # l => svs'[k] = svs[k] /\ (k \in exposed' <=> k \in exposed),
         LabelOK(View(l)'),
         (SVSIsEmpty => SVSIsEmpty') \/ update = Idle
  PROVE  SVSInv'
<1>1. VariablesInv /\ MainInv /\ BuildInv /\ SchedulingInv
  BY DEF SVSInv
<1>3. PICK p \in {"idle", "add_flat", "delete_check_svs"} :
         /\ main'.pc = p
         /\ p # "idle" => main' = [pc |-> p, label |-> l] /\ main'.label = l
         /\ p = "idle" => main' = Idle
  BY DEF Idle
<1>4. multi' = multi /\ update' = update /\ journal' = journal /\ flat' = flat
  BY DEF Aside
<1>5. main.pc \in AddPoints \cup DeletePoints \cup DeleteSVSPoints
  BY DEF LabelPoints
<1>6. VariablesInv'
  <2>1. main' \in MainType
    BY <1>3 DEF MainType, AddPoints, DeleteSVSPoints
  <2>2. QED
    BY <1>1, <2>1, AsideTypes DEF VariablesInv
<1>7. MainInv'
  BY <1>1, <1>3, <1>4, <1>5 DEF MainInv, AddPoints, DeletePoints, DeleteSVSPoints
<1>8. LabelsInv'
  <2>1. ASSUME NEW k \in Labels, k # l PROVE Call(k)' = Call(k)
    <3>1. Call(k) = "none"
      BY <2>1, ServedLabel
    <3>2. Call(k)' = "none"
      BY <1>3, <2>1 DEF Call, AddPoints, DeletePoints, DeleteSVSPoints
    <3>3. QED
      BY <3>1, <3>2
  <2>2. QED
    BY <2>1, LabelStep
<1>9. BuildInv'
  BY <1>1, <1>4 DEF BuildInv, Idle
<1>10. SchedulingInv'
  <2>1. UpdateComes => UpdateComes'
    BY <1>5 DEF UpdateComes, AddPoints, DeletePoints, DeleteSVSPoints
  <2>2. QED
    BY <1>1, <1>4, <2>1, AsideKeeps DEF SchedulingInv
<1>11. QED
  BY <1>6, <1>7, <1>8, <1>9, <1>10, AsideKeeps DEF SVSInv

\* What such a step leaves of a label.
LEMMA ServedParts ==
  ASSUME Aside, UNCHANGED <<added, expected>>, NEW l
  PROVE  /\ Kind' = Kind /\ update'.pc = update.pc /\ FlatVectors(l)' = FlatVectors(l)
         /\ CopyOf(l)' = CopyOf(l) /\ Fate(l)' = Fate(l)
         /\ added'[l] = added[l] /\ expected'[l] = expected[l]
BY UpdateStays, BufferStays DEF Kind, Aside

\* The fields of the label that is served.
LEMMA ServedView ==
  ASSUME SVSInv, Aside, UNCHANGED <<added, expected>>, NEW l \in Labels
  PROVE  /\ ViewOK(View(l)) /\ LabelOK(View(l))
         /\ View(l)' = [View(l) EXCEPT !.call = Call(l)', !.svs = svs'[l], !.newest = Newest(l)']
<1>2. ViewOK(View(l)) /\ LabelOK(View(l))
  BY AsideKeeps
<1>3. PICK q : q = View(l)
  OBVIOUS
<1>4. PICK r : r = [q EXCEPT !.call = Call(l)', !.svs = svs'[l], !.newest = Newest(l)']
  OBVIOUS
<1>5. View(l)' = r
  <2>1. /\ Kind' = Kind /\ update'.pc = update.pc /\ FlatVectors(l)' = FlatVectors(l)
        /\ CopyOf(l)' = CopyOf(l) /\ Fate(l)' = Fate(l)
    BY UpdateStays, BufferStays DEF Kind, Aside
  <2>2. QED
    BY <1>3, <1>4, <2>1 DEF View
<1>6. QED
  BY <1>2, <1>3, <1>4, <1>5

LEMMA DeleteCheckFlatKeeps ==
  ASSUME SVSInv, DeleteCheckFlat
  PROVE  SVSInv'
<1>1. /\ main.pc = "delete_check_flat" /\ Aside
      /\ UNCHANGED <<mode, svs, queue, scheduled, added, expected, exposed, calls>>
      /\ main' = [pc |-> IF IsLabelExists(flat, main.label) THEN "delete_flat" ELSE "delete_check_svs",
                  label |-> main.label]
  BY DEF DeleteCheckFlat, Aside, SameExposed, Goto
<1>2. CASE IsLabelExists(flat, main.label)
  <2>1. main' = [pc |-> "delete_flat", label |-> main.label]
    BY <1>1, <1>2
  <2>2. QED
    BY <1>1, <2>1, LookKeeps
<1>3. CASE ~ IsLabelExists(flat, main.label)
  <2>1. main.pc \in LabelPoints /\ main.pc \in DeletePoints /\ ~ (main.pc \in AddPoints)
    BY <1>1 DEF LabelPoints, AddPoints, DeletePoints
  <2>2. PICK l \in Labels : l = main.label
    BY <2>1, ServedLabel
  <2>3. main' = [pc |-> "delete_check_svs", label |-> l]
    BY <1>1, <1>3, <2>2
  <2>4. Call(l) = "delete" /\ Call(l)' = "delete_svs"
    BY <2>1, <2>2, <2>3, ServedLabel DEF Call, AddPoints, DeletePoints, DeleteSVSPoints
  <2>5. FlatVectors(l) = {}
    BY <1>1, <1>3, <2>2, AsideKeeps, LabelHasVector DEF FlatVectors
  <2>6. PICK q : q = View(l)
    OBVIOUS
  <2>7. PICK r : r = [q EXCEPT !.call = "delete_svs"]
    OBVIOUS
  <2>8. ViewOK(q) /\ LabelOK(q)
    BY <1>1, <2>6, ServedView
  <2>9. q.call = "delete" /\ q.buffer = {} /\ q.svs = svs[l]
    BY <2>4, <2>5, <2>6 DEF View
  <2>10. View(l)' = r
    BY <1>1, <2>4, <2>6, <2>7, ServedParts DEF View, Newest
  <2>11. LabelOK(r)
    BY <2>7, <2>8, <2>9, LabelNotInBuffer
  <2>12. /\ svs' \in [Labels -> SUBSET Numbers] /\ SVSIsEmpty' = SVSIsEmpty
         /\ exposed' \subseteq Labels
    BY <1>1 DEF SVSInv, VariablesInv, SVSIsEmpty
  <2>13. QED
    BY <1>1, <2>1, <2>2, <2>3, <2>10, <2>11, <2>12, TouchKeeps
<1>4. QED
  BY <1>2, <1>3

\* A label that is to be deleted from SVS has left the buffer.
LEMMA DeletedLeftBuffer ==
  ASSUME SVSInv, main.pc \in DeleteSVSPoints
  PROVE  FlatVectors(main.label) = {}
<1>1. main.pc \in LabelPoints /\ ~ (main.pc \in AddPoints) /\ ~ (main.pc \in DeletePoints)
  BY DEF LabelPoints, AddPoints, DeletePoints, DeleteSVSPoints
<1>2. PICK l \in Labels : l = main.label
  BY <1>1, ServedLabel
<1>3. PICK q : q = View(l)
  OBVIOUS
<1>4. q.call = "delete_svs" /\ q.buffer = FlatVectors(l)
  BY <1>1, <1>2, <1>3, ServedLabel DEF View
<1>5. LabelOK(q)
  BY <1>2, <1>3 DEF SVSInv, LabelsInv
<1>6. QED
  BY <1>2, <1>4, <1>5 DEF LabelOK, ExposedOK, NothingElse

\* The label leaves SVS, or is not there, at the end of its deletion.
LEMMA LeaveSVSKeeps ==
  ASSUME SVSInv, UNCHANGED <<multi, flat, journal, update>>,
         UNCHANGED <<mode, queue, scheduled, added, expected, calls>>,
         main.pc \in DeleteSVSPoints, main' = Idle, svs' = [svs EXCEPT ![main.label] = {}],
         exposed' = exposed \ {main.label}
  PROVE  SVSInv'
<1>1. main.pc \in LabelPoints /\ ~ (main.pc \in AddPoints) /\ ~ (main.pc \in DeletePoints)
  BY DEF LabelPoints, AddPoints, DeletePoints, DeleteSVSPoints
<1>2. PICK l \in Labels : l = main.label
  BY <1>1, ServedLabel
<1>3. Call(l) = "delete_svs"
  BY <1>1, <1>2, ServedLabel
<1>4. Call(l)' = "none" /\ Newest(l)' = "safe"
  BY <1>2 DEF Call, Idle, AddPoints, DeletePoints, DeleteSVSPoints, Newest
<1>5. svs \in [Labels -> SUBSET Numbers] /\ exposed \subseteq Labels
  BY DEF SVSInv, VariablesInv
<1>6. /\ svs' \in [Labels -> SUBSET Numbers] /\ svs'[l] = {} /\ exposed' \subseteq Labels
      /\ \A k \in Labels : k # l => svs'[k] = svs[k] /\ (k \in exposed' <=> k \in exposed)
  BY <1>2, <1>5
<1>7. SVSIsEmpty => SVSIsEmpty'
  BY <1>6 DEF SVSIsEmpty
<1>8. PICK q : q = View(l)
  OBVIOUS
<1>9. PICK r : r = [q EXCEPT !.call = "none", !.svs = {}, !.newest = "safe"]
  OBVIOUS
<1>0. Aside
  BY <1>2, <1>6, DeletedLeftBuffer DEF Aside, SameExposed
<1>10. /\ ViewOK(q) /\ LabelOK(q)
       /\ View(l)' = [q EXCEPT !.call = Call(l)', !.svs = svs'[l], !.newest = Newest(l)']
  BY <1>0, <1>8, ServedView
<1>11. q.call = "delete_svs"
  BY <1>3, <1>8 DEF View
<1>12. View(l)' = r
  BY <1>4, <1>6, <1>9, <1>10
<1>13. LabelOK(r)
  BY <1>9, <1>10, <1>11, LabelLeavesSVS
<1>14. QED
  BY <1>0, <1>1, <1>2, <1>6, <1>7, <1>12, <1>13, TouchKeeps

LEMMA DeleteCheckSVSKeeps ==
  ASSUME SVSInv, DeleteCheckSVS
  PROVE  SVSInv'
<1>1. /\ main.pc = "delete_check_svs"
      /\ UNCHANGED <<multi, flat, journal, update>>
      /\ UNCHANGED <<mode, svs, queue, scheduled, added, expected, calls>>
      /\ IF svs[main.label] # {}
         THEN main' = [pc |-> "delete_svs", label |-> main.label] /\ exposed' = exposed
         ELSE main' = Idle /\ exposed' = exposed \ {main.label}
  BY DEF DeleteCheckSVS, Goto
<1>2. CASE svs[main.label] # {}
  <2>1. Aside
    BY <1>1, <1>2 DEF Aside, SameExposed
  <2>2. QED
    BY <1>1, <1>2, <2>1, LookKeeps
<1>3. CASE svs[main.label] = {}
  <2>1. svs \in [Labels -> SUBSET Numbers]
    BY DEF SVSInv, VariablesInv
  <2>2. svs' = [svs EXCEPT ![main.label] = {}]
    BY <1>1, <1>3, <2>1
  <2>3. main.pc \in DeleteSVSPoints /\ main' = Idle
    BY <1>1, <1>3 DEF DeleteSVSPoints
  <2>4. QED
    BY <1>1, <1>3, <2>2, <2>3, LeaveSVSKeeps
<1>4. QED
  BY <1>2, <1>3

LEMMA DeleteFromSVSKeeps ==
  ASSUME SVSInv, DeleteFromSVS
  PROVE  SVSInv'
<1>1. /\ main.pc \in DeleteSVSPoints /\ main' = Idle
      /\ UNCHANGED <<multi, flat, journal, update>>
      /\ UNCHANGED <<mode, queue, scheduled, added, expected, calls>>
      /\ svs' = [svs EXCEPT ![main.label] = {}] /\ exposed' = exposed \ {main.label}
  BY DEF DeleteFromSVS, DeleteSVSPoints
<1>2. QED
  BY <1>1, LeaveSVSKeeps

LEMMA AddDeletesOldFromSVSKeeps ==
  ASSUME SVSInv, AddDeletesOldFromSVS
  PROVE  SVSInv'
<1>1. /\ main.pc = "add_delete_svs" /\ Aside /\ main' = [pc |-> "add_flat", label |-> main.label]
      /\ UNCHANGED <<mode, queue, scheduled, added, expected, exposed, calls>>
      /\ svs' = [svs EXCEPT ![main.label] = {}]
  BY DEF AddDeletesOldFromSVS, Aside, SameExposed, Goto
<1>2. main.pc \in LabelPoints /\ main.pc \in AddPoints /\ ~ multi
  BY <1>1 DEF LabelPoints, AddPoints, SVSInv, MainInv
<1>3. PICK l \in Labels : l = main.label
  BY <1>2, ServedLabel
<1>4. Call(l) = "add" /\ Call(l)' = "add"
  <2>1. Call(l) = "add"
    BY <1>2, <1>3, ServedLabel
  <2>2. main'.pc = "add_flat" /\ main'.label = l
    BY <1>1, <1>3
  <2>3. Call(l)' = "add"
    BY <2>2 DEF Call, AddPoints, DeletePoints, DeleteSVSPoints
  <2>4. QED
    BY <2>1, <2>3
<1>5. svs \in [Labels -> SUBSET Numbers] /\ exposed \subseteq Labels
  BY DEF SVSInv, VariablesInv
<1>6. /\ svs' \in [Labels -> SUBSET Numbers] /\ svs'[l] = {} /\ exposed' \subseteq Labels
      /\ \A k \in Labels : k # l => svs'[k] = svs[k] /\ (k \in exposed' <=> k \in exposed)
  BY <1>1, <1>3, <1>5
<1>7. SVSIsEmpty => SVSIsEmpty'
  BY <1>6 DEF SVSIsEmpty
<1>8. PICK q : q = View(l)
  OBVIOUS
<1>9. PICK r : r = [q EXCEPT !.svs = {}]
  OBVIOUS
<1>10. ViewOK(q) /\ LabelOK(q)
  BY <1>1, <1>8, ServedView
<1>11. q.call = "add" /\ q.kind = "single"
  BY <1>2, <1>4, <1>8 DEF View, Kind
<1>12. View(l)' = r
  BY <1>1, <1>4, <1>6, <1>8, <1>9, ServedParts DEF View, Newest
<1>13. LabelOK(r)
  BY <1>9, <1>10, <1>11, LabelLeavesSVSForAdd
<1>14. QED
  BY <1>1, <1>2, <1>3, <1>6, <1>7, <1>12, <1>13, TouchKeeps

LEMMA AddInplaceToSVSKeeps ==
  ASSUME SVSInv, AddInplaceToSVS
  PROVE  SVSInv'
<1>1. /\ main.pc = "add_svs" /\ NoUpdateRuns /\ main' = Idle
      /\ UNCHANGED <<multi, flat, journal, update>>
      /\ UNCHANGED <<mode, queue, scheduled, added, expected, calls>>
      /\ svs' = [svs EXCEPT ![main.label] = IF multi THEN @ \cup {added[main.label]}
                                                     ELSE {added[main.label]}]
      /\ exposed' = IF ~ multi /\ FlatVectors(main.label) # {} THEN exposed \cup {main.label}
                                                             ELSE exposed \ {main.label}
  BY DEF AddInplaceToSVS, Expose
<1>2. main.pc \in LabelPoints /\ main.pc \in AddPoints
  BY <1>1 DEF LabelPoints, AddPoints
<1>3. PICK l \in Labels : l = main.label
  BY <1>2, ServedLabel
<1>4. Call(l) = "add" /\ update = Idle /\ Aside
  BY <1>1, <1>2, <1>3, ServedLabel, UpdateFacts
     DEF NoUpdateRuns, Aside, HasCopy, CopyPhases, SVSInv
<1>5. Call(l)' = "none"
  BY <1>1 DEF Call, Idle, AddPoints, DeletePoints, DeleteSVSPoints
<1>6. /\ svs \in [Labels -> SUBSET Numbers] /\ added[l] \in Nat /\ expected[l] \in SUBSET Numbers
      /\ exposed \subseteq Labels
  BY DEF SVSInv, VariablesInv
<1>7. PICK q : q = View(l)
  OBVIOUS
<1>8. /\ ViewOK(q) /\ LabelOK(q)
      /\ View(l)' = [q EXCEPT !.call = Call(l)', !.svs = svs'[l], !.newest = Newest(l)']
  BY <1>1, <1>4, <1>7, ServedView
<1>9. /\ q.call = "add" /\ q.svs = svs[l] /\ q.added = added[l] /\ q.expected = expected[l]
      /\ q.buffer = FlatVectors(l) /\ q.phase = "idle"
      /\ IF multi THEN q.kind = "multi" ELSE q.kind = "single"
  BY <1>1, <1>4, <1>7 DEF View, Kind, NoUpdateRuns
<1>10. added[l] \in Numbers
  BY <1>6, <1>8, <1>9 DEF LabelOK, NumbersOK
<1>11. /\ svs' \in [Labels -> SUBSET Numbers] /\ exposed' \subseteq Labels
       /\ svs'[l] = IF multi THEN svs[l] \cup {added[l]} ELSE {added[l]}
       /\ \A k \in Labels : k # l => svs'[k] = svs[k] /\ (k \in exposed' <=> k \in exposed)
  BY <1>1, <1>3, <1>6, <1>10
<1>12. Newest(l)' = IF q.kind = "single" /\ q.buffer # {} THEN "exposed" ELSE "safe"
  BY <1>1, <1>3, <1>9 DEF Newest
<1>13. PICK r : r = [q EXCEPT !.call = "none",
                             !.svs = IF q.kind = "multi" THEN q.svs \cup {q.added} ELSE {q.added},
                             !.newest = IF q.kind = "single" /\ q.buffer # {} THEN "exposed"
                                        ELSE "safe"]
  OBVIOUS
<1>14. View(l)' = r
  BY <1>5, <1>8, <1>9, <1>11, <1>12, <1>13
<1>15. LabelOK(r)
  BY <1>8, <1>9, <1>13, LabelGoesToSVS
<1>16. QED
  BY <1>1, <1>2, <1>3, <1>4, <1>11, <1>14, <1>15, TouchKeeps

-----------------------------------------------------------------------------
(* Steps of the main thread on the buffer.                                  *)

\* g is f with one more vector v of label l, or with v in place of the old one.
Written(f, g, l, v) ==
  /\ FlatOK(Numbers, g) /\ g \in FlatOf(Numbers) /\ Count(g) \in Nat
  /\ \A k : VectorsOf(g, k) = IF k # l THEN VectorsOf(f, k)
                              ELSE IF multi THEN VectorsOf(f, k) \cup {v} ELSE {v}

\* The id that addVector of a single-value index overwrites.
LEMMA OverwrittenId ==
  ASSUME NEW f, FlatOK(Numbers, f), NEW l \in Labels, ~ multi, IsLabelExists(f, l)
  PROVE  \E id \in 1..Count(f) : id = f.ids[l][1] /\ Holding(f, l) = {id} /\ f.labels[id] = l
<1>1. Holding(f, l) = {f.ids[l][1]}
  BY LabelHasVector
<1>2. PICK id : id = f.ids[l][1]
  OBVIOUS
<1>3. id \in Holding(f, l) /\ Holding(f, l) = {id}
  BY <1>1, <1>2
<1>4. QED
  BY <1>2, <1>3 DEF Holding

LEMMA WithVectorWrites ==
  ASSUME multi \in BOOLEAN, NEW f, FlatOK(Numbers, f), NEW l \in Labels, added[l] \in Numbers
  PROVE  Written(f, WithVector(f, l), l, added[l])
<1>1. f \in FlatOf(Numbers)
  BY DEF FlatOK
<1>2. PICK v \in Numbers : v = added[l]
  OBVIOUS
<1>3. PICK g : g = WithVector(f, l)
  OBVIOUS
<1>4. CASE multi \/ ~ IsLabelExists(f, l)
  <2>1. g = AppendVector(f, l, v)
    BY <1>2, <1>3, <1>4 DEF WithVector
  <2>2. FlatOK(Numbers, g) /\ Appended(f, g, l, v)
    BY <1>4, <2>1, AppendAdds
  <2>3. g \in FlatOf(Numbers)
    BY <2>2 DEF FlatOK
  <2>4. \A k : VectorsOf(g, k) = IF k = l THEN VectorsOf(f, k) \cup {v} ELSE VectorsOf(f, k)
    BY <1>1, <2>2, <2>3, AppendedVectors
  <2>5. ~ multi => VectorsOf(f, l) = {}
    BY <1>4, LabelHasVector
  <2>6. Count(g) \in Nat
    BY <2>3, FlatFacts
  <2>7. Written(f, g, l, v)
    BY <2>2, <2>3, <2>4, <2>5, <2>6 DEF Written
  <2>8. QED
    BY <1>2, <1>3, <2>7
<1>5. CASE ~ multi /\ IsLabelExists(f, l)
  <2>1. PICK id \in 1..Count(f) : id = f.ids[l][1] /\ Holding(f, l) = {id}
    BY <1>5, OverwrittenId
  <2>2. g = UpdateElement(f, id, v)
    BY <1>2, <1>3, <1>5, <2>1 DEF WithVector
  <2>3. /\ FlatOK(Numbers, g) /\ g.labels = f.labels /\ Count(g) = Count(f) /\ g.vectors[id] = v
        /\ \A j \in 1..Count(f) : j # id => g.vectors[j] = f.vectors[j]
    BY <2>2, OverwriteChanges
  <2>4. g \in FlatOf(Numbers)
    BY <2>3 DEF FlatOK
  <2>5. \A k : VectorsOf(g, k) = IF k = l THEN {v} ELSE VectorsOf(f, k)
    <3>1. /\ f \in FlatOf(Numbers) /\ g \in FlatOf(Numbers) /\ Holding(f, l) = {id}
          /\ g.labels = f.labels /\ Count(g) = Count(f) /\ g.vectors[id] = v
          /\ \A j \in 1..Count(f) : j # id => g.vectors[j] = f.vectors[j]
      BY <1>1, <2>1, <2>3, <2>4
    <3>2. QED
      BY <3>1, OverwrittenVectors
  <2>6. Count(g) \in Nat
    BY <2>4, FlatFacts
  <2>7. Written(f, g, l, v)
    BY <1>5, <2>3, <2>4, <2>5, <2>6 DEF Written
  <2>8. QED
    BY <1>2, <1>3, <2>7
<1>6. QED
  BY <1>4, <1>5

\* What the journal says of the buffer after addVector.
WriteJournaled(j, L, C, g, l) ==
  /\ j.swaps \in Seq(SwapRecord) /\ DOMAIN j = {"swaps", "deleted"}
  /\ j = [swaps |-> j.swaps, deleted |-> j.deleted]
  /\ Tracks(ApplySwapsToLabelsArray(L, j.swaps), g, C)
  /\ j.deleted = IF multi \/ VectorsOf(flat, l) = {} THEN journal.deleted
                 ELSE journal.deleted \cup {l}

LEMMA WriteTracks ==
  ASSUME multi \in BOOLEAN, FlatOK(Numbers, flat), NEW l \in Labels, added[l] \in Numbers,
         journal \in [swaps : Seq(SwapRecord), deleted : SUBSET Labels],
         NEW C, ~ (added[l] \in C[l]),
         NEW L, Tracks(ApplySwapsToLabelsArray(L, journal.swaps), flat, C)
  PROVE  WriteJournaled(JournalOverwrite(l), L, C, WithVector(flat, l), l)
<1>1. flat \in FlatOf(Numbers)
  BY DEF FlatOK
<1>2. PICK v \in Numbers : v = added[l]
  OBVIOUS
<1>3. PICK g : g = WithVector(flat, l)
  OBVIOUS
<1>4. PICK j : j = JournalOverwrite(l)
  OBVIOUS
<1>5. PICK M : M = ApplySwapsToLabelsArray(L, journal.swaps)
  OBVIOUS
<1>6. CASE multi \/ ~ IsLabelExists(flat, l)
  <2>1. g = AppendVector(flat, l, v)
    BY <1>2, <1>3, <1>6 DEF WithVector
  <2>2. Appended(flat, g, l, v)
    BY <1>6, <2>1, AppendAdds
  <2>3. Tracks(M, g, C)
    BY <1>1, <1>2, <1>5, <2>2, AppendTracks
  <2>4. j = journal
    BY <1>4, <1>6 DEF JournalOverwrite
  <2>5. multi \/ VectorsOf(flat, l) = {}
    BY <1>6, LabelHasVector
  <2>6. WriteJournaled(j, L, C, g, l)
    BY <1>5, <2>3, <2>4, <2>5 DEF WriteJournaled
  <2>7. QED
    BY <1>3, <1>4, <2>6
<1>7. CASE ~ multi /\ IsLabelExists(flat, l)
  <2>1. PICK id \in 1..Count(flat) :
          id = flat.ids[l][1] /\ Holding(flat, l) = {id} /\ flat.labels[id] = l
    BY <1>7, OverwrittenId
  <2>2. g = UpdateElement(flat, id, v)
    BY <1>2, <1>3, <1>7, <2>1 DEF WithVector
  <2>3. /\ g.labels = flat.labels /\ g.vectors[id] = v
        /\ \A i \in 1..Count(flat) : i # id => g.vectors[i] = flat.vectors[i]
    BY <2>2, OverwriteChanges
  <2>4. PICK r : r = <<Skip, id, id>>
    OBVIOUS
  <2>5. r \in SwapRecord
    <3>1. id \in Numbers
      BY FlatFacts, <1>1 DEF Numbers
    <3>2. QED
      BY <2>4, <3>1 DEF SwapRecord
  <2>6. Tracks(ApplySwap(M, r), g, C)
    BY <1>1, <1>2, <1>5, <2>1, <2>3, <2>4, OverwriteTracks
  <2>7. j = [swaps |-> Append(journal.swaps, r), deleted |-> journal.deleted \cup {l}]
    BY <1>4, <1>7, <2>1, <2>4 DEF JournalOverwrite
  <2>8. journal.swaps \in Seq(SwapRecord) /\ <<r>> \in Seq(SwapRecord)
    BY <2>5
  <2>9. j.swaps = journal.swaps \o <<r>> /\ j.swaps \in Seq(SwapRecord)
    BY <2>5, <2>7, <2>8
  <2>10. ApplySwapsToLabelsArray(L, j.swaps) = ApplySwap(M, r)
    <3>1. PICK s \in Seq(SwapRecord) : s = journal.swaps
      BY <2>8
    <3>2. PICK t \in Seq(SwapRecord) : t = <<r>>
      BY <2>8
    <3>3. ApplySwapsToLabelsArray(L, s \o t)
            = ApplySwapsToLabelsArray(ApplySwapsToLabelsArray(L, s), t)
      BY SwapsConcat
    <3>4. QED
      BY <1>5, <2>9, <3>1, <3>2, <3>3, OneSwap
  <2>11. VectorsOf(flat, l) # {}
    BY <1>7, LabelHasVector
  <2>12. WriteJournaled(j, L, C, g, l)
    BY <1>7, <2>6, <2>7, <2>9, <2>10, <2>11 DEF WriteJournaled
  <2>13. QED
    BY <1>3, <1>4, <2>12
<1>8. QED
  BY <1>6, <1>7

\* Everything but the buffer, the journal, what is exposed of the label that is served and
\* the point of the main thread stays.
BufferStep == UNCHANGED <<multi, mode, svs, queue, scheduled, update, added, expected, calls>>

LEMMA BufferStepParts ==
  ASSUME BufferStep
  PROVE  /\ Kind' = Kind /\ HasCopy' = HasCopy /\ SVSIsEmpty' = SVSIsEmpty
         /\ \A l : /\ Copied(l)' = Copied(l) /\ CopyOf(l)' = CopyOf(l)
                   /\ Fate(l)' = IF HasCopy THEN IF l \in journal'.deleted THEN "dropped" ELSE "kept"
                                 ELSE Fate(l)
<1>1. multi' = multi /\ update' = update /\ svs' = svs
  BY DEF BufferStep
<1>2. Kind' = Kind /\ HasCopy' = HasCopy /\ SVSIsEmpty' = SVSIsEmpty
  BY <1>1 DEF Kind, HasCopy, SVSIsEmpty
<1>3. \A l : Copied(l)' = Copied(l)
  BY <1>1, Zenon DEF Copied, VectorsOf
<1>4. \A l : CopyOf(l)' = CopyOf(l)
  BY <1>2, <1>3 DEF CopyOf
<1>5. ToDelete' = IF HasCopy THEN journal'.deleted ELSE ToDelete
  BY <1>1, <1>2 DEF ToDelete, HasCopy, CopyPhases
<1>6. QED
  BY <1>2, <1>3, <1>4, <1>5 DEF Fate

\* What the update is to remove of a label after such a step.
LEMMA CopiesAfter ==
  ASSUME BufferStep
  PROVE  /\ \A k \in Labels : /\ Copies[k] = Copied(k) \cup IF k \in exposed THEN FlatVectors(k) ELSE {}
                              /\ Copies'[k] = Copied(k) \cup IF k \in exposed' THEN FlatVectors(k)' ELSE {}
<1>1. \A k : Copied(k)' = Copied(k)
  BY BufferStepParts
<1>2. QED
  BY <1>1 DEF Copies

LEMMA BufferStepLabels ==
  ASSUME SVSInv, BufferStep, main.pc \in LabelPoints, NEW l \in Labels, l = main.label,
         \A k \in Labels : k # l => /\ Call(k)' = "none" /\ FlatVectors(k)' = FlatVectors(k)
                                    /\ k \in journal'.deleted <=> k \in journal.deleted
                                    /\ k \in exposed' <=> k \in exposed,
         LabelOK(View(l)')
  PROVE  LabelsInv'
<1>1. ASSUME NEW k \in Labels, k # l PROVE LabelOK(View(k)')
  <2>1. Call(k)' = Call(k)
    BY <1>1, ServedLabel
  <2>2. Fate(k)' = Fate(k)
    BY <1>1, BufferStepParts DEF Fate, ToDelete, HasCopy, CopyPhases
  <2>3. /\ Kind' = Kind /\ update'.pc = update.pc /\ CopyOf(k)' = CopyOf(k)
        /\ added'[k] = added[k] /\ expected'[k] = expected[k] /\ svs'[k] = svs[k]
        /\ FlatVectors(k)' = FlatVectors(k)
    BY <1>1, BufferStepParts DEF BufferStep
  <2>4. View(k)' = View(k)
    BY <1>1, <2>1, <2>2, <2>3 DEF View, Newest
  <2>5. LabelOK(View(k))
    BY DEF SVSInv, LabelsInv
  <2>6. QED
    BY <2>4, <2>5
<1>2. QED
  BY <1>1, LabelsAfter

LEMMA BufferAfter ==
  ASSUME multi' = multi, NEW g, g = flat', FlatOK(Numbers, g)
  PROVE  /\ BufferOK(flat)' /\ Count(flat)' = Count(g)
         /\ \A k : FlatVectors(k)' = VectorsOf(g, k)
<1>1. BufferOK(g)
  BY BufferIsFlat
<1>2. BufferOK(flat)'
  BY <1>1, Zenon DEF BufferOK, Count
<1>3. Count(flat)' = Count(g)
  BY DEF Count
<1>4. \A k : FlatVectors(k)' = VectorsOf(g, k)
  BY Zenon DEF FlatVectors, VectorsOf
<1>5. QED
  BY <1>2, <1>3, <1>4

LEMMA JournalAfter ==
  ASSUME UNCHANGED <<multi, update>>,
         HasCopy => Tracks(ApplySwapsToLabelsArray(update.labels, journal'.swaps), flat', Copies')
  PROVE  JournalInv'
<1>1. HasCopy' = HasCopy
  BY DEF HasCopy
<1>2. ApplySwapsToLabelsArray(update.labels, journal.swaps)'
        = ApplySwapsToLabelsArray(update.labels, journal'.swaps)
  OBVIOUS
<1>3. QED
  BY <1>1, <1>2 DEF JournalInv, Tracks, Count

LEMMA BufferStepTypes ==
  ASSUME VariablesInv, BufferStep, main' \in MainType, exposed' \subseteq Labels,
         journal' \in [swaps : Seq(SwapRecord), deleted : SUBSET Labels]
  PROVE  VariablesInv'
<1>1. /\ multi' = multi /\ mode' = mode /\ svs' = svs /\ queue' = queue /\ scheduled' = scheduled
      /\ update' = update /\ added' = added /\ expected' = expected /\ calls' = calls
  BY DEF BufferStep
<1>2. HasCopy' => Len(update.labels)' = Len(update.vectors)'
  BY <1>1 DEF VariablesInv, HasCopy
<1>3. QED
  BY <1>1, <1>2 DEF VariablesInv

\* The label that is being added, and its new vector.
LEMMA AddedLabel ==
  ASSUME SVSInv, main.pc \in AddPoints, NEW l \in Labels, l = main.label
  PROVE  /\ Call(l) = "add" /\ main.pc \in LabelPoints
         /\ added[l] \in Numbers /\ FlatOK(Numbers, flat)
         /\ ViewOK(View(l)) /\ LabelOK(View(l))
         /\ HasCopy => ~ (added[l] \in Copied(l))
         /\ ~ (added[l] \in FlatVectors(l)) /\ (l \in exposed => ~ multi)
<1>1. main.pc \in LabelPoints /\ Call(l) = "add"
  BY ServedLabel DEF LabelPoints
<1>2. FlatOK(Numbers, flat)
  BY BufferIsFlat DEF SVSInv
<1>3. ViewOK(View(l)) /\ LabelOK(View(l))
  BY <1>2, ViewTyped DEF SVSInv, LabelsInv
<1>4. PICK q : q = View(l)
  OBVIOUS
<1>5. q.call = "add" /\ q.added = added[l] /\ q.expected = expected[l] /\ q.copy = CopyOf(l)
      /\ q.buffer = FlatVectors(l)
  BY <1>1, <1>4 DEF View
<1>6. NumbersOK(q)
  BY <1>3, <1>4 DEF LabelOK
<1>7. added[l] \in Nat /\ expected[l] \in SUBSET Numbers
  BY DEF SVSInv, VariablesInv
<1>8. added[l] \in Numbers
  BY <1>5, <1>6, <1>7 DEF NumbersOK
<1>9. ~ (added[l] \in CopyOf(l)) /\ ~ (added[l] \in FlatVectors(l))
  BY <1>5, <1>6, <1>7 DEF NumbersOK
<1>10. l \in exposed => ~ multi
  BY <1>3 DEF LabelOK, ExposedOK, View, Newest, Kind
<1>11. QED
  BY <1>1, <1>2, <1>3, <1>8, <1>9, <1>10 DEF CopyOf

\* Of the vector that is written it depends only on its label whether it is on the copy,
\* and of no other position it changes.
LEMMA WrittenOnCopy ==
  ASSUME SVSInv, HasCopy, BufferStep, main.pc \in AddPoints, NEW l \in Labels, l = main.label,
         NEW g, g = flat', Written(flat, g, l, added[l]),
         \A k \in Labels : k # l => (k \in exposed' <=> k \in exposed)
  PROVE  /\ \A k \in Labels : k # l => Copies'[k] = Copies[k]
         /\ ~ (added[l] \in Copies[l]) /\ (added[l] \in Copies'[l] <=> l \in exposed')
         /\ l \in exposed => ~ multi
<1>1. ~ (added[l] \in Copied(l)) /\ ~ (added[l] \in FlatVectors(l)) /\ (l \in exposed => ~ multi)
  BY AddedLabel
<1>2. multi' = multi /\ FlatOK(Numbers, g)
  BY DEF BufferStep, Written
<1>3. \A k : FlatVectors(k)' = VectorsOf(g, k)
  BY <1>2, BufferAfter
<1>4. /\ \A k : k # l => FlatVectors(k)' = FlatVectors(k)
      /\ added[l] \in FlatVectors(l)'
  BY <1>3 DEF Written, FlatVectors
<1>5. \A k \in Labels :
        /\ Copies[k] = Copied(k) \cup IF k \in exposed THEN FlatVectors(k) ELSE {}
        /\ Copies'[k] = Copied(k) \cup IF k \in exposed' THEN FlatVectors(k)' ELSE {}
  BY CopiesAfter
<1>6. ASSUME NEW k \in Labels, k # l PROVE Copies'[k] = Copies[k]
  <2>1. FlatVectors(k)' = FlatVectors(k) /\ (k \in exposed' <=> k \in exposed)
    BY <1>4, <1>6
  <2>2. QED
    BY <1>5, <2>1
<1>7. ~ (added[l] \in Copies[l]) /\ (added[l] \in Copies'[l] <=> l \in exposed')
  BY <1>1, <1>4, <1>5
<1>8. QED
  BY <1>1, <1>6, <1>7

\* When the label is not exposed after it.
LEMMA SafelyWritten ==
  ASSUME SVSInv, HasCopy, BufferStep, main.pc \in AddPoints, NEW l \in Labels, l = main.label,
         NEW g, g = flat', Written(flat, g, l, added[l]),
         \A k \in Labels : k # l => (k \in exposed' <=> k \in exposed), ~ (l \in exposed'),
         NEW L, Tracks(L, g, Copies)
  PROVE  Tracks(L, g, Copies')
<1>1. /\ \A k \in Labels : k # l => Copies'[k] = Copies[k]
      /\ ~ (added[l] \in Copies[l]) /\ ~ (added[l] \in Copies'[l]) /\ (l \in exposed => ~ multi)
  BY WrittenOnCopy
<1>2. g \in FlatOf(Numbers)
  BY DEF Written
<1>3. ~ (l \in exposed) => Copies'[l] = Copies[l]
  BY CopiesAfter
<1>4. l \in exposed => VectorsOf(g, l) = {added[l]}
  BY <1>1 DEF Written
<1>5. ASSUME NEW i \in 1..Count(g) PROVE OnCopyAt(g, Copies', i) <=> OnCopyAt(g, Copies, i)
  <2>1. PICK k \in Labels : k = g.labels[i]
    BY <1>2, FlatFacts
  <2>2. g.vectors[i] \in VectorsOf(g, k)
    BY <1>2, <2>1, VectorsHeld
  <2>3. CASE k # l
    BY <1>1, <2>1, <2>3 DEF OnCopyAt
  <2>4. CASE k = l
    BY <1>1, <1>3, <1>4, <2>1, <2>2, <2>4 DEF OnCopyAt
  <2>5. QED
    BY <2>3, <2>4
<1>6. PICK D : D = Copies'
  OBVIOUS
<1>7. PICK C : C = Copies
  OBVIOUS
<1>8. Tracks(L, g, D)
  BY <1>5, <1>6, <1>7, TracksAlike
<1>9. QED
  BY <1>6, <1>8

\* The view of the label whose vector goes to the buffer.
LEMMA ViewWritten ==
  ASSUME SVSInv, BufferStep, main.pc \in AddPoints, NEW l \in Labels, l = main.label,
         NEW g, g = flat', Written(flat, g, l, added[l]), Call(l)' = "none", ~ (l \in exposed'),
         HasCopy => journal'.deleted = IF multi \/ VectorsOf(flat, l) = {} THEN journal.deleted
                                       ELSE journal.deleted \cup {l}
  PROVE  LabelOK(View(l)')
<1>1. /\ Call(l) = "add" /\ ViewOK(View(l)) /\ LabelOK(View(l))
  BY AddedLabel
<1>2. PICK q : q = View(l)
  OBVIOUS
<1>3. /\ q.call = "add" /\ (q.kind = "multi" <=> multi) /\ q.buffer = FlatVectors(l) /\ q.added = added[l]
      /\ q.phase = update.pc /\ q.fate = Fate(l) /\ (q.kind = "single" <=> ~ multi)
  <2>1. multi \in BOOLEAN
    BY DEF SVSInv, VariablesInv
  <2>2. (Kind = "multi" <=> multi) /\ (Kind = "single" <=> ~ multi)
    BY <2>1 DEF Kind
  <2>3. QED
    BY <1>1, <1>2, <2>2 DEF View
<1>4. multi' = multi /\ FlatOK(Numbers, g)
  BY DEF BufferStep, Written
<1>5. FlatVectors(l)' = IF multi THEN FlatVectors(l) \cup {added[l]} ELSE {added[l]}
  <2>1. FlatVectors(l)' = VectorsOf(g, l)
    BY <1>4, BufferAfter
  <2>2. QED
    BY <2>1 DEF Written, FlatVectors
<1>6. /\ Kind' = Kind /\ update'.pc = update.pc /\ CopyOf(l)' = CopyOf(l)
      /\ added'[l] = added[l] /\ expected'[l] = expected[l] /\ svs'[l] = svs[l]
  BY BufferStepParts DEF BufferStep
<1>7. Fate(l)' = IF HasCopy THEN IF l \in journal'.deleted THEN "dropped" ELSE "kept" ELSE Fate(l)
  BY BufferStepParts
<1>8. HasCopy => Fate(l) = IF l \in journal.deleted THEN "dropped" ELSE "kept"
  BY DEF Fate, ToDelete, HasCopy, CopyPhases
<1>9. HasCopy <=> q.phase \in CopyPhases
  BY <1>3 DEF HasCopy
<1>10. CASE multi \/ FlatVectors(l) = {}
  <2>1. Fate(l)' = Fate(l)
    BY <1>7, <1>8, <1>10 DEF FlatVectors
  <2>2. FlatVectors(l)' = q.buffer \cup {q.added}
    BY <1>3, <1>5, <1>10
  <2>3. PICK r : r = [q EXCEPT !.call = "none", !.buffer = q.buffer \cup {q.added}, !.newest = "safe"]
    OBVIOUS
  <2>4. View(l)' = r
    BY <1>2, <1>6, <2>1, <2>2, <2>3 DEF View, Newest
  <2>5. LabelOK(r)
    BY <1>1, <1>2, <1>3, <1>10, <2>3, LabelIsAppended
  <2>6. QED
    BY <2>4, <2>5
<1>11. CASE ~ multi /\ FlatVectors(l) # {}
  <2>1. Fate(l)' = IF q.phase \in CopyPhases THEN "dropped" ELSE q.fate
    BY <1>3, <1>7, <1>9, <1>11 DEF FlatVectors
  <2>2. FlatVectors(l)' = {q.added}
    BY <1>3, <1>5, <1>11
  <2>3. PICK r : r = [q EXCEPT !.call = "none", !.buffer = {q.added}, !.newest = "safe",
                           !.fate = IF q.phase \in CopyPhases THEN "dropped" ELSE q.fate]
    OBVIOUS
  <2>4. View(l)' = r
    BY <1>2, <1>6, <2>1, <2>2, <2>3 DEF View, Newest
  <2>5. LabelOK(r)
    BY <1>1, <1>2, <1>3, <1>11, <2>3, LabelIsOverwritten
  <2>6. QED
    BY <2>4, <2>5
<1>12. QED
  BY <1>10, <1>11

LEMMA AddToFlatKeeps ==
  ASSUME SVSInv, AddToFlat
  PROVE  SVSInv'
<1>1. /\ main.pc = "add_flat" /\ flat' = WithVector(flat, main.label)
      /\ journal' = JournalOverwrite(main.label)
      /\ main' = [pc |-> "add_threshold", size |-> Count(flat')] /\ BufferStep
      /\ exposed' = exposed \ {main.label}
  BY DEF AddToFlat, BufferStep
<1>2. VariablesInv /\ MainInv /\ BuildInv /\ SchedulingInv /\ JournalInv /\ multi \in BOOLEAN
      /\ journal \in [swaps : Seq(SwapRecord), deleted : SUBSET Labels] /\ exposed \subseteq Labels
  BY DEF SVSInv, VariablesInv
<1>3. main.pc \in AddPoints /\ main.pc \in LabelPoints
  BY <1>1 DEF AddPoints, LabelPoints
<1>4. PICK l \in Labels : l = main.label
  BY <1>3, ServedLabel
<1>5. added[l] \in Numbers /\ FlatOK(Numbers, flat) /\ (HasCopy => ~ (added[l] \in Copied(l)))
  BY <1>3, <1>4, AddedLabel
<1>6. PICK g : g = flat'
  OBVIOUS
<1>7. g = WithVector(flat, l) /\ Written(flat, g, l, added[l]) /\ FlatOK(Numbers, g) /\ Count(g) \in Nat
  <2>1. Written(flat, WithVector(flat, l), l, added[l])
    BY <1>2, <1>5, WithVectorWrites
  <2>2. g = WithVector(flat, l)
    BY <1>1, <1>4, <1>6
  <2>3. Written(flat, g, l, added[l])
    BY <2>1, <2>2
  <2>4. QED
    BY <2>2, <2>3 DEF Written
<1>8. multi' = multi /\ mode' = mode /\ svs' = svs /\ queue' = queue /\ scheduled' = scheduled /\ update' = update
  BY <1>1 DEF BufferStep
<1>9. /\ BufferOK(flat)' /\ Count(flat)' = Count(g)
      /\ \A k : FlatVectors(k)' = VectorsOf(g, k)
  BY <1>6, <1>7, <1>8, BufferAfter
<1>10. main' = [pc |-> "add_threshold", size |-> Count(g)] /\ main'.pc = "add_threshold" /\ main'.size = Count(g)
  BY <1>1, <1>6
<1>11. PICK j : j = JournalOverwrite(l)
  OBVIOUS
<1>12. journal' = j
  BY <1>1, <1>4, <1>11
<1>13. HasCopy => WriteJournaled(j, update.labels, Copies, g, l)
  <2>1. SUFFICES ASSUME HasCopy PROVE WriteJournaled(j, update.labels, Copies, g, l)
    OBVIOUS
  <2>2. PICK C : C = Copies
    OBVIOUS
  <2>3. ~ (added[l] \in C[l])
    BY <1>1, <1>3, <1>4, <1>6, <1>7, <2>1, <2>2, WrittenOnCopy
  <2>4. PICK L : L = update.labels
    OBVIOUS
  <2>5. Tracks(ApplySwapsToLabelsArray(L, journal.swaps), flat, C)
    BY <1>2, <2>1, <2>2, <2>4 DEF JournalInv
  <2>6. WriteJournaled(JournalOverwrite(l), L, C, WithVector(flat, l), l)
    BY <1>2, <1>5, <2>3, <2>5, WriteTracks
  <2>7. QED
    BY <1>7, <1>11, <2>2, <2>4, <2>6
<1>14. /\ j \in [swaps : Seq(SwapRecord), deleted : SUBSET Labels]
       /\ j.deleted = IF multi \/ VectorsOf(flat, l) = {} THEN journal.deleted
                      ELSE journal.deleted \cup {l}
  <2>1. CASE multi \/ ~ IsLabelExists(flat, l)
    <3>1. j = journal
      BY <1>11, <2>1 DEF JournalOverwrite
    <3>2. multi \/ VectorsOf(flat, l) = {}
      BY <1>5, <2>1, LabelHasVector
    <3>3. QED
      BY <1>2, <3>1, <3>2
  <2>2. CASE ~ multi /\ IsLabelExists(flat, l)
    <3>1. PICK id \in 1..Count(flat) : id = flat.ids[l][1]
      BY <1>5, <2>2, OverwrittenId
    <3>2. PICK r : r = <<Skip, id, id>>
      OBVIOUS
    <3>3. r \in SwapRecord
      <4>1. id \in Numbers
        BY <1>5, FlatFacts DEF Numbers, FlatOK
      <4>2. QED
        BY <3>2, <4>1 DEF SwapRecord
    <3>4. j = [swaps |-> Append(journal.swaps, r), deleted |-> journal.deleted \cup {l}]
      BY <1>11, <2>2, <3>1, <3>2 DEF JournalOverwrite
    <3>5. Append(journal.swaps, r) \in Seq(SwapRecord) /\ journal.deleted \cup {l} \in SUBSET Labels
      BY <1>2, <3>3
    <3>6. VectorsOf(flat, l) # {}
      BY <1>5, <2>2, LabelHasVector
    <3>7. QED
      BY <2>2, <3>4, <3>5, <3>6
  <2>3. QED
    BY <2>1, <2>2
<1>15. VariablesInv'
  <2>1. main' \in MainType
    BY <1>7, <1>10 DEF MainType
  <2>2. QED
    BY <1>1, <1>2, <1>12, <1>14, <2>1, BufferStepTypes, Zenon
<1>16. MainInv'
  BY <1>1, <1>2, <1>8, <1>10 DEF MainInv
<1>17. JournalInv'
  <2>1. SUFFICES ASSUME HasCopy
                 PROVE  Tracks(ApplySwapsToLabelsArray(update.labels, journal'.swaps), flat', Copies')
    BY <1>8, JournalAfter
  <2>2. PICK M : M = ApplySwapsToLabelsArray(update.labels, journal'.swaps)
    OBVIOUS
  <2>3. Tracks(M, g, Copies)
    BY <1>12, <1>13, <2>1, <2>2 DEF WriteJournaled
  <2>4. Tracks(M, g, Copies')
    BY <1>1, <1>3, <1>4, <1>6, <1>7, <2>1, <2>3, SafelyWritten
  <2>5. QED
    BY <1>6, <2>2, <2>4
<1>18. LabelsInv'
  <2>1. ASSUME NEW k PROVE Call(k)' = "none"
    BY <1>10 DEF Call, AddPoints, DeletePoints, DeleteSVSPoints
  <2>2. LabelOK(View(l)')
    <3>1. HasCopy => journal'.deleted = IF multi \/ VectorsOf(flat, l) = {} THEN journal.deleted
                                        ELSE journal.deleted \cup {l}
      BY <1>12, <1>14
    <3>2. QED
      BY <1>1, <1>3, <1>4, <1>6, <1>7, <2>1, <3>1, ViewWritten
  <2>3. ASSUME NEW k \in Labels, k # l PROVE FlatVectors(k)' = FlatVectors(k)
    BY <1>7, <1>9, <2>3 DEF Written, FlatVectors
  <2>4. ASSUME NEW k \in Labels, k # l PROVE k \in journal'.deleted <=> k \in journal.deleted
    BY <1>12, <1>14, <2>4
  <2>5. QED
    BY <1>1, <1>3, <1>4, <2>1, <2>2, <2>3, <2>4, BufferStepLabels
<1>19. BuildInv'
  <2>1. SVSIsEmpty' = SVSIsEmpty
    BY <1>1, BufferStepParts
  <2>2. QED
    BY <1>2, <1>8, <2>1 DEF BuildInv
<1>20. SchedulingInv'
  <2>1. Full' => UpdateComes'
    BY <1>9, <1>10 DEF Full, UpdateComes
  <2>2. scheduled'.update => queue'.update > 0
    BY <1>2, <1>8 DEF SchedulingInv
  <2>3. QED
    BY <2>1, <2>2 DEF SchedulingInv
<1>21. QED
  BY <1>9, <1>15, <1>16, <1>17, <1>18, <1>19, <1>20 DEF SVSInv

\* A vector overwritten in place, unjournaled while the update has a copy: the id will
\* be removed if its old vector would have been.
LEMMA OverwrittenInPlace ==
  ASSUME SVSInv, HasCopy, BufferStep, main.pc \in AddPoints, NEW l \in Labels, l = main.label,
         ~ multi, IsLabelExists(flat, l), NEW g, g = flat', g = WithVector(flat, l),
         Written(flat, g, l, added[l]),
         \A k \in Labels : k # l => (k \in exposed' <=> k \in exposed),
         l \in exposed' <=> WillBeRemoved(l), NEW L, Tracks(L, flat, Copies)
  PROVE  Tracks(L, g, Copies')
<1>1. FlatOK(Numbers, flat) /\ flat \in FlatOf(Numbers) /\ added[l] \in Numbers
  BY AddedLabel DEF FlatOK
<1>2. /\ \A k \in Labels : k # l => Copies'[k] = Copies[k]
      /\ added[l] \in Copies'[l] <=> l \in exposed'
  BY WrittenOnCopy
<1>3. PICK id \in 1..Count(flat) :
        id = flat.ids[l][1] /\ Holding(flat, l) = {id} /\ flat.labels[id] = l
  BY <1>1, OverwrittenId
<1>4. g = UpdateElement(flat, id, added[l])
  BY <1>3 DEF WithVector
<1>5. /\ g.labels = flat.labels /\ g.vectors[id] = added[l]
      /\ \A i \in 1..Count(flat) : i # id => g.vectors[i] = flat.vectors[i]
  BY <1>1, <1>4, OverwriteChanges
<1>6. FlatVectors(l) = {flat.vectors[id]}
  <2>1. \A x : x \in FlatVectors(l) <=>
                 \E i \in 1..Count(flat) : flat.labels[i] = l /\ flat.vectors[i] = x
    BY <1>1, VectorsHeld DEF FlatVectors
  <2>2. \A i \in 1..Count(flat) : flat.labels[i] = l <=> i = id
    BY <1>3 DEF Holding
  <2>3. QED
    BY <2>1, <2>2
<1>7. OnCopyAt(flat, Copies, id) <=> l \in exposed'
  <2>1. Copies[l] = Copied(l) \cup IF l \in exposed THEN FlatVectors(l) ELSE {}
    BY CopiesAfter
  <2>2. l \in exposed' <=> l \in exposed \/ FlatVectors(l) \subseteq Copied(l)
    BY <1>6 DEF WillBeRemoved
  <2>3. QED
    BY <1>3, <1>6, <2>1, <2>2 DEF OnCopyAt
<1>8. OnCopyAt(g, Copies', id) <=> l \in exposed'
  BY <1>2, <1>3, <1>5 DEF OnCopyAt
<1>9. ASSUME NEW i \in 1..Count(flat) PROVE OnCopyAt(g, Copies', i) <=> OnCopyAt(flat, Copies, i)
  <2>1. CASE i = id
    BY <1>7, <1>8, <2>1
  <2>2. CASE i # id
    <3>1. PICK k \in Labels : k = flat.labels[i] /\ k # l
      <4>1. ~ (i \in Holding(flat, l))
        BY <1>3, <2>2
      <4>2. flat.labels[i] \in Labels /\ flat.labels[i] # l
        BY <1>1, <4>1, FlatFacts DEF Holding
      <4>3. QED
        BY <4>2
    <3>2. QED
      BY <1>2, <1>5, <2>2, <3>1 DEF OnCopyAt
  <2>3. QED
    BY <2>1, <2>2
<1>10. PICK D : D = Copies'
  OBVIOUS
<1>11. PICK C : C = Copies
  OBVIOUS
<1>12. Tracks(L, g, D)
  BY <1>5, <1>9, <1>10, <1>11, TracksAlike
<1>13. QED
  BY <1>10, <1>12

\* The view of the label then.
LEMMA ViewOverwrittenInPlace ==
  ASSUME SVSInv, HasCopy, BufferStep, journal' = journal, main.pc \in AddPoints,
         NEW l \in Labels, l = main.label, ~ multi, FlatVectors(l) # {},
         NEW g, g = flat', Written(flat, g, l, added[l]), Call(l)' = "none",
         l \in exposed' <=> WillBeRemoved(l)
  PROVE  LabelOK(View(l)')
<1>1. Call(l) = "add" /\ ViewOK(View(l)) /\ LabelOK(View(l))
  BY AddedLabel
<1>2. PICK q : q = View(l)
  OBVIOUS
<1>3. /\ q.call = "add" /\ q.kind = "single" /\ q.buffer = FlatVectors(l) /\ q.added = added[l]
      /\ q.phase \in CopyPhases /\ q.copy = Copied(l)
      /\ q.newest = IF l \in exposed THEN "exposed" ELSE "safe"
  BY <1>1, <1>2 DEF View, Kind, HasCopy, CopyOf, Newest
<1>4. multi' = multi /\ FlatOK(Numbers, g)
  BY DEF BufferStep, Written
<1>5. FlatVectors(l)' = {added[l]}
  <2>1. FlatVectors(l)' = VectorsOf(g, l)
    BY <1>4, BufferAfter
  <2>2. QED
    BY <2>1 DEF Written
<1>6. /\ Kind' = Kind /\ update'.pc = update.pc /\ CopyOf(l)' = CopyOf(l)
      /\ added'[l] = added[l] /\ expected'[l] = expected[l] /\ svs'[l] = svs[l]
  BY BufferStepParts DEF BufferStep
<1>7. Fate(l)' = Fate(l)
  BY UpdateStays DEF BufferStep
<1>8. Newest(l)' = IF q.newest = "exposed" \/ q.buffer \subseteq q.copy THEN "exposed" ELSE "safe"
  BY <1>3 DEF Newest, WillBeRemoved
<1>9. PICK r : r = [q EXCEPT !.call = "none", !.buffer = {q.added},
                             !.newest = IF q.newest = "exposed" \/ q.buffer \subseteq q.copy
                                        THEN "exposed" ELSE "safe"]
  OBVIOUS
<1>10. View(l)' = r
  BY <1>2, <1>3, <1>5, <1>6, <1>7, <1>8, <1>9 DEF View
<1>11. LabelOK(r)
  BY <1>1, <1>2, <1>3, <1>9, LabelIsOverwrittenInPlace
<1>12. QED
  BY <1>10, <1>11

LEMMA AddInplaceToFlatKeeps ==
  ASSUME SVSInv, AddInplaceToFlat
  PROVE  SVSInv'
<1>1. /\ main.pc = "add_inplace" /\ SVSIsEmpty /\ flat' = WithVector(flat, main.label)
      /\ main' = IF Count(flat') >= TrainingTriggerThreshold THEN [pc |-> "update"] ELSE Idle
      /\ exposed' = IF ~ multi /\ WillBeRemoved(main.label) THEN exposed \cup {main.label}
                                                            ELSE exposed \ {main.label}
      /\ UNCHANGED journal /\ BufferStep
  BY DEF AddInplaceToFlat, BufferStep, Expose
<1>2. VariablesInv /\ MainInv /\ BuildInv /\ SchedulingInv /\ JournalInv /\ multi \in BOOLEAN
      /\ journal \in [swaps : Seq(SwapRecord), deleted : SUBSET Labels] /\ exposed \subseteq Labels
  BY DEF SVSInv, VariablesInv
<1>3. main.pc \in AddPoints /\ main.pc \in LabelPoints
  BY <1>1 DEF AddPoints, LabelPoints
<1>4. PICK l \in Labels : l = main.label
  BY <1>3, ServedLabel
<1>5. added[l] \in Numbers /\ FlatOK(Numbers, flat)
  BY <1>3, <1>4, AddedLabel
<1>6. PICK g : g = flat'
  OBVIOUS
<1>7. g = WithVector(flat, l) /\ Written(flat, g, l, added[l]) /\ FlatOK(Numbers, g) /\ Count(g) \in Nat
  <2>1. Written(flat, WithVector(flat, l), l, added[l])
    BY <1>2, <1>5, WithVectorWrites
  <2>2. g = WithVector(flat, l)
    BY <1>1, <1>4, <1>6
  <2>3. Written(flat, g, l, added[l])
    BY <2>1, <2>2
  <2>4. QED
    BY <2>2, <2>3 DEF Written
<1>8. /\ multi' = multi /\ mode' = mode /\ svs' = svs /\ queue' = queue /\ scheduled' = scheduled
      /\ update' = update /\ journal' = journal
  BY <1>1 DEF BufferStep
<1>9. /\ BufferOK(flat)' /\ Count(flat)' = Count(g)
      /\ \A k : FlatVectors(k)' = VectorsOf(g, k)
  BY <1>6, <1>7, <1>8, BufferAfter
<1>10. /\ main' = [pc |-> "update"] \/ main' = Idle
       /\ main'.pc = IF Count(g) >= TrainingTriggerThreshold THEN "update" ELSE "idle"
  BY <1>1, <1>6 DEF Idle
<1>11. /\ exposed' \subseteq Labels
       /\ \A k \in Labels : k # l => (k \in exposed' <=> k \in exposed)
       /\ l \in exposed' <=> ~ multi /\ WillBeRemoved(l)
  BY <1>1, <1>2, <1>4
<1>12. IsLabelExists(flat, l) <=> FlatVectors(l) # {}
  BY <1>5, LabelHasVector DEF FlatVectors
<1>13. VariablesInv'
  <2>1. main' \in MainType
    BY <1>10 DEF MainType
  <2>2. QED
    BY <1>1, <1>2, <1>8, <1>11, <2>1, BufferStepTypes
<1>14. MainInv'
  BY <1>1, <1>2, <1>8, <1>10 DEF MainInv
<1>15. JournalInv'
  <2>1. SUFFICES ASSUME HasCopy
                 PROVE  Tracks(ApplySwapsToLabelsArray(update.labels, journal'.swaps), flat', Copies')
    BY <1>8, JournalAfter
  <2>2. PICK L : L = update.labels
    OBVIOUS
  <2>3. PICK M : M = ApplySwapsToLabelsArray(L, journal.swaps)
    OBVIOUS
  <2>4. Tracks(M, flat, Copies)
    BY <1>2, <2>1, <2>2, <2>3 DEF JournalInv
  <2>5. Tracks(M, g, Copies')
    <3>1. CASE multi \/ ~ IsLabelExists(flat, l)
      <4>1. PICK C : C = Copies
        OBVIOUS
      <4>2. ~ (added[l] \in C[l])
        BY <1>1, <1>3, <1>4, <1>6, <1>7, <1>11, <2>1, <4>1, WrittenOnCopy
      <4>3. WriteJournaled(JournalOverwrite(l), L, C, WithVector(flat, l), l)
        BY <1>2, <1>5, <2>3, <2>4, <4>1, <4>2, WriteTracks
      <4>4. JournalOverwrite(l) = journal
        BY <3>1 DEF JournalOverwrite
      <4>5. Tracks(M, g, Copies)
        BY <1>7, <2>3, <4>1, <4>3, <4>4 DEF WriteJournaled
      <4>6. ~ (l \in exposed')
        BY <1>11, <1>12, <3>1 DEF WillBeRemoved
      <4>7. QED
        BY <1>1, <1>3, <1>4, <1>6, <1>7, <1>11, <2>1, <4>5, <4>6, SafelyWritten
    <3>2. CASE ~ multi /\ IsLabelExists(flat, l)
      BY <1>1, <1>3, <1>4, <1>6, <1>7, <1>11, <2>1, <2>4, <3>2, OverwrittenInPlace
    <3>3. QED
      BY <3>1, <3>2
  <2>6. QED
    BY <1>6, <1>8, <2>2, <2>3, <2>5
<1>16. LabelsInv'
  <2>1. ASSUME NEW k PROVE Call(k)' = "none"
    BY <1>10 DEF Call, AddPoints, DeletePoints, DeleteSVSPoints
  <2>2. LabelOK(View(l)')
    <3>1. CASE HasCopy /\ ~ multi /\ FlatVectors(l) # {}
      BY <1>1, <1>3, <1>4, <1>6, <1>7, <1>8, <1>11, <2>1, <3>1, ViewOverwrittenInPlace
    <3>2. CASE ~ HasCopy \/ multi \/ FlatVectors(l) = {}
      <4>1. ~ (l \in exposed')
        BY <1>11, <3>2 DEF WillBeRemoved
      <4>2. HasCopy => journal'.deleted = IF multi \/ VectorsOf(flat, l) = {} THEN journal.deleted
                                          ELSE journal.deleted \cup {l}
        BY <1>8, <3>2 DEF FlatVectors
      <4>3. QED
        BY <1>1, <1>3, <1>4, <1>6, <1>7, <2>1, <4>1, <4>2, ViewWritten
    <3>3. QED
      BY <3>1, <3>2
  <2>3. ASSUME NEW k \in Labels, k # l PROVE FlatVectors(k)' = FlatVectors(k)
    BY <1>7, <1>9, <2>3 DEF Written, FlatVectors
  <2>4. QED
    BY <1>1, <1>3, <1>4, <1>8, <1>11, <2>1, <2>2, <2>3, BufferStepLabels
<1>17. BuildInv'
  <2>1. SVSIsEmpty'
    BY <1>1, BufferStepParts
  <2>2. QED
    BY <2>1 DEF BuildInv
<1>18. SchedulingInv'
  <2>1. Full' => UpdateComes'
    BY <1>9, <1>10 DEF Full, UpdateComes
  <2>2. QED
    BY <1>2, <1>8, <2>1 DEF SchedulingInv
<1>19. QED
  BY <1>9, <1>13, <1>14, <1>15, <1>16, <1>17, <1>18 DEF SVSInv

LEMMA DeleteAndRecordSwapsKeeps ==
  ASSUME SVSInv, DeleteAndRecordSwaps
  PROVE  SVSInv'
<1>1. PICK d : d = DeleteVectorAndGetUpdatedIds(flat, main.label)
  OBVIOUS
<1>2. PICK sw : sw = SwapRecords(flat.ids[main.label], d.updated)
  OBVIOUS
<1>3. /\ main.pc = "delete_flat" /\ flat' = d.flat
      /\ journal' = [swaps |-> journal.swaps \o sw, deleted |-> journal.deleted \cup {main.label}]
      /\ main' = [pc |-> "delete_check_svs", label |-> main.label] /\ BufferStep
      /\ exposed' = exposed
  BY <1>1, <1>2 DEF DeleteAndRecordSwaps, BufferStep, Goto
<1>4. VariablesInv /\ MainInv /\ BuildInv /\ SchedulingInv /\ JournalInv /\ multi \in BOOLEAN
      /\ journal \in [swaps : Seq(SwapRecord), deleted : SUBSET Labels] /\ exposed \subseteq Labels
  BY DEF SVSInv, VariablesInv
<1>5. main.pc \in DeletePoints /\ main.pc \in LabelPoints /\ ~ (main.pc \in AddPoints)
  BY <1>3 DEF AddPoints, DeletePoints, LabelPoints
<1>6. PICK l \in Labels : l = main.label
  BY <1>5, ServedLabel
<1>7. FlatOK(Numbers, flat) /\ flat \in FlatOf(Numbers) /\ Count(flat) \in Nat
  <2>1. FlatOK(Numbers, flat)
    BY BufferIsFlat DEF SVSInv
  <2>2. QED
    BY <2>1, FlatFacts DEF FlatOK
<1>8. Deleted(Numbers, flat, l, d)
  BY <1>1, <1>4, <1>6, <1>7, DeletionDeletes
<1>9. PICK g : g = flat'
  OBVIOUS
<1>10. g = d.flat /\ FlatOK(Numbers, g) /\ Count(g) \in 0..Count(flat)
  BY <1>3, <1>8, <1>9 DEF Deleted
<1>11. \A k : VectorsOf(g, k) = IF k = l THEN {} ELSE VectorsOf(flat, k)
  BY <1>7, <1>8, <1>10, DeletedVectors
<1>12. sw = SwapRecords(flat.ids[l], d.updated)
  BY <1>2, <1>6
<1>13. \A C, L : Tracks(L, flat, C) =>
           sw \in Seq(SwapRecord) /\ Tracks(ApplySwapsToLabelsArray(L, sw), g, C)
  <2>1. SUFFICES ASSUME NEW C, NEW L, Tracks(L, flat, C)
                 PROVE  sw \in Seq(SwapRecord) /\ Tracks(ApplySwapsToLabelsArray(L, sw), g, C)
    OBVIOUS
  <2>2. sw \in Seq(SwapRecord) /\ Tracks(ApplySwapsToLabelsArray(L, sw), d.flat, C)
    BY <1>7, <1>8, <1>12, <2>1, DeletionTracks
  <2>3. QED
    BY <1>10, <2>2
<1>14. sw \in Seq(SwapRecord)
  <2>1. PICK C : C = [k \in Labels |-> VectorsOf(flat, k)]
    OBVIOUS
  <2>2. Tracks(flat.labels, flat, C)
    BY <1>7, <2>1, CopyTracks
  <2>3. QED
    BY <1>13, <2>2
<1>15. /\ multi' = multi /\ mode' = mode /\ svs' = svs /\ queue' = queue /\ scheduled' = scheduled
       /\ update' = update
  BY <1>3 DEF BufferStep
<1>16. /\ BufferOK(flat)' /\ Count(flat)' = Count(g)
       /\ \A k : FlatVectors(k)' = VectorsOf(g, k)
  BY <1>9, <1>10, <1>15, BufferAfter
<1>17. main' = [pc |-> "delete_check_svs", label |-> l] /\ main'.pc = "delete_check_svs" /\ main'.label = l
  BY <1>3, <1>6
<1>18. /\ journal'.swaps = journal.swaps \o sw /\ journal'.deleted = journal.deleted \cup {l}
       /\ journal' \in [swaps : Seq(SwapRecord), deleted : SUBSET Labels]
  BY <1>3, <1>4, <1>6, <1>14
<1>19. VariablesInv'
  <2>1. main' \in MainType
    BY <1>17 DEF MainType, DeleteSVSPoints
  <2>2. QED
    BY <1>3, <1>4, <1>18, <2>1, BufferStepTypes
<1>20. MainInv'
  BY <1>3, <1>4, <1>15, <1>17 DEF MainInv
<1>21. /\ \A k \in Labels : k # l => Copies'[k] = Copies[k]
       /\ \A k : Copied(k)' = Copied(k)
  <2>1. \A k : k # l => FlatVectors(k)' = FlatVectors(k)
    BY <1>11, <1>16 DEF FlatVectors
  <2>2. QED
    BY <1>3, <2>1, CopiesAfter, BufferStepParts
<1>22. JournalInv'
  <2>1. SUFFICES ASSUME HasCopy
                 PROVE  Tracks(ApplySwapsToLabelsArray(update.labels, journal'.swaps), g, Copies')
    BY <1>9, <1>15, JournalAfter
  <2>2. PICK L : L = update.labels
    OBVIOUS
  <2>3. PICK s \in Seq(SwapRecord) : s = journal.swaps
    BY <1>4
  <2>4. PICK M : M = ApplySwapsToLabelsArray(L, s)
    OBVIOUS
  <2>5. Tracks(M, flat, Copies)
    BY <1>4, <2>1, <2>2, <2>3, <2>4 DEF JournalInv
  <2>6. PICK N : N = ApplySwapsToLabelsArray(M, sw)
    OBVIOUS
  <2>7. PICK C : C = Copies
    OBVIOUS
  <2>8. PICK D : D = Copies'
    OBVIOUS
  <2>9. Tracks(N, g, C)
    BY <1>13, <2>5, <2>6, <2>7
  <2>10. ASSUME NEW i \in 1..Count(g) PROVE OnCopyAt(g, D, i) <=> OnCopyAt(g, C, i)
    <3>1. g \in FlatOf(Numbers)
      BY <1>10 DEF FlatOK
    <3>2. PICK k \in Labels : k = g.labels[i]
      BY <3>1, FlatFacts
    <3>3. g.vectors[i] \in VectorsOf(g, k)
      BY <3>1, <3>2, VectorsHeld
    <3>4. k # l
      BY <1>11, <3>3
    <3>5. QED
      BY <1>21, <2>7, <2>8, <3>2, <3>4 DEF OnCopyAt
  <2>11. Tracks(N, g, D)
    BY <2>9, <2>10, TracksAlike
  <2>12. ApplySwapsToLabelsArray(L, s \o sw) = N
    BY <1>14, <2>4, <2>6, SwapsConcat
  <2>13. QED
    BY <1>18, <2>2, <2>3, <2>8, <2>11, <2>12
<1>23. FlatVectors(l)' = {} /\ \A k : k # l => FlatVectors(k)' = FlatVectors(k)
  BY <1>11, <1>16 DEF FlatVectors
<1>24. LabelsInv'
  <2>1. Call(l)' = "delete_svs" /\ \A k : k # l => Call(k)' = "none"
    BY <1>17 DEF Call, AddPoints, DeletePoints, DeleteSVSPoints
  <2>2. LabelOK(View(l)')
    <3>1. PICK q : q = View(l)
      OBVIOUS
    <3>2. ViewOK(q) /\ LabelOK(q)
      BY <1>7, <3>1, ViewTyped DEF SVSInv, LabelsInv
    <3>3. q.call = "delete" /\ q.phase = update.pc /\ q.fate = Fate(l)
      <4>1. Call(l) = "delete"
        BY <1>5, <1>6, ServedLabel
      <4>2. QED
        BY <3>1, <4>1 DEF View
    <3>4. PICK r : r = [q EXCEPT !.call = "delete_svs", !.buffer = {},
                           !.fate = IF q.phase \in CopyPhases THEN "dropped" ELSE q.fate]
      OBVIOUS
    <3>5. Fate(l)' = IF q.phase \in CopyPhases THEN "dropped" ELSE q.fate
      <4>1. Fate(l)' = IF HasCopy THEN IF l \in journal'.deleted THEN "dropped" ELSE "kept" ELSE Fate(l)
        BY <1>3, BufferStepParts
      <4>2. HasCopy <=> q.phase \in CopyPhases
        BY <3>3 DEF HasCopy
      <4>3. QED
        BY <1>18, <3>3, <4>1, <4>2
    <3>6. /\ Kind' = Kind /\ update'.pc = update.pc /\ CopyOf(l)' = CopyOf(l)
          /\ added'[l] = added[l] /\ expected'[l] = expected[l] /\ svs'[l] = svs[l]
      BY <1>3, BufferStepParts DEF BufferStep
    <3>7. View(l)' = r
      BY <1>3, <1>23, <2>1, <3>1, <3>4, <3>5, <3>6 DEF View, Newest
    <3>8. LabelOK(r)
      BY <3>2, <3>3, <3>4, LabelLeavesBuffer
    <3>9. QED
      BY <3>7, <3>8
  <2>3. QED
    BY <1>3, <1>5, <1>6, <1>18, <1>23, <2>1, <2>2, BufferStepLabels
<1>25. Full' => Full
  BY <1>7, <1>10, <1>16, TieredSVSAssumption DEF Full
<1>26. AllCopied => AllCopied'
  <2>1. \A k \in Labels : k # l => Copies'[k] = Copies[k] /\ FlatVectors(k)' = FlatVectors(k)
    BY <1>21, <1>23
  <2>2. QED
    BY <1>23, <2>1 DEF AllCopied
<1>27. BuildInv'
  <2>1. SVSIsEmpty' = SVSIsEmpty
    BY <1>3, BufferStepParts
  <2>2. QED
    BY <1>4, <1>15, <2>1 DEF BuildInv
<1>28. SchedulingInv'
  <2>1. UpdateComes => UpdateComes'
    BY <1>3, <1>15 DEF UpdateComes
  <2>2. HasCopy' = HasCopy
    BY <1>3, BufferStepParts
  <2>3. QED
    BY <1>4, <1>15, <1>25, <1>26, <2>1, <2>2 DEF SchedulingInv
<1>29. QED
  BY <1>16, <1>19, <1>20, <1>22, <1>24, <1>27, <1>28 DEF SVSInv

-----------------------------------------------------------------------------
(* Steps of the update.                                                     *)

LEMMA UpdateStepTypes ==
  ASSUME VariablesInv, UNCHANGED <<multi, mode, added, expected, exposed, calls>>,
         svs' \in [Labels -> SUBSET Numbers], main' \in MainType, update' \in UpdateType,
         journal' \in [swaps : Seq(SwapRecord), deleted : SUBSET Labels],
         queue' \in [update : Nat, gc : Nat], scheduled' \in [update : BOOLEAN, gc : BOOLEAN],
         HasCopy' => Len(update'.labels) = Len(update'.vectors)
  PROVE  VariablesInv'
BY DEF VariablesInv

\* What is known of the labels before such a step.
LEMMA LabelsBefore ==
  ASSUME SVSInv
  PROVE  /\ FlatOK(Numbers, flat) /\ flat \in FlatOf(Numbers) /\ Count(flat) \in Nat
         /\ \A l \in Labels : /\ ViewOK(View(l)) /\ LabelOK(View(l))
                              /\ FlatVectors(l) = VectorsOf(flat, l)
<1>1. FlatOK(Numbers, flat)
  BY BufferIsFlat DEF SVSInv
<1>2. flat \in FlatOf(Numbers) /\ Count(flat) \in Nat
  BY <1>1, FlatFacts DEF FlatOK
<1>3. \A l \in Labels : ViewOK(View(l)) /\ LabelOK(View(l))
  BY <1>1, ViewTyped DEF SVSInv, LabelsInv
<1>4. QED
  BY <1>1, <1>2, <1>3 DEF FlatVectors

LEMMA StartUpdateKeeps ==
  ASSUME SVSInv, StartUpdate
  PROVE  SVSInv'
<1>1. PICK b \in BOOLEAN :
        /\ update = Idle /\ RunBy(b)
        /\ scheduled' = [scheduled EXCEPT !.update = FALSE]
        /\ update' = [pc |-> "copy", byMain |-> b]
        /\ UNCHANGED <<multi, mode, flat, svs, journal, added, expected, exposed, calls>>
  BY DEF StartUpdate
<1>2. VariablesInv /\ MainInv /\ BuildInv /\ SchedulingInv /\ BufferOK(flat)
  BY DEF SVSInv
<1>3. main.pc # "updating"
  BY <1>1, <1>2 DEF MainInv
<1>4. update.pc = "idle" /\ update'.pc = "copy" /\ ~ HasCopy /\ ~ HasCopy'
  BY <1>1 DEF Idle, HasCopy, CopyPhases
<1>5. queue \in [update : Nat, gc : Nat] /\ scheduled \in [update : BOOLEAN, gc : BOOLEAN]
      /\ main \in MainType
  BY <1>2 DEF VariablesInv
<1>6. \/ /\ b /\ main.pc = "update" /\ main'.pc = "updating"
         /\ main' = [pc |-> "updating"] /\ queue' = queue
      \/ ~ b /\ main' = main /\ queue' \in [update : Nat, gc : Nat]
  <2>1. CASE b
    BY <1>1, <2>1 DEF RunBy
  <2>2. CASE ~ b
    <3>1. queue.update > 0 /\ queue' = [queue EXCEPT !.update = @ - 1] /\ main' = main
      BY <1>1, <2>2 DEF RunBy
    <3>2. PICK n \in Nat : n = queue.update - 1
      BY <1>5, <3>1
    <3>3. queue' = [queue EXCEPT !.update = n]
      BY <3>1, <3>2
    <3>4. QED
      BY <1>5, <2>2, <3>1, <3>3
  <2>3. QED
    BY <2>1, <2>2
<1>7. VariablesInv'
  <2>1. main' \in MainType
    <3>1. [pc |-> "updating"] \in MainType
      BY DEF MainType
    <3>2. main' = [pc |-> "updating"] \/ main' = main
      BY <1>6
    <3>3. QED
      BY <1>5, <3>1, <3>2
  <2>2. update' \in UpdateType
    BY <1>1 DEF UpdateType
  <2>3. queue' \in [update : Nat, gc : Nat] /\ scheduled' \in [update : BOOLEAN, gc : BOOLEAN]
    BY <1>1, <1>5, <1>6
  <2>4. /\ svs' \in [Labels -> SUBSET Numbers]
        /\ journal' \in [swaps : Seq(SwapRecord), deleted : SUBSET Labels]
    BY <1>1, <1>2 DEF VariablesInv
  <2>5. QED
    BY <1>1, <1>2, <1>4, <2>1, <2>2, <2>3, <2>4, UpdateStepTypes
<1>8. update' # Idle /\ update'.byMain = b
  BY <1>1, <1>4 DEF Idle
<1>9. MainInv'
  BY <1>1, <1>2, <1>3, <1>6, <1>8 DEF MainInv
<1>10. LabelsInv'
  <2>1. SUFFICES ASSUME NEW l \in Labels PROVE LabelOK(View(l)')
    BY LabelsAfter
  <2>2. Call(l)' = Call(l)
    <3>1. main' = main \/ (main.pc = "update" /\ main'.pc = "updating")
      BY <1>6
    <3>2. QED
      BY <3>1 DEF Call, AddPoints, DeletePoints, DeleteSVSPoints
  <2>3. ToDelete = {} /\ ToDelete' = {}
    BY <1>4 DEF ToDelete
  <2>4. Fate(l) = "kept" /\ Fate(l)' = "kept"
    BY <2>3 DEF Fate
  <2>5. CopyOf(l) = {} /\ CopyOf(l)' = {}
    BY <1>4 DEF CopyOf
  <2>6. Kind' = Kind /\ FlatVectors(l)' = FlatVectors(l)
    BY <1>1, BufferStays DEF Kind
  <2>7. PICK q : q = View(l)
    OBVIOUS
  <2>8. PICK r : r = [q EXCEPT !.phase = "copy"]
    OBVIOUS
  <2>9. View(l)' = r
    BY <1>1, <1>4, <2>2, <2>4, <2>5, <2>6, <2>7, <2>8 DEF View, Newest
  <2>10. ViewOK(q) /\ LabelOK(q)
    BY <2>7, LabelsBefore
  <2>11. q.phase = "idle"
    BY <1>4, <2>7 DEF View
  <2>12. LabelOK(r)
    BY <2>8, <2>10, <2>11, LabelWaits
  <2>13. QED
    BY <2>9, <2>12
<1>11. JournalInv'
  BY <1>4 DEF JournalInv
<1>12. BuildInv'
  BY <1>4 DEF BuildInv
<1>13. SchedulingInv'
  <2>1. scheduled'.update = FALSE
    BY <1>1, <1>5
  <2>2. QED
    BY <1>4, <2>1 DEF SchedulingInv
<1>14. BufferOK(flat)'
  BY <1>1, <1>2, BufferStaysOK
<1>15. QED
  BY <1>7, <1>9, <1>10, <1>11, <1>12, <1>13, <1>14 DEF SVSInv

LEMMA CopyBufferKeeps ==
  ASSUME SVSInv, CopyBuffer
  PROVE  SVSInv'
<1>1. PICK p \in {"clean", "prepare"} :
        /\ p = "clean" <=> Count(flat) = 0
        /\ update' = [pc |-> p, byMain |-> update.byMain, labels |-> flat.labels,
                      vectors |-> flat.vectors]
  BY DEF CopyBuffer
<1>2. /\ update.pc = "copy" /\ journal' = NoJournal
      /\ UNCHANGED <<multi, mode, flat, svs, queue, scheduled, main, added, expected, exposed, calls>>
  BY DEF CopyBuffer
<1>3. VariablesInv /\ MainInv /\ BuildInv /\ SchedulingInv /\ BufferOK(flat)
  BY DEF SVSInv
<1>4. flat \in FlatOf(Numbers) /\ Count(flat) \in Nat
      /\ flat.labels \in Seq(Labels) /\ flat.vectors \in Seq(Numbers)
      /\ Len(flat.labels) = Len(flat.vectors)
  BY LabelsBefore, FlatFacts
<1>5. /\ update'.pc = p /\ update'.byMain = update.byMain /\ HasCopy' /\ ~ HasCopy
      /\ update'.labels = flat.labels /\ update'.vectors = flat.vectors
      /\ update # Idle /\ update' # Idle /\ update.byMain \in BOOLEAN
  <2>1. update # Idle /\ update.byMain \in BOOLEAN
    BY <1>2, <1>3, UpdateFacts DEF Idle
  <2>2. QED
    BY <1>1, <1>2, <2>1 DEF HasCopy, CopyPhases, Idle
<1>6. journal' = [swaps |-> <<>>, deleted |-> {}] /\ journal'.swaps = <<>> /\ journal'.deleted = {}
  BY <1>2 DEF NoJournal
<1>7. VariablesInv'
  <2>1. update' \in UpdateType
    <3>1. update' \in [pc : CopyPhases, byMain : BOOLEAN, labels : Seq(Labels), vectors : Seq(Numbers)]
      BY <1>1, <1>4, <1>5 DEF CopyPhases
    <3>2. QED
      BY <3>1 DEF UpdateType
  <2>2. journal' \in [swaps : Seq(SwapRecord), deleted : SUBSET Labels]
    BY <1>6
  <2>3. /\ svs' \in [Labels -> SUBSET Numbers] /\ main' \in MainType
        /\ queue' \in [update : Nat, gc : Nat] /\ scheduled' \in [update : BOOLEAN, gc : BOOLEAN]
    BY <1>2, <1>3 DEF VariablesInv
  <2>4. QED
    BY <1>2, <1>3, <1>4, <1>5, <2>1, <2>2, <2>3, UpdateStepTypes
<1>8. MainInv'
  BY <1>2, <1>3, <1>5 DEF MainInv
<1>9. \A l : Copied(l)' = VectorsOf(flat, l)
  BY <1>5, Zenon DEF Copied, VectorsOf
<1>10. \A l : FlatVectors(l)' = VectorsOf(flat, l)
  BY <1>2, Zenon DEF FlatVectors, VectorsOf
<1>11. (\A k \in Labels : Copies'[k] = VectorsOf(flat, k)) /\ AllCopied'
  <2>1. \A k \in Labels : Copies'[k] = VectorsOf(flat, k)
    BY <1>9, <1>10 DEF Copies
  <2>2. QED
    BY <1>10, <2>1 DEF AllCopied
<1>12. LabelsInv'
  <2>1. SUFFICES ASSUME NEW l \in Labels PROVE LabelOK(View(l)')
    BY LabelsAfter
  <2>2. ToDelete = {} /\ ToDelete' = {}
    BY <1>2, <1>5, <1>6 DEF ToDelete, CopyPhases, HasCopy
  <2>3. Fate(l) = "kept" /\ Fate(l)' = "kept"
    BY <2>2 DEF Fate
  <2>4. CopyOf(l)' = FlatVectors(l) /\ FlatVectors(l)' = FlatVectors(l)
    BY <1>5, <1>9, <1>10 DEF CopyOf, FlatVectors
  <2>5. Kind' = Kind /\ Call(l)' = Call(l)
    BY <1>2, CallStays DEF Kind
  <2>6. PICK q : q = View(l)
    OBVIOUS
  <2>7. PICK r : r = [q EXCEPT !.phase = p, !.copy = q.buffer]
    OBVIOUS
  <2>8. View(l)' = r
    BY <1>2, <1>5, <2>3, <2>4, <2>5, <2>6, <2>7 DEF View, Newest
  <2>9. ViewOK(q) /\ LabelOK(q)
    BY <2>6, LabelsBefore
  <2>10. q.phase = "copy" /\ q.buffer = FlatVectors(l)
    BY <1>2, <2>6 DEF View
  <2>11. p = "clean" => q.buffer = {}
    <3>1. Count(flat) = 0 => \A x : ~ (x \in FlatVectors(l))
      BY <1>4, VectorsHeld DEF FlatVectors
    <3>2. QED
      BY <1>1, <2>10, <3>1
  <2>12. LabelOK(r)
    BY <2>7, <2>9, <2>10, <2>11, LabelIsCopied
  <2>13. QED
    BY <2>8, <2>12
<1>13. JournalInv'
  <2>1. PICK C : C = Copies'
    OBVIOUS
  <2>2. \A k \in Labels : C[k] = VectorsOf(flat, k)
    BY <1>11, <2>1
  <2>3. Tracks(flat.labels, flat, C)
    BY <1>4, <2>2, CopyTracks
  <2>4. ApplySwapsToLabelsArray(flat.labels, <<>>) = flat.labels
    BY NoSwaps
  <2>5. ApplySwapsToLabelsArray(update.labels, journal.swaps)' = flat.labels
    <3>1. ApplySwapsToLabelsArray(update.labels, journal.swaps)'
            = ApplySwapsToLabelsArray(update'.labels, journal'.swaps)
      OBVIOUS
    <3>2. QED
      BY <1>5, <1>6, <2>4, <3>1
  <2>7. QED
    BY <1>2, <2>1, <2>3, <2>5 DEF JournalInv
<1>14. BuildInv'
  BY <1>1, <1>5 DEF BuildInv
<1>15. SchedulingInv'
  <2>1. update'.pc # "idle" /\ update'.pc # "delete"
    BY <1>1, <1>5
  <2>2. scheduled'.update => queue'.update > 0
    BY <1>2, <1>3 DEF SchedulingInv
  <2>3. QED
    BY <1>11, <2>1, <2>2 DEF SchedulingInv
<1>16. BufferOK(flat)'
  BY <1>2, <1>3, BufferStaysOK
<1>17. QED
  BY <1>7, <1>8, <1>12, <1>13, <1>14, <1>15, <1>16 DEF SVSInv

\* The steps between copying the buffer and cleaning it up.
LEMMA PhaseParts ==
  ASSUME VariablesInv, HasCopy, NEW p \in CopyPhases, update' = [update EXCEPT !.pc = p],
         UNCHANGED <<multi, mode, flat, journal, queue, scheduled, main, added, expected, exposed, calls>>
  PROVE  /\ update'.pc = p /\ update'.byMain = update.byMain /\ update'.labels = update.labels
         /\ update' # Idle /\ update # Idle /\ update'.vectors = update.vectors
         /\ update' \in [pc : CopyPhases, byMain : BOOLEAN, labels : Seq(Labels), vectors : Seq(Numbers)]
         /\ HasCopy' /\ Copies' = Copies
         /\ \A l : /\ Copied(l)' = Copied(l) /\ CopyOf(l)' = Copied(l) /\ CopyOf(l) = Copied(l)
                   /\ Fate(l)' = Fate(l) /\ FlatVectors(l)' = FlatVectors(l) /\ Call(l)' = Call(l)
         /\ Kind' = Kind
<1>1. /\ update = [pc |-> update.pc, byMain |-> update.byMain,
                   labels |-> update.labels, vectors |-> update.vectors]
      /\ update.labels \in Seq(Labels) /\ update.vectors \in Seq(Numbers)
      /\ update # Idle /\ update.byMain \in BOOLEAN
  <2>1. update # Idle
    BY DEF HasCopy, CopyPhases, Idle
  <2>2. QED
    BY <2>1, UpdateFacts
<1>2. PICK a, b, c, d : a = update.pc /\ b = update.byMain /\ c = update.labels /\ d = update.vectors
  OBVIOUS
<1>3. update' = [pc |-> p, byMain |-> b, labels |-> c, vectors |-> d]
  BY <1>1, <1>2
<1>4. /\ update'.pc = p /\ update'.byMain = b /\ update'.labels = c /\ update'.vectors = d
  BY <1>3
<1>5. HasCopy' /\ update' # Idle
  BY <1>4 DEF HasCopy, CopyPhases, Idle
<1>6. \A l : Copied(l)' = Copied(l)
  BY <1>2, <1>4, Zenon DEF Copied, VectorsOf
<1>7. Copies' = Copies
  <2>1. \A k : FlatVectors(k)' = FlatVectors(k) /\ exposed' = exposed
    BY BufferStays
  <2>2. QED
    BY <1>6, <2>1 DEF Copies
<1>8. \A l : CopyOf(l)' = Copied(l) /\ CopyOf(l) = Copied(l)
  BY <1>5, <1>6 DEF CopyOf
<1>9. ToDelete' = ToDelete
  BY <1>5 DEF ToDelete, HasCopy, CopyPhases
<1>10. \A l : Fate(l)' = Fate(l) /\ FlatVectors(l)' = FlatVectors(l) /\ Call(l)' = Call(l)
  <2>1. \A l : Fate(l)' = Fate(l)
    BY <1>9 DEF Fate
  <2>2. \A l : FlatVectors(l)' = FlatVectors(l) /\ Call(l)' = Call(l)
    BY BufferStays, CallStays
  <2>3. QED
    BY <2>1, <2>2
<1>11. update' \in [pc : CopyPhases, byMain : BOOLEAN, labels : Seq(Labels), vectors : Seq(Numbers)]
  BY <1>1, <1>2, <1>3
<1>12. QED
  BY <1>1, <1>2, <1>4, <1>5, <1>6, <1>7, <1>8, <1>10, <1>11 DEF Kind

LEMMA PhaseKeeps ==
  ASSUME SVSInv, HasCopy, NEW p \in CopyPhases, update' = [update EXCEPT !.pc = p],
         UNCHANGED <<multi, mode, flat, journal, queue, scheduled, main, added, expected, exposed, calls>>,
         svs' \in [Labels -> SUBSET Numbers], p = "set_impl" => SVSIsEmpty',
         \A l \in Labels : LabelOK(View(l)')
  PROVE  SVSInv'
<1>1. VariablesInv /\ MainInv /\ BuildInv /\ SchedulingInv /\ BufferOK(flat) /\ JournalInv
  BY DEF SVSInv
<1>2. /\ update'.pc = p /\ update'.byMain = update.byMain /\ update'.labels = update.labels
      /\ update' # Idle /\ update # Idle /\ update'.vectors = update.vectors
      /\ update' \in [pc : CopyPhases, byMain : BOOLEAN, labels : Seq(Labels), vectors : Seq(Numbers)]
      /\ HasCopy' /\ Copies' = Copies
      /\ \A l : Copied(l)' = Copied(l) /\ FlatVectors(l)' = FlatVectors(l)
  BY <1>1, PhaseParts
<1>3. VariablesInv'
  <2>1. update' \in UpdateType
    BY <1>2 DEF UpdateType
  <2>2. /\ main' \in MainType /\ journal' \in [swaps : Seq(SwapRecord), deleted : SUBSET Labels]
        /\ queue' \in [update : Nat, gc : Nat] /\ scheduled' \in [update : BOOLEAN, gc : BOOLEAN]
        /\ Len(update'.labels) = Len(update'.vectors)
    BY <1>1, <1>2 DEF VariablesInv
  <2>3. QED
    BY <1>1, <2>1, <2>2, UpdateStepTypes
<1>4. MainInv'
  BY <1>1, <1>2 DEF MainInv
<1>5. JournalInv'
  <2>1. ApplySwapsToLabelsArray(update.labels, journal.swaps)'
          = ApplySwapsToLabelsArray(update.labels, journal.swaps)
    BY <1>2
  <2>2. QED
    BY <1>1, <1>2, <2>1 DEF JournalInv
<1>6. LabelsInv'
  BY LabelsAfter
<1>7. AllCopied' = AllCopied
  BY <1>2, Zenon DEF AllCopied
<1>8. update'.pc # "delete" /\ update'.pc # "idle" /\ Count(flat)' = Count(flat)
  BY <1>2 DEF CopyPhases
<1>9. BuildInv'
  BY <1>1, <1>2, <1>7, <1>8 DEF BuildInv
<1>10. SchedulingInv'
  BY <1>1, <1>2, <1>7, <1>8 DEF SchedulingInv, Full, UpdateComes
<1>11. BufferOK(flat)'
  BY <1>1, BufferStaysOK
<1>12. QED
  BY <1>3, <1>4, <1>5, <1>6, <1>9, <1>10, <1>11 DEF SVSInv

LEMMA PrepareSVSKeeps ==
  ASSUME SVSInv, PrepareSVS
  PROVE  SVSInv'
<1>1. PICK p \in {"set_impl", "add_vectors"} :
        update' = [update EXCEPT !.pc = p] /\ (p = "set_impl" => SVSIsEmpty)
  BY DEF PrepareSVS
<1>2. /\ update.pc = "prepare" /\ svs' = svs
      /\ UNCHANGED <<multi, mode, flat, journal, queue, scheduled, main, added, expected, exposed, calls>>
  BY DEF PrepareSVS
<1>3. HasCopy /\ p \in CopyPhases /\ VariablesInv
  BY <1>2 DEF HasCopy, CopyPhases, SVSInv
<1>4. ASSUME NEW l \in Labels PROVE LabelOK(View(l)')
  <2>1. /\ update'.pc = p /\ CopyOf(l)' = CopyOf(l) /\ Fate(l)' = Fate(l)
        /\ FlatVectors(l)' = FlatVectors(l) /\ Call(l)' = Call(l) /\ Kind' = Kind
    BY <1>1, <1>2, <1>3, PhaseParts
  <2>2. PICK q : q = View(l)
    OBVIOUS
  <2>3. PICK r : r = [q EXCEPT !.phase = p]
    OBVIOUS
  <2>4. View(l)' = r
    BY <1>2, <2>1, <2>2, <2>3 DEF View, Newest
  <2>5. ViewOK(q) /\ LabelOK(q) /\ q.phase = "prepare"
    BY <1>2, <2>2, LabelsBefore DEF View
  <2>6. LabelOK(r)
    BY <2>3, <2>5, LabelIsPrepared
  <2>7. QED
    BY <2>4, <2>6
<1>5. svs' \in [Labels -> SUBSET Numbers] /\ SVSIsEmpty' = SVSIsEmpty
  BY <1>2, <1>3 DEF VariablesInv, SVSIsEmpty
<1>6. QED
  BY <1>1, <1>2, <1>3, <1>4, <1>5, PhaseKeeps

LEMMA SetImplKeeps ==
  ASSUME SVSInv, SetImpl
  PROVE  SVSInv'
<1>1. /\ update.pc = "set_impl" /\ svs' = [l \in Labels |-> Copied(l)]
      /\ UNCHANGED <<multi, mode, flat, journal, queue, scheduled, main, added, expected, exposed, calls>>
  BY DEF SetImpl
<1>2. PICK p : p = "clean"
  OBVIOUS
<1>3. update' = [update EXCEPT !.pc = p]
  BY <1>2 DEF SetImpl
<1>4. HasCopy /\ p \in CopyPhases /\ VariablesInv /\ SVSIsEmpty
  BY <1>1, <1>2 DEF HasCopy, CopyPhases, SVSInv, BuildInv
<1>5. ASSUME NEW l \in Labels PROVE LabelOK(View(l)')
  <2>1. /\ update'.pc = p /\ CopyOf(l)' = CopyOf(l) /\ CopyOf(l) = Copied(l) /\ Fate(l)' = Fate(l)
        /\ FlatVectors(l)' = FlatVectors(l) /\ Call(l)' = Call(l) /\ Kind' = Kind
    BY <1>1, <1>3, <1>4, PhaseParts
  <2>2. svs'[l] = Copied(l)
    BY <1>1
  <2>3. PICK q : q = View(l)
    OBVIOUS
  <2>4. PICK r : r = [q EXCEPT !.phase = "clean", !.svs = q.copy]
    OBVIOUS
  <2>5. View(l)' = r
    BY <1>1, <1>2, <2>1, <2>2, <2>3, <2>4 DEF View, Newest
  <2>6. ViewOK(q) /\ LabelOK(q) /\ q.phase = "set_impl" /\ q.svs = {}
    BY <1>1, <1>4, <2>3, LabelsBefore DEF View, SVSIsEmpty
  <2>7. LabelOK(r)
    BY <2>4, <2>6, LabelIsBuilt
  <2>8. QED
    BY <2>5, <2>7
<1>6. svs' \in [Labels -> SUBSET Numbers]
  BY <1>1, <1>4, CopiedFacts
<1>7. QED
  BY <1>1, <1>2, <1>3, <1>4, <1>5, <1>6, PhaseKeeps

LEMMA AddVectorsKeeps ==
  ASSUME SVSInv, AddVectors
  PROVE  SVSInv'
<1>1. /\ update.pc = "add_vectors"
      /\ svs' = [l \in Labels |-> IF multi THEN svs[l] \cup Copied(l)
                                  ELSE IF Copied(l) = {} THEN svs[l] ELSE Copied(l)]
      /\ UNCHANGED <<multi, mode, flat, journal, queue, scheduled, main, added, expected, exposed, calls>>
  BY DEF AddVectors
<1>2. PICK p : p = "clean"
  OBVIOUS
<1>3. update' = [update EXCEPT !.pc = p]
  BY <1>2 DEF AddVectors
<1>4. HasCopy /\ p \in CopyPhases /\ VariablesInv
  BY <1>1, <1>2 DEF HasCopy, CopyPhases, SVSInv
<1>5. ASSUME NEW l \in Labels PROVE LabelOK(View(l)')
  <2>1. /\ update'.pc = p /\ CopyOf(l)' = CopyOf(l) /\ CopyOf(l) = Copied(l) /\ Fate(l)' = Fate(l)
        /\ FlatVectors(l)' = FlatVectors(l) /\ Call(l)' = Call(l) /\ Kind' = Kind
    BY <1>1, <1>3, <1>4, PhaseParts
  <2>2. svs'[l] = IF multi THEN svs[l] \cup Copied(l)
                  ELSE IF Copied(l) = {} THEN svs[l] ELSE Copied(l)
    BY <1>1
  <2>3. PICK q : q = View(l)
    OBVIOUS
  <2>4. /\ (q.kind = "multi" <=> multi) /\ q.copy = Copied(l) /\ q.svs = svs[l]
    <3>1. Kind = "multi" <=> multi
      BY DEF Kind
    <3>2. QED
      BY <2>1, <2>3, <3>1 DEF View
  <2>5. PICK r : r = [q EXCEPT !.phase = "clean",
                           !.svs = IF q.kind = "multi" THEN q.svs \cup q.copy
                                   ELSE IF q.copy = {} THEN q.svs ELSE q.copy]
    OBVIOUS
  <2>6. View(l)' = r
    BY <1>1, <1>2, <2>1, <2>2, <2>3, <2>4, <2>5 DEF View, Newest
  <2>7. ViewOK(q) /\ LabelOK(q) /\ q.phase = "add_vectors"
    BY <1>1, <2>3, LabelsBefore DEF View
  <2>8. LabelOK(r)
    BY <2>5, <2>7, LabelIsAdded
  <2>9. QED
    BY <2>6, <2>8
<1>6. svs' \in [Labels -> SUBSET Numbers]
  BY <1>1, <1>4, CopiedFacts DEF VariablesInv
<1>7. QED
  BY <1>1, <1>2, <1>3, <1>4, <1>5, <1>6, PhaseKeeps

LEMMA CleanUpKeeps ==
  ASSUME SVSInv, CleanUp
  PROVE  SVSInv'
<1>1. PICK L : L = ApplySwapsToLabelsArray(update.labels, journal.swaps)
  OBVIOUS
<1>2. PICK g : g = flat'
  OBVIOUS
<1>3. /\ update.pc = "clean" /\ g = RemovalRounds(flat, L)[Len(L)]
      /\ update' = [pc |-> "delete", byMain |-> update.byMain, labels |-> journal.deleted]
      /\ journal' = [journal EXCEPT !.deleted = {}]
      /\ UNCHANGED <<multi, mode, svs, queue, scheduled, main, added, expected, exposed, calls>>
  BY <1>1, <1>2 DEF CleanUp
<1>4. /\ VariablesInv /\ MainInv /\ BuildInv /\ SchedulingInv /\ JournalInv /\ multi \in BOOLEAN
      /\ journal \in [swaps : Seq(SwapRecord), deleted : SUBSET Labels]
  BY DEF SVSInv, VariablesInv
<1>5. /\ HasCopy /\ update # Idle /\ update.byMain \in BOOLEAN /\ ~ HasCopy'
      /\ update'.pc = "delete" /\ update'.byMain = update.byMain /\ update'.labels = journal.deleted
      /\ update' # Idle
  <2>1. HasCopy /\ update # Idle
    BY <1>3 DEF HasCopy, CopyPhases, Idle
  <2>2. update.byMain \in BOOLEAN
    BY <1>4, <2>1, UpdateFacts
  <2>3. QED
    BY <1>3, <2>1, <2>2 DEF HasCopy, CopyPhases, Idle
<1>6. journal' \in [swaps : Seq(SwapRecord), deleted : SUBSET Labels]
  BY <1>3, <1>4
<1>7. FlatOK(Numbers, flat) /\ flat \in FlatOf(Numbers) /\ Count(flat) \in Nat
  BY LabelsBefore
<1>8. /\ FlatOK(Numbers, g) /\ Count(g) <= Count(flat)
      /\ \A k \in Labels : VectorsOf(g, k) = VectorsOf(flat, k) \ Copies[k]
  <2>1. PICK C : C = Copies
    OBVIOUS
  <2>2. Tracks(L, flat, C)
    BY <1>1, <1>4, <1>5, <2>1 DEF JournalInv
  <2>3. /\ FlatOK(Numbers, g) /\ Count(g) <= Count(flat)
        /\ \A k \in Labels : VectorsOf(g, k) = VectorsOf(flat, k) \ C[k]
    BY <1>3, <1>4, <1>7, <2>2, CleanUpRemoves
  <2>4. QED
    BY <2>1, <2>3
<1>9. g \in FlatOf(Numbers) /\ Count(g) \in Nat
  BY <1>8, FlatFacts DEF FlatOK
<1>10. /\ BufferOK(flat)' /\ Count(flat)' = Count(g)
       /\ \A k : FlatVectors(k)' = VectorsOf(g, k)
  BY <1>2, <1>3, <1>8, BufferAfter
<1>11. VariablesInv'
  <2>1. update' \in UpdateType
    <3>1. update' \in [pc : {"delete"}, byMain : BOOLEAN, labels : SUBSET Labels]
      BY <1>3, <1>4, <1>5
    <3>2. QED
      BY <3>1 DEF UpdateType
  <2>2. /\ svs' \in [Labels -> SUBSET Numbers] /\ main' \in MainType
        /\ queue' \in [update : Nat, gc : Nat] /\ scheduled' \in [update : BOOLEAN, gc : BOOLEAN]
    BY <1>3, <1>4 DEF VariablesInv
  <2>3. QED
    BY <1>3, <1>4, <1>5, <1>6, <2>1, <2>2, UpdateStepTypes
<1>12. MainInv'
  BY <1>3, <1>4, <1>5 DEF MainInv
<1>13. JournalInv'
  BY <1>5 DEF JournalInv
<1>14. LabelsInv'
  <2>1. SUFFICES ASSUME NEW l \in Labels PROVE LabelOK(View(l)')
    BY LabelsAfter
  <2>2. ToDelete = journal.deleted /\ ToDelete' = journal.deleted
    BY <1>3, <1>5 DEF ToDelete
  <2>3. Fate(l)' = Fate(l)
    BY <2>2 DEF Fate
  <2>4. CopyOf(l) = Copied(l) /\ CopyOf(l)' = {}
    BY <1>5 DEF CopyOf
  <2>5. FlatVectors(l)' = IF l \in exposed THEN {} ELSE FlatVectors(l) \ CopyOf(l)
    <3>1. FlatVectors(l)' = FlatVectors(l) \ Copies[l]
      BY <1>8, <1>10 DEF FlatVectors
    <3>2. QED
      BY <2>4, <3>1 DEF Copies
  <2>6. Kind' = Kind /\ Call(l)' = Call(l)
    BY <1>3, CallStays DEF Kind
  <2>7. PICK q : q = View(l)
    OBVIOUS
  <2>8. PICK r : r = [q EXCEPT !.phase = "delete", !.copy = {},
                               !.buffer = IF q.newest = "exposed" THEN {} ELSE q.buffer \ q.copy]
    OBVIOUS
  <2>9. View(l)' = r
    BY <1>3, <1>5, <2>3, <2>4, <2>5, <2>6, <2>7, <2>8 DEF View, Newest
  <2>10. ViewOK(q) /\ LabelOK(q) /\ q.phase = "clean"
    BY <1>3, <2>7, LabelsBefore DEF View
  <2>11. LabelOK(r)
    BY <2>8, <2>10, LabelIsCleaned
  <2>12. QED
    BY <2>9, <2>11
<1>15. AllCopied => Count(g) = 0
  <2>1. SUFFICES ASSUME AllCopied, Count(g) # 0 PROVE FALSE
    OBVIOUS
  <2>2. 1 \in 1..Count(g) /\ g.labels[1] \in Labels
    BY <1>9, <2>1, FlatFacts
  <2>3. PICK k \in Labels : k = g.labels[1]
    BY <2>2
  <2>4. g.vectors[1] \in VectorsOf(g, k)
    BY <1>9, <2>2, <2>3, VectorsHeld
  <2>5. VectorsOf(flat, k) \subseteq Copies[k]
    BY <2>1 DEF AllCopied, FlatVectors
  <2>6. QED
    BY <1>8, <2>4, <2>5
<1>16. BuildInv'
  BY <1>5 DEF BuildInv
<1>17. SchedulingInv'
  <2>1. Full' => Full /\ Count(g) # 0
    BY <1>7, <1>8, <1>9, <1>10, TieredSVSAssumption DEF Full
  <2>2. UpdateComes' = UpdateComes
    BY <1>3 DEF UpdateComes
  <2>3. Full' => UpdateComes'
    BY <1>4, <1>5, <1>15, <2>1, <2>2 DEF SchedulingInv
  <2>4. scheduled'.update => queue'.update > 0
    BY <1>3, <1>4 DEF SchedulingInv
  <2>5. QED
    BY <1>3, <1>5, <2>3, <2>4 DEF SchedulingInv
<1>18. QED
  BY <1>10, <1>11, <1>12, <1>13, <1>14, <1>16, <1>17 DEF SVSInv

LEMMA DeleteRemovedMeanwhileKeeps ==
  ASSUME SVSInv, DeleteRemovedMeanwhile
  PROVE  SVSInv'
<1>1. /\ update.pc = "delete" /\ update' = Idle
      /\ svs' = [l \in Labels |-> IF l \in update.labels THEN {} ELSE svs[l]]
      /\ main' = IF update.byMain THEN Idle ELSE main
      /\ UNCHANGED <<multi, mode, flat, journal, queue, scheduled, added, expected, exposed, calls>>
  BY DEF DeleteRemovedMeanwhile
<1>2. VariablesInv /\ MainInv /\ BuildInv /\ SchedulingInv /\ BufferOK(flat)
  BY DEF SVSInv
<1>3. /\ update # Idle /\ update'.pc = "idle" /\ ~ HasCopy /\ ~ HasCopy' /\ update.byMain \in BOOLEAN
  <2>1. update # Idle
    BY <1>1 DEF Idle
  <2>2. QED
    BY <1>1, <1>2, <2>1, UpdateFacts DEF HasCopy, CopyPhases, Idle
<1>4. /\ main'.pc # "updating"
      /\ \/ main' = main
         \/ main.pc = "updating" /\ main' = Idle /\ main'.pc = "idle"
  <2>1. CASE update.byMain
    <3>1. main.pc = "updating" /\ main' = Idle
      BY <1>1, <1>2, <1>3, <2>1 DEF MainInv
    <3>2. QED
      BY <1>2, <3>1 DEF MainInv, Idle
  <2>2. CASE ~ update.byMain
    <3>1. main.pc # "updating" /\ main' = main
      BY <1>1, <1>2, <1>3, <2>2 DEF MainInv
    <3>2. QED
      BY <3>1
  <2>3. QED
    BY <2>1, <2>2
<1>5. svs' \in [Labels -> SUBSET Numbers]
  BY <1>1, <1>2 DEF VariablesInv
<1>6. VariablesInv'
  <2>1. main' \in MainType
    <3>1. Idle \in MainType
      BY DEF MainType
    <3>2. main \in MainType /\ (main' = main \/ main' = Idle)
      BY <1>2, <1>4 DEF VariablesInv
    <3>3. QED
      BY <3>1, <3>2
  <2>2. update' \in UpdateType
    BY <1>1 DEF UpdateType
  <2>3. /\ journal' \in [swaps : Seq(SwapRecord), deleted : SUBSET Labels]
        /\ queue' \in [update : Nat, gc : Nat] /\ scheduled' \in [update : BOOLEAN, gc : BOOLEAN]
    BY <1>1, <1>2 DEF VariablesInv
  <2>4. QED
    BY <1>1, <1>2, <1>3, <1>5, <2>1, <2>2, <2>3, UpdateStepTypes
<1>7. MainInv'
  BY <1>1, <1>2, <1>4 DEF MainInv
<1>8. JournalInv'
  BY <1>3 DEF JournalInv
<1>9. LabelsInv'
  <2>1. SUFFICES ASSUME NEW l \in Labels PROVE LabelOK(View(l)')
    BY LabelsAfter
  <2>2. ToDelete = update.labels /\ ToDelete' = {}
    BY <1>1, <1>3 DEF ToDelete
  <2>3. Fate(l) = (IF l \in update.labels THEN "dropped" ELSE "kept") /\ Fate(l)' = "kept"
    BY <2>2 DEF Fate
  <2>4. CopyOf(l) = {} /\ CopyOf(l)' = {}
    BY <1>3 DEF CopyOf
  <2>5. Kind' = Kind /\ FlatVectors(l)' = FlatVectors(l)
    BY <1>1, BufferStays DEF Kind
  <2>6. Call(l)' = Call(l)
    BY <1>4, CallStays DEF Call, AddPoints, DeletePoints, DeleteSVSPoints
  <2>7. PICK q : q = View(l)
    OBVIOUS
  <2>8. PICK r : r = [q EXCEPT !.phase = "idle", !.fate = "kept",
                           !.svs = IF q.fate = "dropped" THEN {} ELSE q.svs]
    OBVIOUS
  <2>9. svs'[l] = IF q.fate = "dropped" THEN {} ELSE q.svs
    BY <1>1, <2>3, <2>7 DEF View
  <2>10. View(l)' = r
    BY <1>1, <1>3, <2>3, <2>4, <2>5, <2>6, <2>7, <2>8, <2>9 DEF View, Newest
  <2>11. ViewOK(q) /\ LabelOK(q) /\ q.phase = "delete"
    BY <1>1, <2>7, LabelsBefore DEF View
  <2>12. LabelOK(r)
    BY <2>8, <2>11, LabelIsDropped
  <2>13. QED
    BY <2>10, <2>12
<1>10. BuildInv'
  BY <1>3 DEF BuildInv
<1>11. SchedulingInv'
  <2>1. UpdateComes => UpdateComes'
    BY <1>1, <1>4 DEF UpdateComes
  <2>2. Full => UpdateComes
    BY <1>1, <1>2 DEF SchedulingInv
  <2>3. Full' = Full
    BY <1>1 DEF Full
  <2>4. scheduled'.update => queue'.update > 0
    BY <1>1, <1>2 DEF SchedulingInv
  <2>5. QED
    BY <1>3, <2>1, <2>2, <2>3, <2>4 DEF SchedulingInv
<1>12. BufferOK(flat)'
  BY <1>1, <1>2, BufferStaysOK
<1>13. QED
  BY <1>6, <1>7, <1>8, <1>9, <1>10, <1>11, <1>12 DEF SVSInv

-----------------------------------------------------------------------------
(* The theorems.                                                            *)

LEMMA InitHolds ==
  ASSUME Init
  PROVE  SVSInv
<1>1. /\ multi \in BOOLEAN /\ mode \in {"async", "inplace"} /\ flat = EmptyFlat
      /\ svs = [l \in Labels |-> {}] /\ journal = [swaps |-> <<>>, deleted |-> {}]
      /\ queue = [update |-> 0, gc |-> 0] /\ scheduled = [update |-> FALSE, gc |-> FALSE]
      /\ update = Idle /\ main = Idle /\ added = [l \in Labels |-> 0]
      /\ expected = [l \in Labels |-> {}] /\ exposed = {} /\ calls = 0
  BY DEF Init, NoJournal
<1>2. update.pc = "idle" /\ main.pc = "idle" /\ ~ HasCopy
  BY <1>1 DEF Idle, HasCopy, CopyPhases
<1>3. VariablesInv
  <2>1. main \in MainType /\ update \in UpdateType
    BY <1>1 DEF MainType, UpdateType
  <2>2. QED
    BY <1>1, <1>2, <2>1 DEF VariablesInv
<1>4. /\ flat.labels = <<>> /\ flat.vectors = <<>> /\ flat.ids = [l \in Labels |-> <<>>]
      /\ flat = [labels |-> <<>>, vectors |-> <<>>, ids |-> [l \in Labels |-> <<>>]]
      /\ Count(flat) = 0
  BY <1>1 DEF EmptyFlat, Count
<1>5. BufferOK(flat)
  <2>1. flat \in [labels : Seq(Labels), vectors : Seq(Numbers), ids : [Labels -> Seq(Numbers)]]
    BY <1>4
  <2>2. Len(flat.labels) = Len(flat.vectors)
    BY <1>4
  <2>3. ASSUME NEW l \in Labels
        PROVE  /\ Range(flat.ids[l]) = {i \in 1..Count(flat) : flat.labels[i] = l}
               /\ IsInjective(flat.ids[l])
               /\ ~ multi => Len(flat.ids[l]) <= 1
    <3>1. flat.ids[l] = <<>> /\ DOMAIN flat.ids[l] = {} /\ Len(flat.ids[l]) = 0
      BY <1>4
    <3>2. Range(flat.ids[l]) = {}
      BY <3>1 DEF Range
    <3>3. {i \in 1..Count(flat) : flat.labels[i] = l} = {}
      BY <1>4
    <3>4. IsInjective(flat.ids[l])
      BY <3>1 DEF IsInjective
    <3>5. QED
      BY <3>1, <3>2, <3>3, <3>4
  <2>4. QED
    BY <2>1, <2>2, <2>3 DEF BufferOK
<1>6. MainInv
  BY <1>1, <1>2 DEF MainInv
<1>7. JournalInv
  BY <1>2 DEF JournalInv
<1>8. LabelsInv
  <2>1. SUFFICES ASSUME NEW l \in Labels PROVE LabelOK(View(l))
    BY DEF LabelsInv
  <2>2. FlatVectors(l) = {}
    BY <1>4 DEF FlatVectors, VectorsOf
  <2>3. CopyOf(l) = {} /\ Fate(l) = "kept"
    BY <1>2 DEF CopyOf, Fate, ToDelete
  <2>4. Call(l) = "none"
    BY <1>2 DEF Call, AddPoints, DeletePoints, DeleteSVSPoints
  <2>5. expected[l] = {} /\ svs[l] = {}
    BY <1>1
  <2>6. PICK q : q = View(l)
    OBVIOUS
  <2>7. /\ q.buffer = {} /\ q.copy = {} /\ q.fate = "kept" /\ q.call = "none"
        /\ q.expected = {} /\ q.svs = {} /\ q.phase = "idle" /\ q.newest = "safe"
    BY <1>1, <1>2, <2>2, <2>3, <2>4, <2>5, <2>6 DEF View, Newest
  <2>8. LabelOK(q)
    BY <2>7 DEF LabelOK, NumbersOK, ExposedOK, NothingLost, NothingElse, Arrived
  <2>9. QED
    BY <2>6, <2>8
<1>9. BuildInv
  BY <1>2 DEF BuildInv
<1>10. SchedulingInv
  <2>1. ~ Full
    BY <1>4, TieredSVSAssumption DEF Full
  <2>2. QED
    BY <1>1, <2>1 DEF SchedulingInv
<1>11. QED
  BY <1>3, <1>5, <1>6, <1>7, <1>8, <1>9, <1>10 DEF SVSInv

LEMMA NothingKeeps ==
  ASSUME SVSInv, UNCHANGED vars
  PROVE  SVSInv'
<1>1. /\ Aside /\ multi' = multi /\ mode' = mode /\ flat' = flat /\ svs' = svs /\ journal' = journal
      /\ queue' = queue /\ scheduled' = scheduled /\ update' = update /\ main' = main
      /\ added' = added /\ expected' = expected /\ exposed' = exposed /\ calls' = calls
  BY DEF vars, Aside, SameExposed
<1>2. VariablesInv /\ MainInv /\ SchedulingInv /\ BuildInv
  BY DEF SVSInv
<1>3. VariablesInv'
  BY <1>1, <1>2, AsideTypes DEF VariablesInv
<1>4. MainInv'
  BY <1>1, <1>2 DEF MainInv
<1>5. LabelsInv'
  BY <1>1, CallStays, LabelsStay
<1>6. BuildInv'
  <2>1. SVSIsEmpty' = SVSIsEmpty
    BY <1>1 DEF SVSIsEmpty
  <2>2. QED
    BY <1>1, <1>2, <2>1, AsideKeeps DEF BuildInv
<1>7. SchedulingInv'
  BY <1>1, <1>2, AsideKeeps DEF SchedulingInv, UpdateComes
<1>8. QED
  BY <1>1, <1>3, <1>4, <1>5, <1>6, <1>7, AsideKeeps DEF SVSInv

LEMMA NextKeeps ==
  ASSUME SVSInv, [Next]_vars
  PROVE  SVSInv'
<1>1. ASSUME NEW l \in Labels, StartAdd(l) \/ StartDelete(l) PROVE SVSInv'
  BY <1>1, StartAddKeeps, StartDeleteKeeps
<1>2. CASE AddStep
  BY <1>2, AddCheckSVSKeeps, AddDeletesOldFromSVSKeeps, AddToFlatKeeps, AddCheckThresholdKeeps,
     ScheduleUpdateKeeps, AddInplaceToFlatKeeps, AddInplaceFindsSVSKeeps, AddInplaceToSVSKeeps
     DEF AddStep
<1>3. CASE DeleteStep
  BY <1>3, DeleteCheckFlatKeeps, DeleteAndRecordSwapsKeeps, DeleteCheckSVSKeeps, DeleteFromSVSKeeps
     DEF DeleteStep
<1>4. CASE SetWriteMode
  BY <1>4, SetWriteModeKeeps
<1>5. CASE UpdateStep
  BY <1>5, StartUpdateKeeps, CopyBufferKeeps, PrepareSVSKeeps, SetImplKeeps, AddVectorsKeeps,
     CleanUpKeeps, DeleteRemovedMeanwhileKeeps DEF UpdateStep
<1>6. CASE RunGC \/ SVSIndexGC
  BY <1>6, CollectionKeeps
<1>7. CASE UNCHANGED vars
  BY <1>7, NothingKeeps
<1>8. QED
  BY <1>1, <1>2, <1>3, <1>4, <1>5, <1>6, <1>7 DEF Next

\* The inductive invariant, through additions in both write modes and switches between
\* them at any time: the variables keep their types, the lookup of the buffer is exact,
\* the journal leads to what was copied or written in place over it, every label that is
\* not exposed has its vectors in a tier or on the way, and a full buffer has an update
\* coming (svs_tiered.h).
THEOREM SVSInvHolds == Spec => []SVSInv
<1>1. Init => SVSInv
  BY InitHolds
<1>2. SVSInv /\ [Next]_vars => SVSInv'
  BY NextKeeps
<1>3. QED
  BY <1>1, <1>2, PTL DEF Spec

LEMMA CallerIsServed ==
  ASSUME SVSInv, main = Idle, NEW l \in Labels
  PROVE  /\ ~ (l \in exposed) => expected[l] \subseteq Contents(l)
         /\ update = Idle =>
              /\ expected[l] = {} => Contents(l) = {}
              /\ ~ (l \in exposed) =>
                   /\ FlatVectors(l) \subseteq expected[l]
                   /\ svs[l] \subseteq expected[l] \/ (~ multi /\ FlatVectors(l) # {})
<1>1. PICK q : q = View(l)
  OBVIOUS
<1>2. LabelOK(q) /\ ViewOK(q)
  BY <1>1, LabelsBefore
<1>3. Call(l) = "none"
  BY DEF Call, Idle, AddPoints, DeletePoints, DeleteSVSPoints
<1>4. (Kind = "single" <=> ~ multi)
  BY DEF Kind, SVSInv, VariablesInv
<1>5. /\ q.call = "none" /\ q.expected = expected[l] /\ q.buffer = FlatVectors(l) /\ q.svs = svs[l]
      /\ (q.kind = "single" <=> ~ multi) /\ q.phase = update.pc
      /\ q.newest = IF l \in exposed THEN "exposed" ELSE "safe"
  BY <1>1, <1>3, <1>4 DEF View, Newest
<1>6. ASSUME ~ (l \in exposed) PROVE expected[l] \subseteq Contents(l)
  BY <1>2, <1>5, <1>6 DEF LabelOK, NothingLost, Arrived, Contents
<1>7. l \in exposed => expected[l] # {}
  BY <1>2, <1>5 DEF LabelOK, ExposedOK
<1>8. ASSUME update = Idle, ~ (l \in exposed)
      PROVE  /\ FlatVectors(l) \subseteq expected[l]
             /\ svs[l] \subseteq expected[l] \/ (~ multi /\ FlatVectors(l) # {})
  <2>1. q.phase = "idle"
    BY <1>5, <1>8 DEF Idle
  <2>2. q.fate = "kept"
    BY <1>2, <2>1 DEF ViewOK, CopyPhases
  <2>3. q.buffer \subseteq q.expected
    BY <1>2, <1>5, <1>8 DEF LabelOK, NothingElse
  <2>4. q.svs \subseteq q.expected \/ (q.kind = "single" /\ q.buffer # {})
    BY <1>2, <1>5, <1>8, <2>2 DEF LabelOK, NothingElse
  <2>5. QED
    BY <1>5, <2>3, <2>4
<1>9. update = Idle /\ expected[l] = {} => Contents(l) = {}
  BY <1>7, <1>8 DEF Contents
<1>10. QED
  BY <1>6, <1>8, <1>9

\* Whatever the write mode and however often it is switched, no vector of a label that
\* is not exposed is lost: between calls it is in the buffer or in SVS
\* (svs_tiered.h:672-760).  Exposed is a single-value label written in place over an
\* older vector that an update removes (svs_tiered.h:808-846).
THEOREM NothingIsLostHolds == Spec => []NothingIsLost
<1>1. SVSInv => NothingIsLost
  BY CallerIsServed DEF NothingIsLost
<1>2. QED
  BY <1>1, SVSInvHolds, PTL

\* Labels that were deleted while an update copied them are in no tier once it has
\* ended, and a vector that was overwritten is at most in SVS, where its newer vector
\* is in the buffer of a single-value index (svs_tiered.h:748-760).
THEOREM DeletedStayDeletedHolds == Spec => []DeletedStayDeleted
<1>1. SVSInv => DeletedStayDeleted
  BY CallerIsServed DEF DeletedStayDeleted
<1>2. QED
  BY <1>1, SVSInvHolds, PTL

LEMMA TrackedPositions ==
  ASSUME SVSInv, update.pc = "clean", NEW L,
         L = ApplySwapsToLabelsArray(update.labels, journal.swaps),
         NEW K, K = {i \in DOMAIN L : L[i] # Skip}
  PROVE  /\ \A i \in K : /\ i <= Count(flat) /\ flat.labels[i] = L[i]
                         /\ flat.vectors[i] \in Copied(flat.labels[i]) \/ flat.labels[i] \in exposed
         /\ \A i \in 1..Count(flat) :
              flat.vectors[i] \in Copied(flat.labels[i]) \/ flat.labels[i] \in exposed => i \in K
<1>1. HasCopy
  BY DEF HasCopy, CopyPhases
<1>2. PICK C : C = Copies
  OBVIOUS
<1>3. Tracks(L, flat, C)
  BY <1>1, <1>2 DEF SVSInv, JournalInv
<1>4. /\ L \in Seq(Labels \cup {Skip})
      /\ \A i \in 1..Len(L) :
           L[i] = IF i <= Count(flat) /\ OnCopyAt(flat, C, i) THEN flat.labels[i] ELSE Skip
      /\ \A i \in 1..Count(flat) : OnCopyAt(flat, C, i) => i <= Len(L)
  BY <1>3, TracksFacts
<1>5. DOMAIN L = 1..Len(L) /\ Len(L) \in Nat
  BY <1>4
<1>6. /\ Count(flat) \in Nat /\ \A i \in 1..Count(flat) : flat.labels[i] \in Labels
      /\ flat \in FlatOf(Numbers)
  BY LabelsBefore, FlatFacts
<1>7. ASSUME NEW i \in 1..Count(flat)
      PROVE  OnCopyAt(flat, C, i) <=>
               flat.vectors[i] \in Copied(flat.labels[i]) \/ flat.labels[i] \in exposed
  <2>1. PICK k \in Labels : k = flat.labels[i]
    BY <1>6
  <2>2. flat.vectors[i] \in FlatVectors(k)
    BY <1>6, <2>1, VectorsHeld DEF FlatVectors
  <2>3. C[k] = Copied(k) \cup IF k \in exposed THEN FlatVectors(k) ELSE {}
    BY <1>2 DEF Copies
  <2>4. QED
    BY <2>1, <2>2, <2>3 DEF OnCopyAt
<1>8. ASSUME NEW i \in K
      PROVE  /\ i <= Count(flat) /\ flat.labels[i] = L[i]
             /\ flat.vectors[i] \in Copied(flat.labels[i]) \/ flat.labels[i] \in exposed
  <2>1. i \in 1..Len(L) /\ L[i] # Skip
    BY <1>5, <1>8
  <2>2. i \in 1..Count(flat) /\ OnCopyAt(flat, C, i) /\ L[i] = flat.labels[i]
    BY <1>4, <1>5, <1>6, <2>1
  <2>3. QED
    BY <1>7, <2>2
<1>9. ASSUME NEW i \in 1..Count(flat),
             flat.vectors[i] \in Copied(flat.labels[i]) \/ flat.labels[i] \in exposed
      PROVE  i \in K
  <2>1. flat.labels[i] \in Labels
    BY <1>6
  <2>2. OnCopyAt(flat, C, i)
    BY <1>7, <1>9
  <2>3. i \in 1..Len(L)
    BY <1>4, <1>5, <1>6, <2>2
  <2>4. L[i] = flat.labels[i] /\ L[i] # Skip
    BY <1>4, <2>1, <2>2, <2>3, SkipAssumption
  <2>5. QED
    BY <1>5, <2>3, <2>4
<1>10. QED
  BY <1>8, <1>9

\* The clean-up removes exactly those vectors of the buffer that the update has copied,
\* whatever was added, deleted and overwritten asynchronously meanwhile, and those that
\* were written in place over one of them (svs_tiered.h:641-669, 731-744).
THEOREM JournalIsExactHolds == Spec => []JournalIsExact
<1>1. SVSInv => JournalIsExact
  BY TrackedPositions DEF JournalIsExact
<1>2. QED
  BY <1>1, SVSInvHolds, PTL

\* A buffer that has reached both thresholds has an update queued or under way whenever
\* no call is (svs_tiered.h:570-574, 884).
THEOREM FullBufferHasUpdateHolds == Spec => []FullBufferHasUpdate
<1>1. SVSInv => FullBufferHasUpdate
  <2>1. SUFFICES ASSUME SVSInv, main = Idle, Count(flat) >= TrainingTriggerThreshold,
                        Count(flat) >= UpdateTriggerThreshold, update = Idle
                 PROVE  queue.update > 0
    BY DEF FullBufferHasUpdate
  <2>2. main.pc = "idle" /\ update.pc = "idle" /\ Full
    BY <2>1 DEF Idle, Full
  <2>3. UpdateComes
    BY <2>1, <2>2 DEF SVSInv, SchedulingInv
  <2>4. QED
    BY <2>2, <2>3 DEF UpdateComes
<1>2. QED
  BY <1>1, SVSInvHolds, PTL

=============================================================================
