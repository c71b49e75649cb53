-------------------------- MODULE FlatKinds_proofs --------------------------
(***************************************************************************)
(* What the operations of a flat index of either kind do to it, for every  *)
(* index with an exact lookup: a removal moves the last vector into the    *)
(* gap, and a multi-value deletion does so while it walks over a list that *)
(* the removals change.  The loop of the code is a function over the       *)
(* natural numbers; what it computes is shown by induction over its rounds.*)
(***************************************************************************)
EXTENDS FlatKinds, SequenceTheorems, WellFoundedInduction, TLAPS

-----------------------------------------------------------------------------
(* Induction.                                                               *)

\* Induction up to n, for a set instead of a predicate.
LEMMA UpToInduction ==
  ASSUME NEW n \in Nat, NEW T, 0 \in T, \A i \in 1..n : i - 1 \in T => i \in T
  PROVE  0..n \subseteq T
<1>1. SUFFICES ASSUME (0..n) \ T # {} PROVE FALSE
  OBVIOUS
<1>2. PICK F : F = (0..n) \ T
  OBVIOUS
<1>3. F \subseteq Nat /\ F # {}
  BY <1>1, <1>2
<1>4. PICK R : R = OpToRel(<, Nat)
  OBVIOUS
<1>5. IsWellFoundedOn(R, Nat)
  BY <1>4, NatLessThanWellFounded
<1>6. \E x \in F : \A y \in F : ~ (<<y, x>> \in R)
  BY <1>3, <1>5, WFMin
<1>7. \A x, y \in Nat : <<y, x>> \in R <=> y < x
  BY <1>4 DEF OpToRel
<1>8. PICK x \in F : \A y \in F : ~ (y < x)
  BY <1>3, <1>6, <1>7
<1>9. x \in 1..n /\ x - 1 \in 0..n
  BY <1>2, <1>8
<1>10. x - 1 \in F \/ x - 1 \in T
  BY <1>2, <1>9
<1>11. ~ (x - 1 \in F)
  BY <1>2, <1>8, <1>9
<1>12. QED
  BY <1>2, <1>8, <1>9, <1>10, <1>11

-----------------------------------------------------------------------------
(* The lookup.                                                              *)

\* The search from the end of a list finds the last occurrence.
LEMMA LastOccurrence ==
  ASSUME NEW s, Len(s) \in Nat, NEW x, NEW q \in 1..Len(s), s[q] = x,
         \A r \in 1..Len(s) : s[r] = x => r <= q
  PROVE  SelectLastInSubSeq(s, 1, Len(s), LAMBDA id : id = x) = q
<1> DEFINE I == {r \in 1..Len(s) : s[r] = x}
<1>1. q \in I /\ \A r \in I : q >= r /\ r \in Nat /\ q \in Nat
  OBVIOUS
<1>2. Max(I) = q
  BY <1>1 DEF Max
<1>3. SelectLastInSubSeq(s, 1, Len(s), LAMBDA id : id = x) = Max(I)
  BY <1>1 DEF SelectLastInSubSeq
<1>4. QED
  BY <1>2, <1>3

\* q is the last position of the list of m that has the id old.
LastAt(ids, m, old, q) ==
  /\ q \in 1..Len(ids[m]) /\ ids[m][q] = old
  /\ \A r \in 1..Len(ids[m]) : ids[m][r] = old => r <= q
  /\ ~ multi => Len(ids[m]) = 1

\* The lookup changes in that position only.
ReplacedAt(ids, m, new, old, q) ==
  \E t \in Seq(Nat \ {0}) :
    /\ ReplaceIdOfLabel(ids, m, new, old) = [ids EXCEPT ![m] = t]
    /\ Len(t) = Len(ids[m]) /\ t[q] = new
    /\ \A r \in 1..Len(ids[m]) : r # q => t[r] = ids[m][r]

\* replaceIdOfLabel changes the id at the last position that has it.
LEMMA ReplaceOneId ==
  ASSUME multi \in BOOLEAN, NEW ids \in [Labels -> Seq(Nat \ {0})], NEW m \in Labels,
         NEW old, NEW new \in Nat \ {0}, NEW q, LastAt(ids, m, old, q)
  PROVE  ReplacedAt(ids, m, new, old, q)
<1> USE DEF LastAt, ReplacedAt
<1>1. PICK s \in Seq(Nat \ {0}) : s = ids[m]
  OBVIOUS
<1>2. Len(s) \in Nat /\ s \in [1..Len(s) -> Nat \ {0}]
  BY <1>1, LenProperties
<1>3. PICK t : t = [s EXCEPT ![q] = new]
  OBVIOUS
<1>4. t \in Seq(Nat \ {0}) /\ Len(t) = Len(s)
  BY <1>1, <1>3, ExceptSeq
<1>5. t[q] = new /\ \A r \in 1..Len(s) : r # q => t[r] = s[r]
  BY <1>1, <1>2, <1>3
<1>6. CASE multi
  <2>0. q \in 1..Len(s) /\ s[q] = old /\ \A r \in 1..Len(s) : s[r] = old => r <= q
    BY <1>1
  <2>1. SelectLastInSubSeq(s, 1, Len(s), LAMBDA id : id = old) = q
    BY <1>2, <2>0, LastOccurrence
  <2>2. ReplaceIdOfLabel(ids, m, new, old) = [ids EXCEPT ![m][q] = new]
    BY <1>1, <1>6, <2>1 DEF ReplaceIdOfLabel
  <2>3. ReplaceIdOfLabel(ids, m, new, old) = [ids EXCEPT ![m] = t]
    BY <1>1, <1>3, <2>2
  <2>4. QED
    BY <1>1, <1>4, <1>5, <2>3
<1>7. CASE ~ multi
  <2>0. Len(ids[m]) = 1
    BY <1>7, Zenon
  <2>1. q = 1 /\ Len(s) = 1
    BY <1>1, <2>0
  <2>2. t = <<new>>
    <3>1. Len(t) = 1 /\ t[1] = new
      BY <1>4, <1>5, <2>1
    <3>2. t = <<t[1]>>
      BY <1>4, <3>1
    <3>3. QED
      BY <3>1, <3>2
  <2>3. ReplaceIdOfLabel(ids, m, new, old) = [ids EXCEPT ![m] = t]
    BY <1>7, <2>2 DEF ReplaceIdOfLabel
  <2>4. QED
    BY <1>1, <1>4, <1>5, <2>3
<1>8. QED
  BY <1>6, <1>7

-----------------------------------------------------------------------------
(* A removal.                                                               *)

\* The flat indexes that hold vectors of V.
FlatOf(V) == {f \in [labels  : Seq(Labels), vectors : Seq(V),
                     ids     : [Labels -> Seq(Nat \ {0})]] :
                Len(f.labels) = Len(f.vectors)}

\* The ids that carry label k.
Holding(f, k) == {i \in 1..Count(f) : f.labels[i] = k}

\* The positions Q of the list s hold the elements of S, each once.
ListsOnce(s, Q, S) ==
  /\ Q \subseteq 1..Len(s)
  /\ \A q \in Q : s[q] \in S
  /\ \A x \in S : \E q \in Q : s[q] = x
  /\ \A q, r \in Q : s[q] = s[r] => q = r

\* The lookup lists, at the positions P, all ids but those of gone.
Covers(f, P, gone) == \A k \in Labels : ListsOnce(f.ids[k], P[k], Holding(f, k) \ gone)

\* The last id is the last one of its value in the list of its label.
LastIsLast(f, P) ==
  \A k \in Labels : \A q \in P[k], r \in 1..Len(f.ids[k]) :
    f.ids[k][q] = Count(f) /\ f.ids[k][r] = Count(f) => r <= q

\* The lists of a single-value index have one id.
OneEach(f, P) == ~ multi => \A k \in Labels : P[k] # {} => Len(f.ids[k]) = 1

\* Where the vector that has id j after the removal of id was before.
Before(f, id, j) == IF j = id THEN Count(f) ELSE j

\* h is f without the vector id.
Removed(f, h, id) ==
  /\ Count(h) = Count(f) - 1
  /\ \A j \in 1..Count(h) : /\ h.labels[j] = f.labels[Before(f, id, j)]
                            /\ h.vectors[j] = f.vectors[Before(f, id, j)]

\* The lists of h are as long as those of f.
SameLengths(f, h) == \A k \in Labels : Len(h.ids[k]) = Len(f.ids[k])

LEMMA FlatFacts ==
  ASSUME NEW V, NEW f \in FlatOf(V)
  PROVE  /\ f.labels \in Seq(Labels) /\ f.vectors \in Seq(V)
         /\ f.ids \in [Labels -> Seq(Nat \ {0})]
         /\ Count(f) \in Nat /\ Len(f.labels) = Count(f) /\ Len(f.vectors) = Count(f)
         /\ \A i \in 1..Count(f) : f.labels[i] \in Labels /\ f.vectors[i] \in V
         /\ \A k \in Labels : f.ids[k] \in Seq(Nat \ {0}) /\ Len(f.ids[k]) \in Nat
<1>1. /\ f.labels \in Seq(Labels) /\ f.vectors \in Seq(V)
      /\ f.ids \in [Labels -> Seq(Nat \ {0})] /\ Len(f.labels) = Len(f.vectors)
  BY DEF FlatOf
<1>2. QED
  BY <1>1, LenProperties, ElementOfSeq DEF Count

LEMMA SwapLast ==
  ASSUME NEW S, NEW s \in Seq(S), NEW id \in 1..Len(s)
  PROVE  /\ SwapLastInto(s, id) \in Seq(S)
         /\ Len(SwapLastInto(s, id)) = Len(s) - 1
         /\ \A i \in 1..(Len(s) - 1) :
               SwapLastInto(s, id)[i] = IF i = id THEN s[Len(s)] ELSE s[i]
<1> DEFINE n == Len(s) - 1
           t == [i \in 1..n |-> IF i = id THEN s[Len(s)] ELSE s[i]]
<1>1. Len(s) \in Nat /\ n \in Nat
  BY LenProperties
<1>2. \A i \in 1..n : t[i] \in S
  BY <1>1, ElementOfSeq
<1>3. t \in [1..n -> S]
  BY <1>2
<1>4. t \in Seq(S)
  BY <1>1, <1>3, SeqDef
<1>5. Len(t) = n
  BY <1>1, <1>3, <1>4, LenProperties
<1>6. QED
  BY <1>4, <1>5 DEF SwapLastInto

\* The shape of a sequence whose last element was swapped into a position.
Swapped(s, id, S, t) ==
  /\ t \in Seq(S)
  /\ Len(t) = Len(s) - 1
  /\ \A j \in 1..(Len(s) - 1) : t[j] = IF j = id THEN s[Len(s)] ELSE s[j]

LEMMA SwapLastSwaps ==
  ASSUME NEW S, NEW s \in Seq(S), NEW id \in 1..Len(s)
  PROVE  Swapped(s, id, S, SwapLastInto(s, id))
BY SwapLast DEF Swapped

\* The hypotheses under which RemoveVector keeps the lookup right.
Removable(f, id, P) ==
  /\ multi \in BOOLEAN
  /\ id \in 1..Count(f)
  /\ Covers(f, P, {id})
  /\ LastIsLast(f, P)
  /\ OneEach(f, P)

\* The list of the last vector's label follows the vector into its new place.
LEMMA RenameLast ==
  ASSUME NEW V, NEW f \in FlatOf(V), NEW id, NEW P, Removable(f, id, P), id # Count(f)
  PROVE  \E t \in Seq(Nat \ {0}) :
           LET m == f.labels[Count(f)]
           IN  /\ m \in Labels
               /\ ReplaceIdOfLabel(f.ids, m, id, Count(f)) = [f.ids EXCEPT ![m] = t]
               /\ Len(t) = Len(f.ids[m])
               /\ ListsOnce(t, P[m], (Holding(f, m) \ {id, Count(f)}) \cup {id})
<1>1. PICK N \in Nat : N = Count(f) /\ id \in 1..N /\ id # N
  BY FlatFacts DEF Removable
<1>2. PICK m \in Labels : m = f.labels[N]
  BY <1>1, FlatFacts
<1>3. PICK s : s = f.ids[m]
  OBVIOUS
<1>4. f.ids \in [Labels -> Seq(Nat \ {0})] /\ s \in Seq(Nat \ {0}) /\ Len(s) \in Nat
  BY <1>2, <1>3, FlatFacts
<1>5. PICK Q : Q = P[m]
  OBVIOUS
<1>6. PICK S : S = Holding(f, m) \ {id}
  OBVIOUS
<1>7. ListsOnce(s, Q, S)
  BY <1>2, <1>3, <1>5, <1>6 DEF Removable, Covers
<1>8. N \in S
  BY <1>1, <1>2, <1>6 DEF Holding
<1>9. PICK q \in Q : s[q] = N
  BY <1>7, <1>8 DEF ListsOnce
<1>10. q \in 1..Len(s) /\ \A r \in 1..Len(s) : s[r] = N => r <= q
  <2>1. q \in 1..Len(s)
    BY <1>7, <1>9 DEF ListsOnce
  <2>2. LastIsLast(f, P)
    BY DEF Removable
  <2>3. \A r \in 1..Len(s) : s[q] = N /\ s[r] = N => r <= q
    BY <1>1, <1>2, <1>3, <1>5, <1>9, <2>2 DEF LastIsLast
  <2>4. QED
    BY <1>9, <2>1, <2>3
<1>11. ~ multi => Len(s) = 1
  <2>1. OneEach(f, P)
    BY DEF Removable
  <2>2. QED
    BY <1>2, <1>3, <1>5, <1>9, <2>1, Zenon DEF OneEach
<1>12. id \in Nat \ {0} /\ multi \in BOOLEAN
  BY <1>1 DEF Removable
<1>13. PICK t \in Seq(Nat \ {0}) :
          /\ ReplaceIdOfLabel(f.ids, m, id, N) = [f.ids EXCEPT ![m] = t]
          /\ Len(t) = Len(s) /\ t[q] = id
          /\ \A r \in 1..Len(s) : r # q => t[r] = s[r]
  <2>1. /\ q \in 1..Len(f.ids[m]) /\ f.ids[m][q] = N
        /\ \A r \in 1..Len(f.ids[m]) : f.ids[m][r] = N => r <= q
    BY <1>3, <1>9, <1>10
  <2>2. ~ multi => Len(f.ids[m]) = 1
    BY <1>3, <1>11, Zenon
  <2>3. QED
    <3>1. LastAt(f.ids, m, N, q)
      BY <2>1, <2>2, Zenon DEF LastAt
    <3>2. ReplacedAt(f.ids, m, id, N, q)
      BY <1>2, <1>4, <1>12, <3>1, ReplaceOneId
    <3>3. QED
      BY <1>3, <3>2 DEF ReplacedAt
<1>14. ListsOnce(t, Q, (S \ {N}) \cup {id})
  <2>1. ~ (id \in S)
    BY <1>6
  <2>2. \A r \in Q : r # q => t[r] = s[r] /\ s[r] \in S \ {N}
    BY <1>7, <1>9, <1>13 DEF ListsOnce
  <2>3. \A x \in S \ {N} : \E r \in Q : r # q /\ t[r] = x
    BY <1>7, <1>9, <1>13 DEF ListsOnce
  <2>4. \A r1, r2 \in Q : t[r1] = t[r2] => r1 = r2
    <3>1. \A r1, r2 \in Q : s[r1] = s[r2] => r1 = r2
      BY <1>7 DEF ListsOnce
    <3>2. QED
      BY <1>13, <2>1, <2>2, <3>1
  <2>5. Q \subseteq 1..Len(t)
    BY <1>7, <1>13 DEF ListsOnce
  <2>6. QED
    BY <1>9, <1>13, <2>2, <2>3, <2>4, <2>5 DEF ListsOnce
<1>15. (S \ {N}) \cup {id} = (Holding(f, m) \ {id, N}) \cup {id}
  BY <1>6
<1>16. ListsOnce(t, P[m], (Holding(f, m) \ {id, N}) \cup {id})
  BY <1>5, <1>14, <1>15
<1>17. QED
  BY <1>1, <1>2, <1>3, <1>13, <1>16

\* A removal takes out one vector, keeps the others, and keeps the lookup.
LEMMA RemovalKeeps ==
  ASSUME NEW V, NEW f \in FlatOf(V), NEW id, NEW P, Removable(f, id, P)
  PROVE  /\ RemoveVector(f, id) \in FlatOf(V)
         /\ Removed(f, RemoveVector(f, id), id)
         /\ SameLengths(f, RemoveVector(f, id))
         /\ Covers(RemoveVector(f, id), P, {})
<1>1. PICK N \in Nat : N = Count(f) /\ id \in 1..N
  BY FlatFacts DEF Removable
<1>2. /\ f.labels \in Seq(Labels) /\ f.vectors \in Seq(V) /\ Len(f.labels) = N
      /\ Len(f.vectors) = N /\ f.ids \in [Labels -> Seq(Nat \ {0})]
  BY <1>1, FlatFacts
<1>3. PICK h : h = RemoveVector(f, id)
  OBVIOUS
<1>4. PICK ids : ids = IF id = N THEN f.ids ELSE ReplaceIdOfLabel(f.ids, f.labels[N], id, N)
  OBVIOUS
<1>5. h = [labels |-> SwapLastInto(f.labels, id), vectors |-> SwapLastInto(f.vectors, id),
           ids |-> ids]
  BY <1>1, <1>3, <1>4 DEF RemoveVector
<1>6. /\ h.labels \in Seq(Labels) /\ Len(h.labels) = N - 1
      /\ \A j \in 1..(N - 1) : h.labels[j] = IF j = id THEN f.labels[N] ELSE f.labels[j]
  <2>1. PICK s \in Seq(Labels) : s = f.labels /\ Len(s) = N /\ id \in 1..Len(s)
    BY <1>1, <1>2
  <2>2. PICK t : t = SwapLastInto(s, id)
    OBVIOUS
  <2>3. Swapped(s, id, Labels, SwapLastInto(s, id))
    <3>1. s \in Seq(Labels) /\ id \in 1..Len(s)
      BY <2>1
    <3>2. QED
      BY <3>1, SwapLastSwaps
  <2>4. t \in Seq(Labels) /\ Len(t) = N - 1
        /\ \A j \in 1..(N - 1) : t[j] = IF j = id THEN s[N] ELSE s[j]
    BY <2>1, <2>2, <2>3 DEF Swapped
  <2>5. h.labels = t
    BY <1>5, <2>1, <2>2
  <2>6. QED
    BY <2>1, <2>4, <2>5
<1>7. /\ h.vectors \in Seq(V) /\ Len(h.vectors) = N - 1
      /\ \A j \in 1..(N - 1) : h.vectors[j] = IF j = id THEN f.vectors[N] ELSE f.vectors[j]
  <2>1. PICK s \in Seq(V) : s = f.vectors /\ Len(s) = N /\ id \in 1..Len(s)
    BY <1>1, <1>2
  <2>2. PICK t : t = SwapLastInto(s, id)
    OBVIOUS
  <2>3. Swapped(s, id, V, SwapLastInto(s, id))
    <3>1. s \in Seq(V) /\ id \in 1..Len(s)
      BY <2>1
    <3>2. QED
      BY <3>1, SwapLastSwaps
  <2>4. t \in Seq(V) /\ Len(t) = N - 1
        /\ \A j \in 1..(N - 1) : t[j] = IF j = id THEN s[N] ELSE s[j]
    BY <2>1, <2>2, <2>3 DEF Swapped
  <2>5. h.vectors = t
    BY <1>5, <2>1, <2>2
  <2>6. QED
    BY <2>1, <2>4, <2>5
<1>8. h.ids = ids /\ Count(h) = N - 1
  BY <1>5, <1>6 DEF Count
<1>9. /\ ids \in [Labels -> Seq(Nat \ {0})]
      /\ \A k \in Labels : Len(ids[k]) = Len(f.ids[k])
      /\ \A k \in Labels : ListsOnce(ids[k], P[k], Holding(h, k))
  <2>1. CASE id = N
    <3>1. ids = f.ids
      BY <1>4, <2>1
    <3>2. ASSUME NEW k \in Labels PROVE Holding(h, k) = Holding(f, k) \ {id}
      BY <1>1, <1>6, <1>8, <2>1 DEF Holding
    <3>3. QED
      BY <1>2, <3>1, <3>2 DEF Removable, Covers
  <2>2. CASE id # N
    <3>1. PICK m \in Labels : m = f.labels[N]
      BY <1>1, <2>2, RenameLast
    <3>2. PICK t \in Seq(Nat \ {0}) :
             /\ ids = [f.ids EXCEPT ![m] = t] /\ Len(t) = Len(f.ids[m])
             /\ ListsOnce(t, P[m], (Holding(f, m) \ {id, N}) \cup {id})
      BY <1>1, <1>4, <2>2, <3>1, RenameLast
    <3>3. Holding(h, m) = (Holding(f, m) \ {id, N}) \cup {id}
      BY <1>1, <1>6, <1>8, <2>2, <3>1 DEF Holding
    <3>4. ASSUME NEW k \in Labels, k # m PROVE Holding(h, k) = Holding(f, k) \ {id}
      <4>1. \A i \in 1..(N - 1) : h.labels[i] = k <=> i # id /\ f.labels[i] = k
        BY <1>6, <3>1, <3>4
      <4>2. \A i : i \in 1..(N - 1) <=> i \in 1..N /\ i # N
        BY <1>1
      <4>3. f.labels[N] # k
        BY <3>1, <3>4
      <4>4. QED
        BY <1>1, <1>8, <4>1, <4>2, <4>3 DEF Holding
    <3>5. ASSUME NEW k \in Labels PROVE Len(ids[k]) = Len(f.ids[k])
      BY <1>2, <3>2
    <3>6. ASSUME NEW k \in Labels PROVE ListsOnce(ids[k], P[k], Holding(h, k))
      <4>1. CASE k = m
        BY <1>2, <3>2, <3>3, <4>1
      <4>2. CASE k # m
        <5>1. ids[k] = f.ids[k]
          BY <1>2, <3>2, <4>2
        <5>2. ListsOnce(f.ids[k], P[k], Holding(f, k) \ {id})
          BY DEF Removable, Covers
        <5>3. QED
          BY <3>4, <4>2, <5>1, <5>2
      <4>3. QED
        BY <4>1, <4>2
    <3>7. QED
      BY <1>2, <3>2, <3>5, <3>6
  <2>3. QED
    BY <2>1, <2>2
<1>10. h \in FlatOf(V)
  <2>1. h = [labels |-> h.labels, vectors |-> h.vectors, ids |-> h.ids]
    BY <1>5
  <2>2. QED
    BY <1>6, <1>7, <1>8, <1>9, <2>1 DEF FlatOf
<1>11. Removed(f, h, id) /\ SameLengths(f, h)
  BY <1>1, <1>6, <1>7, <1>8, <1>9 DEF Removed, Before, SameLengths
<1>12. Covers(h, P, {})
  <2>1. ASSUME NEW k \in Labels PROVE Holding(h, k) \ {} = Holding(h, k)
    OBVIOUS
  <2>2. QED
    BY <1>8, <1>9, <2>1 DEF Covers
<1>13. QED
  BY <1>3, <1>10, <1>11, <1>12

-----------------------------------------------------------------------------
(* The map of the updated ids.                                              *)

\* The original id of the vector that has id j, according to the map up.
From(up, j) == IF j \in DOMAIN up THEN up[j][1] ELSE j

\* g is f after some removals of vectors of label l, and up says who is where.
Follows(f, l, g, up) ==
  /\ DOMAIN up \subseteq 1..Count(g)
  /\ \A j \in DOMAIN up : f.labels[j] = l
  /\ \A j \in DOMAIN up : up[j] = <<From(up, j), f.labels[From(up, j)]>>
  /\ \A j \in 1..Count(g) : /\ From(up, j) \in 1..Count(f)
                            /\ g.labels[j] = f.labels[From(up, j)]
                            /\ g.vectors[j] = f.vectors[From(up, j)]
  /\ \A i, j \in 1..Count(g) : From(up, i) = From(up, j) => i = j
  /\ \A x \in 1..Count(f) : f.labels[x] # l => \E j \in 1..Count(g) : From(up, j) = x

\* What a round adds to the map when it removes id from g.
NextUpdates(g, up, id) ==
  LET last == Count(g)
      from == IF last \in DOMAIN up THEN up[last] ELSE <<last, g.labels[last]>>
      kept == DOMAIN up \ {id}
  IN  IF id = last THEN [j \in kept |-> up[j]]
      ELSE [j \in (kept \ {last}) \cup {id} |-> IF j = id THEN from ELSE up[j]]

LEMMA NextUpdatesFrom ==
  ASSUME NEW f, NEW l, NEW g, NEW up, Follows(f, l, g, up), Count(g) \in Nat,
         NEW id \in 1..Count(g), NEW w, w = NextUpdates(g, up, id)
  PROVE  /\ DOMAIN w \subseteq 1..(Count(g) - 1)
         /\ \A j \in DOMAIN w : j = id \/ j \in DOMAIN up
         /\ \A j \in DOMAIN w : w[j] = <<From(w, j), f.labels[From(w, j)]>>
         /\ \A j \in 1..(Count(g) - 1) : From(w, j) = From(up, Before(g, id, j))
<1>1. PICK N \in Nat : N = Count(g) /\ id \in 1..N
  OBVIOUS
<1>2. PICK D : D = DOMAIN up
  OBVIOUS
<1>3. PICK from : from = IF N \in D THEN up[N] ELSE <<N, g.labels[N]>>
  OBVIOUS
<1>4. D \subseteq 1..N /\ \A j \in D : up[j] = <<From(up, j), f.labels[From(up, j)]>>
  BY <1>1, <1>2 DEF Follows
<1>5. N \in 1..N
  BY <1>1
<1>6. from = <<From(up, N), f.labels[From(up, N)]>>
  <2>1. CASE N \in D
    BY <1>3, <1>4, <2>1
  <2>2. CASE ~ (N \in D)
    <3>1. From(up, N) = N
      BY <1>2, <2>2 DEF From
    <3>2. g.labels[N] = f.labels[N]
      BY <1>1, <1>5, <3>1 DEF Follows
    <3>3. QED
      BY <1>3, <2>2, <3>1, <3>2
  <2>3. QED
    BY <2>1, <2>2
<1>7. PICK a : a = From(up, N)
  OBVIOUS
<1>8. from[1] = a
  BY <1>6, <1>7
<1>9. \A j : j \in 1..(N - 1) <=> j \in 1..N /\ j # N
  BY <1>1
<1>10. CASE id = N
  <2>1. w = [j \in D \ {id} |-> up[j]]
    BY <1>1, <1>2, <1>10 DEF NextUpdates
  <2>2. DOMAIN w = D \ {N} /\ \A j \in D \ {N} : w[j] = up[j]
    BY <1>10, <2>1
  <2>3. \A j \in D \ {N} : From(w, j) = From(up, j)
    BY <1>2, <2>2 DEF From
  <2>4. \A j \in 1..(N - 1) : From(w, j) = From(up, Before(g, id, j))
    BY <1>2, <1>9, <1>10, <2>2 DEF From, Before
  <2>5. D \ {N} \subseteq 1..(N - 1)
    BY <1>4, <1>9, Zenon
  <2>6. \A j \in DOMAIN w : j = id \/ j \in DOMAIN up
    BY <1>2, <2>2
  <2>7. \A j \in DOMAIN w : w[j] = <<From(w, j), f.labels[From(w, j)]>>
    BY <1>4, <2>2, <2>3
  <2>8. DOMAIN w \subseteq 1..(N - 1)
    BY <2>2, <2>5
  <2>9. QED
    BY <1>1, <2>4, <2>6, <2>7, <2>8
<1>11. CASE id # N
  <2>1. w = [j \in ((D \ {id}) \ {N}) \cup {id} |-> IF j = id THEN from ELSE up[j]]
    BY <1>1, <1>2, <1>3, <1>11 DEF NextUpdates
  <2>2. /\ DOMAIN w = (D \ {id, N}) \cup {id} /\ w[id] = from
        /\ \A j \in D \ {id, N} : w[j] = up[j]
    BY <2>1
  <2>3. From(w, id) = a /\ \A j \in D \ {id, N} : From(w, j) = From(up, j)
    BY <1>2, <1>8, <2>2 DEF From
  <2>4. \A j \in 1..(N - 1) : From(w, j) = From(up, Before(g, id, j))
    <3>1. ASSUME NEW j \in 1..(N - 1), j # id PROVE From(w, j) = From(up, j)
      <4>1. j \in DOMAIN w <=> j \in D
        BY <1>9, <2>2, <3>1
      <4>2. QED
        BY <1>2, <1>9, <2>2, <3>1, <4>1 DEF From
    <3>2. QED
      BY <1>1, <1>7, <2>3, <3>1 DEF Before
  <2>5. (D \ {id, N}) \cup {id} \subseteq 1..(N - 1)
    BY <1>1, <1>4, <1>9, <1>11, Zenon
  <2>6. w[id] = <<From(w, id), f.labels[From(w, id)]>>
    BY <1>6, <1>7, <2>2, <2>3
  <2>7. \A j \in DOMAIN w : j = id \/ j \in DOMAIN up
    BY <1>2, <2>2
  <2>8. \A j \in DOMAIN w : w[j] = <<From(w, j), f.labels[From(w, j)]>>
    BY <1>4, <2>2, <2>3, <2>6
  <2>9. DOMAIN w \subseteq 1..(N - 1)
    BY <2>2, <2>5
  <2>10. QED
    BY <1>1, <2>4, <2>7, <2>8, <2>9
<1>12. QED
  BY <1>10, <1>11

\* The map stays right when one more vector of the label is removed.
LEMMA RemovalFollows ==
  ASSUME NEW f, NEW l, NEW g, NEW up, Follows(f, l, g, up), Count(g) \in Nat,
         NEW id \in 1..Count(g), g.labels[id] = l, NEW h, Removed(g, h, id)
  PROVE  Follows(f, l, h, NextUpdates(g, up, id))
<1>1. PICK N \in Nat : N = Count(g) /\ id \in 1..N
  OBVIOUS
<1>2. PICK w : w = NextUpdates(g, up, id)
  OBVIOUS
<1>3. /\ DOMAIN w \subseteq 1..(N - 1)
      /\ \A j \in DOMAIN w : j = id \/ j \in DOMAIN up
      /\ \A j \in DOMAIN w : w[j] = <<From(w, j), f.labels[From(w, j)]>>
      /\ \A j \in 1..(N - 1) : From(w, j) = From(up, Before(g, id, j))
  BY <1>1, <1>2, NextUpdatesFrom
<1>4. /\ Count(h) = N - 1
      /\ \A j \in 1..(N - 1) : /\ h.labels[j] = g.labels[Before(g, id, j)]
                               /\ h.vectors[j] = g.vectors[Before(g, id, j)]
  BY <1>1 DEF Removed
<1>5. ASSUME NEW j \in 1..(N - 1)
      PROVE  Before(g, id, j) \in 1..N /\ Before(g, id, j) = (IF j = id THEN N ELSE j)
  BY <1>1 DEF Before
<1>6. \A j \in 1..(N - 1) : /\ From(w, j) \in 1..Count(f)
                            /\ h.labels[j] = f.labels[From(w, j)]
                            /\ h.vectors[j] = f.vectors[From(w, j)]
  BY <1>1, <1>3, <1>4, <1>5 DEF Follows
<1>7. ASSUME NEW i \in 1..(N - 1), NEW j \in 1..(N - 1), From(w, i) = From(w, j)
      PROVE  i = j
  <2>1. Before(g, id, i) = Before(g, id, j)
    BY <1>1, <1>3, <1>5, <1>7 DEF Follows
  <2>2. QED
    BY <1>1, <1>5, <2>1
<1>8. ASSUME NEW x \in 1..Count(f), f.labels[x] # l
      PROVE  \E j \in 1..(N - 1) : From(w, j) = x
  <2>1. PICK j \in 1..N : From(up, j) = x
    BY <1>1, <1>8 DEF Follows
  <2>2. g.labels[j] = f.labels[x]
    BY <1>1, <2>1 DEF Follows
  <2>3. j # id
    BY <1>8, <2>2
  <2>4. CASE j = N
    <3>1. id \in 1..(N - 1) /\ Before(g, id, id) = N
      BY <1>1, <2>3, <2>4, <1>5
    <3>2. QED
      BY <1>3, <2>1, <2>4, <3>1
  <2>5. CASE j # N
    <3>1. j \in 1..(N - 1) /\ Before(g, id, j) = j
      BY <1>1, <1>5, <2>3, <2>5
    <3>2. QED
      BY <1>3, <2>1, <3>1
  <2>6. QED
    BY <2>4, <2>5
<1>9. ASSUME NEW j \in DOMAIN w PROVE f.labels[j] = l
  <2>1. CASE j \in DOMAIN up
    BY <2>1 DEF Follows
  <2>2. CASE ~ (j \in DOMAIN up)
    <3>1. j = id /\ From(up, j) = j
      BY <1>3, <1>9, <2>2 DEF From
    <3>2. QED
      BY <1>1, <3>1 DEF Follows
  <2>3. QED
    BY <2>1, <2>2
<1>10. Follows(f, l, h, w)
  BY <1>3, <1>4, <1>6, <1>7, <1>8, <1>9 DEF Follows
<1>11. QED
  BY <1>2, <1>10

LEMMA NothingMoved ==
  ASSUME NEW V, NEW f \in FlatOf(V), NEW l
  PROVE  Follows(f, l, f, NoUpdates)
<1>1. DOMAIN NoUpdates = {}
  BY DEF NoUpdates
<1>2. \A j : From(NoUpdates, j) = j
  BY <1>1 DEF From
<1>3. QED
  BY <1>1, <1>2 DEF Follows

\* A removal finds the last id in the list of its label.
LEMMA RemovalFinds ==
  ASSUME NEW V, NEW f \in FlatOf(V), NEW id, NEW P, Removable(f, id, P)
  PROVE  RemovalAsserts(f, id)
<1>1. PICK N \in Nat : N = Count(f) /\ id \in 1..N
  BY FlatFacts DEF Removable
<1>2. CASE id # N
  <2>1. PICK m \in Labels : m = f.labels[N]
    BY <1>1, FlatFacts
  <2>2. PICK s \in Seq(Nat \ {0}) : s = f.ids[m]
    BY <2>1, FlatFacts
  <2>3. ListsOnce(s, P[m], Holding(f, m) \ {id})
    BY <2>1, <2>2 DEF Removable, Covers
  <2>4. N \in Holding(f, m) \ {id}
    BY <1>1, <1>2, <2>1 DEF Holding
  <2>5. PICK q \in 1..Len(s) : s[q] = N
    BY <2>3, <2>4 DEF ListsOnce
  <2>6. N \in Range(s)
    BY <2>2, <2>5, LenProperties DEF Range
  <2>7. s # <<>>
    <3>1. Len(<<>>) = 0 /\ 1..0 = {}
      OBVIOUS
    <3>2. QED
      BY <2>5, <3>1
  <2>8. id < N
    BY <1>1, <1>2
  <2>9. f.labels[Count(f)] = m /\ f.ids[f.labels[Count(f)]] = s
    BY <1>1, <2>1, <2>2
  <2>10. QED
    BY <1>1, <2>6, <2>7, <2>8, <2>9 DEF RemovalAsserts
<1>3. CASE id = N
  BY <1>1, <1>3 DEF RemovalAsserts
<1>4. QED
  BY <1>2, <1>3

-----------------------------------------------------------------------------
(* Deleting a label.                                                        *)

\* All positions of all lists.
Everywhere(f) == [k \in Labels |-> 1..Len(f.ids[k])]

\* What holds of an index that holds vectors of V between calls.
FlatOK(V, f) ==
  /\ f \in FlatOf(V)
  /\ Covers(f, Everywhere(f), {})
  /\ ~ multi => \A k \in Labels : Len(f.ids[k]) <= 1

\* The result of deleting label l from f.
Deleted(V, f, l, r) ==
  /\ FlatOK(V, r.flat)
  /\ Count(r.flat) \in 0..Count(f)
  /\ Follows(f, l, r.flat, r.updated)
  /\ Holding(r.flat, l) = {}

\* What FlatOK says of one list.
LEMMA ListFacts ==
  ASSUME NEW V, NEW f, FlatOK(V, f), NEW k \in Labels
  PROVE  /\ f.ids[k] \in Seq(Nat \ {0}) /\ Len(f.ids[k]) \in Nat
         /\ ListsOnce(f.ids[k], 1..Len(f.ids[k]), Holding(f, k))
<1>1. Holding(f, k) \ {} = Holding(f, k)
  OBVIOUS
<1>2. QED
  BY <1>1, FlatFacts DEF FlatOK, Covers, Everywhere

LEMMA DeleteSingleDeletes ==
  ASSUME multi \in BOOLEAN, ~ multi, NEW V, NEW f, FlatOK(V, f),
         NEW l \in Labels, IsLabelExists(f, l)
  PROVE  /\ Deleted(V, f, l, DeleteSingle(f, l))
         /\ \A id \in Holding(f, l) : Removed(f, DeleteSingle(f, l).flat, id)
         /\ RemovalAsserts([f EXCEPT !.ids[l] = <<>>], f.ids[l][1])
<1>1. f \in FlatOf(V) /\ \A k \in Labels : Len(f.ids[k]) <= 1
  BY Zenon DEF FlatOK
<1>2. /\ f.ids \in [Labels -> Seq(Nat \ {0})] /\ Count(f) \in Nat
      /\ f.labels \in Seq(Labels) /\ f.vectors \in Seq(V) /\ Len(f.labels) = Len(f.vectors)
  BY <1>1, FlatFacts
<1>3. Len(f.ids[l]) = 1
  <2>1. f.ids[l] \in Seq(Nat \ {0}) /\ f.ids[l] # <<>>
    BY ListFacts DEF IsLabelExists
  <2>2. Len(f.ids[l]) # 0 /\ Len(f.ids[l]) \in Nat
    BY <2>1, EmptySeq, LenProperties
  <2>3. PICK n \in Nat : n = Len(f.ids[l])
    BY <2>2
  <2>4. n <= 1 /\ n # 0
    BY <1>1, <2>2, <2>3, Zenon
  <2>5. n = 1
    BY <2>4
  <2>6. QED
    BY <2>3, <2>5
<1>4. PICK id : id = f.ids[l][1]
  OBVIOUS
<1>5. Holding(f, l) = {id}
  <2>1. ListsOnce(f.ids[l], 1..1, Holding(f, l))
    BY <1>3, ListFacts
  <2>2. 1 \in 1..1 /\ \A q \in 1..1 : q = 1
    OBVIOUS
  <2>3. QED
    BY <1>4, <2>1, <2>2 DEF ListsOnce
<1>6. id \in 1..Count(f) /\ f.labels[id] = l
  BY <1>5 DEF Holding
<1>7. PICK g : g = [f EXCEPT !.ids[l] = <<>>]
  OBVIOUS
<1>8. PICK ids : ids = [f.ids EXCEPT ![l] = <<>>]
  OBVIOUS
<1>9. /\ ids \in [Labels -> Seq(Nat \ {0})] /\ ids[l] = <<>>
      /\ \A k \in Labels : k # l => ids[k] = f.ids[k]
  <2>1. <<>> \in Seq(Nat \ {0})
    OBVIOUS
  <2>2. QED
    BY <1>2, <1>8, <2>1
<1>10. f = [labels |-> f.labels, vectors |-> f.vectors, ids |-> f.ids]
  BY <1>1 DEF FlatOf
<1>11. g = [labels |-> f.labels, vectors |-> f.vectors, ids |-> ids]
  BY <1>7, <1>8, <1>10
<1>12. /\ g \in FlatOf(V) /\ g.ids = ids /\ g.labels = f.labels /\ g.vectors = f.vectors
       /\ Count(g) = Count(f)
  BY <1>2, <1>9, <1>11 DEF FlatOf, Count
<1>13. PICK P : P = [k \in Labels |-> IF k = l THEN {} ELSE 1..Len(f.ids[k])]
  OBVIOUS
<1>14. Len(<<>>) = 0
  OBVIOUS
<1>15. \A k \in Labels : Holding(g, k) = Holding(f, k)
  BY <1>12 DEF Holding
<1>16. Removable(g, id, P)
  <2>1. Covers(g, P, {id})
    <3>1. ASSUME NEW k \in Labels PROVE ListsOnce(g.ids[k], P[k], Holding(g, k) \ {id})
      <4>1. CASE k = l
        <5>1. P[k] = {} /\ Holding(g, k) \ {id} = {}
          BY <1>5, <1>13, <1>15, <4>1
        <5>2. QED
          BY <5>1 DEF ListsOnce
      <4>2. CASE k # l
        <5>1. Holding(f, k) \ {id} = Holding(f, k)
          BY <1>6, <4>2 DEF Holding
        <5>2. P[k] = 1..Len(f.ids[k]) /\ g.ids[k] = f.ids[k]
          BY <1>9, <1>12, <1>13, <4>2
        <5>3. QED
          BY <1>15, <5>1, <5>2, ListFacts
      <4>3. QED
        BY <4>1, <4>2
    <3>2. QED
      BY <3>1 DEF Covers
  <2>2. ASSUME NEW k \in Labels, P[k] # {} PROVE k # l /\ g.ids[k] = f.ids[k] /\ Len(g.ids[k]) = 1
    <3>1. k # l /\ 1..Len(f.ids[k]) # {}
      BY <1>13, <2>2
    <3>2. g.ids[k] = f.ids[k] /\ Len(f.ids[k]) \in Nat /\ Len(f.ids[k]) <= 1
      BY <1>1, <1>9, <1>12, <3>1, ListFacts
    <3>3. PICK n \in Nat : n = Len(f.ids[k])
      BY <3>2
    <3>4. n # 0
      BY <3>1, <3>3
    <3>5. n <= 1
      BY <3>2, <3>3, Zenon
    <3>6. n = 1
      BY <3>4, <3>5
    <3>7. QED
      BY <3>1, <3>2, <3>3, <3>6
  <2>3. LastIsLast(g, P)
    <3>1. ASSUME NEW k \in Labels, NEW q \in P[k], NEW r \in 1..Len(g.ids[k])
          PROVE  r <= q
      <4>1. Len(g.ids[k]) = 1 /\ P[k] = 1..Len(g.ids[k])
        BY <1>13, <2>2, <3>1
      <4>2. QED
        BY <3>1, <4>1
    <3>2. QED
      BY <3>1 DEF LastIsLast
  <2>4. OneEach(g, P)
    BY <2>2, Zenon DEF OneEach
  <2>5. QED
    BY <1>6, <1>12, <2>1, <2>3, <2>4 DEF Removable
<1>17. PICK h : h = RemoveVector(g, id)
  OBVIOUS
<1>18. h \in FlatOf(V) /\ Removed(g, h, id) /\ Covers(h, P, {}) /\ SameLengths(g, h)
  BY <1>12, <1>16, <1>17, RemovalKeeps
<1>19. \A k \in Labels : Len(h.ids[k]) = IF k = l THEN 0 ELSE Len(f.ids[k])
  BY <1>9, <1>12, <1>14, <1>18 DEF SameLengths
<1>20. Everywhere(h) = P
  <2>1. 1..0 = {}
    OBVIOUS
  <2>2. QED
    BY <1>13, <1>19, <2>1 DEF Everywhere
<1>21. FlatOK(V, h)
  BY <1>1, <1>18, <1>19, <1>20 DEF FlatOK
<1>22. Follows(f, l, h, NextUpdates(f, NoUpdates, id)) /\ Removed(f, h, id)
  <2>1. Removed(f, h, id)
    <3>1. Before(g, id, 1) = Before(f, id, 1) /\ \A j : Before(g, id, j) = Before(f, id, j)
      BY <1>12 DEF Before
    <3>2. QED
      BY <1>12, <1>18, <3>1 DEF Removed
  <2>2. Follows(f, l, f, NoUpdates)
    BY <1>1, NothingMoved
  <2>3. QED
    BY <1>2, <1>6, <2>1, <2>2, RemovalFollows
<1>23. Holding(h, l) = {}
  BY <1>13, <1>18 DEF Covers, ListsOnce
<1>24. Count(h) \in 0..Count(f)
  BY <1>2, <1>6, <1>12, <1>18 DEF Removed
<1>25. DeleteSingle(f, l) = [flat |-> h, updated |-> NextUpdates(f, NoUpdates, id)]
  <2>1. DOMAIN NoUpdates = {}
    BY DEF NoUpdates
  <2>2. NextUpdates(f, NoUpdates, id) = [i \in {id} \ {Count(f)} |-> <<Count(f), f.labels[Count(f)]>>]
    <3>1. CASE id = Count(f)
      <4>1. {id} \ {Count(f)} = {}
        BY <3>1
      <4>2. QED
        BY <2>1, <3>1, <4>1 DEF NextUpdates
    <3>2. CASE id # Count(f)
      <4>1. {id} \ {Count(f)} = (({} \ {id}) \ {Count(f)}) \cup {id}
        BY <3>2
      <4>2. QED
        BY <2>1, <3>2, <4>1 DEF NextUpdates
    <3>3. QED
      BY <3>1, <3>2
  <2>3. QED
    BY <1>4, <1>7, <1>17, <2>2 DEF DeleteSingle
<1>26. DeleteSingle(f, l).flat = h
  BY <1>25
<1>27. RemovalAsserts(g, id)
  BY <1>12, <1>16, RemovalFinds
<1>28. QED
  BY <1>4, <1>5, <1>7, <1>27, <1>21, <1>22, <1>23, <1>24, <1>25, <1>26 DEF Deleted

\* The positions that are still to be deleted, or of other labels, after i rounds.
Rest(f, l, i) == [k \in Labels |-> (IF k = l THEN i + 1 ELSE 1)..Len(f.ids[k])]

\* The loop over the ids of label l of f after i rounds.
RoundOK(V, f, l, i, st) ==
  /\ st = [flat |-> st.flat, updated |-> st.updated]
  /\ st.flat \in FlatOf(V)
  /\ Count(st.flat) = Count(f) - i
  /\ SameLengths(f, st.flat)
  /\ Covers(st.flat, Rest(f, l, i), {})
  /\ Follows(f, l, st.flat, st.updated)

LEMMA RoundDeletes ==
  ASSUME multi \in BOOLEAN, multi, NEW V, NEW f, FlatOK(V, f), NEW l \in Labels,
         NEW i \in 1..Len(f.ids[l]), NEW st, RoundOK(V, f, l, i - 1, st)
  PROVE  /\ RoundOK(V, f, l, i, DeleteRound(st, l, i))
         /\ RemovalAsserts(st.flat, st.flat.ids[l][i])
<1>1. PICK g : g = st.flat
  OBVIOUS
<1>2. PICK s : s = g.ids[l]
  OBVIOUS
<1>3. PICK n \in Nat : n = Len(f.ids[l]) /\ i \in 1..n
  BY ListFacts
<1>4. /\ g \in FlatOf(V) /\ Count(g) \in Nat /\ Count(g) = Count(f) - (i - 1)
      /\ Count(f) \in Nat
  BY <1>1, FlatFacts DEF RoundOK, FlatOK
<1>5. \A k \in Labels : Len(g.ids[k]) = Len(f.ids[k])
  BY <1>1 DEF RoundOK, SameLengths
<1>6. ASSUME NEW k \in Labels
      PROVE  ListsOnce(g.ids[k], (IF k = l THEN i ELSE 1)..Len(f.ids[k]), Holding(g, k))
  <2>1. Holding(g, k) \ {} = Holding(g, k) /\ (i - 1) + 1 = i
    OBVIOUS
  <2>2. Covers(g, Rest(f, l, i - 1), {})
    BY <1>1 DEF RoundOK
  <2>3. Rest(f, l, i - 1)[k] = (IF k = l THEN i ELSE 1)..Len(f.ids[k])
    BY <2>1 DEF Rest
  <2>4. QED
    BY <2>1, <2>2, <2>3 DEF Covers
<1>7. ListsOnce(s, i..n, Holding(g, l)) /\ Len(s) = n
  BY <1>2, <1>3, <1>5, <1>6
<1>8. PICK id : id = s[i]
  OBVIOUS
<1>9. id \in Holding(g, l)
  BY <1>3, <1>7, <1>8 DEF ListsOnce
<1>10. id \in 1..Count(g) /\ g.labels[id] = l
  BY <1>9 DEF Holding
<1>11. PICK P : P = Rest(f, l, i)
  OBVIOUS
<1>12. P[l] = (i + 1)..n /\ \A k \in Labels : k # l => P[k] = 1..Len(f.ids[k])
  BY <1>3, <1>11 DEF Rest
<1>13. Covers(g, P, {id})
  <2>1. ListsOnce(s, (i + 1)..n, Holding(g, l) \ {id})
    <3>1. \A q : q \in (i + 1)..n <=> q \in i..n /\ q # i
      BY <1>3
    <3>2. i \in i..n
      BY <1>3
    <3>3. QED
      BY <1>7, <1>8, <3>1, <3>2 DEF ListsOnce
  <2>2. ASSUME NEW k \in Labels, k # l PROVE ListsOnce(g.ids[k], P[k], Holding(g, k) \ {id})
    <3>1. Holding(g, k) \ {id} = Holding(g, k)
      BY <1>10, <2>2 DEF Holding
    <3>2. QED
      BY <1>6, <1>12, <2>2, <3>1
  <2>3. QED
    BY <1>2, <1>12, <2>1, <2>2 DEF Covers
<1>14. LastIsLast(g, P)
  <2>1. ASSUME NEW q \in (i + 1)..n, NEW r \in 1..n, s[q] = s[r] PROVE r <= q
    <3>1. CASE r \in i..n
      <4>1. q \in i..n
        BY <1>3
      <4>2. r = q
        BY <1>7, <2>1, <3>1, <4>1 DEF ListsOnce
      <4>3. QED
        BY <1>3, <4>2
    <3>2. CASE ~ (r \in i..n)
      BY <1>3, <3>2
    <3>3. QED
      BY <3>1, <3>2
  <2>2. ASSUME NEW k \in Labels, k # l, NEW q \in P[k], NEW r \in 1..Len(g.ids[k]),
               g.ids[k][q] = g.ids[k][r]
        PROVE  r <= q
    <3>1. ListsOnce(g.ids[k], 1..Len(f.ids[k]), Holding(g, k)) /\ P[k] = 1..Len(f.ids[k])
      BY <1>6, <1>12, <2>2
    <3>2. PICK m \in Nat : m = Len(f.ids[k])
      BY ListFacts
    <3>3. q \in 1..m /\ r \in 1..m
      BY <1>5, <2>2, <3>1, <3>2
    <3>4. r = q
      BY <2>2, <3>1, <3>2, <3>3 DEF ListsOnce
    <3>5. QED
      BY <3>3, <3>4
  <2>3. QED
    BY <1>2, <1>7, <1>12, <2>1, <2>2 DEF LastIsLast
<1>15. Removable(g, id, P)
  BY <1>10, <1>13, <1>14 DEF Removable, OneEach
<1>16. PICK h : h = RemoveVector(g, id)
  OBVIOUS
<1>17. h \in FlatOf(V) /\ Removed(g, h, id) /\ SameLengths(g, h) /\ Covers(h, P, {})
  BY <1>4, <1>15, <1>16, RemovalKeeps
<1>18. SameLengths(f, h)
  BY <1>5, <1>17 DEF SameLengths
<1>19. Count(h) = Count(f) - i
  BY <1>3, <1>4, <1>17 DEF Removed
<1>20. Follows(f, l, h, NextUpdates(g, st.updated, id))
  <2>1. Follows(f, l, g, st.updated)
    BY <1>1 DEF RoundOK
  <2>2. QED
    BY <1>4, <1>10, <1>17, <2>1, RemovalFollows
<1>21. DeleteRound(st, l, i) = [flat |-> h, updated |-> NextUpdates(g, st.updated, id)]
  BY <1>1, <1>2, <1>8, <1>16, Zenon DEF DeleteRound, NextUpdates
<1>22. PICK w : w = NextUpdates(g, st.updated, id)
  OBVIOUS
<1>23. /\ DeleteRound(st, l, i).flat = h /\ DeleteRound(st, l, i).updated = w
       /\ DeleteRound(st, l, i) = [flat |-> h, updated |-> w]
  BY <1>21, <1>22
<1>24. RemovalAsserts(st.flat, st.flat.ids[l][i])
  <2>1. RemovalAsserts(g, id)
    BY <1>4, <1>15, RemovalFinds
  <2>2. QED
    BY <1>1, <1>2, <1>8, <2>1
<1>25. RoundOK(V, f, l, i, DeleteRound(st, l, i))
  BY <1>11, <1>17, <1>18, <1>19, <1>20, <1>22, <1>23, Zenon DEF RoundOK
<1>26. QED
  BY <1>24, <1>25

\* The rounds of the loop, one after the other.
LEMMA RoundsDelete ==
  ASSUME multi \in BOOLEAN, multi, NEW V, NEW f, FlatOK(V, f), NEW l \in Labels
  PROVE  \A i \in 0..Len(f.ids[l]) : RoundOK(V, f, l, i, DeleteRounds(f, l)[i])
<1>1. PICK n \in Nat : n = Len(f.ids[l])
  BY ListFacts
<1> DEFINE First == [flat |-> f, updated |-> NoUpdates]
           Run(t, m) == t = [i \in 0..m |-> IF i = 0 THEN First ELSE DeleteRound(t[i - 1], l, i)]
           T == {m \in Nat : \E t : Run(t, m)}
<1>2. 0 \in T
  <2>1. Run([i \in 0..0 |-> First], 0)
    OBVIOUS
  <2>2. QED
    BY <2>1
<1>3. ASSUME NEW m \in 1..n, m - 1 \in T PROVE m \in T
  <2>1. PICK t : Run(t, m - 1)
    BY <1>3
  <2> HIDE DEF First
  <2>2. PICK u : u = [i \in 0..m |-> IF i = m THEN DeleteRound(t[m - 1], l, m) ELSE t[i]]
    OBVIOUS
  <2>3. ASSUME NEW i \in 0..m
        PROVE  u[i] = IF i = 0 THEN First ELSE DeleteRound(u[i - 1], l, i)
    <3>1. CASE i = m
      BY <2>2, <3>1
    <3>2. CASE i # m
      <4>1. i \in 0..(m - 1) /\ u[i] = t[i] /\ (i # 0 => u[i - 1] = t[i - 1])
        BY <2>2, <3>2
      <4>2. QED
        BY <2>1, <4>1
    <3>3. QED
      BY <3>1, <3>2
  <2>4. Run(u, m)
    BY <2>2, <2>3
  <2>5. m \in Nat
    OBVIOUS
  <2>6. QED
    BY <2>4, <2>5
<1>4. \E t : Run(t, n)
  <2> HIDE DEF Run
  <2>1. 0..n \subseteq T
    BY <1>1, <1>2, <1>3, UpToInduction
  <2>2. QED
    BY <1>1, <2>1
<1>5. PICK a : a = CHOOSE t : Run(t, n)
  OBVIOUS
<1>6. Run(a, n)
  BY <1>4, <1>5
<1>7. DeleteRounds(f, l) = a
  BY <1>1, <1>5 DEF DeleteRounds
<1> HIDE DEF First
<1>8. ASSUME NEW i \in 0..n
      PROVE  a[i] = IF i = 0 THEN First ELSE DeleteRound(a[i - 1], l, i)
  <2>1. QED
    BY <1>6
<1> DEFINE S == {i \in 0..n : RoundOK(V, f, l, i, a[i])}
<1>9. 0 \in S
  <2>1. 0 \in 0..n /\ a[0] = First
    BY <1>8
  <2>2. /\ First.flat = f /\ First.updated = NoUpdates
        /\ First = [flat |-> f, updated |-> NoUpdates]
    BY DEF First
  <2>3. f \in FlatOf(V) /\ Covers(f, Everywhere(f), {}) /\ Count(f) = Count(f) - 0
    BY FlatFacts DEF FlatOK
  <2>4. Rest(f, l, 0) = Everywhere(f)
    BY DEF Rest, Everywhere
  <2>5. SameLengths(f, f) /\ Follows(f, l, f, NoUpdates)
    BY <2>3, NothingMoved DEF SameLengths
  <2>6. RoundOK(V, f, l, 0, a[0])
    BY <2>1, <2>2, <2>3, <2>4, <2>5, Zenon DEF RoundOK
  <2>7. QED
    BY <2>1, <2>6
<1>10. ASSUME NEW i \in 1..n, i - 1 \in S PROVE i \in S
  <2>1. RoundOK(V, f, l, i - 1, a[i - 1]) /\ i \in 1..Len(f.ids[l])
    BY <1>1, <1>10
  <2>2. a[i] = DeleteRound(a[i - 1], l, i) /\ i \in 0..n
    BY <1>8
  <2>3. RoundOK(V, f, l, i, a[i])
    BY <2>1, <2>2, RoundDeletes
  <2>4. QED
    BY <2>2, <2>3
<1>11. 0..n \subseteq S
  <2> HIDE DEF S
  <2>1. QED
    BY <1>1, <1>9, <1>10, UpToInduction
<1>12. QED
  BY <1>1, <1>7, <1>11

\* No assert on the way of a deletion fails.
LEMMA DeletionFinds ==
  ASSUME multi \in BOOLEAN, NEW V, NEW f, FlatOK(V, f), NEW l \in Labels
  PROVE  DeletionAsserts(f, l)
<1>1. CASE multi
  <2>1. PICK n \in Nat : n = Len(f.ids[l])
    BY ListFacts
  <2>2. DOMAIN f.ids[l] = 1..n
    BY <2>1, ListFacts, LenProperties
  <2>3. ASSUME NEW i \in 1..n
        PROVE  LET g == DeleteRounds(f, l)[i - 1].flat IN RemovalAsserts(g, g.ids[l][i])
    <3>1. PICK st : st = DeleteRounds(f, l)[i - 1]
      OBVIOUS
    <3>2. i - 1 \in 0..n /\ i \in 1..Len(f.ids[l])
      BY <2>1
    <3>3. RoundOK(V, f, l, i - 1, st)
      BY <1>1, <2>1, <3>1, <3>2, RoundsDelete
    <3>4. RemovalAsserts(st.flat, st.flat.ids[l][i])
      BY <1>1, <3>2, <3>3, RoundDeletes
    <3>5. QED
      BY <3>1, <3>4
  <2>4. QED
    BY <1>1, <2>2, <2>3, Zenon DEF DeletionAsserts
<1>2. CASE ~ multi
  <2>1. IsLabelExists(f, l) => RemovalAsserts([f EXCEPT !.ids[l] = <<>>], f.ids[l][1])
    BY <1>2, DeleteSingleDeletes
  <2>2. QED
    BY <1>2, <2>1, Zenon DEF DeletionAsserts
<1>3. QED
  BY <1>1, <1>2

LEMMA DeleteMultiDeletes ==
  ASSUME multi \in BOOLEAN, multi, NEW V, NEW f, FlatOK(V, f), NEW l \in Labels
  PROVE  Deleted(V, f, l, DeleteMulti(f, l))
<1>1. PICK n \in Nat : n = Len(f.ids[l])
  BY ListFacts
<1>2. PICK st : st = DeleteRounds(f, l)[n]
  OBVIOUS
<1>3. RoundOK(V, f, l, n, st)
  <2>1. n \in 0..Len(f.ids[l])
    BY <1>1
  <2>2. QED
    BY <1>2, <2>1, RoundsDelete
<1>4. PICK g, up : g = st.flat /\ up = st.updated
  OBVIOUS
<1>5. /\ st = [flat |-> g, updated |-> up] /\ g \in FlatOf(V) /\ Count(g) = Count(f) - n
      /\ SameLengths(f, g) /\ Covers(g, Rest(f, l, n), {}) /\ Follows(f, l, g, up)
  BY <1>3, <1>4, Zenon DEF RoundOK
<1>6. f \in FlatOf(V) /\ Count(f) \in Nat /\ Count(g) \in Nat
  BY <1>5, FlatFacts DEF FlatOK
<1>7. PICK ids : ids = [g.ids EXCEPT ![l] = <<>>]
  OBVIOUS
<1>8. /\ g.ids \in [Labels -> Seq(Nat \ {0})] /\ g.labels \in Seq(Labels)
      /\ g.vectors \in Seq(V) /\ Len(g.labels) = Len(g.vectors)
      /\ g = [labels |-> g.labels, vectors |-> g.vectors, ids |-> g.ids]
  BY <1>5 DEF FlatOf
<1>9. /\ ids \in [Labels -> Seq(Nat \ {0})] /\ ids[l] = <<>>
      /\ \A k \in Labels : k # l => ids[k] = g.ids[k]
  <2>1. <<>> \in Seq(Nat \ {0})
    OBVIOUS
  <2>2. QED
    BY <1>7, <1>8, <2>1
<1>10. PICK h : h = [labels |-> g.labels, vectors |-> g.vectors, ids |-> ids]
  OBVIOUS
<1>11. DeleteMulti(f, l) = [flat |-> h, updated |-> up]
  <2>1. PICK x : x = [g EXCEPT !.ids[l] = <<>>]
    OBVIOUS
  <2>2. x = h
    <3>1. g = [labels |-> g.labels, vectors |-> g.vectors, ids |-> g.ids]
      BY <1>8
    <3>2. QED
      BY <1>7, <1>10, <2>1, <3>1
  <2>3. [st EXCEPT !.flat.ids[l] = <<>>] = [flat |-> x, updated |-> up]
    BY <1>5, <2>1
  <2>4. QED
    BY <1>1, <1>2, <2>2, <2>3 DEF DeleteMulti
<1>12. /\ h \in FlatOf(V) /\ h.ids = ids /\ h.labels = g.labels /\ h.vectors = g.vectors
       /\ Count(h) = Count(g)
  BY <1>8, <1>9, <1>10 DEF FlatOf, Count
<1>13. \A k \in Labels : Holding(h, k) = Holding(g, k) /\ Holding(g, k) \ {} = Holding(g, k)
  BY <1>12 DEF Holding
<1>14. Holding(h, l) = {}
  <2>1. (n + 1)..n = {}
    BY <1>1
  <2>2. Rest(f, l, n)[l] = {}
    BY <1>1, <2>1 DEF Rest
  <2>3. ListsOnce(g.ids[l], {}, Holding(g, l) \ {})
    BY <1>5, <2>2 DEF Covers
  <2>4. QED
    BY <1>13, <2>3 DEF ListsOnce
<1>15. Covers(h, Everywhere(h), {})
  <2>1. ASSUME NEW k \in Labels
        PROVE  ListsOnce(h.ids[k], Everywhere(h)[k], Holding(h, k) \ {})
    <3>1. CASE k = l
      <4>1. Len(<<>>) = 0 /\ 1..0 = {}
        OBVIOUS
      <4>2. Everywhere(h)[k] = {} /\ Holding(h, k) \ {} = {}
        BY <1>9, <1>12, <1>14, <3>1, <4>1 DEF Everywhere
      <4>3. QED
        BY <4>2 DEF ListsOnce
    <3>2. CASE k # l
      <4>1. h.ids[k] = g.ids[k] /\ Len(g.ids[k]) = Len(f.ids[k])
        BY <1>5, <1>9, <1>12, <3>2 DEF SameLengths
      <4>2. Everywhere(h)[k] = 1..Len(f.ids[k])
        BY <4>1 DEF Everywhere
      <4>3. Rest(f, l, n)[k] = 1..Len(f.ids[k])
        BY <3>2 DEF Rest
      <4>4. ListsOnce(g.ids[k], 1..Len(f.ids[k]), Holding(g, k) \ {})
        BY <1>5, <4>3 DEF Covers
      <4>5. QED
        BY <1>13, <4>1, <4>2, <4>4
    <3>3. QED
      BY <3>1, <3>2
  <2>2. QED
    BY <2>1 DEF Covers
<1>16. FlatOK(V, h)
  BY <1>12, <1>15 DEF FlatOK
<1>17. Follows(f, l, h, up)
  BY <1>5, <1>12 DEF Follows
<1>18. Count(h) \in 0..Count(f)
  BY <1>1, <1>5, <1>6, <1>12
<1>19. QED
  BY <1>11, <1>14, <1>16, <1>17, <1>18 DEF Deleted

\* No id that the map gives is one that it takes away, and it takes none away
\* twice: whoever renames ids by the map gets the same whatever the order of its
\* entries, which are those of an unordered_map.
LEMMA RenamesDoNotMeet ==
  ASSUME NEW V, NEW f, NEW l, NEW r, Deleted(V, f, l, r), Count(r.flat) \in Nat,
         NEW i \in DOMAIN r.updated, NEW j \in DOMAIN r.updated
  PROVE  r.updated[i][1] # j /\ (r.updated[i][1] = r.updated[j][1] => i = j)
<1>1. PICK g, up : g = r.flat /\ up = r.updated
  OBVIOUS
<1>2. Follows(f, l, g, up) /\ Holding(g, l) = {} /\ Count(g) \in Nat
  BY <1>1 DEF Deleted
<1>3. i \in DOMAIN up /\ j \in DOMAIN up /\ i \in 1..Count(g) /\ j \in 1..Count(g)
  BY <1>1, <1>2 DEF Follows
<1>4. From(up, i) = up[i][1] /\ From(up, j) = up[j][1]
  BY <1>3 DEF From
<1>5. f.labels[From(up, i)] # l
  <2>1. g.labels[i] = f.labels[From(up, i)]
    BY <1>2, <1>3 DEF Follows
  <2>2. g.labels[i] # l
    BY <1>2, <1>3 DEF Holding
  <2>3. QED
    BY <2>1, <2>2
<1>6. f.labels[j] = l
  BY <1>2, <1>3 DEF Follows
<1>7. From(up, i) = From(up, j) => i = j
  BY <1>2, <1>3 DEF Follows
<1>8. QED
  BY <1>1, <1>4, <1>5, <1>6, <1>7

\* deleteVector and deleteVectorAndGetUpdatedIds of both kinds of index.
LEMMA DeletionDeletes ==
  ASSUME multi \in BOOLEAN, NEW V, NEW f, FlatOK(V, f), NEW l \in Labels
  PROVE  Deleted(V, f, l, DeleteVectorAndGetUpdatedIds(f, l))
<1>1. CASE ~ IsLabelExists(f, l)
  <2>1. DeleteVectorAndGetUpdatedIds(f, l) = [flat |-> f, updated |-> NoUpdates]
    BY <1>1 DEF DeleteVectorAndGetUpdatedIds
  <2>2. f \in FlatOf(V) /\ Count(f) \in Nat
    BY FlatFacts DEF FlatOK
  <2>3. Follows(f, l, f, NoUpdates)
    BY <2>2, NothingMoved
  <2>4. Holding(f, l) = {}
    <3>1. f.ids[l] = <<>> /\ Len(<<>>) = 0 /\ 1..0 = {}
      BY <1>1 DEF IsLabelExists
    <3>2. ListsOnce(f.ids[l], {}, Holding(f, l))
      BY <3>1, ListFacts
    <3>3. QED
      BY <3>2 DEF ListsOnce
  <2>5. Count(f) \in 0..Count(f)
    BY <2>2
  <2>6. QED
    BY <2>1, <2>3, <2>4, <2>5 DEF Deleted
<1>2. CASE IsLabelExists(f, l) /\ multi
  <2>1. DeleteVectorAndGetUpdatedIds(f, l) = DeleteMulti(f, l)
    BY <1>2, Zenon DEF DeleteVectorAndGetUpdatedIds
  <2>2. QED
    BY <1>2, <2>1, DeleteMultiDeletes
<1>3. CASE IsLabelExists(f, l) /\ ~ multi
  <2>1. DeleteVectorAndGetUpdatedIds(f, l) = DeleteSingle(f, l)
    BY <1>3, Zenon DEF DeleteVectorAndGetUpdatedIds
  <2>2. QED
    BY <1>3, <2>1, DeleteSingleDeletes
<1>4. QED
  BY <1>1, <1>2, <1>3, Zenon

-----------------------------------------------------------------------------
(* Deleting one vector by its id.                                           *)

LEMMA RemoveAtLists ==
  ASSUME NEW s \in Seq(Nat \ {0}), NEW p \in 1..Len(s), NEW S,
         ListsOnce(s, (1..Len(s)) \ {p}, S)
  PROVE  /\ RemoveAt(s, p) \in Seq(Nat \ {0})
         /\ Len(RemoveAt(s, p)) = Len(s) - 1
         /\ ListsOnce(RemoveAt(s, p), 1..(Len(s) - 1), S)
<1>1. PICK n \in Nat : n = Len(s) /\ p \in 1..n
  BY LenProperties
<1>2. PICK a : a = SubSeq(s, 1, p - 1)
  OBVIOUS
<1>3. PICK b : b = SubSeq(s, p + 1, n)
  OBVIOUS
<1>4. /\ a \in Seq(Nat \ {0}) /\ Len(a) = p - 1
      /\ \A i \in 1..(p - 1) : a[i] = s[i]
  BY <1>1, <1>2, SubSeqProperties
<1>5. /\ b \in Seq(Nat \ {0}) /\ Len(b) = n - p
      /\ \A i \in 1..(n - p) : b[i] = s[p + i]
  BY <1>1, <1>3, SubSeqProperties
<1>6. PICK t : t = a \o b
  OBVIOUS
<1>7. /\ t \in Seq(Nat \ {0}) /\ Len(t) = n - 1
      /\ \A i \in 1..(n - 1) : t[i] = IF i < p THEN s[i] ELSE s[i + 1]
  <2>1. /\ t \in Seq(Nat \ {0}) /\ Len(t) = (p - 1) + (n - p)
        /\ \A i \in 1..((p - 1) + (n - p)) : t[i] = IF i <= p - 1 THEN a[i] ELSE b[i - (p - 1)]
    <3>1. /\ t \in Seq(Nat \ {0}) /\ Len(t) = Len(a) + Len(b)
          /\ \A i \in 1..(Len(a) + Len(b)) : t[i] = IF i <= Len(a) THEN a[i] ELSE b[i - Len(a)]
      BY <1>4, <1>5, <1>6, ConcatProperties
    <3>2. QED
      BY <1>4, <1>5, <3>1
  <2>2. (p - 1) + (n - p) = n - 1
    BY <1>1
  <2>3. ASSUME NEW i \in 1..(n - 1) PROVE t[i] = IF i < p THEN s[i] ELSE s[i + 1]
    <3>1. CASE i < p
      <4>1. i \in 1..(p - 1) /\ i <= p - 1
        BY <1>1, <3>1
      <4>2. QED
        BY <1>4, <2>1, <2>2, <3>1, <4>1
    <3>2. CASE ~ (i < p)
      <4>1. i - (p - 1) \in 1..(n - p) /\ ~ (i <= p - 1) /\ p + (i - (p - 1)) = i + 1
        BY <1>1, <3>2
      <4>2. t[i] = b[i - (p - 1)]
        BY <2>1, <2>2, <4>1
      <4>3. b[i - (p - 1)] = s[p + (i - (p - 1))]
        BY <1>5, <4>1
      <4>4. QED
        BY <3>2, <4>1, <4>2, <4>3
    <3>3. QED
      BY <3>1, <3>2
  <2>4. QED
    BY <2>1, <2>2, <2>3
<1>8. RemoveAt(s, p) = t
  BY <1>1, <1>2, <1>3, <1>6 DEF RemoveAt
<1>9. ListsOnce(t, 1..(n - 1), S)
  <2>1. ListsOnce(s, (1..n) \ {p}, S)
    BY <1>1
  <2>2. \A i \in 1..(n - 1) : (IF i < p THEN i ELSE i + 1) \in (1..n) \ {p}
    BY <1>1
  <2>3. \A i \in 1..(n - 1) : t[i] = s[IF i < p THEN i ELSE i + 1]
    BY <1>7
  <2>4. \A i \in 1..(n - 1) : t[i] \in S
    BY <2>1, <2>2, <2>3 DEF ListsOnce
  <2>5. ASSUME NEW x \in S PROVE \E i \in 1..(n - 1) : t[i] = x
    <3>1. PICK q \in (1..n) \ {p} : s[q] = x
      BY <2>1 DEF ListsOnce
    <3>2. CASE q < p
      <4>1. q \in 1..(n - 1)
        BY <1>1, <3>2
      <4>2. QED
        BY <1>7, <3>1, <3>2, <4>1
    <3>3. CASE ~ (q < p)
      <4>1. q - 1 \in 1..(n - 1) /\ ~ (q - 1 < p) /\ (q - 1) + 1 = q
        BY <1>1, <3>1, <3>3
      <4>2. QED
        BY <1>7, <3>1, <4>1
    <3>4. QED
      BY <3>2, <3>3
  <2>6. ASSUME NEW i \in 1..(n - 1), NEW j \in 1..(n - 1), t[i] = t[j] PROVE i = j
    <3>1. PICK x : x = IF i < p THEN i ELSE i + 1
      OBVIOUS
    <3>2. PICK y : y = IF j < p THEN j ELSE j + 1
      OBVIOUS
    <3>3. x \in (1..n) \ {p} /\ y \in (1..n) \ {p} /\ s[x] = s[y]
      BY <2>2, <2>3, <2>6, <3>1, <3>2
    <3>4. x = y
      BY <2>1, <3>3 DEF ListsOnce
    <3>5. QED
      BY <1>1, <3>1, <3>2, <3>4
  <2>7. 1..(n - 1) \subseteq 1..Len(t)
    BY <1>7
  <2>8. QED
    BY <2>4, <2>5, <2>6, <2>7 DEF ListsOnce
<1>10. QED
  BY <1>1, <1>7, <1>8, <1>9

\* deleteVectorById of a multi-value index takes out the one vector.
LEMMA DeleteByIdDeletes ==
  ASSUME multi \in BOOLEAN, multi, NEW V, NEW f, FlatOK(V, f), NEW l \in Labels,
         NEW id \in 1..Count(f), f.labels[id] = l
  PROVE  /\ FlatOK(V, DeleteVectorById(f, l, id))
         /\ Removed(f, DeleteVectorById(f, l, id), id)
         /\ DeletionByIdAsserts(f, l, id)
<1>1. f \in FlatOf(V) /\ Count(f) \in Nat
  BY FlatFacts DEF FlatOK
<1>2. PICK s : s = f.ids[l]
  OBVIOUS
<1>3. PICK n \in Nat : n = Len(s) /\ n = Len(f.ids[l])
  BY <1>2, ListFacts
<1>4. ListsOnce(s, 1..n, Holding(f, l))
  BY <1>2, <1>3, ListFacts
<1>5. id \in Holding(f, l)
  BY DEF Holding
<1>6. PICK p \in 1..n : s[p] = id
  BY <1>4, <1>5 DEF ListsOnce
<1>7. SelectInSeq(s, LAMBDA x : x = id) = p
  <2>1. p \in 1..Len(s) /\ \A r \in 1..Len(s) : s[r] = id => r = p
    BY <1>3, <1>4, <1>6 DEF ListsOnce
  <2>2. PICK I : I = {r \in 1..Len(s) : s[r] = id}
    OBVIOUS
  <2>3. p \in I /\ \A r \in I : r = p /\ p <= r
    <3>1. p \in I /\ \A r \in I : r = p
      BY <1>6, <2>1, <2>2, Zenon
    <3>2. p <= p
      BY <1>6
    <3>3. QED
      BY <3>1, <3>2, Zenon
  <2>4. Min(I) = p
    BY <2>3 DEF Min
  <2>5. SelectInSeq(s, LAMBDA x : x = id) = Min(I)
    BY <2>2, <2>3 DEF SelectInSeq
  <2>6. QED
    BY <2>4, <2>5
<1>8. PICK P : P = [k \in Labels |-> IF k = l THEN (1..n) \ {p} ELSE 1..Len(f.ids[k])]
  OBVIOUS
<1>9. P[l] = (1..n) \ {p} /\ \A k \in Labels : k # l => P[k] = 1..Len(f.ids[k])
  BY <1>8
<1>10. Removable(f, id, P)
  <2>1. Covers(f, P, {id})
    <3>1. ListsOnce(s, (1..n) \ {p}, Holding(f, l) \ {id})
      BY <1>4, <1>6 DEF ListsOnce
    <3>2. ASSUME NEW k \in Labels, k # l PROVE ListsOnce(f.ids[k], P[k], Holding(f, k) \ {id})
      <4>1. Holding(f, k) \ {id} = Holding(f, k)
        BY <3>2 DEF Holding
      <4>2. ListsOnce(f.ids[k], 1..Len(f.ids[k]), Holding(f, k))
        BY ListFacts
      <4>3. QED
        BY <1>9, <3>2, <4>1, <4>2
    <3>3. QED
      BY <1>2, <1>9, <3>1, <3>2 DEF Covers
  <2>2. LastIsLast(f, P)
    <3>1. ASSUME NEW k \in Labels, NEW q \in P[k], NEW r \in 1..Len(f.ids[k]),
                 f.ids[k][q] = f.ids[k][r]
          PROVE  r <= q
      <4>1. PICK m \in Nat : m = Len(f.ids[k])
        BY ListFacts
      <4>2. q \in 1..m /\ r \in 1..m
        BY <1>3, <1>9, <3>1, <4>1
      <4>3. ListsOnce(f.ids[k], 1..m, Holding(f, k))
        BY <4>1, ListFacts
      <4>4. q = r
        BY <3>1, <4>2, <4>3 DEF ListsOnce
      <4>5. QED
        BY <4>2, <4>4
    <3>2. QED
      BY <3>1 DEF LastIsLast
  <2>3. QED
    BY <2>1, <2>2 DEF Removable, OneEach
<1>11. PICK g : g = RemoveVector(f, id)
  OBVIOUS
<1>12. g \in FlatOf(V) /\ Removed(f, g, id) /\ SameLengths(f, g) /\ Covers(g, P, {})
  BY <1>1, <1>10, <1>11, RemovalKeeps
<1>13. PICK u : u = g.ids[l]
  OBVIOUS
<1>14. u \in Seq(Nat \ {0}) /\ Len(u) = n /\ ListsOnce(u, (1..Len(u)) \ {p}, Holding(g, l))
  <2>1. u \in Seq(Nat \ {0}) /\ Len(u) = n
    BY <1>3, <1>12, <1>13, FlatFacts DEF SameLengths
  <2>2. ListsOnce(u, (1..n) \ {p}, Holding(g, l) \ {})
    BY <1>9, <1>12, <1>13 DEF Covers
  <2>3. Holding(g, l) \ {} = Holding(g, l)
    OBVIOUS
  <2>4. QED
    BY <2>1, <2>2, <2>3
<1>15. PICK t : t = RemoveAt(u, p)
  OBVIOUS
<1>16. t \in Seq(Nat \ {0}) /\ Len(t) = n - 1 /\ ListsOnce(t, 1..(n - 1), Holding(g, l))
  <2>1. p \in 1..Len(u)
    BY <1>6, <1>14
  <2>2. t \in Seq(Nat \ {0}) /\ Len(t) = Len(u) - 1 /\ ListsOnce(t, 1..(Len(u) - 1), Holding(g, l))
    BY <1>14, <1>15, <2>1, RemoveAtLists
  <2>3. QED
    BY <1>14, <2>2
<1>17. PICK ids : ids = [g.ids EXCEPT ![l] = t]
  OBVIOUS
<1>18. /\ g.ids \in [Labels -> Seq(Nat \ {0})] /\ g.labels \in Seq(Labels)
       /\ g.vectors \in Seq(V) /\ Len(g.labels) = Len(g.vectors)
  BY <1>12 DEF FlatOf
<1>19. /\ ids \in [Labels -> Seq(Nat \ {0})] /\ ids[l] = t
       /\ \A k \in Labels : k # l => ids[k] = g.ids[k]
  BY <1>16, <1>17, <1>18
<1>20. PICK h : h = [labels |-> g.labels, vectors |-> g.vectors, ids |-> ids]
  OBVIOUS
<1>21. DeleteVectorById(f, l, id) = h
  <2>1. g = [labels |-> g.labels, vectors |-> g.vectors, ids |-> g.ids]
    BY <1>12 DEF FlatOf
  <2>2. PICK x : x = [g EXCEPT !.ids[l] = RemoveAt(@, p)]
    OBVIOUS
  <2>3. x = h
    BY <1>13, <1>15, <1>17, <1>20, <2>1, <2>2
  <2>4. IsLabelExists(f, l)
    <3>1. f.ids[l] # <<>>
      <4>1. n # 0 /\ Len(<<>>) = 0
        BY <1>6
      <4>2. QED
        BY <1>3, <4>1
    <3>2. QED
      BY <3>1 DEF IsLabelExists
  <2>5. QED
    BY <1>2, <1>7, <1>11, <2>2, <2>3, <2>4 DEF DeleteVectorById
<1>22. /\ h \in FlatOf(V) /\ h.ids = ids /\ h.labels = g.labels /\ h.vectors = g.vectors
       /\ Count(h) = Count(g)
  BY <1>18, <1>19, <1>20 DEF FlatOf, Count
<1>23. Removed(f, h, id)
  BY <1>12, <1>22 DEF Removed
<1>24. Covers(h, Everywhere(h), {})
  <2>1. ASSUME NEW k \in Labels
        PROVE  ListsOnce(h.ids[k], 1..Len(h.ids[k]), Holding(h, k) \ {})
    <3>1. Holding(h, k) \ {} = Holding(g, k) /\ Holding(g, k) \ {} = Holding(g, k)
      BY <1>22 DEF Holding
    <3>2. CASE k = l
      BY <1>16, <1>19, <1>22, <3>1, <3>2
    <3>3. CASE k # l
      <4>1. h.ids[k] = g.ids[k] /\ Len(g.ids[k]) = Len(f.ids[k])
        BY <1>12, <1>19, <1>22, <3>3 DEF SameLengths
      <4>2. ListsOnce(g.ids[k], 1..Len(f.ids[k]), Holding(g, k) \ {})
        BY <1>9, <1>12, <3>3 DEF Covers
      <4>3. QED
        BY <3>1, <4>1, <4>2
    <3>4. QED
      BY <3>2, <3>3
  <2>2. QED
    BY <2>1 DEF Covers, Everywhere
<1>25. FlatOK(V, h)
  BY <1>22, <1>24 DEF FlatOK
<1>26. DeletionByIdAsserts(f, l, id)
  <2>1. RemovalAsserts(f, id)
    BY <1>1, <1>10, RemovalFinds
  <2>2. f.ids[l] \in Seq(Nat \ {0})
    BY ListFacts
  <2>3. id \in Range(f.ids[l])
    BY <1>2, <1>3, <1>6, <2>2, LenProperties DEF Range
  <2>4. QED
    BY <2>1, <2>3 DEF DeletionByIdAsserts
<1>27. QED
  BY <1>21, <1>23, <1>25, <1>26

-----------------------------------------------------------------------------
(* Adding a vector.                                                         *)

\* What an append does.
Appended(f, g, l, v) ==
  /\ Count(g) = Count(f) + 1
  /\ g.labels[Count(g)] = l /\ g.vectors[Count(g)] = v
  /\ \A j \in 1..Count(f) : g.labels[j] = f.labels[j] /\ g.vectors[j] = f.vectors[j]

LEMMA AppendAdds ==
  ASSUME multi \in BOOLEAN, NEW V, NEW f, FlatOK(V, f), NEW l \in Labels, NEW v \in V,
         multi \/ ~ IsLabelExists(f, l)
  PROVE  FlatOK(V, AppendVector(f, l, v)) /\ Appended(f, AppendVector(f, l, v), l, v)
<1>1. PICK g : g = AppendVector(f, l, v)
  OBVIOUS
<1>2. /\ f \in FlatOf(V) /\ f.labels \in Seq(Labels) /\ f.vectors \in Seq(V)
      /\ f.ids \in [Labels -> Seq(Nat \ {0})]
  BY FlatFacts DEF FlatOK
<1>3. PICK n \in Nat : n = Count(f) /\ Len(f.labels) = n /\ Len(f.vectors) = n
  BY <1>2, FlatFacts
<1>4. PICK s \in Seq(Nat \ {0}) : s = f.ids[l]
  BY <1>2
<1>5. PICK m \in Nat : m = Len(s)
  BY <1>4, LenProperties
<1>6. PICK t : t = Append(s, n + 1)
  OBVIOUS
<1>7. /\ t \in Seq(Nat \ {0}) /\ Len(t) = m + 1 /\ t[m + 1] = n + 1
      /\ \A i \in 1..m : t[i] = s[i]
  <2>1. n + 1 \in Nat \ {0}
    OBVIOUS
  <2>2. QED
    BY <1>4, <1>5, <1>6, <2>1, AppendProperties
<1>8. PICK ids : ids = [f.ids EXCEPT ![l] = t]
  OBVIOUS
<1>9. /\ ids \in [Labels -> Seq(Nat \ {0})] /\ ids[l] = t
      /\ \A k \in Labels : k # l => ids[k] = f.ids[k]
  BY <1>2, <1>7, <1>8
<1>10. g = [labels |-> Append(f.labels, l), vectors |-> Append(f.vectors, v), ids |-> ids]
  BY <1>1, <1>3, <1>4, <1>6, <1>8 DEF AppendVector
<1>11. /\ g.labels \in Seq(Labels) /\ Len(g.labels) = n + 1 /\ g.labels[n + 1] = l
       /\ \A i \in 1..n : g.labels[i] = f.labels[i]
  <2>1. g.labels = Append(f.labels, l)
    BY <1>10
  <2>2. QED
    BY <1>2, <1>3, <2>1, AppendProperties
<1>12. /\ g.vectors \in Seq(V) /\ Len(g.vectors) = n + 1 /\ g.vectors[n + 1] = v
       /\ \A i \in 1..n : g.vectors[i] = f.vectors[i]
  <2>1. g.vectors = Append(f.vectors, v)
    BY <1>10
  <2>2. QED
    BY <1>2, <1>3, <2>1, AppendProperties
<1>13. g.ids = ids /\ Count(g) = n + 1
  BY <1>10, <1>11 DEF Count
<1>14. g \in FlatOf(V)
  <2>1. g = [labels |-> g.labels, vectors |-> g.vectors, ids |-> g.ids]
    BY <1>10
  <2>2. QED
    BY <1>9, <1>11, <1>12, <1>13, <2>1 DEF FlatOf
<1>15. Appended(f, g, l, v)
  BY <1>3, <1>11, <1>12, <1>13 DEF Appended
<1>16. /\ Holding(g, l) = Holding(f, l) \cup {n + 1}
       /\ \A k \in Labels : k # l => Holding(g, k) = Holding(f, k)
  <2>1. \A i : i \in 1..(n + 1) <=> i \in 1..n \/ i = n + 1
    BY <1>3
  <2>2. QED
    BY <1>3, <1>11, <1>13, <2>1 DEF Holding
<1>17. ListsOnce(t, 1..(m + 1), Holding(f, l) \cup {n + 1})
  <2>1. ListsOnce(s, 1..m, Holding(f, l))
    BY <1>4, <1>5, ListFacts
  <2>2. ~ (n + 1 \in Holding(f, l))
    BY <1>3 DEF Holding
  <2>3. \A q : q \in 1..(m + 1) <=> q \in 1..m \/ q = m + 1
    BY <1>5
  <2>4. \A q \in 1..m : t[q] = s[q] /\ s[q] \in Holding(f, l)
    BY <1>7, <2>1 DEF ListsOnce
  <2>5. \A q \in 1..(m + 1) : t[q] \in Holding(f, l) \cup {n + 1}
    BY <1>7, <2>3, <2>4
  <2>6. \A x \in Holding(f, l) \cup {n + 1} : \E q \in 1..(m + 1) : t[q] = x
    BY <1>7, <2>1, <2>3, <2>4 DEF ListsOnce
  <2>7. \A q, r \in 1..(m + 1) : t[q] = t[r] => q = r
    BY <1>7, <2>1, <2>2, <2>3, <2>4 DEF ListsOnce
  <2>8. 1..(m + 1) \subseteq 1..Len(t)
    BY <1>7
  <2>9. QED
    BY <2>5, <2>6, <2>7, <2>8 DEF ListsOnce
<1>18. Covers(g, Everywhere(g), {})
  <2>1. ASSUME NEW k \in Labels
        PROVE  ListsOnce(g.ids[k], 1..Len(g.ids[k]), Holding(g, k) \ {})
    <3>1. Holding(g, k) \ {} = Holding(g, k)
      OBVIOUS
    <3>2. CASE k = l
      BY <1>7, <1>9, <1>13, <1>16, <1>17, <3>1, <3>2
    <3>3. CASE k # l
      BY <1>9, <1>13, <1>16, <3>1, <3>3, ListFacts
    <3>4. QED
      BY <3>2, <3>3
  <2>2. QED
    BY <2>1 DEF Covers, Everywhere
<1>19. ~ multi => \A k \in Labels : Len(g.ids[k]) <= 1
  <2>1. SUFFICES ASSUME ~ multi, NEW k \in Labels PROVE Len(g.ids[k]) <= 1
    BY Zenon
  <2>2. Len(f.ids[k]) <= 1
    BY <2>1, Zenon DEF FlatOK
  <2>3. CASE k = l
    <3>1. s = <<>>
      BY <1>4, <2>1, Zenon DEF IsLabelExists
    <3>2. m = 0
      <4>1. Len(<<>>) = 0
        OBVIOUS
      <4>2. QED
        BY <1>5, <3>1, <4>1
    <3>3. Len(t) = 1 /\ g.ids[k] = t
      BY <1>7, <1>9, <1>13, <2>3, <3>2
    <3>4. 1 <= 1
      OBVIOUS
    <3>5. QED
      BY <3>3, <3>4, Zenon
  <2>4. CASE k # l
    BY <1>9, <1>13, <2>2, <2>4
  <2>5. QED
    BY <2>3, <2>4
<1>20. FlatOK(V, g)
  BY <1>14, <1>18, <1>19, Zenon DEF FlatOK
<1>21. QED
  BY <1>1, <1>15, <1>20

\* An overwrite changes one vector and nothing else.
LEMMA OverwriteChanges ==
  ASSUME NEW V, NEW f, FlatOK(V, f), NEW id \in 1..Count(f), NEW v \in V
  PROVE  LET g == UpdateElement(f, id, v)
         IN  /\ FlatOK(V, g)
             /\ g.labels = f.labels /\ g.ids = f.ids /\ Count(g) = Count(f)
             /\ g.vectors[id] = v
             /\ \A j \in 1..Count(f) : j # id => g.vectors[j] = f.vectors[j]
<1>1. /\ f \in FlatOf(V) /\ f.labels \in Seq(Labels) /\ f.vectors \in Seq(V)
      /\ f.ids \in [Labels -> Seq(Nat \ {0})]
      /\ Len(f.labels) = Count(f) /\ Len(f.vectors) = Count(f) /\ Count(f) \in Nat
  BY FlatFacts DEF FlatOK
<1>2. PICK w : w = [f.vectors EXCEPT ![id] = v]
  OBVIOUS
<1>3. /\ w \in Seq(V) /\ Len(w) = Count(f) /\ w[id] = v
      /\ \A j \in 1..Count(f) : j # id => w[j] = f.vectors[j]
  <2>1. PICK s \in Seq(V) : s = f.vectors /\ Len(s) = Count(f)
    BY <1>1
  <2>2. w \in Seq(V) /\ Len(w) = Len(s)
    BY <1>2, <2>1, ExceptSeq
  <2>3. s \in [1..Count(f) -> V]
    BY <2>1, LenProperties
  <2>4. QED
    BY <1>2, <2>1, <2>2, <2>3
<1>4. PICK g : g = UpdateElement(f, id, v)
  OBVIOUS
<1>5. g = [labels |-> f.labels, vectors |-> w, ids |-> f.ids]
  <2>1. f = [labels |-> f.labels, vectors |-> f.vectors, ids |-> f.ids]
    BY <1>1 DEF FlatOf
  <2>2. QED
    BY <1>2, <1>4, <2>1 DEF UpdateElement
<1>6. /\ g.labels = f.labels /\ g.vectors = w /\ g.ids = f.ids
      /\ g \in FlatOf(V) /\ Count(g) = Count(f)
  BY <1>1, <1>3, <1>5 DEF FlatOf, Count
<1>7. FlatOK(V, g)
  <2>1. \A k : Holding(g, k) = Holding(f, k)
    BY <1>6 DEF Holding
  <2>2. Everywhere(g) = Everywhere(f)
    BY <1>6 DEF Everywhere
  <2>3. Covers(g, Everywhere(g), {})
    BY <1>6, <2>1, <2>2 DEF FlatOK, Covers
  <2>4. ~ multi => \A k \in Labels : Len(g.ids[k]) <= 1
    BY <1>6, Zenon DEF FlatOK
  <2>5. QED
    BY <1>6, <2>3, <2>4, Zenon DEF FlatOK
<1>8. QED
  BY <1>3, <1>4, <1>6, <1>7

=============================================================================
