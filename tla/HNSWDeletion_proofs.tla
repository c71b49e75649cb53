-------------------------- MODULE HNSWDeletion_proofs --------------------------
(***************************************************************************)
(* The invariants of HNSWDeletion hold of every run of a single-value      *)
(* index, whatever the number of workers, vectors and jobs: DeletionInv is *)
(* inductive.                                                              *)
(***************************************************************************)
EXTENDS HNSWDeletionInv, FiniteSetTheorems, TLAPS

-----------------------------------------------------------------------------
(* What the operations of HNSWGraph do to a graph that is exact: it stays   *)
(* exact, no assert fails, and links are only added where the operation     *)
(* says so.                                                                 *)

LEMMA IdsFacts ==
  /\ IsFiniteSet(Ids) /\ Cardinality(Ids) = Cardinality(Vecs)
  /\ Ids \subseteq Nat \ {0} /\ MaxLinks \in Nat /\ Cardinality(Vecs) \in Nat
<1>1. IsFiniteSet(Vecs) /\ Ids = 1..Cardinality(Vecs) /\ MaxLinks \in Nat
  BY DeletionAssumption
<1>2. Cardinality(Vecs) \in Nat
  BY <1>1, FS_CardinalityType
<1>3. IsFiniteSet(Ids) /\ Cardinality(Ids) = Cardinality(Vecs)
  BY <1>1, <1>2, FS_Interval
<1>4. QED
  BY <1>1, <1>2, <1>3

\* Sets of ids are finite, and adding an id adds at most one.
LEMMA IdSets ==
  /\ \A S \in SUBSET Ids : IsFiniteSet(S) /\ Cardinality(S) \in Nat
  /\ \A S, T \in SUBSET Ids : S \subseteq T => Cardinality(S) <= Cardinality(T)
  /\ \A S \in SUBSET Ids : \A x : Cardinality(S \cup {x}) <= Cardinality(S) + 1
  /\ Cardinality({}) = 0
<1>1. \A S \in SUBSET Ids : IsFiniteSet(S) /\ Cardinality(S) \in Nat
  BY IdsFacts, FS_Subset, FS_CardinalityType
<1>2. \A S, T \in SUBSET Ids : S \subseteq T => Cardinality(S) <= Cardinality(T)
  BY <1>1, FS_Subset
<1>3. ASSUME NEW S \in SUBSET Ids, NEW x
      PROVE  Cardinality(S \cup {x}) <= Cardinality(S) + 1
  BY <1>1, FS_AddElement
<1>4. QED
  BY <1>1, <1>2, <1>3, FS_EmptySet

\* Sets of ids that have no more than MaxLinks members.
LEMMA Bounds ==
  /\ \A S, T \in SUBSET Ids :
       T \subseteq S /\ Cardinality(S) <= MaxLinks => Cardinality(T) <= MaxLinks
  /\ \A S \in SUBSET Ids : \A x \in Ids :
       Cardinality(S) < MaxLinks => Cardinality(S \cup {x}) <= MaxLinks
<1>1. ASSUME NEW S \in SUBSET Ids, NEW T \in SUBSET Ids, T \subseteq S,
             Cardinality(S) <= MaxLinks
      PROVE  Cardinality(T) <= MaxLinks
  <2>1. Cardinality(T) <= Cardinality(S) /\ Cardinality(S) \in Nat /\ Cardinality(T) \in Nat
    BY <1>1, IdSets
  <2>2. QED
    BY <1>1, <2>1, IdsFacts
<1>2. ASSUME NEW S \in SUBSET Ids, NEW x \in Ids, Cardinality(S) < MaxLinks
      PROVE  Cardinality(S \cup {x}) <= MaxLinks
  <2>1. /\ Cardinality(S \cup {x}) <= Cardinality(S) + 1
        /\ Cardinality(S) \in Nat /\ Cardinality(S \cup {x}) \in Nat
    BY IdSets
  <2>2. QED
    BY <1>2, <2>1, IdsFacts
<1>3. QED
  BY <1>1, <1>2

\* One more member in one of the sets.
LEMMA OneMore ==
  ASSUME NEW f \in [Ids -> SUBSET Ids], NEW a \in Ids, NEW b \in Ids
  PROVE  [f EXCEPT ![a] = @ \cup {b}] \in [Ids -> SUBSET Ids]
<1>1. f[a] \cup {b} \in SUBSET Ids
  OBVIOUS
<1>2. QED
  BY <1>1

LEMMA ConnectBothExact ==
  ASSUME NEW N \in SUBSET Ids, NEW g, Exact(g, N), NEW n \in N, NEW s \in N, n # s,
         s \notin g.links[n], n \notin g.links[s], HasRoom(g, n), HasRoom(g, s)
  PROVE  /\ Exact(ConnectBoth(g, n, s), N)
         /\ \A i, x \in Ids : x \in ConnectBoth(g, n, s).links[i] <=>
              x \in g.links[i] \/ (i = n /\ x = s) \/ (i = s /\ x = n)
<1>0. PICK h : h = ConnectBoth(g, n, s)
  OBVIOUS
<1>1. g \in GraphType
  BY DEF Exact, Shaped
<1>2. /\ h \in GraphType
      /\ h.links = [[g.links EXCEPT ![n] = @ \cup {s}] EXCEPT ![s] = @ \cup {n}]
      /\ h.incoming = g.incoming
      /\ h.ok
  <2>0. n \in Ids /\ s \in Ids
    OBVIOUS
  <2>1. g.links \in [Ids -> SUBSET Ids] /\ g.incoming \in [Ids -> SUBSET Ids] /\ g.ok
    BY <1>1 DEF GraphType, Exact, Shaped
  <2>2. h = [links    |-> [[g.links EXCEPT ![n] = @ \cup {s}] EXCEPT ![s] = @ \cup {n}],
             incoming |-> g.incoming, ok |-> TRUE]
    BY <1>0, <1>1, <2>1 DEF ConnectBoth, GraphType
  <2>3. [[g.links EXCEPT ![n] = @ \cup {s}] EXCEPT ![s] = @ \cup {n}] \in [Ids -> SUBSET Ids]
    BY <2>0, <2>1
  <2>4. QED
    BY <2>1, <2>2, <2>3 DEF GraphType
<1>3. \A i \in Ids : h.links[i] = IF i = n THEN g.links[i] \cup {s}
                                ELSE IF i = s THEN g.links[i] \cup {n} ELSE g.links[i]
  <2>1. g.links \in [Ids -> SUBSET Ids] /\ n \in Ids /\ s \in Ids
    BY <1>1 DEF GraphType
  <2>2. QED
    BY <1>2, <2>1
<1>4. ASSUME NEW i \in Ids
      PROVE  h.links[i] \subseteq N \ {i} /\ Cardinality(h.links[i]) <= MaxLinks
  <2>1. g.links[i] \subseteq N \ {i} /\ g.links[i] \in SUBSET Ids
    BY DEF Exact, Shaped
  <2>2. h.links[i] \subseteq N \ {i}
    <3>1. CASE i = n
      BY <1>3, <2>1, <3>1
    <3>2. CASE i = s
      BY <1>3, <2>1, <3>2
    <3>3. CASE i # n /\ i # s
      BY <1>3, <2>1, <3>3
    <3>4. QED
      BY <3>1, <3>2, <3>3
  <2>3. CASE i \notin {n, s}
    BY <1>3, <2>2, <2>3 DEF Exact, Shaped
  <2>4. CASE i \in {n, s}
    <3>1. PICK x \in {n, s} : h.links[i] = g.links[i] \cup {x}
      BY <1>3, <2>4
    <3>2. Cardinality(g.links[i]) < MaxLinks
      BY <2>4 DEF HasRoom
    <3>3. QED
      BY <2>1, <2>2, <3>1, <3>2, Bounds
  <2>5. QED
    BY <2>3, <2>4
<1>5. \A i \in Ids \ N : h.links[i] = {}
  BY <1>3 DEF Exact, Shaped
<1>6. ASSUME NEW u \in Ids, NEW v \in Ids PROVE EdgeExact(h, u, v)
  <2>1. EdgeExact(g, u, v)
    BY DEF Exact
  <2>2. v \in h.links[u] <=> v \in g.links[u] \/ (u = n /\ v = s) \/ (u = s /\ v = n)
    BY <1>3
  <2>3. u \in h.links[v] <=> u \in g.links[v] \/ (u = n /\ v = s) \/ (u = s /\ v = n)
    BY <1>3
  <2>4. QED
    BY <1>2, <2>1, <2>2, <2>3 DEF EdgeExact
<1>7. QED
  <2>1. Exact(h, N)
    BY <1>2, <1>4, <1>5, <1>6 DEF Exact, Shaped
  <2>2. n \in Ids /\ s \in Ids
    OBVIOUS
  <2>3. QED
    BY <1>0, <1>3, <2>1, <2>2

LEMMA RemoveNeighborsExact ==
  ASSUME NEW N \in SUBSET Ids, NEW g, Exact(g, N), NEW u \in N, NEW R \in SUBSET g.links[u]
  PROVE  /\ Exact(RemoveNeighbors(g, u, R), N)
         /\ \A i, x \in Ids : x \in RemoveNeighbors(g, u, R).links[i] <=>
              x \in g.links[i] /\ ~(i = u /\ x \in R)
<1>0. PICK h : h = RemoveNeighbors(g, u, R)
  OBVIOUS
<1>1. g \in GraphType
  BY DEF Exact, Shaped
<1>2. /\ h \in GraphType
      /\ h.links = [g.links EXCEPT ![u] = @ \ R]
      /\ \A x \in Ids : h.incoming[x] =
           IF x = u THEN g.incoming[u] \cup {r \in R : u \notin g.incoming[r]}
           ELSE IF x \in R THEN g.incoming[x] \ {u} ELSE g.incoming[x]
      /\ h.ok
  <2>1. R \subseteq Ids
    BY <1>1 DEF GraphType
  <2>2. QED
    BY <1>0, <1>1, <2>1 DEF RemoveNeighbors, GraphType, Exact, Shaped
<1>3. \A i \in Ids : h.links[i] = IF i = u THEN g.links[u] \ R ELSE g.links[i]
  BY <1>1, <1>2 DEF GraphType
<1>4. ASSUME NEW i \in Ids
      PROVE  h.links[i] \subseteq N \ {i} /\ Cardinality(h.links[i]) <= MaxLinks
  <2>1. g.links[i] \subseteq N \ {i} /\ Cardinality(g.links[i]) <= MaxLinks
    BY DEF Exact, Shaped
  <2>2. h.links[i] \subseteq g.links[i]
    BY <1>3
  <2>3. QED
    BY <2>1, <2>2, Bounds
<1>5. \A i \in Ids \ N : h.links[i] = {}
  BY <1>3 DEF Exact, Shaped
<1>6. ASSUME NEW v \in Ids, NEW w \in Ids PROVE EdgeExact(h, v, w)
  <2>1. EdgeExact(g, v, w) /\ EdgeExact(g, w, v) /\ v \notin g.links[v] /\ u \in Ids
    BY DEF Exact, Shaped
  <2>2. \A x, y \in Ids : y \in h.links[x] <=> y \in g.links[x] /\ ~(x = u /\ y \in R)
    BY <1>3
  <2>3. v \in h.incoming[w] <=>
          IF w = u THEN v \in g.incoming[u] \/ (v \in R /\ u \notin g.incoming[v])
                   ELSE v \in g.incoming[w] /\ ~(w \in R /\ v = u)
    BY <1>2
  <2>4. QED
    BY <2>1, <2>2, <2>3 DEF EdgeExact
<1>7. Exact(h, N)
  BY <1>2, <1>3, <1>4, <1>5, <1>6 DEF Exact, Shaped
<1>8. \A i, x \in Ids : x \in h.links[i] <=> x \in g.links[i] /\ ~(i = u /\ x \in R)
  BY <1>3
<1>9. QED
  BY <1>0, <1>7, <1>8

\* The new node n links to s, which has no room for a link back.
LEMMA ConnectOneWayExact ==
  ASSUME NEW N \in SUBSET Ids, NEW k, Exact(k, N), NEW n \in N, NEW s \in N, n # s,
         s \notin k.links[n], n \notin k.links[s], HasRoom(k, n)
  PROVE  /\ Exact(ConnectOneWay(k, n, s), N)
         /\ \A i, x \in Ids : x \in ConnectOneWay(k, n, s).links[i] <=>
              x \in k.links[i] \/ (i = n /\ x = s)
<1>0. PICK h : h = ConnectOneWay(k, n, s)
  OBVIOUS
<1>1. k \in GraphType /\ k.ok
  BY DEF Exact, Shaped
<1>2. s \notin k.links[n] /\ n \notin k.links[s] /\ n \notin k.incoming[s]
  <2>1. s \notin k.links[n] /\ n \notin k.links[s] /\ EdgeExact(k, n, s)
    BY DEF Exact
  <2>2. QED
    BY <2>1 DEF EdgeExact
<1>3. n \in Ids /\ s \in Ids
  OBVIOUS
<1>4. /\ h \in GraphType
      /\ h.links = [k.links EXCEPT ![n] = @ \cup {s}]
      /\ h.incoming = [k.incoming EXCEPT ![s] = @ \cup {n}]
      /\ h.ok
  <2>1. k.links \in [Ids -> SUBSET Ids] /\ k.incoming \in [Ids -> SUBSET Ids]
    BY <1>1 DEF GraphType
  <2>2. h = [links    |-> [k.links EXCEPT ![n] = @ \cup {s}],
             incoming |-> [k.incoming EXCEPT ![s] = @ \cup {n}], ok |-> TRUE]
    BY <1>0, <1>1, <1>2 DEF GraphType, ConnectOneWay
  <2>3. /\ [k.links EXCEPT ![n] = @ \cup {s}] \in [Ids -> SUBSET Ids]
        /\ [k.incoming EXCEPT ![s] = @ \cup {n}] \in [Ids -> SUBSET Ids]
    BY <1>3, <2>1, OneMore
  <2>4. QED
    BY <2>2, <2>3 DEF GraphType
<1>5. /\ \A i \in Ids : h.links[i] = IF i = n THEN k.links[n] \cup {s} ELSE k.links[i]
      /\ \A i \in Ids : h.incoming[i] = IF i = s THEN k.incoming[s] \cup {n}
                                                 ELSE k.incoming[i]
  BY <1>1, <1>4 DEF GraphType
<1>6. ASSUME NEW i \in Ids
      PROVE  h.links[i] \subseteq N \ {i} /\ Cardinality(h.links[i]) <= MaxLinks
  <2>1. k.links[i] \subseteq N \ {i} /\ Cardinality(k.links[i]) <= MaxLinks
    BY DEF Exact, Shaped
  <2>2. CASE i # n
    BY <1>5, <2>1, <2>2
  <2>3. CASE i = n
    <3>1. h.links[i] = k.links[i] \cup {s}
      BY <1>5, <2>3
    <3>2. Cardinality(k.links[i]) < MaxLinks
      BY <2>3 DEF HasRoom
    <3>3. QED
      BY <2>1, <2>3, <3>1, <3>2, Bounds
  <2>4. QED
    BY <2>2, <2>3
<1>7. \A i \in Ids \ N : h.links[i] = {}
  BY <1>5 DEF Exact, Shaped
<1>8. ASSUME NEW u \in Ids, NEW v \in Ids PROVE EdgeExact(h, u, v)
  <2>1. EdgeExact(k, u, v) /\ u \notin k.links[u]
    BY DEF Exact, Shaped
  <2>2. QED
    BY <1>2, <1>5, <2>1 DEF EdgeExact
<1>9. Exact(h, N)
  BY <1>4, <1>6, <1>7, <1>8 DEF Exact, Shaped
<1>10. QED
  BY <1>0, <1>3, <1>5, <1>9

\* New links of the repaired node u to nodes that it does not link to yet.
LEMMA AddNeighborsExact ==
  ASSUME NEW N \in SUBSET Ids, NEW g, Exact(g, N), NEW u \in N,
         NEW A \in SUBSET N, u \notin A, A \cap g.links[u] = {},
         Cardinality(g.links[u] \cup A) <= MaxLinks
  PROVE  /\ Exact(AddNeighbors(g, u, A), N)
         /\ \A i, x \in Ids : x \in AddNeighbors(g, u, A).links[i] <=>
              x \in g.links[i] \/ (i = u /\ x \in A)
<1>0. PICK h : h = AddNeighbors(g, u, A)
  OBVIOUS
<1>1. g.links \in [Ids -> SUBSET Ids] /\ g.incoming \in [Ids -> SUBSET Ids] /\ g.ok /\ g \in GraphType
  BY DEF GraphType, Exact, Shaped
<1>2. u \in Ids /\ A \subseteq Ids
  OBVIOUS
<1>3. \A a \in A : a \notin g.incoming[u] => u \notin g.incoming[a]
  BY <1>2 DEF Exact, EdgeExact
<1> DEFINE inc == [x \in Ids |-> IF x = u THEN g.incoming[u] \ A
                                 ELSE IF x \in A /\ x \notin g.incoming[u]
                                      THEN g.incoming[x] \cup {u} ELSE g.incoming[x]]
<1>4. inc \in [Ids -> SUBSET Ids]
  BY <1>1, <1>2
<1>5. [g.links EXCEPT ![u] = @ \cup A] \in [Ids -> SUBSET Ids]
  BY <1>1, <1>2
<1>6. h = [links |-> [g.links EXCEPT ![u] = @ \cup A], incoming |-> inc, ok |-> TRUE]
  BY <1>0, <1>1, <1>2, <1>3 DEF AddNeighbors, GraphType
<1>7. h \in GraphType /\ h.ok
  BY <1>4, <1>5, <1>6 DEF GraphType
<1>8. \A i \in Ids : h.links[i] = IF i = u THEN g.links[u] \cup A ELSE g.links[i]
  BY <1>1, <1>2, <1>6
<1>9. \A x \in Ids : h.incoming[x] = inc[x]
  BY <1>6
<1>10. ASSUME NEW i \in Ids
       PROVE  h.links[i] \subseteq N \ {i} /\ Cardinality(h.links[i]) <= MaxLinks
  <2>1. g.links[i] \subseteq N \ {i} /\ Cardinality(g.links[i]) <= MaxLinks
    BY DEF Exact, Shaped
  <2>2. CASE i = u
    BY <1>8, <2>1, <2>2
  <2>3. CASE i # u
    BY <1>8, <2>1, <2>3
  <2>4. QED
    BY <2>2, <2>3
<1>11. \A i \in Ids \ N : h.links[i] = {}
  BY <1>8 DEF Exact, Shaped
<1>12. ASSUME NEW v \in Ids, NEW w \in Ids PROVE EdgeExact(h, v, w)
  <2>1. EdgeExact(g, v, w) /\ EdgeExact(g, w, v)
    BY DEF Exact
  <2>2. \A x, y \in Ids : y \in h.links[x] <=> y \in g.links[x] \/ (x = u /\ y \in A)
    BY <1>8
  <2>3. v \in h.incoming[w] <=>
          IF w = u THEN v \in g.incoming[u] /\ v \notin A
          ELSE v \in g.incoming[w] \/ (w \in A /\ w \notin g.incoming[u] /\ v = u)
    BY <1>9
  <2>4. QED
    BY <2>1, <2>2, <2>3 DEF EdgeExact
<1>13. Exact(h, N)
  BY <1>7, <1>10, <1>11, <1>12 DEF Exact, Shaped
<1>14. QED
  BY <1>0, <1>8, <1>13

\* A repaired node loses the nodes that it was to update and has not chosen, and
\* gains only nodes that are eligible.
RepairedFrom(g, h, N, u, toUpdate, chosen, eligible) ==
  /\ Exact(h, N)
  /\ \A i, x \in Ids : x \in h.links[i] =>
       \/ x \in g.links[i] /\ ~(i = u /\ x \in toUpdate \ chosen)
       \/ i = u /\ x \in chosen \cap eligible
  /\ \A i, x \in Ids : i # u /\ x \in g.links[i] => x \in h.links[i]

LEMMA RepairExact ==
  ASSUME NEW N \in SUBSET Ids, NEW g, Exact(g, N), NEW u \in N,
         NEW toUpdate, NEW chosen \in SUBSET (N \ {u}), NEW eligible,
         NEW h \in RepairOutcomes(g, u, toUpdate, chosen, eligible)
  PROVE  RepairedFrom(g, h, N, u, toUpdate, chosen, eligible)
<1>1. PICK R, k, new, room, A :
        /\ R = (g.links[u] \cap toUpdate) \ chosen
        /\ k = RemoveNeighbors(g, u, R)
        /\ new = (chosen \ g.links[u]) \cap eligible
        /\ room = MaxLinks - Cardinality(k.links[u])
        /\ A \in SUBSET new
        /\ Cardinality(A) = IF Cardinality(new) <= room THEN Cardinality(new) ELSE room
        /\ h = AddNeighbors(k, u, A)
  BY DEF RepairOutcomes
<1>2. R \in SUBSET g.links[u] /\ u \in Ids
  BY <1>1
<1>3. /\ Exact(k, N)
      /\ \A i, x \in Ids : x \in k.links[i] <=> x \in g.links[i] /\ ~(i = u /\ x \in R)
  <2>1. /\ Exact(RemoveNeighbors(g, u, R), N)
        /\ \A i, x \in Ids : x \in RemoveNeighbors(g, u, R).links[i] <=>
             x \in g.links[i] /\ ~(i = u /\ x \in R)
    BY <1>2, RemoveNeighborsExact
  <2>2. QED
    BY <1>1, <2>1
<1>4. k.links[u] \in SUBSET Ids /\ g.links[u] \in SUBSET Ids
  BY <1>2, <1>3 DEF Exact, Shaped
<1>5. A \in SUBSET N /\ u \notin A /\ A \cap k.links[u] = {}
  BY <1>1, <1>2, <1>3, <1>4
<1>6. Cardinality(k.links[u] \cup A) <= MaxLinks
  <2>1. /\ Cardinality(k.links[u]) \in Nat /\ Cardinality(k.links[u]) <= MaxLinks
        /\ MaxLinks \in Nat
    BY <1>2, <1>3, <1>4, IdSets, IdsFacts DEF Exact, Shaped
  <2>2. new \in SUBSET Ids /\ A \in SUBSET Ids
    BY <1>1
  <2>3. Cardinality(new) \in Nat /\ Cardinality(A) \in Nat
    BY <2>2, IdSets
  <2>4. Cardinality(A) <= MaxLinks - Cardinality(k.links[u])
    BY <1>1, <2>1, <2>3
  <2>5. IsFiniteSet(k.links[u]) /\ IsFiniteSet(A)
    BY <1>4, <2>2, IdSets
  <2>6. Cardinality(k.links[u] \cup A) =
          Cardinality(k.links[u]) + Cardinality(A) - Cardinality(k.links[u] \cap A)
    BY <2>5, FS_Union
  <2>7. Cardinality(k.links[u] \cap A) = 0
    BY <1>5, FS_EmptySet
  <2>8. QED
    BY <2>1, <2>3, <2>4, <2>6, <2>7
<1>7. /\ Exact(h, N)
      /\ \A i, x \in Ids : x \in h.links[i] <=> x \in k.links[i] \/ (i = u /\ x \in A)
  <2>1. /\ Exact(AddNeighbors(k, u, A), N)
        /\ \A i, x \in Ids : x \in AddNeighbors(k, u, A).links[i] <=>
             x \in k.links[i] \/ (i = u /\ x \in A)
    <3>1. Exact(k, N)
      BY <1>3
    <3>2. QED
      BY <3>1, <1>5, <1>6, AddNeighborsExact
  <2>2. QED
    BY <1>1, <2>1
<1>8. A \subseteq chosen \cap eligible
  BY <1>1
<1>9. ASSUME NEW i \in Ids, NEW x \in Ids, x \in h.links[i]
      PROVE  \/ x \in g.links[i] /\ ~(i = u /\ x \in toUpdate \ chosen)
             \/ i = u /\ x \in chosen \cap eligible
  BY <1>1, <1>3, <1>7, <1>8, <1>9
<1>10. \A i, x \in Ids : i # u /\ x \in g.links[i] => x \in h.links[i]
  BY <1>3, <1>7
<1>11. QED
  BY <1>7, <1>9, <1>10 DEF RepairedFrom

-----------------------------------------------------------------------------
(* Removal of a node.                                                       *)

\* What points to e is known when its removal in place begins.
LEMMA UnlinkingBegins ==
  ASSUME NEW N \in SUBSET Ids, NEW g, Exact(g, N), NEW e \in N
  PROVE  Unlinking(g, N, e, {u \in g.links[e] : e \in g.links[u]} \cup g.incoming[e])
<1>1. ASSUME NEW u \in Ids
      PROVE  e \in g.links[u] <=> u \in {x \in g.links[e] : e \in g.links[x]} \cup g.incoming[e]
  BY DEF Exact, EdgeExact
<1>2. ASSUME NEW v \in Ids, e \in g.incoming[v] PROVE v \in g.links[e]
  BY <1>2 DEF Exact, EdgeExact
<1>3. QED
  BY <1>1, <1>2 DEF Unlinking, Exact

\* The node u loses its link to e, and gains only nodes that are not deleted.
LEMMA InplaceRepairExact ==
  ASSUME NEW N \in SUBSET Ids, NEW g, NEW e \in N, NEW todo \in SUBSET Ids,
         Unlinking(g, N, e, todo), NEW u \in todo, NEW D,
         NEW h \in InplaceRepairs(g, e, u, D)
  PROVE  /\ Unlinking(h, N, e, todo \ {u})
         /\ \A i, x \in Ids : x \in h.links[i] => x \in g.links[i] \/ x \notin D
<1>1. /\ g.links \in [Ids -> SUBSET Ids] /\ g.incoming \in [Ids -> SUBSET Ids]
      /\ g \in GraphType /\ g.ok
  BY DEF Unlinking, Shaped, GraphType
<1>2. u \in N /\ u # e /\ e \in Ids /\ e \in g.links[u]
  <2>1. e \in g.links[u] /\ u \in Ids
    BY DEF Unlinking
  <2>2. QED
    BY <2>1 DEF Unlinking, Shaped
<1>3. \A i \in Ids : g.links[i] \subseteq N \ {i} /\ Cardinality(g.links[i]) <= MaxLinks
  BY DEF Unlinking, Shaped
<1>4. CASE u \in D
  <2>1. h = [g EXCEPT !.links[u] = @ \ {e}]
    BY <1>4 DEF InplaceRepairs
  <2>2. /\ h.links = [g.links EXCEPT ![u] = @ \ {e}] /\ h.incoming = g.incoming /\ h.ok
        /\ h \in GraphType
    BY <1>1, <1>2, <2>1 DEF GraphType
  <2>3. \A i, x \in Ids : x \in h.links[i] <=> x \in g.links[i] /\ ~(i = u /\ x = e)
    BY <1>1, <1>2, <2>2
  <2>4. ASSUME NEW i \in Ids
        PROVE  h.links[i] \subseteq N \ {i} /\ Cardinality(h.links[i]) <= MaxLinks
    <3>1. h.links[i] \subseteq g.links[i]
      BY <1>1, <1>2, <2>2
    <3>2. QED
      BY <1>3, <3>1, Bounds
  <2>5. \A i \in Ids \ N : h.links[i] = {}
    BY <1>1, <1>2, <2>2 DEF Unlinking, Shaped
  <2>6. Shaped(h, N)
    BY <2>2, <2>4, <2>5 DEF Shaped
  <2>7. \A v, w \in Ids \ {e} : EdgeExact(h, v, w)
    BY <2>2, <2>3 DEF EdgeExact, Unlinking
  <2>8. \A v \in Ids : e \in h.links[v] <=> v \in todo \ {u}
    BY <1>2, <2>3 DEF Unlinking
  <2>9. \A v \in Ids : e \in h.incoming[v] => v \in h.links[e]
    BY <1>2, <2>2, <2>3 DEF Unlinking
  <2>10. QED
    BY <2>3, <2>6, <2>7, <2>8, <2>9 DEF Unlinking
<1>5. CASE u \notin D
  <2> DEFINE orig0 == g.links[u]
             cands0 == (orig0 \ (g.links[e] \cup {e}))
                       \cup {c \in g.links[e] \ {u} : c \notin D \/ c \in orig0}
             kept == IF Cardinality(cands0) <= MaxLinks THEN {cands0}
                     ELSE Selections(cands0, MaxLinks)
             lost0(T) == {x \in (orig0 \cap cands0) \ T : u \in g.incoming[x]}
             mutual0(T) == (orig0 \cap cands0) \ (T \cup lost0(T))
             both0(T) == {x \in T \ orig0 : u \in g.links[x]}
             new0(T) == {x \in T \ orig0 : u \notin g.links[x]}
  <2>0. PICK S \in kept :
          h = [g EXCEPT !.links[u] = S,
                        !.incoming = [x \in Ids |->
                           IF x = u THEN (@[u] \cup mutual0(S)) \ both0(S)
                           ELSE IF x \in lost0(S) THEN @[x] \ {u}
                           ELSE IF x \in new0(S) THEN @[x] \cup {u} ELSE @[x]],
                        !.ok = @ /\ both0(S) \subseteq g.incoming[u]]
    BY <1>5, Zenon DEF InplaceRepairs
  <2>01. PICK orig, cands : orig = orig0 /\ cands = cands0
    OBVIOUS
  <2>02. PICK lost : lost = lost0(S)
    OBVIOUS
  <2>03. PICK mutual, both, new : mutual = mutual0(S) /\ both = both0(S) /\ new = new0(S)
    OBVIOUS
  <2>1. /\ orig = g.links[u]
        /\ cands = (orig \ (g.links[e] \cup {e}))
                   \cup {c \in g.links[e] \ {u} : c \notin D \/ c \in orig}
        /\ S \in IF Cardinality(cands) <= MaxLinks THEN {cands}
                 ELSE Selections(cands, MaxLinks)
        /\ lost = {x \in (orig \cap cands) \ S : u \in g.incoming[x]}
        /\ mutual = (orig \cap cands) \ (S \cup lost)
        /\ both = {x \in S \ orig : u \in g.links[x]}
        /\ new = {x \in S \ orig : u \notin g.links[x]}
        /\ h = [g EXCEPT !.links[u] = S,
                         !.incoming = [x \in Ids |->
                            IF x = u THEN (@[u] \cup mutual) \ both
                            ELSE IF x \in lost THEN @[x] \ {u}
                            ELSE IF x \in new THEN @[x] \cup {u} ELSE @[x]],
                         !.ok = @ /\ both \subseteq g.incoming[u]]
    BY <2>0, <2>01, <2>02, <2>03, Zenon
  <2> HIDE DEF orig0, cands0, kept, lost0, mutual0, both0, new0
  <2>2. cands \subseteq N \ {u, e} /\ orig \cap cands = orig \ {e}
    BY <1>2, <1>3, <2>1
  <2>3. S \subseteq cands /\ Cardinality(S) <= MaxLinks
    <3>1. CASE Cardinality(cands) <= MaxLinks
      BY <2>1, <3>1
    <3>2. CASE ~(Cardinality(cands) <= MaxLinks)
      <4>1. cands \in SUBSET Ids
        BY <2>2
      <4>2. ~(Cardinality(cands) < MaxLinks)
        BY <3>2, <4>1, IdSets, IdsFacts
      <4>3. S \in Selections(cands, MaxLinks)
        BY <2>1, <3>2
      <4>4. QED
        BY <4>2, <4>3 DEF Selections
    <3>3. QED
      BY <3>1, <3>2
  <2>4. \A x \in S : x \in g.links[u] \/ x \notin D
    BY <2>1, <2>3
  <2>5. both \subseteq g.incoming[u]
    <3>1. ASSUME NEW x \in both PROVE x \in g.incoming[u]
      <4>1. x \in Ids \ {e} /\ u \in g.links[x] /\ x \notin g.links[u]
        BY <2>1, <2>2, <2>3
      <4>2. EdgeExact(g, x, u)
        BY <1>2, <4>1 DEF Unlinking
      <4>3. QED
        BY <4>1, <4>2 DEF EdgeExact
    <3>2. QED
      BY <3>1
  <2> DEFINE inc == [x \in Ids |->
                       IF x = u THEN (g.incoming[u] \cup mutual) \ both
                       ELSE IF x \in lost THEN g.incoming[x] \ {u}
                       ELSE IF x \in new THEN g.incoming[x] \cup {u} ELSE g.incoming[x]]
  <2>6. h = [links |-> [g.links EXCEPT ![u] = S], incoming |-> inc, ok |-> TRUE]
    BY <1>1, <2>1, <2>5 DEF GraphType
  <2>7. mutual \subseteq Ids /\ S \in SUBSET Ids /\ u \in Ids
    BY <1>2, <2>1, <2>2, <2>3
  <2>8. inc \in [Ids -> SUBSET Ids] /\ [g.links EXCEPT ![u] = S] \in [Ids -> SUBSET Ids]
    BY <1>1, <2>7
  <2>9. h \in GraphType /\ h.ok /\ h.links = [g.links EXCEPT ![u] = S] /\ h.incoming = inc
    BY <2>6, <2>8 DEF GraphType
  <2>10. \A i \in Ids : h.links[i] = IF i = u THEN S ELSE g.links[i]
    BY <1>1, <2>7, <2>9
  <2>11. \A x \in Ids : h.incoming[x] = inc[x]
    BY <2>9
  <2>12. \A i \in Ids : h.links[i] \subseteq N \ {i} /\ Cardinality(h.links[i]) <= MaxLinks
    BY <1>3, <2>2, <2>3, <2>10
  <2>13. \A i \in Ids \ N : h.links[i] = {}
    BY <1>2, <2>10 DEF Unlinking, Shaped
  <2>14. ASSUME NEW v \in Ids \ {e}, NEW w \in Ids \ {e} PROVE EdgeExact(h, v, w)
    <3>1. EdgeExact(g, v, w) /\ EdgeExact(g, w, v)
      BY DEF Unlinking
    <3>2. CASE w = u
      <4>1. v \in h.incoming[w] <=> (v \in g.incoming[u] \/ v \in mutual) /\ v \notin both
        BY <2>11, <3>2
      <4>2. /\ w \in h.links[v] <=> u \in g.links[v] /\ v # u
            /\ v \in h.links[w] <=> v \in S
        BY <1>3, <2>2, <2>3, <2>10, <3>2
      <4>3. v \in mutual <=> v \in g.links[u] /\ v \notin S /\ u \notin g.incoming[v]
        BY <2>1, <2>2
      <4>4. v \in both <=> v \in S /\ v \notin g.links[u] /\ u \in g.links[v]
        BY <2>1
      <4>5. u \notin g.links[u] /\ u \notin S
        BY <1>2, <1>3, <2>2, <2>3
      <4>6. QED
        BY <3>1, <3>2, <4>1, <4>2, <4>3, <4>4, <4>5 DEF EdgeExact
    <3>3. CASE w # u
      <4>1. w \in lost <=> w \in g.links[u] /\ w \notin S /\ u \in g.incoming[w]
        BY <2>1, <2>2
      <4>2. w \in new <=> w \in S /\ w \notin g.links[u] /\ u \notin g.links[w]
        BY <2>1
      <4>3. v \in h.incoming[w] <=> IF w \in lost THEN v \in g.incoming[w] /\ v # u
                                    ELSE v \in g.incoming[w] \/ (w \in new /\ v = u)
        BY <2>11, <3>3
      <4>4. /\ w \in h.links[v] <=> IF v = u THEN w \in S ELSE w \in g.links[v]
            /\ v \in h.links[w] <=> v \in g.links[w]
        BY <2>10, <3>3
      <4>5. QED
        BY <3>1, <3>3, <4>1, <4>2, <4>3, <4>4 DEF EdgeExact
    <3>4. QED
      BY <3>2, <3>3
  <2>15. \A v \in Ids : e \in h.links[v] <=> v \in todo \ {u}
    BY <1>2, <2>2, <2>3, <2>10 DEF Unlinking
  <2>16. \A v \in Ids : e \in h.incoming[v] => v \in h.links[e]
    <3>1. e \notin mutual /\ e # u
      BY <1>2, <2>1, <2>2
    <3>2. \A v \in Ids : e \in h.incoming[v] => e \in g.incoming[v]
      BY <2>11, <3>1
    <3>3. QED
      BY <1>2, <2>10, <3>2 DEF Unlinking
  <2>17. Unlinking(h, N, e, todo \ {u})
    BY <2>9, <2>12, <2>13, <2>14, <2>15, <2>16 DEF Unlinking, Shaped
  <2>18. QED
    BY <2>4, <2>10, <2>17
<1>6. QED
  BY <1>4, <1>5

\* A graph in which e has neither links nor incoming edges.
Detached(g, e) ==
  [links    |-> [g.links EXCEPT ![e] = {}],
   incoming |-> [x \in Ids |-> IF x = e THEN {}
                               ELSE IF x \in g.links[e] THEN g.incoming[x] \ {e}
                               ELSE g.incoming[x]],
   ok       |-> TRUE]

LEMMA DetachedExact ==
  ASSUME NEW N \in SUBSET Ids, NEW g, NEW e \in N, Unlinking(g, N, e, {})
  PROVE  /\ Exact(Detached(g, e), N \ {e})
         /\ \A i, x \in Ids : x \in Detached(g, e).links[i] <=> x \in g.links[i] /\ i # e
<1>0. PICK h : h = Detached(g, e)
  OBVIOUS
<1>1. g.links \in [Ids -> SUBSET Ids] /\ g.incoming \in [Ids -> SUBSET Ids] /\ e \in Ids
  BY DEF Unlinking, Shaped, GraphType
<1>2. /\ h.links \in [Ids -> SUBSET Ids] /\ h.incoming \in [Ids -> SUBSET Ids]
      /\ h \in GraphType /\ h.ok
  BY <1>0, <1>1 DEF Detached, GraphType
<1>3. \A i, x \in Ids : x \in h.links[i] <=> x \in g.links[i] /\ i # e
  BY <1>0, <1>1 DEF Detached
<1>4. \A i, x \in Ids : i \in h.incoming[x] <=>
        x # e /\ i \in g.incoming[x] /\ ~(x \in g.links[e] /\ i = e)
  BY <1>0, <1>1 DEF Detached
<1>5. ASSUME NEW i \in Ids
      PROVE  h.links[i] \subseteq (N \ {e}) \ {i} /\ Cardinality(h.links[i]) <= MaxLinks
  <2>1. /\ g.links[i] \subseteq N \ {i} /\ Cardinality(g.links[i]) <= MaxLinks
        /\ e \notin g.links[i]
    BY <1>1 DEF Unlinking, Shaped
  <2>2. h.links[i] \subseteq g.links[i] /\ g.links[i] \in SUBSET Ids
    BY <1>1, <1>2, <1>3
  <2>3. QED
    BY <2>1, <2>2, Bounds
<1>6. \A i \in Ids \ (N \ {e}) : h.links[i] = {}
  BY <1>1, <1>2, <1>3 DEF Unlinking, Shaped
<1>7. ASSUME NEW u \in Ids, NEW v \in Ids PROVE EdgeExact(h, u, v)
  <2>1. u # e /\ v # e => EdgeExact(g, u, v)
    BY DEF Unlinking
  <2>2. e \notin g.links[u] /\ (e \in g.incoming[v] => v \in g.links[e])
    BY DEF Unlinking
  <2>3. QED
    BY <1>1, <1>3, <1>4, <2>1, <2>2 DEF EdgeExact
<1>8. QED
  BY <1>0, <1>2, <1>3, <1>5, <1>6, <1>7 DEF Exact, Shaped

\* The id that the node i had before the last node took the id of e.
Before(e, last, i) == IF i = e THEN last ELSE i

LEMMA SwapLastExact ==
  ASSUME NEW N \in SUBSET Ids, NEW k, Exact(k, N), NEW last \in N, NEW id \in Ids \ N
  PROVE  /\ Exact(SwapLastId(k, id, last), (N \ {last}) \cup {id})
         /\ \A i, x \in Ids : x \in SwapLastId(k, id, last).links[i] <=>
              /\ i # last /\ x # last
              /\ Before(id, last, x) \in k.links[Before(id, last, i)]
<1>0. PICK h : h = SwapLastId(k, id, last)
  OBVIOUS
<1>1. k.links \in [Ids -> SUBSET Ids] /\ k.incoming \in [Ids -> SUBSET Ids] /\ k.ok
  BY DEF Exact, Shaped, GraphType
<1>2. last \in Ids /\ id \in Ids /\ id # last
  OBVIOUS
<1>3. \A i, x \in Ids : x \in k.links[i] => i \in N /\ x \in N /\ x # i
  BY DEF Exact, Shaped
<1>4. \A u, v \in Ids : u \in k.incoming[v] <=> v \in k.links[u] /\ u \notin k.links[v]
  BY DEF Exact, EdgeExact
<1>5. PICK out, inc, back :
        /\ out = k.links[last] /\ inc = k.incoming[last]
        /\ back = {v \in out : last \in k.links[v]}
  OBVIOUS
<1> DEFINE L == [u \in Ids |-> IF u \in back \cup inc THEN RenamedId(k.links[u], last, id)
                               ELSE k.links[u]]
           I == [v \in Ids |-> IF v \in out \ back THEN RenamedId(k.incoming[v], last, id)
                               ELSE k.incoming[v]]
<1>6. h = [links    |-> [L EXCEPT ![id] = L[last], ![last] = {}],
           incoming |-> [I EXCEPT ![id] = I[last], ![last] = {}],
           ok       |-> k.ok /\ \A v \in out \ back : last \in k.incoming[v]]
  BY <1>0, <1>5 DEF SwapLastId
<1>7. \A u \in Ids : /\ u \in back \cup inc <=> last \in k.links[u]
                     /\ u \in out \ back <=> last \in k.incoming[u]
  BY <1>1, <1>2, <1>4, <1>5
<1>8. /\ \A u \in Ids : L[u] = RenamedId(k.links[u], last, id)
      /\ \A v \in Ids : I[v] = RenamedId(k.incoming[v], last, id)
  BY <1>7 DEF RenamedId
<1>9. \A u, x \in Ids :
        /\ x \in L[u] <=> x # last /\ Before(id, last, x) \in k.links[u]
        /\ x \in I[u] <=> x # last /\ Before(id, last, x) \in k.incoming[u]
  <2>1. \A u \in Ids : id \notin k.links[u] /\ id \notin k.incoming[u]
    BY <1>2, <1>3, <1>4
  <2>2. QED
    BY <1>2, <1>8, <2>1 DEF RenamedId, Before
<1>10. L \in [Ids -> SUBSET Ids] /\ I \in [Ids -> SUBSET Ids]
  BY <1>1, <1>2 DEF RenamedId
<1>11. L[last] \in SUBSET Ids /\ I[last] \in SUBSET Ids
  BY <1>2, <1>10
<1>12. h.ok
  BY <1>1, <1>6, <1>7, <1>5, <1>2
<1> HIDE DEF L, I
<1>13. h \in GraphType
  BY <1>2, <1>6, <1>10, <1>11, <1>12 DEF GraphType
<1>14. \A i \in Ids :
         /\ h.links[i] = IF i = last THEN {} ELSE L[Before(id, last, i)]
         /\ h.incoming[i] = IF i = last THEN {} ELSE I[Before(id, last, i)]
  BY <1>2, <1>6, <1>10 DEF Before
<1>15. \A i, x \in Ids :
         /\ x \in h.links[i] <=> /\ i # last /\ x # last
                                 /\ Before(id, last, x) \in k.links[Before(id, last, i)]
         /\ x \in h.incoming[i] <=> /\ i # last /\ x # last
                                    /\ Before(id, last, x) \in k.incoming[Before(id, last, i)]
  BY <1>2, <1>9, <1>14 DEF Before
<1>16. ASSUME NEW i \in Ids
       PROVE  /\ h.links[i] \subseteq ((N \ {last}) \cup {id}) \ {i}
              /\ Cardinality(h.links[i]) <= MaxLinks
  <2>1. CASE i = last
    BY <1>14, <2>1, IdSets, IdsFacts
  <2>2. CASE i # last
    <3>1. PICK b \in Ids : b = Before(id, last, i)
      BY <1>2 DEF Before
    <3>2. h.links[i] = RenamedId(k.links[b], last, id)
      BY <1>8, <1>14, <2>2, <3>1
    <3>3. /\ k.links[b] \in SUBSET Ids /\ k.links[b] \subseteq N \ {b}
          /\ Cardinality(k.links[b]) <= MaxLinks
      BY <1>1 DEF Exact, Shaped
    <3>4. CASE last \notin k.links[b]
      <4>1. h.links[i] = k.links[b]
        BY <3>2, <3>4 DEF RenamedId
      <4>2. id \notin k.links[b]
        BY <3>3
      <4>3. QED
        BY <2>2, <3>1, <3>3, <3>4, <4>1, <4>2 DEF Before
    <3>5. CASE last \in k.links[b]
      <4>1. h.links[i] = (k.links[b] \ {last}) \cup {id}
        BY <3>2, <3>5 DEF RenamedId
      <4>2. Cardinality(k.links[b] \ {last}) = Cardinality(k.links[b]) - 1
        BY <3>3, <3>5, IdSets, FS_RemoveElement
      <4>3. k.links[b] \ {last} \in SUBSET Ids /\ h.links[i] \in SUBSET Ids
        BY <1>2, <3>3, <4>1
      <4>4. Cardinality(h.links[i]) <= Cardinality(k.links[b] \ {last}) + 1
        BY <4>1, <4>3, IdSets
      <4>5. Cardinality(h.links[i]) <= MaxLinks
        <5>1. /\ Cardinality(h.links[i]) \in Nat /\ Cardinality(k.links[b]) \in Nat
              /\ MaxLinks \in Nat
          BY <3>3, <4>3, IdSets, IdsFacts
        <5>2. QED
          BY <3>3, <4>2, <4>4, <5>1
      <4>6. i # id
        BY <2>2, <3>1, <3>3, <3>5 DEF Before
      <4>7. QED
        BY <2>2, <3>1, <3>3, <4>1, <4>5, <4>6 DEF Before
    <3>6. QED
      BY <3>4, <3>5
  <2>3. QED
    BY <2>1, <2>2
<1>17. ASSUME NEW i \in Ids \ ((N \ {last}) \cup {id}) PROVE h.links[i] = {}
  <2>1. CASE i = last
    BY <1>14, <2>1
  <2>2. CASE i # last
    <3>1. i \notin N /\ Before(id, last, i) = i
      BY <2>2 DEF Before
    <3>2. k.links[i] = {}
      BY <3>1 DEF Exact, Shaped
    <3>3. \A x \in Ids : x \notin h.links[i]
      BY <1>15, <3>1, <3>2
    <3>4. h.links[i] \in SUBSET Ids
      BY <1>13 DEF GraphType
    <3>5. QED
      BY <3>3, <3>4
  <2>3. QED
    BY <2>1, <2>2
<1>18. ASSUME NEW u \in Ids, NEW v \in Ids PROVE EdgeExact(h, u, v)
  <2>1. PICK p \in Ids, q \in Ids : p = Before(id, last, u) /\ q = Before(id, last, v)
    BY <1>2 DEF Before
  <2>2. p \in k.incoming[q] <=> q \in k.links[p] /\ p \notin k.links[q]
    BY <1>4
  <2>3. QED
    BY <1>15, <2>1, <2>2 DEF EdgeExact
<1>19. Exact(h, (N \ {last}) \cup {id})
  BY <1>12, <1>13, <1>16, <1>17, <1>18 DEF Exact, Shaped
<1>20. QED
  BY <1>0, <1>15, <1>19

\* What is left when e is gone and the last node has its id.
Removed(g, h, N, e, last) ==
  /\ Exact(h, N \ {last})
  /\ \A i, x \in Ids : x \in h.links[i] <=>
       /\ i # last /\ x # last
       /\ Before(e, last, x) \in g.links[Before(e, last, i)]

\* A graph from which e is detached, followed by the move of the last node.
LEMMA DetachedAndSwapped ==
  ASSUME NEW N \in SUBSET Ids, NEW g, NEW e \in N, Unlinking(g, N, e, {}), NEW last \in N,
         NEW h, Exact(h, N \ {e}), \A i, x \in Ids : x \in h.links[i] <=> x \in g.links[i] /\ i # e
  PROVE  IF e = last THEN Removed(g, h, N, e, last)
                     ELSE Removed(g, SwapLastId(h, e, last), N, e, last)
<1>1. \A i, x \in Ids : x \in g.links[i] => x # e
  BY DEF Unlinking
<1>2. CASE e = last
  BY <1>1, <1>2 DEF Removed, Before
<1>3. CASE e # last
  <2>1. last \in N \ {e} /\ e \in Ids \ (N \ {e}) /\ N \ {e} \in SUBSET Ids
    BY <1>3
  <2>2. /\ Exact(SwapLastId(h, e, last), ((N \ {e}) \ {last}) \cup {e})
        /\ \A i, x \in Ids : x \in SwapLastId(h, e, last).links[i] <=>
             /\ i # last /\ x # last
             /\ Before(e, last, x) \in h.links[Before(e, last, i)]
    BY <2>1, SwapLastExact
  <2>3. ((N \ {e}) \ {last}) \cup {e} = N \ {last}
    BY <1>3
  <2>4. \A i \in Ids : Before(e, last, i) \in Ids /\ Before(e, last, i) # e
    BY <1>3, <2>1 DEF Before
  <2>5. QED
    BY <1>3, <2>2, <2>3, <2>4 DEF Removed
<1>4. QED
  BY <1>2, <1>3

\* Removal in place, when all that pointed to e has been repaired.
LEMMA RemovedInPlace ==
  ASSUME NEW N \in SUBSET Ids, NEW g, NEW e \in N, Unlinking(g, N, e, {}), NEW last \in N
  PROVE  Removed(g, RemoveAndSwap(g, e, last, FALSE), N, e, last)
<1>0. /\ Exact(Detached(g, e), N \ {e})
      /\ \A i, x \in Ids : x \in Detached(g, e).links[i] <=> x \in g.links[i] /\ i # e
  BY DetachedExact
<1>1. PICK h : h = Detached(g, e)
  OBVIOUS
<1>2. Exact(h, N \ {e}) /\ \A i, x \in Ids : x \in h.links[i] <=> x \in g.links[i] /\ i # e
  BY <1>0, <1>1
<1>3. RemoveAndSwap(g, e, last, FALSE) = IF e = last THEN h ELSE SwapLastId(h, e, last)
  BY <1>1 DEF RemoveAndSwap, Detached, Unlinking, Shaped
<1>4. IF e = last THEN Removed(g, h, N, e, last)
                  ELSE Removed(g, SwapLastId(h, e, last), N, e, last)
  BY <1>2, DetachedAndSwapped
<1>5. QED
  BY <1>3, <1>4

\* Removal of a marked node that nothing points to.
LEMMA RemovedMarked ==
  ASSUME NEW N \in SUBSET Ids, NEW g, Exact(g, N), NEW e \in N, NEW last \in N,
         \A i \in Ids : e \notin g.links[i]
  PROVE  Removed(g, RemoveAndSwap(g, e, last, TRUE), N, e, last)
<1>1. PICK h : h = Detached(g, e)
  OBVIOUS
<1>2. Unlinking(g, N, e, {})
  BY DEF Exact, EdgeExact, Unlinking
<1>3. Exact(h, N \ {e}) /\ \A i, x \in Ids : x \in h.links[i] <=> x \in g.links[i] /\ i # e
  <2>1. /\ Exact(Detached(g, e), N \ {e})
        /\ \A i, x \in Ids : x \in Detached(g, e).links[i] <=> x \in g.links[i] /\ i # e
    BY <1>2, DetachedExact
  <2>2. QED
    BY <1>1, <2>1
<1>4. \A v \in g.links[e] : e \in g.incoming[v]
  <2>1. g.links[e] \subseteq Ids
    BY DEF Exact, Shaped
  <2>2. QED
    BY <2>1 DEF Exact, EdgeExact
<1>5. RemoveAndSwap(g, e, last, TRUE) = IF e = last THEN h ELSE SwapLastId(h, e, last)
  BY <1>1, <1>4 DEF RemoveAndSwap, Detached, Exact, Shaped
<1>6. IF e = last THEN Removed(g, h, N, e, last)
                  ELSE Removed(g, SwapLastId(h, e, last), N, e, last)
  BY <1>2, <1>3, DetachedAndSwapped
<1>7. QED
  BY <1>5, <1>6

-----------------------------------------------------------------------------
(* The associations of repair jobs with swap jobs.                          *)

LEMMA UpTo ==
  ASSUME NEW n \in Nat
  PROVE  IsFiniteSet(1..n) /\ Cardinality(1..n) = n
<1>1. 1 \in Int /\ n \in Int
  OBVIOUS
<1>2. IsFiniteSet(1..n) /\ Cardinality(1..n) = IF 1 > n THEN 0 ELSE n - 1 + 1
  BY <1>1, FS_Interval
<1>3. QED
  BY <1>2

LEMMA AssociationsFinite ==
  ASSUME NEW J, NEW v, NEW S \in SUBSET RepairJobs, \A j \in S : J.repair[j].swaps[v] \in Nat
  PROVE  /\ IsFiniteSet(Associations(J, S, v)) /\ Cardinality(Associations(J, S, v)) \in Nat
         /\ Cardinality(Associations(J, S, v)) = 0 <=> \A j \in S : J.repair[j].swaps[v] = 0
<1> DEFINE f == [j \in S |-> {j} \X (1..J.repair[j].swaps[v])]
           T == {{j} \X (1..J.repair[j].swaps[v]) : j \in S}
<1>1. IsFiniteSet(S)
  BY DeletionAssumption, FS_Subset
<1>2. f \in Surjection(S, T)
  BY DEF Surjection
<1>3. IsFiniteSet(T)
  BY <1>1, <1>2, FS_Surjection
<1>4. ASSUME NEW t \in T PROVE IsFiniteSet(t)
  <2>1. PICK j \in S : t = {j} \X (1..J.repair[j].swaps[v])
    OBVIOUS
  <2>2. IsFiniteSet({j}) /\ IsFiniteSet(1..J.repair[j].swaps[v])
    BY FS_Singleton, UpTo
  <2>3. QED
    BY <2>1, <2>2, FS_Product
<1>5. IsFiniteSet(Associations(J, S, v))
  BY <1>3, <1>4, FS_UNION DEF Associations
<1>6. Associations(J, S, v) = {} <=> \A j \in S : J.repair[j].swaps[v] = 0
  <2>1. ASSUME NEW j \in S PROVE {j} \X (1..J.repair[j].swaps[v]) = {} <=> J.repair[j].swaps[v] = 0
    <3>1. CASE J.repair[j].swaps[v] = 0
      BY <3>1
    <3>2. CASE J.repair[j].swaps[v] # 0
      <4>1. <<j, 1>> \in {j} \X (1..J.repair[j].swaps[v])
        BY <3>2
      <4>2. QED
        BY <3>2, <4>1
    <3>3. QED
      BY <3>1, <3>2
  <2>2. QED
    BY <2>1 DEF Associations
<1>7. QED
  BY <1>5, <1>6, FS_CardinalityType, FS_EmptySet

LEMMA AssociationsSplit ==
  ASSUME NEW J, NEW v, NEW S \in SUBSET RepairJobs, \A j \in S : J.repair[j].swaps[v] \in Nat,
         NEW T \in SUBSET S
  PROVE  Cardinality(Associations(J, S, v)) =
           Cardinality(Associations(J, T, v)) + Cardinality(Associations(J, S \ T, v))
<1>1. /\ IsFiniteSet(Associations(J, T, v)) /\ Cardinality(Associations(J, T, v)) \in Nat
      /\ IsFiniteSet(Associations(J, S \ T, v)) /\ Cardinality(Associations(J, S \ T, v)) \in Nat
  <2>1. T \in SUBSET RepairJobs /\ S \ T \in SUBSET RepairJobs
    OBVIOUS
  <2>2. QED
    BY <2>1, AssociationsFinite
<1>2. Associations(J, S, v) = Associations(J, T, v) \cup Associations(J, S \ T, v)
  BY DEF Associations
<1>3. Associations(J, T, v) \cap Associations(J, S \ T, v) = {}
  BY DEF Associations
<1>4. Cardinality(Associations(J, T, v) \cup Associations(J, S \ T, v)) =
        Cardinality(Associations(J, T, v)) + Cardinality(Associations(J, S \ T, v))
          - Cardinality(Associations(J, T, v) \cap Associations(J, S \ T, v))
  BY <1>1, FS_Union
<1>5. Cardinality(Associations(J, T, v) \cap Associations(J, S \ T, v)) = 0
  BY <1>3, FS_EmptySet
<1>6. QED
  BY <1>1, <1>2, <1>4, <1>5

LEMMA AssociationsOne ==
  ASSUME NEW J, NEW v, NEW j \in RepairJobs, J.repair[j].swaps[v] \in Nat
  PROVE  Cardinality(Associations(J, {j}, v)) = J.repair[j].swaps[v]
<1>1. Associations(J, {j}, v) = {j} \X (1..J.repair[j].swaps[v])
  BY DEF Associations
<1>2. /\ IsFiniteSet({j}) /\ Cardinality({j}) = 1
      /\ IsFiniteSet(1..J.repair[j].swaps[v])
      /\ Cardinality(1..J.repair[j].swaps[v]) = J.repair[j].swaps[v]
  BY FS_Singleton, UpTo
<1>3. Cardinality(Associations(J, {j}, v)) = Cardinality({j}) * Cardinality(1..J.repair[j].swaps[v])
  BY <1>1, <1>2, FS_Product
<1>4. QED
  BY <1>2, <1>3

-----------------------------------------------------------------------------
(* What the operations on the jobs change.                                  *)

RepairType == {NoJob} \cup [node : Ids, valid : BOOLEAN, swaps : [Vecs -> Nat]]

LEMMA JobTypes ==
  ASSUME NEW J \in JobsType
  PROVE  /\ J.repair \in [RepairJobs -> RepairType] /\ J.byNode \in [Ids -> SUBSET RepairJobs]
         /\ J.swap \in [Vecs -> [id : Ids \cup {0}, pending : Int]]
         /\ J.bySwapId \in [Ids -> Vecs \cup {NoVec}] /\ J.ready \in Int
         /\ \A j \in Alive(J) : /\ j \in RepairJobs
                                /\ J.repair[j] \in [node : Ids, valid : BOOLEAN, swaps : [Vecs -> Nat]]
<1>1. /\ J.repair \in [RepairJobs -> RepairType] /\ J.byNode \in [Ids -> SUBSET RepairJobs]
      /\ J.swap \in [Vecs -> [id : Ids \cup {0}, pending : Int]]
      /\ J.bySwapId \in [Ids -> Vecs \cup {NoVec}] /\ J.ready \in Int
  BY DEF JobsType, RepairType
<1>2. QED
  BY <1>1 DEF Alive, RepairType

\* Associations of valid jobs are finite in number.
LEMMA AliveAssociations ==
  ASSUME NEW J \in JobsType, NEW S \in SUBSET Alive(J), NEW v \in Vecs
  PROVE  /\ \A j \in S : J.repair[j].swaps[v] \in Nat
         /\ S \in SUBSET RepairJobs
         /\ Cardinality(Associations(J, S, v)) \in Nat
         /\ Cardinality(Associations(J, S, v)) = 0 <=> \A j \in S : J.repair[j].swaps[v] = 0
<1>1. S \in SUBSET RepairJobs /\ \A j \in S : J.repair[j].swaps[v] \in Nat
  BY JobTypes
<1>2. QED
  BY <1>1, AssociationsFinite

\* The count of a swap job's repairs, as it enters Decreased.
Repairs(J, S) == [v \in Vecs |-> Cardinality(Associations(J, S, v))]

Done(J, n) == {v \in Vecs : n[v] > 0 /\ J.swap[v].pending = n[v]}

LEMMA VecSets ==
  /\ IsFiniteSet(Vecs)
  /\ \A S \in SUBSET Vecs : IsFiniteSet(S) /\ Cardinality(S) \in Nat
  /\ \A S \in SUBSET Vecs : \A v \in Vecs :
       /\ v \in S => Cardinality(S \ {v}) = Cardinality(S) - 1
       /\ v \notin S => Cardinality(S \cup {v}) = Cardinality(S) + 1
<1>1. IsFiniteSet(Vecs)
  BY DeletionAssumption
<1>2. \A S \in SUBSET Vecs : IsFiniteSet(S) /\ Cardinality(S) \in Nat
  BY <1>1, FS_Subset, FS_CardinalityType
<1>3. QED
  BY <1>1, <1>2, FS_AddElement, FS_RemoveElement

LEMMA DecreasedFields ==
  ASSUME NEW J \in JobsType, NEW n \in [Vecs -> Nat]
  PROVE  /\ Decreased(J, n) \in JobsType
         /\ Decreased(J, n).repair = J.repair /\ Decreased(J, n).byNode = J.byNode
         /\ Decreased(J, n).bySwapId = J.bySwapId
         /\ \A v \in Vecs : /\ Decreased(J, n).swap[v].id = J.swap[v].id
                            /\ Decreased(J, n).swap[v].pending = J.swap[v].pending - n[v]
         /\ Decreased(J, n).ready = J.ready + Cardinality(Done(J, n))
<1>0. PICK K : K = Decreased(J, n)
  OBVIOUS
<1> DEFINE swap == [v \in Vecs |-> [J.swap[v] EXCEPT !.pending = @ - n[v]]]
<1>1. K = [repair |-> J.repair, byNode |-> J.byNode, swap |-> swap, bySwapId |-> J.bySwapId,
           ready |-> J.ready + Cardinality(Done(J, n))]
  <2>1. K = [J EXCEPT !.swap = swap, !.ready = @ + Cardinality(Done(J, n))]
    BY <1>0 DEF Decreased, Done
  <2>2. QED
    BY <2>1 DEF JobsType
<1>2. \A v \in Vecs : J.swap[v] \in [id : Ids \cup {0}, pending : Int]
  BY JobTypes
<1>3. ASSUME NEW v \in Vecs
      PROVE  /\ swap[v] \in [id : Ids \cup {0}, pending : Int]
             /\ swap[v].id = J.swap[v].id /\ swap[v].pending = J.swap[v].pending - n[v]
  BY <1>2
<1>4. Cardinality(Done(J, n)) \in Nat
  BY VecSets DEF Done
<1>5. swap \in [Vecs -> [id : Ids \cup {0}, pending : Int]]
  BY <1>3
<1>6. K \in JobsType
  BY <1>1, <1>4, <1>5, JobTypes DEF JobsType, RepairType
<1>7. QED
  BY <1>0, <1>1, <1>3, <1>6

\* The repairs of the valid jobs S count no more: what was exact stays exact.
LEMMA Settled ==
  ASSUME NEW J \in JobsType, NEW K \in JobsType, Counted(J), NoDangling(J),
         NEW S \in SUBSET Alive(J), Alive(K) = Alive(J) \ S,
         \A j \in Alive(K) : K.repair[j].swaps = J.repair[j].swaps,
         \A v \in Vecs : /\ HasSwap(K, v) <=> HasSwap(J, v)
                         /\ K.swap[v].pending = J.swap[v].pending - Repairs(J, S)[v],
         K.ready = J.ready + Cardinality(Done(J, Repairs(J, S)))
  PROVE  /\ Counted(K) /\ NoDangling(K)
         /\ K.ready - Cardinality(ReadyJobs(K)) = J.ready - Cardinality(ReadyJobs(J))
<1> DEFINE n == Repairs(J, S)
<1>1. ASSUME NEW v \in Vecs
      PROVE  /\ n[v] = Cardinality(Associations(J, S, v)) /\ n[v] \in Nat
             /\ J.swap[v].pending \in Int
             /\ HasSwap(J, v) => /\ J.swap[v].pending = n[v] + Cardinality(Associations(K, Alive(K), v))
                                 /\ K.swap[v].pending = Cardinality(Associations(K, Alive(K), v))
             /\ ~HasSwap(J, v) => n[v] = 0 /\ J.swap[v].pending = 0 /\ K.swap[v].pending = 0
             /\ Cardinality(Associations(K, Alive(K), v)) \in Nat
  <2>1. n[v] = Cardinality(Associations(J, S, v)) /\ n[v] \in Nat
    BY AliveAssociations DEF Repairs
  <2>2. Associations(K, Alive(K), v) = Associations(J, Alive(J) \ S, v)
    BY DEF Associations
  <2>3. Cardinality(Associations(J, Alive(J), v)) =
          Cardinality(Associations(J, S, v)) + Cardinality(Associations(J, Alive(J) \ S, v))
    BY AliveAssociations, AssociationsSplit
  <2>4. CASE HasSwap(J, v)
    <3>1. J.swap[v].pending = Cardinality(Associations(J, Alive(J), v))
      BY <2>4 DEF Counted
    <3>2. Cardinality(Associations(K, Alive(K), v)) \in Nat
      BY <2>2, AliveAssociations
    <3>3. K.swap[v].pending = J.swap[v].pending - n[v]
      OBVIOUS
    <3>4. J.swap[v].pending \in Int
      BY JobTypes
    <3>5. QED
      BY <2>1, <2>2, <2>3, <2>4, <3>1, <3>2, <3>3, <3>4
  <2>5. CASE ~HasSwap(J, v)
    <3>1. J.swap[v].pending = 0
      BY <2>5 DEF Counted
    <3>2. \A j \in S : J.repair[j].swaps[v] = 0
      <4>1. \A j \in S : J.repair[j].swaps[v] \in Nat
        BY AliveAssociations
      <4>2. QED
        BY <2>5, <4>1 DEF NoDangling
    <3>3. n[v] = 0
      BY <2>1, <3>2, AliveAssociations
    <3>4. K.swap[v].pending = J.swap[v].pending - n[v]
      OBVIOUS
    <3>5. Cardinality(Associations(K, Alive(K), v)) \in Nat
      BY AliveAssociations
    <3>6. QED
      BY <2>1, <2>5, <3>1, <3>3, <3>4, <3>5
  <2>6. QED
    BY <2>4, <2>5
<1> HIDE DEF n
<1>2. Counted(K)
  BY <1>1 DEF Counted
<1>3. NoDangling(K)
  BY DEF NoDangling
<1>4. ReadyJobs(K) = ReadyJobs(J) \cup Done(J, n)
  BY <1>1 DEF ReadyJobs, Done
<1>5. ReadyJobs(J) \cap Done(J, n) = {}
  BY <1>1 DEF ReadyJobs, Done
<1>6. ReadyJobs(J) \in SUBSET Vecs /\ Done(J, n) \in SUBSET Vecs
  BY DEF ReadyJobs, Done
<1>7. Cardinality(ReadyJobs(K)) = Cardinality(ReadyJobs(J)) + Cardinality(Done(J, n))
  <2>1. /\ IsFiniteSet(ReadyJobs(J)) /\ IsFiniteSet(Done(J, n))
        /\ Cardinality(ReadyJobs(J)) \in Nat /\ Cardinality(Done(J, n)) \in Nat
    BY <1>6, VecSets
  <2>2. Cardinality(ReadyJobs(J) \cup Done(J, n)) =
          Cardinality(ReadyJobs(J)) + Cardinality(Done(J, n))
            - Cardinality(ReadyJobs(J) \cap Done(J, n))
    BY <2>1, FS_Union
  <2>3. Cardinality(ReadyJobs(J) \cap Done(J, n)) = 0
    BY <1>5, FS_EmptySet
  <2>4. QED
    BY <1>4, <2>1, <2>2, <2>3
<1>8. /\ Cardinality(ReadyJobs(J)) \in Nat /\ Cardinality(Done(J, n)) \in Nat /\ J.ready \in Int
  BY <1>6, VecSets, JobTypes
<1>9. QED
  BY <1>2, <1>3, <1>7, <1>8 DEF n

LEMMA DisposedFields ==
  ASSUME NEW J \in JobsType, NEW N \in SUBSET Ids, Filed(J, N), NEW d \in Ids
  PROVE  /\ Disposed(J, d) \in JobsType
         /\ \A j \in RepairJobs : Disposed(J, d).repair[j] =
              IF j \in J.byNode[d] THEN [J.repair[j] EXCEPT !.valid = FALSE] ELSE J.repair[j]
         /\ Disposed(J, d).byNode = [J.byNode EXCEPT ![d] = {}]
         /\ Disposed(J, d).bySwapId = J.bySwapId
         /\ \A v \in Vecs : /\ Disposed(J, d).swap[v].id = J.swap[v].id
                            /\ Disposed(J, d).swap[v].pending =
                                 J.swap[v].pending - Repairs(J, J.byNode[d])[v]
         /\ Disposed(J, d).ready = J.ready + Cardinality(Done(J, Repairs(J, J.byNode[d])))
<1>0. PICK K : K = Disposed(J, d)
  OBVIOUS
<1>1. J.byNode[d] \in SUBSET Alive(J)
  BY DEF Filed
<1>2. PICK n : n = Repairs(J, J.byNode[d])
  OBVIOUS
<1>3. n \in [Vecs -> Nat]
  <2>1. \A v \in Vecs : Cardinality(Associations(J, J.byNode[d], v)) \in Nat
    BY <1>1, AliveAssociations
  <2>2. QED
    BY <1>2, <2>1 DEF Repairs
<1>4. PICK H : H = Decreased(J, n)
  OBVIOUS
<1>5. /\ H \in JobsType /\ H.repair = J.repair /\ H.byNode = J.byNode /\ H.bySwapId = J.bySwapId
      /\ \A v \in Vecs : /\ H.swap[v].id = J.swap[v].id
                         /\ H.swap[v].pending = J.swap[v].pending - n[v]
      /\ H.ready = J.ready + Cardinality(Done(J, n))
  <2>1. /\ Decreased(J, n) \in JobsType
        /\ Decreased(J, n).repair = J.repair /\ Decreased(J, n).byNode = J.byNode
        /\ Decreased(J, n).bySwapId = J.bySwapId
        /\ \A v \in Vecs : /\ Decreased(J, n).swap[v].id = J.swap[v].id
                           /\ Decreased(J, n).swap[v].pending = J.swap[v].pending - n[v]
        /\ Decreased(J, n).ready = J.ready + Cardinality(Done(J, n))
    BY <1>3, DecreasedFields
  <2>2. QED
    BY <1>4, <2>1
<1> DEFINE repair == [j \in RepairJobs |-> IF j \in J.byNode[d]
                                           THEN [J.repair[j] EXCEPT !.valid = FALSE]
                                           ELSE J.repair[j]]
<1>6. K = [H EXCEPT !.repair = repair, !.byNode[d] = {}]
  BY <1>0, <1>2, <1>4, <1>5 DEF Disposed, Repairs
<1>7. repair \in [RepairJobs -> RepairType]
  <2>1. ASSUME NEW j \in RepairJobs PROVE repair[j] \in RepairType
    <3>1. CASE j \in J.byNode[d]
      <4>1. J.repair[j] \in [node : Ids, valid : BOOLEAN, swaps : [Vecs -> Nat]]
        BY <1>1, <3>1, JobTypes
      <4>2. QED
        BY <3>1, <4>1 DEF RepairType
    <3>2. CASE j \notin J.byNode[d]
      BY <3>2, JobTypes
    <3>3. QED
      BY <3>1, <3>2
  <2>2. QED
    BY <2>1
<1> HIDE DEF repair
<1>8. [J.byNode EXCEPT ![d] = {}] \in [Ids -> SUBSET RepairJobs]
  BY JobTypes
<1>9. K = [repair |-> repair, byNode |-> [J.byNode EXCEPT ![d] = {}], swap |-> H.swap,
           bySwapId |-> J.bySwapId, ready |-> H.ready]
  BY <1>5, <1>6 DEF JobsType
<1>10. K \in JobsType
  <2>1. /\ H.swap \in [Vecs -> [id : Ids \cup {0}, pending : Int]]
        /\ J.bySwapId \in [Ids -> Vecs \cup {NoVec}] /\ H.ready \in Int
    BY <1>5, JobTypes
  <2>2. QED
    BY <1>7, <1>8, <1>9, <2>1 DEF JobsType, RepairType
<1>11. \A j \in RepairJobs : K.repair[j] = IF j \in J.byNode[d]
                                           THEN [J.repair[j] EXCEPT !.valid = FALSE]
                                           ELSE J.repair[j]
  BY <1>9 DEF repair
<1>12. QED
  BY <1>0, <1>2, <1>5, <1>9, <1>10, <1>11

LEMMA FollowsNodeFields ==
  ASSUME NEW J \in JobsType, NEW last \in Ids, NEW d \in Ids,
         J.byNode[last] \subseteq Alive(J), last = d => J.byNode[last] = {}
  PROVE  /\ FollowsNode(J, last, d) \in JobsType
         /\ \A j \in RepairJobs : FollowsNode(J, last, d).repair[j] =
              IF j \in J.byNode[last] THEN [J.repair[j] EXCEPT !.node = d] ELSE J.repair[j]
         /\ \A i \in Ids : FollowsNode(J, last, d).byNode[i] =
              IF J.byNode[last] = {} THEN J.byNode[i]
              ELSE IF i = last THEN {} ELSE IF i = d THEN J.byNode[last] ELSE J.byNode[i]
         /\ FollowsNode(J, last, d).bySwapId = J.bySwapId
         /\ FollowsNode(J, last, d).swap = J.swap /\ FollowsNode(J, last, d).ready = J.ready
<1>1. CASE J.byNode[last] = {}
  BY <1>1 DEF FollowsNode
<1>2. CASE J.byNode[last] # {}
  <2>0. PICK K : K = FollowsNode(J, last, d)
    OBVIOUS
  <2> DEFINE repair == [j \in RepairJobs |-> IF j \in J.byNode[last]
                                             THEN [J.repair[j] EXCEPT !.node = d]
                                             ELSE J.repair[j]]
             byNode == [[J.byNode EXCEPT ![d] = J.byNode[last]] EXCEPT ![last] = {}]
  <2>1. K = [repair |-> repair, byNode |-> byNode, swap |-> J.swap,
             bySwapId |-> J.bySwapId, ready |-> J.ready]
    <3>1. K = [J EXCEPT !.repair = repair, !.byNode = byNode]
      BY <1>2, <2>0 DEF FollowsNode
    <3>2. QED
      BY <3>1 DEF JobsType
  <2>2. repair \in [RepairJobs -> RepairType]
    <3>1. ASSUME NEW j \in RepairJobs PROVE repair[j] \in RepairType
      <4>1. CASE j \in J.byNode[last]
        <5>1. J.repair[j] \in [node : Ids, valid : BOOLEAN, swaps : [Vecs -> Nat]]
          BY <4>1, JobTypes
        <5>2. QED
          BY <4>1, <5>1 DEF RepairType
      <4>2. CASE j \notin J.byNode[last]
        BY <4>2, JobTypes
      <4>3. QED
        BY <4>1, <4>2
    <3>2. QED
      BY <3>1
  <2>3. byNode \in [Ids -> SUBSET RepairJobs]
    BY JobTypes
  <2>4. \A i \in Ids : byNode[i] = IF i = last THEN {} ELSE IF i = d THEN J.byNode[last]
                                                         ELSE J.byNode[i]
    BY JobTypes
  <2>5. K \in JobsType
    BY <2>1, <2>2, <2>3, JobTypes DEF JobsType, RepairType
  <2>6. QED
    BY <1>2, <2>0, <2>1, <2>4, <2>5
<1>3. QED
  BY <1>1, <1>2

\* The last node has a swap job that takes over the place of the removed one.
TakesOver(J, d, last, R) == last # d /\ J.bySwapId[last] # NoVec /\ last \notin Range(R)

\* executeSwapJob without its effect on the swap job of the last node.
NodeGoneFrom(J, K, d, last) ==
  /\ K \in JobsType /\ K.bySwapId = J.bySwapId
  /\ Alive(K) = Alive(J) \ J.byNode[d]
  /\ \A j \in Alive(K) :
       /\ K.repair[j].swaps = J.repair[j].swaps
       /\ K.repair[j].node = IF J.repair[j].node = last THEN d ELSE J.repair[j].node
  /\ \A i \in Ids : K.byNode[i] = IF i = last THEN {}
                                  ELSE IF i = d THEN J.byNode[last] ELSE J.byNode[i]
  /\ \A v \in Vecs : /\ K.swap[v].id = J.swap[v].id
                     /\ K.swap[v].pending = J.swap[v].pending - Repairs(J, J.byNode[d])[v]
  /\ K.ready = J.ready + Cardinality(Done(J, Repairs(J, J.byNode[d])))

LEMMA NodeGone ==
  ASSUME NEW J \in JobsType, NEW N \in SUBSET Ids, Filed(J, N), NEW d \in N, NEW last \in N
  PROVE  NodeGoneFrom(J, FollowsNode(Disposed(J, d), last, d), d, last)
<1> DEFINE K == FollowsNode(Disposed(J, d), last, d)
<1> HIDE DEF K
<1>0. d \in Ids /\ last \in Ids
  OBVIOUS
<1>1. PICK H : H = Disposed(J, d)
  OBVIOUS
<1>2. /\ H \in JobsType
      /\ \A j \in RepairJobs : H.repair[j] =
           IF j \in J.byNode[d] THEN [J.repair[j] EXCEPT !.valid = FALSE] ELSE J.repair[j]
      /\ H.byNode = [J.byNode EXCEPT ![d] = {}] /\ H.bySwapId = J.bySwapId
      /\ \A v \in Vecs : /\ H.swap[v].id = J.swap[v].id
                         /\ H.swap[v].pending = J.swap[v].pending - Repairs(J, J.byNode[d])[v]
      /\ H.ready = J.ready + Cardinality(Done(J, Repairs(J, J.byNode[d])))
  BY <1>0, <1>1, DisposedFields
<1>3. \A i \in Ids : H.byNode[i] = IF i = d THEN {} ELSE J.byNode[i]
  BY <1>2, JobTypes
<1>4. \A i \in Ids : \A j \in J.byNode[i] : j \in Alive(J) /\ J.repair[j].node = i
  BY DEF Filed
<1>5. Alive(H) = Alive(J) \ J.byNode[d]
  <2>1. ASSUME NEW j \in RepairJobs, j \in J.byNode[d] PROVE j \notin Alive(H)
    <3>1. J.repair[j] \in [node : Ids, valid : BOOLEAN, swaps : [Vecs -> Nat]]
      BY <1>0, <1>4, <2>1, JobTypes
    <3>2. H.repair[j].valid = FALSE
      BY <1>2, <2>1, <3>1
    <3>3. QED
      BY <3>2 DEF Alive
  <2>2. ASSUME NEW j \in RepairJobs, j \notin J.byNode[d] PROVE j \in Alive(H) <=> j \in Alive(J)
    BY <1>2, <2>2 DEF Alive
  <2>3. QED
    BY <2>1, <2>2 DEF Alive
<1>6. /\ H.byNode[last] \subseteq Alive(H) /\ (last = d => H.byNode[last] = {})
      /\ \A j \in H.byNode[last] : H.repair[j] = J.repair[j] /\ J.repair[j].node = last
  <2>1. CASE last = d
    BY <1>0, <1>3, <2>1
  <2>2. CASE last # d
    <3>1. H.byNode[last] = J.byNode[last]
      BY <1>0, <1>3, <2>2
    <3>2. \A j \in J.byNode[last] : /\ j \in Alive(J) /\ J.repair[j].node = last
                                    /\ j \notin J.byNode[d]
      BY <1>0, <1>4, <2>2
    <3>3. \A j \in Alive(J) : j \in RepairJobs
      BY DEF Alive
    <3>4. QED
      BY <1>2, <1>5, <2>2, <3>1, <3>2, <3>3
  <2>3. QED
    BY <2>1, <2>2
<1>7. /\ K \in JobsType
      /\ \A j \in RepairJobs : K.repair[j] =
           IF j \in H.byNode[last] THEN [H.repair[j] EXCEPT !.node = d] ELSE H.repair[j]
      /\ \A i \in Ids : K.byNode[i] =
           IF H.byNode[last] = {} THEN H.byNode[i]
           ELSE IF i = last THEN {} ELSE IF i = d THEN H.byNode[last] ELSE H.byNode[i]
      /\ K.bySwapId = H.bySwapId /\ K.swap = H.swap /\ K.ready = H.ready
  <2>1. /\ FollowsNode(H, last, d) \in JobsType
        /\ \A j \in RepairJobs : FollowsNode(H, last, d).repair[j] =
             IF j \in H.byNode[last] THEN [H.repair[j] EXCEPT !.node = d] ELSE H.repair[j]
        /\ \A i \in Ids : FollowsNode(H, last, d).byNode[i] =
             IF H.byNode[last] = {} THEN H.byNode[i]
             ELSE IF i = last THEN {} ELSE IF i = d THEN H.byNode[last] ELSE H.byNode[i]
        /\ FollowsNode(H, last, d).bySwapId = H.bySwapId
        /\ FollowsNode(H, last, d).swap = H.swap /\ FollowsNode(H, last, d).ready = H.ready
    <3>1. H \in JobsType /\ last \in Ids /\ d \in Ids
      BY <1>0, <1>2
    <3>2. H.byNode[last] \subseteq Alive(H) /\ (last = d => H.byNode[last] = {})
      BY <1>6
    <3>3. QED
      BY <3>1, <3>2, FollowsNodeFields
  <2>2. QED
    BY <1>1, <2>1 DEF K
<1>8. ASSUME NEW j \in RepairJobs
      PROVE  /\ j \in Alive(K) <=> j \in Alive(H)
             /\ j \in Alive(H) =>
                  /\ K.repair[j].swaps = J.repair[j].swaps
                  /\ K.repair[j].node = IF J.repair[j].node = last THEN d ELSE J.repair[j].node
  <2>1. CASE j \in H.byNode[last]
    <3>1. H.repair[j] \in [node : Ids, valid : BOOLEAN, swaps : [Vecs -> Nat]] /\ j \in Alive(H)
      BY <1>2, <1>6, <2>1, JobTypes
    <3>2. /\ K.repair[j] # NoJob /\ K.repair[j].valid = H.repair[j].valid
          /\ K.repair[j].swaps = H.repair[j].swaps /\ K.repair[j].node = d
      BY <1>0, <1>7, <2>1, <3>1, IdsFacts DEF NoJob
    <3>3. QED
      BY <1>6, <2>1, <3>1, <3>2 DEF Alive
  <2>2. CASE j \notin H.byNode[last]
    <3>1. K.repair[j] = H.repair[j]
      BY <1>7, <2>2
    <3>2. j \in Alive(H) => H.repair[j] = J.repair[j] /\ j \in Alive(J) /\ j \notin J.byNode[d]
      BY <1>2, <1>5
    <3>3. j \in Alive(H) => J.repair[j].node # last
      <4>1. SUFFICES ASSUME j \in Alive(H), J.repair[j].node = last PROVE FALSE
        OBVIOUS
      <4>2. J.byNode[last] = {j}
        BY <3>2, <4>1 DEF Filed
      <4>3. last # d
        BY <3>2, <4>1, <4>2
      <4>4. QED
        BY <1>0, <1>3, <2>2, <4>2, <4>3
    <3>4. QED
      BY <3>1, <3>2, <3>3 DEF Alive
  <2>3. QED
    BY <2>1, <2>2
<1>9. Alive(K) = Alive(J) \ J.byNode[d]
  BY <1>5, <1>8 DEF Alive
<1>10. \A i \in Ids : K.byNode[i] = IF i = last THEN {}
                                    ELSE IF i = d THEN J.byNode[last] ELSE J.byNode[i]
  BY <1>0, <1>3, <1>7
<1>11. \A j \in Alive(K) : j \in RepairJobs
  BY DEF Alive
<1>12. NodeGoneFrom(J, K, d, last)
  BY <1>2, <1>7, <1>8, <1>9, <1>10, <1>11 DEF NodeGoneFrom
<1>13. QED
  BY <1>12 DEF K

\* What executeSwapJob does to the jobs J of the nodes N.
SwapJobDone(J, E, N, d, last, R) ==
  /\ E.jobs \in JobsType
  /\ Filed(E.jobs, N \ {last}) /\ Counted(E.jobs) /\ NoDangling(E.jobs)
  /\ E.jobs.ready - Cardinality(ReadyJobs(E.jobs)) = J.ready - Cardinality(ReadyJobs(J))
  /\ Alive(E.jobs) \subseteq Alive(J)
  /\ \A j \in Alive(E.jobs) : E.jobs.repair[j].swaps = J.repair[j].swaps
  /\ \A i \in N \ {last} : E.jobs.byNode[i] = J.byNode[Before(d, last, i)]
  /\ \A v \in Vecs :
       /\ E.jobs.swap[v].id = IF TakesOver(J, d, last, R) /\ v = J.bySwapId[last] THEN d
                              ELSE J.swap[v].id
       /\ J.swap[v].pending = 0 /\ HasSwap(J, v) => E.jobs.swap[v].pending = 0
  /\ \A i \in Ids : E.jobs.bySwapId[i] = IF TakesOver(J, d, last, R) /\ i = d
                                         THEN J.bySwapId[last] ELSE J.bySwapId[i]
  /\ E.toRemove = Append(R, IF TakesOver(J, d, last, R) THEN last ELSE d)

LEMMA SwapJobExecuted ==
  ASSUME NEW J \in JobsType, NEW N \in SUBSET Ids, Filed(J, N), Counted(J), NoDangling(J),
         NEW d \in N, NEW last \in N, NEW R \in Seq(Ids),
         TakesOver(J, d, last, R) => HasSwap(J, J.bySwapId[last])
  PROVE  SwapJobDone(J, ExecuteSwapJob(J, d, last, R), N, d, last, R)
<1>0. d \in Ids /\ last \in Ids
  OBVIOUS
<1>1. PICK H : H = FollowsNode(Disposed(J, d), last, d)
  OBVIOUS
<1>2. NodeGoneFrom(J, H, d, last)
  BY <1>1, NodeGone
<1>3. PICK E : E = ExecuteSwapJob(J, d, last, R)
  OBVIOUS
<1>4. PICK v0 : v0 = J.bySwapId[last]
  OBVIOUS
<1>5. /\ H \in JobsType /\ H.bySwapId = J.bySwapId
      /\ \A v \in Vecs : H.swap[v].id = J.swap[v].id
  BY <1>2 DEF NodeGoneFrom
<1>6. PICK K : K = E.jobs
  OBVIOUS
<1>7. /\ K \in JobsType /\ K.repair = H.repair /\ K.byNode = H.byNode /\ K.ready = H.ready
      /\ \A v \in Vecs :
           /\ K.swap[v].id = IF TakesOver(J, d, last, R) /\ v = v0 THEN d ELSE H.swap[v].id
           /\ K.swap[v].pending = H.swap[v].pending
      /\ \A i \in Ids : K.bySwapId[i] = IF TakesOver(J, d, last, R) /\ i = d
                                        THEN v0 ELSE J.bySwapId[i]
      /\ E.toRemove = Append(R, IF TakesOver(J, d, last, R) THEN last ELSE d)
  <2>1. CASE TakesOver(J, d, last, R)
    <3>1. E = [jobs |-> [H EXCEPT !.swap[v0].id = d, !.bySwapId[d] = v0],
               toRemove |-> Append(R, last)]
      BY <1>1, <1>3, <1>4, <1>5, <2>1 DEF ExecuteSwapJob, TakesOver
    <3>2. v0 \in Vecs
      <4>1. J.bySwapId[last] \in Vecs \cup {NoVec} /\ J.bySwapId[last] # NoVec
        BY <1>0, <2>1, JobTypes DEF TakesOver
      <4>2. QED
        BY <1>4, <4>1
    <3> DEFINE swap == [H.swap EXCEPT ![v0].id = d]
               bySwapId == [H.bySwapId EXCEPT ![d] = v0]
    <3>3. K = [repair |-> H.repair, byNode |-> H.byNode, swap |-> swap,
               bySwapId |-> bySwapId, ready |-> H.ready]
      BY <1>5, <1>6, <3>1 DEF JobsType
    <3>4. /\ H.swap \in [Vecs -> [id : Ids \cup {0}, pending : Int]]
          /\ H.bySwapId \in [Ids -> Vecs \cup {NoVec}]
      BY <1>5, JobTypes
    <3>5. /\ swap \in [Vecs -> [id : Ids \cup {0}, pending : Int]]
          /\ \A v \in Vecs : /\ swap[v].id = IF v = v0 THEN d ELSE H.swap[v].id
                             /\ swap[v].pending = H.swap[v].pending
      <4>1. H.swap[v0] \in [id : Ids \cup {0}, pending : Int]
        BY <3>2, <3>4
      <4>2. /\ [H.swap[v0] EXCEPT !.id = d] \in [id : Ids \cup {0}, pending : Int]
            /\ [H.swap[v0] EXCEPT !.id = d].id = d
            /\ [H.swap[v0] EXCEPT !.id = d].pending = H.swap[v0].pending
        BY <1>0, <4>1
      <4>3. QED
        BY <3>2, <3>4, <4>2
    <3>6. /\ bySwapId \in [Ids -> Vecs \cup {NoVec}]
          /\ \A i \in Ids : bySwapId[i] = IF i = d THEN v0 ELSE H.bySwapId[i]
      BY <1>0, <3>2, <3>4
    <3>7. K \in JobsType
      BY <1>5, <3>3, <3>5, <3>6, JobTypes DEF JobsType, RepairType
    <3>8. QED
      BY <1>5, <2>1, <3>1, <3>3, <3>5, <3>6, <3>7
  <2>2. CASE ~TakesOver(J, d, last, R)
    <3>1. E = [jobs |-> H, toRemove |-> Append(R, d)]
      BY <1>1, <1>3, <1>4, <1>5, <2>2 DEF ExecuteSwapJob, TakesOver
    <3>2. QED
      BY <1>5, <1>6, <2>2, <3>1
  <2>3. QED
    BY <2>1, <2>2
<1>8. Alive(K) = Alive(J) \ J.byNode[d]
  BY <1>2, <1>7 DEF NodeGoneFrom, Alive
<1>9. \A v \in Vecs : HasSwap(K, v) <=> HasSwap(J, v)
  <2>1. d # 0
    BY <1>0, IdsFacts
  <2>2. QED
    BY <1>4, <1>5, <1>7, <2>1 DEF HasSwap
<1>10. /\ Counted(K) /\ NoDangling(K)
       /\ K.ready - Cardinality(ReadyJobs(K)) = J.ready - Cardinality(ReadyJobs(J))
  <2>1. J.byNode[d] \in SUBSET Alive(J)
    BY <1>0 DEF Filed
  <2>2. \A j \in Alive(K) : K.repair[j].swaps = J.repair[j].swaps
    BY <1>2, <1>7, <1>8 DEF NodeGoneFrom
  <2>3. \A v \in Vecs : K.swap[v].pending = J.swap[v].pending - Repairs(J, J.byNode[d])[v]
    BY <1>2, <1>7 DEF NodeGoneFrom
  <2>4. K.ready = J.ready + Cardinality(Done(J, Repairs(J, J.byNode[d])))
    BY <1>2, <1>7 DEF NodeGoneFrom
  <2>5. QED
    BY <1>7, <1>8, <1>9, <2>1, <2>2, <2>3, <2>4, Settled
<1>11. Filed(K, N \ {last})
  <2>1. ASSUME NEW j \in Alive(K)
        PROVE  K.byNode[K.repair[j].node] = {j} /\ K.repair[j].node \in N \ {last}
    <3>1. /\ j \in Alive(J) /\ j \notin J.byNode[d]
          /\ J.byNode[J.repair[j].node] = {j} /\ J.repair[j].node \in N
      BY <1>8 DEF Filed
    <3>2. J.repair[j].node # d
      BY <3>1
    <3>3. K.repair[j].node = IF J.repair[j].node = last THEN d ELSE J.repair[j].node
      BY <1>2, <1>7, <1>8 DEF NodeGoneFrom
    <3>4. \A i \in Ids : K.byNode[i] = IF i = last THEN {}
                                       ELSE IF i = d THEN J.byNode[last] ELSE J.byNode[i]
      BY <1>2, <1>7 DEF NodeGoneFrom
    <3>5. CASE J.repair[j].node = last
      <4>1. d # last /\ K.repair[j].node = d
        BY <3>2, <3>3, <3>5
      <4>2. QED
        BY <1>0, <3>1, <3>4, <3>5, <4>1
    <3>6. CASE J.repair[j].node # last
      BY <3>1, <3>2, <3>3, <3>4, <3>6
    <3>7. QED
      BY <3>5, <3>6
  <2>2. ASSUME NEW i \in Ids, NEW j \in K.byNode[i]
        PROVE  j \in Alive(K) /\ K.repair[j].node = i
    <3>1. K.byNode[i] = IF i = last THEN {} ELSE IF i = d THEN J.byNode[last] ELSE J.byNode[i]
      BY <1>2, <1>7 DEF NodeGoneFrom
    <3>2. PICK b \in Ids : j \in J.byNode[b] /\ b = Before(d, last, i) /\ b # d
      BY <1>0, <3>1 DEF Before
    <3>3. /\ j \in Alive(J) /\ J.repair[j].node = b
      BY <3>2 DEF Filed
    <3>4. j \notin J.byNode[d]
      BY <1>0, <3>2, <3>3 DEF Filed
    <3>5. j \in Alive(K)
      BY <1>8, <3>3, <3>4
    <3>6. K.repair[j].node = IF b = last THEN d ELSE b
      BY <1>2, <1>7, <1>8, <3>3, <3>5 DEF NodeGoneFrom
    <3>7. QED
      BY <3>1, <3>2, <3>5, <3>6 DEF Before
  <2>3. QED
    BY <2>1, <2>2 DEF Filed
<1>12. /\ \A j \in Alive(K) : K.repair[j].swaps = J.repair[j].swaps
       /\ \A i \in N \ {last} : K.byNode[i] = J.byNode[Before(d, last, i)]
  BY <1>0, <1>2, <1>7, <1>8 DEF NodeGoneFrom, Before
<1>13. ASSUME NEW v \in Vecs, J.swap[v].pending = 0, HasSwap(J, v) PROVE K.swap[v].pending = 0
  <2>1. J.byNode[d] \in SUBSET Alive(J)
    BY <1>0 DEF Filed
  <2>2. Cardinality(Associations(J, Alive(J), v)) = 0
    BY <1>13 DEF Counted
  <2>3. \A j \in Alive(J) : J.repair[j].swaps[v] = 0
    BY <2>2, AliveAssociations
  <2>4. Cardinality(Associations(J, J.byNode[d], v)) = 0
    BY <2>1, <2>3, AliveAssociations
  <2>5. QED
    BY <1>2, <1>7, <1>13, <2>4 DEF NodeGoneFrom, Repairs
<1>14. SwapJobDone(J, E, N, d, last, R)
  BY <1>4, <1>5, <1>6, <1>7, <1>8, <1>10, <1>11, <1>12, <1>13 DEF SwapJobDone
<1>15. QED
  BY <1>3, <1>14

-----------------------------------------------------------------------------
(* What a state of the invariant looks like.                                *)

LEMMA Storage ==
  ASSUME ElementsInv
  PROVE  /\ count \in Nat /\ count <= Cardinality(Vecs) /\ Stored \in SUBSET Ids
         /\ Deleted \in SUBSET Stored /\ Collected \in SUBSET Deleted
         /\ unused # {} => count + 1 \in Ids
         /\ 0 \notin Ids
<1>1. count \in Nat /\ Cardinality(Vecs) \in Nat /\ Ids = 1..Cardinality(Vecs)
  BY IdsFacts, DeletionAssumption DEF ElementsInv
<1>2. IsFiniteSet(unused) /\ Cardinality(unused) \in Nat /\ (unused = {} <=> Cardinality(unused) = 0)
  BY VecSets, FS_EmptySet DEF ElementsInv
<1>3. count + Cardinality(unused) <= Cardinality(Vecs)
  BY DEF ElementsInv
<1>4. QED
  BY <1>1, <1>2, <1>3 DEF Stored, Deleted, Collected

\* Sequences of at most one id.
LEMMA ShortSeqs ==
  /\ \A s \in Seq(Ids) : Len(s) \in Nat
  /\ \A s \in Seq(Ids) : Len(s) = 0 => s = <<>>
  /\ \A s \in Seq(Ids) : Len(s) = 1 => /\ s = <<s[1]>> /\ s[1] \in Ids /\ Head(s) = s[1]
                                       /\ Range(s) = {Head(s)} /\ Range(Tail(s)) = {}
  /\ \A s \in Seq(Ids) : Len(s) <= 1 => Len(s) = 0 \/ Len(s) = 1
  /\ Range(<<>>) = {} /\ \A x : Range(<<x>>) = {x} /\ Len(<<x>>) = 1 /\ Head(<<x>>) = x
<1>1. \A s \in Seq(Ids) : Len(s) \in Nat /\ (Len(s) = 0 => s = <<>>)
  OBVIOUS
<1>2. \A s \in Seq(Ids) : Len(s) = 1 => s = <<s[1]>> /\ s[1] \in Ids /\ Head(s) = s[1]
  OBVIOUS
<1>3. Range(<<>>) = {} /\ \A x : Range(<<x>>) = {x} /\ Len(<<x>>) = 1 /\ Head(<<x>>) = x
  BY DEF Range
<1>4. \A s \in Seq(Ids) : Len(s) <= 1 => Len(s) = 0 \/ Len(s) = 1
  BY <1>1
<1>5. \A x \in Ids : Tail(<<x>>) = <<>>
  OBVIOUS
<1>6. ASSUME NEW s \in Seq(Ids), Len(s) = 1 PROVE Range(s) = {Head(s)} /\ Range(Tail(s)) = {}
  <2>1. PICK x \in Ids : s = <<x>> /\ Head(s) = x
    BY <1>2, <1>6
  <2>2. QED
    BY <1>3, <1>5, <2>1
<1>7. QED
  BY <1>1, <1>2, <1>3, <1>4, <1>6

\* The fields of an element.
LEMMA MetaFields ==
  ASSUME ElementsInv
  PROVE  \A i \in Ids : /\ meta[i].vec \in Vecs \cup {NoVec} /\ meta[i].deleted \in BOOLEAN
                        /\ meta[i].inProcess \in BOOLEAN
                        /\ i \in Stored => meta[i].vec \in Vecs
BY DEF ElementsInv

\* The fields of a worker.
LEMMA WorkerFields ==
  ASSUME WorkersInv, NEW w \in Workers
  PROVE  /\ worker[w] \in WorkerType
         /\ worker[w].pc \in {"idle", "connect", "link", "revisit", "relink", "repair",
                              "candidates", "update"}
         /\ worker[w].pc # "idle" => worker[w].node \in Ids
         /\ Inserting(w) => worker[w].tried \in SUBSET Ids
         /\ Targeting(w) => worker[w].target \in Ids
         /\ worker[w].pc \in {"revisit", "relink"} => worker[w].removed \in SUBSET Ids
         /\ worker[w].pc = "relink" => worker[w].may \in BOOLEAN
         /\ Repairing(w) =>
              /\ worker[w].orig \in SUBSET Ids /\ worker[w].gone \in SUBSET Ids
              /\ worker[w].todo \in SUBSET Ids /\ worker[w].cands \in SUBSET Ids
         /\ worker[w].pc = "update" => worker[w].eligible \in SUBSET Ids
<1>1. worker[w] \in WorkerType
  BY DEF WorkersInv
<1>2. QED
  BY <1>1 DEF WorkerType, Idle, Inserting, Targeting, Repairing

\* Only three of the things a worker does keep locks from step to step.
LEMMA NoLocks ==
  ASSUME NEW r, r.pc \notin {"link", "relink", "update"}
  PROVE  Locks(r) = {} /\ FoundAlive(r) = {}
BY DEF Locks, FoundAlive

\* The fields of the main thread.
LEMMA MainFields ==
  ASSUME MainInv
  PROVE  /\ main.pc \in {"idle", "copy", "check", "create", "gc", "inplace", "unlink"}
         /\ main.pc \in {"copy", "check", "create"} => main.ids \in Seq(Ids)
         /\ main.pc \in {"check", "create"} => main.found \in [Ids -> Nat]
         /\ main.pc = "check" => main.todo \in SUBSET Ids
         /\ OwnsMain => main.toRemove \in Seq(Ids)
         /\ main.pc = "gc" => main.todo \in SUBSET Ids
         /\ main.pc = "inplace" => main.label \in Labels /\ main.ind \in {1, 2}
         /\ main.pc = "unlink" => /\ main.label \in Labels /\ main.ind = 1
                                  /\ main.id \in Ids /\ main.todo \in SUBSET Ids
         /\ main.pc = "idle" => main = Idle
BY DEF MainInv, MainType, Idle, OwnsMain

\* Of the elements that are being deleted, one is not collected yet, and that
\* only until its links are copied.
LEMMA MarkingFacts ==
  ASSUME MainInv
  PROVE  /\ Marking \subseteq Uncollected
         /\ main.pc # "copy" => Marking = {}
         /\ main.pc = "copy" => Marking = {Head(main.ids)}
<1>1. main.pc \in {"copy", "check", "create"} => main.ids \in Seq(Ids) /\ Len(main.ids) = 1
  BY MainFields DEF MainInv, CollectInv
<1>2. main.pc \in {"copy", "check", "create"} =>
        Range(main.ids) = {Head(main.ids)} /\ Range(Tail(main.ids)) = {}
  BY <1>1, ShortSeqs
<1>3. main.pc \in {"check", "create"} => Marking = {}
  BY <1>2 DEF Marking
<1>4. main.pc = "copy" => Marking = Uncollected /\ Marking = {Head(main.ids)}
  BY <1>2 DEF Marking, Uncollected
<1>5. main.pc \notin {"copy", "check", "create"} => Marking = {}
  BY DEF Marking
<1>6. QED
  BY <1>3, <1>4, <1>5

\* No worker takes locks, and no element is collected while one has its lock.
LEMMA LocksFrame ==
  ASSUME LocksInv,
         \A v \in Workers :
           worker'[v] = worker[v] \/ worker'[v].pc \notin {"link", "relink", "update"},
         \A x \in Deleted' \ Marking' : x \in Deleted \ Marking \/ Free({x})
  PROVE  LocksInv'
<1>1. \A v \in Workers : \/ worker'[v] = worker[v]
                         \/ Locks(worker'[v]) = {} /\ FoundAlive(worker'[v]) = {}
  BY NoLocks
<1>2. \A v, w \in Workers : v # w => Locks(worker'[v]) \cap Locks(worker'[w]) = {}
  BY <1>1 DEF LocksInv
<1>3. ASSUME NEW v \in Workers
      PROVE  /\ FoundAlive(worker'[v]) \subseteq Locks(worker'[v])
             /\ FoundAlive(worker'[v]) \cap Deleted' \subseteq Marking'
  <2>1. CASE FoundAlive(worker'[v]) = {}
    BY <2>1
  <2>2. CASE worker'[v] = worker[v]
    <3>1. /\ FoundAlive(worker[v]) \subseteq Locks(worker[v])
          /\ FoundAlive(worker[v]) \cap Deleted \subseteq Marking
      BY DEF LocksInv
    <3>2. ASSUME NEW x \in FoundAlive(worker[v]), x \in Deleted', x \notin Marking'
          PROVE  FALSE
      <4>1. x \in Locks(worker[v]) /\ (x \in Deleted => x \in Marking)
        BY <3>1
      <4>2. Free({x})
        BY <3>2, <4>1
      <4>3. QED
        BY <4>1, <4>2 DEF Free
    <3>3. QED
      BY <2>2, <3>1, <3>2
  <2>3. QED
    BY <1>1, <2>1, <2>2
<1>4. QED
  BY <1>2, <1>3 DEF LocksInv

LEMMA ElementsFrame ==
  ASSUME ElementsInv, UNCHANGED <<count, meta, unused>>, calls' \in Nat
  PROVE  ElementsInv'
BY DEF ElementsInv, Stored

LEMMA LookupFrame ==
  ASSUME LookupInv, UNCHANGED <<count, meta, lookup>>,
         \A l \in Labels : Outdated(l)' <=> Outdated(l)
  PROVE  LookupInv'
BY DEF LookupInv, Stored

LEMMA JobsFrame ==
  ASSUME JobsInv, UNCHANGED jobs, Stored \subseteq Stored', Collected' = Collected,
         \A i \in Collected : meta'[i].vec = meta[i].vec, ToRemove' = ToRemove,
         Executed' = Executed, main.pc # "gc", main'.pc # "gc"
  PROVE  JobsInv'
<1>1. /\ jobs' \in JobsType /\ Filed(jobs', Stored') /\ Counted(jobs') /\ NoDangling(jobs')
  BY DEF JobsInv, Filed
<1>2. Reclaimed(jobs, Collected)'
  BY DEF JobsInv, Reclaimed
<1>3. Indexes(jobs, Collected, ToRemove)'
  BY DEF JobsInv, Indexes
<1>4. GCInv'
  BY DEF GCInv
<1>5. jobs'.ready = Cardinality(ReadyJobs(jobs')) + Executed'
  BY DEF JobsInv
<1>6. QED
  BY <1>1, <1>2, <1>3, <1>4, <1>5 DEF JobsInv

-----------------------------------------------------------------------------
(* Steps of workers.                                                        *)

\* The nodes to which the worker w may add links: they are not being collected, and
\* no other worker is inserting them.
MayGain(w, i) ==
  i \notin Deleted \ Marking /\ (~meta[i].inProcess \/ (Inserting(w) /\ i = worker[w].node))

\* What CollectedGainNoEdges says of a step.
CollectedGain == count' >= count =>
  \A i \in Stored, e \in Deleted \ Marking : e \in graph.links'[i] => e \in graph.links[i]

\* Steps that leave the links alone.
LEMMA NoLinks == (UNCHANGED graph => CollectedGain) /\ (~ (count' >= count) => CollectedGain)
BY DEF CollectedGain

\* A step of the worker w that changes links of nodes it has locked: its node is
\* still the same, or it is idle, and it repairs what it was to repair.
LEMMA GraphStep ==
  ASSUME DeletionInv, NEW w \in Workers, worker[w].pc \in {"link", "relink", "update"},
         Exact(graph', Stored),
         \A i \in Ids : graph'.links[i] # graph.links[i] => i \in Locks(worker[w]),
         \A i, x \in Ids : x \in graph'.links[i] =>
            x \in graph.links[i] \/ (MayGain(w, i) /\ MayGain(w, x)),
         UNCHANGED <<count, meta, lookup, unused, calls, jobs, main>>,
         NEW r \in WorkerType, worker' = [worker EXCEPT ![w] = r],
         r.pc \in {"idle", "connect"},
         r.pc # "idle" => Inserting(w) /\ r.node = worker[w].node /\ InsertInv(w)',
         worker[w].pc = "update" =>
           \A e \in worker[w].gone : e \notin graph'.links[worker[w].node]
  PROVE  DeletionInv' /\ CollectedGain
<1>1. /\ ElementsInv /\ LookupInv /\ GraphInv /\ WorkersInv /\ MainInv /\ JobsInv
      /\ EdgesIntoDeletedAreCovered
  BY DEF DeletionInv
<1>2. ~OwnsMain
  BY <1>1 DEF MainInv, NoWorkerActive
<1>3. Exact(graph, Stored)
  BY <1>1, <1>2 DEF GraphInv, OwnsMain
<1>4. /\ Stored' = Stored /\ Deleted' = Deleted /\ Collected' = Collected
      /\ Uncollected' = Uncollected /\ ToRemove' = ToRemove /\ Executed' = Executed
      /\ OwnsMain' = OwnsMain /\ Stored \in SUBSET Ids /\ Deleted \in SUBSET Stored
  BY <1>1, Storage DEF Stored, Deleted, Collected, Uncollected, ToRemove, Executed, OwnsMain
<1>a. /\ Marking' = Marking /\ Marking \subseteq Uncollected
      /\ main.pc \in {"check", "create"} => Marking = {}
  BY <1>1, MarkingFacts DEF Marking
<1>5. ElementsInv'
  BY <1>1, ElementsFrame DEF ElementsInv
<1>6. LookupInv'
  BY <1>1, LookupFrame DEF Outdated
<1>7. GraphInv'
  BY <1>2, <1>4 DEF GraphInv, OwnsMain
<1>8. WorkersInv'
  <2>1. worker \in [Workers -> WorkerType] /\ worker' \in [Workers -> WorkerType]
    BY <1>1 DEF WorkersInv
  <2>2. \A v \in Workers : worker'[v] = IF v = w THEN r ELSE worker[v]
    BY <2>1
  <2>3. \A v \in Workers : /\ Inserting(v)' => Inserting(v) /\ worker'[v].node = worker[v].node
                           /\ v # w => (Inserting(v)' <=> Inserting(v))
    BY <2>2 DEF Inserting
  <2>4. ASSUME NEW v \in Workers
        PROVE  /\ worker'[v].pc # "idle" => worker'[v].node \in Stored'
               /\ Inserting(v)' => InsertInv(v)'
               /\ Repairing(v)' => RepairInv(v)'
    <3>1. CASE v = w
      BY <1>1, <1>4, <2>2, <3>1 DEF WorkersInv, Inserting, Repairing
    <3>2. CASE v # w
      <4>1. worker'[v] = worker[v]
        BY <2>2, <3>2
      <4>2. worker[v].pc # "idle" => worker[v].node \in Stored
        BY <1>1 DEF WorkersInv
      <4>3. Repairing(v) => RepairInv(v)'
        BY <1>1, <1>4, <4>1 DEF WorkersInv, RepairInv
      <4>4. ASSUME Inserting(v) PROVE InsertInv(v)'
        <5>1. InsertInv(v) /\ worker[v].node \in Ids
          BY <1>1, <1>4, <4>2, <4>4 DEF WorkersInv, Inserting
        <5>2. Inserting(w) => worker[w].node # worker[v].node
          BY <1>1, <3>2, <4>4 DEF WorkersInv
        <5>3. ~MayGain(w, worker[v].node)
          BY <5>1, <5>2 DEF MayGain, InsertInv
        <5>4. \A s \in Ids : /\ worker[v].node \in graph'.links[s] => worker[v].node \in graph.links[s]
                             /\ s \in graph'.links[worker[v].node] => s \in graph.links[worker[v].node]
          BY <5>1, <5>3
        <5>5. graph'.links[worker[v].node] \subseteq graph.links[worker[v].node]
          BY <5>1, <5>4 DEF Exact, Shaped, GraphType
        <5>6. worker[v].pc = "link" => HasRoom(graph', worker[v].node)
          <6>1. ASSUME worker[v].pc = "link"
                PROVE  graph'.links[worker[v].node] = graph.links[worker[v].node]
            <7>1. worker[v].node \in Locks(worker[v])
              BY <6>1 DEF Locks
            <7>2. Locks(worker[v]) \cap Locks(worker[w]) = {}
              BY <1>1, <3>2 DEF WorkersInv, LocksInv
            <7>3. QED
              BY <5>1, <7>1, <7>2
          <6>2. QED
            BY <5>1, <6>1 DEF InsertInv, HasRoom
        <5>7. QED
          BY <1>4, <4>1, <5>1, <5>4, <5>5, <5>6 DEF InsertInv, Targeting
      <4>5. QED
        BY <1>4, <2>3, <3>2, <4>1, <4>2, <4>3, <4>4 DEF Repairing
    <3>3. QED
      BY <3>1, <3>2
  <2>5. \A u, v \in Workers :
          Inserting(u)' /\ Inserting(v)' /\ worker'[u].node = worker'[v].node => u = v
    BY <1>1, <2>3 DEF WorkersInv
  <2>6. LocksInv'
    <3>1. LocksInv
      BY <1>1 DEF WorkersInv
    <3>2. \A x \in Deleted' \ Marking' : x \in Deleted \ Marking
      BY <1>4, <1>a
    <3>3. QED
      BY <2>2, <3>1, <3>2, LocksFrame
  <2>7. QED
    BY <2>1, <2>4, <2>5, <2>6 DEF WorkersInv
<1>9. MainInv'
  <2>1. CollectInv'
    <3>1. ASSUME main.pc = "check", NEW i \in Ids, Head(main.ids) \in graph'.links[i]
          PROVE  main.found[i] > 0 \/ i \in main.todo \/ i \in graph'.incoming[Head(main.ids)]
      <4>1. PICK e \in Deleted : e = Head(main.ids)
        BY <1>1, <3>1 DEF MainInv, CollectInv
      <4>2. e \in Ids /\ ~MayGain(w, e)
        BY <1>4, <1>a, <3>1, <4>1 DEF MayGain
      <4>3. e \in graph.links[i]
        BY <3>1, <4>1, <4>2
      <4>4. main.found[i] > 0 \/ i \in main.todo \/ i \in graph.incoming[e]
        BY <1>1, <3>1, <4>1, <4>3 DEF MainInv, CollectInv
      <4>5. i \in graph.incoming[e] => i \notin graph.links[e]
        BY <1>3, <4>2 DEF Exact, EdgeExact
      <4>6. i \notin graph.links[e] => i \notin graph'.links[e]
        BY <4>2
      <4>7. i \notin graph'.links[e] => i \in graph'.incoming[e]
        BY <3>1, <4>1, <4>2 DEF Exact, EdgeExact
      <4>8. QED
        BY <4>1, <4>4, <4>5, <4>6, <4>7
    <3>2. ASSUME main.pc = "create", NEW i \in Ids, Head(main.ids) \in graph'.links[i]
          PROVE  main.found[i] > 0
      <4>1. PICK e \in Deleted : e = Head(main.ids)
        BY <1>1, <3>2 DEF MainInv, CollectInv
      <4>2. e \in Ids /\ ~MayGain(w, e)
        BY <1>4, <1>a, <3>2, <4>1 DEF MayGain
      <4>3. e \in graph.links[i]
        BY <3>2, <4>1, <4>2
      <4>4. QED
        BY <1>1, <3>2, <4>1, <4>3 DEF MainInv, CollectInv
    <3>3. QED
      BY <1>1, <1>4, <3>1, <3>2 DEF MainInv, CollectInv
  <2>2. InplaceInv'
    BY <1>1 DEF MainInv, InplaceInv
  <2>3. QED
    BY <1>1, <1>2, <1>4, <2>1, <2>2 DEF MainInv
<1>10. JobsInv'
  BY <1>1, <1>2, <1>4, JobsFrame DEF OwnsMain
<1>11. EdgesIntoDeletedAreCovered'
  <2>1. ASSUME NEW i \in Stored, NEW e \in Deleted \ Uncollected, e \in graph'.links[i]
        PROVE  \/ \E j \in jobs.byNode[i] : jobs.repair[j].swaps[meta[e].vec] > 0
               \/ \E v \in Workers : worker'[v].pc = "repair" /\ worker'[v].node = i
               \/ \E v \in Workers : /\ worker'[v].pc \in {"candidates", "update"}
                                     /\ worker'[v].node = i /\ e \in worker'[v].gone
    <3>1. e \in Ids /\ i \in Ids /\ ~MayGain(w, e)
      BY <1>4, <1>a DEF MayGain
    <3>2. e \in graph.links[i]
      BY <2>1, <3>1
    <3>3. CASE \E j \in jobs.byNode[i] : jobs.repair[j].swaps[meta[e].vec] > 0
      BY <3>3
    <3>4. CASE \E v \in Workers : worker[v].pc = "repair" /\ worker[v].node = i
      BY <1>1, <3>4 DEF WorkersInv
    <3>5. CASE \E v \in Workers : /\ worker[v].pc \in {"candidates", "update"}
                                  /\ worker[v].node = i /\ e \in worker[v].gone
      <4>1. PICK v \in Workers : /\ worker[v].pc \in {"candidates", "update"}
                                 /\ worker[v].node = i /\ e \in worker[v].gone
        BY <3>5
      <4>2. v # w
        BY <2>1, <4>1
      <4>3. worker'[v] = worker[v]
        BY <1>1, <4>2 DEF WorkersInv
      <4>4. QED
        BY <4>1, <4>3
    <3>6. QED
      BY <1>1, <3>2, <3>3, <3>4, <3>5 DEF EdgesIntoDeletedAreCovered
  <2>2. QED
    BY <1>4, <2>1 DEF EdgesIntoDeletedAreCovered
<1>12. CollectedGain
  BY <1>4 DEF CollectedGain, MayGain
<1>13. QED
  BY <1>5, <1>6, <1>7, <1>8, <1>9, <1>10, <1>11, <1>12 DEF DeletionInv

\* What a worker that is inserting knows of its node.
LEMMA InsertFacts ==
  ASSUME DeletionInv, NEW w \in Workers, Inserting(w)
  PROVE  /\ worker[w].node \in Stored /\ worker[w].node \in Ids
         /\ worker[w].tried \in SUBSET Stored /\ worker[w].tried \in SUBSET Ids
         /\ worker[w].node \notin worker[w].tried
         /\ InsertInv(w) /\ Exact(graph, Stored) /\ Stored \in SUBSET Ids
<1>1. ElementsInv /\ GraphInv /\ WorkersInv /\ MainInv
  BY DEF DeletionInv
<1>2. worker[w].node \in Stored /\ InsertInv(w)
  BY <1>1 DEF WorkersInv, Inserting
<1>3. Stored \in SUBSET Ids
  BY <1>1, Storage
<1>4. ~OwnsMain
  BY <1>1 DEF MainInv, NoWorkerActive, Inserting
<1>5. Exact(graph, Stored)
  BY <1>1, <1>4 DEF GraphInv, OwnsMain
<1>6. QED
  BY <1>2, <1>3, <1>5 DEF InsertInv

\* A worker that is active keeps the main thread from owning the index.
LEMMA ActiveShares ==
  ASSUME DeletionInv, NEW w \in Workers, worker[w].pc # "idle" \/ ~OwnsMain
  PROVE  /\ ~OwnsMain /\ main.pc \notin {"gc", "inplace", "unlink"}
         /\ Exact(graph, Stored) /\ Stored \in SUBSET Ids /\ Deleted \in SUBSET Stored
         /\ Collected \in SUBSET Deleted
<1>1. ElementsInv /\ GraphInv /\ MainInv
  BY DEF DeletionInv
<1>2. ~OwnsMain
  BY <1>1 DEF MainInv, NoWorkerActive
<1>3. QED
  BY <1>1, <1>2, Storage DEF GraphInv, OwnsMain

\* A step that changes only what the worker knows and the locks it holds.
LEMMA LocalStep ==
  ASSUME DeletionInv, NEW w \in Workers, worker[w].pc # "idle",
         UNCHANGED <<count, meta, lookup, unused, calls, graph, jobs, main>>,
         NEW r \in WorkerType, worker' = [worker EXCEPT ![w] = r],
         r.pc # "idle" => r.node = worker[w].node,
         Inserting(w)' => Inserting(w) /\ InsertInv(w)',
         Repairing(w)' => RepairInv(w)',
         \A v \in Workers \ {w} : Locks(worker[v]) \cap Locks(r) = {},
         FoundAlive(r) \subseteq Locks(r), FoundAlive(r) \cap Deleted \subseteq Marking,
         \A e \in Deleted : /\ e \in graph.links[worker[w].node]
                            /\ worker[w].pc = "repair" \/ (Repairing(w) /\ e \in worker[w].gone)
                            => r.pc \in {"candidates", "update"} /\ e \in r.gone
  PROVE  DeletionInv'
<1>1. /\ ElementsInv /\ LookupInv /\ WorkersInv /\ MainInv /\ JobsInv
      /\ EdgesIntoDeletedAreCovered
  BY DEF DeletionInv
<1>2. /\ ~OwnsMain /\ main.pc \notin {"gc", "inplace", "unlink"}
      /\ Exact(graph, Stored) /\ Stored \in SUBSET Ids /\ Deleted \in SUBSET Stored
      /\ Collected \in SUBSET Deleted
  BY ActiveShares
<1>3. /\ Stored' = Stored /\ Deleted' = Deleted /\ Collected' = Collected
      /\ Uncollected' = Uncollected /\ ToRemove' = ToRemove /\ Executed' = Executed
      /\ OwnsMain' = OwnsMain /\ Marking' = Marking
  BY DEF Stored, Deleted, Collected, Uncollected, ToRemove, Executed, OwnsMain, Marking
<1>4. ElementsInv'
  BY <1>1, ElementsFrame DEF ElementsInv
<1>5. LookupInv'
  BY <1>1, LookupFrame DEF Outdated
<1>6. GraphInv'
  BY <1>2, <1>3 DEF GraphInv
<1>7. \A v \in Workers : worker'[v] = IF v = w THEN r ELSE worker[v]
  BY <1>1 DEF WorkersInv
<1>8. WorkersInv'
  <2>1. worker' \in [Workers -> WorkerType]
    BY <1>1 DEF WorkersInv
  <2>2. \A v \in Workers : Inserting(v)' => Inserting(v) /\ worker'[v].node = worker[v].node
    BY <1>7 DEF Inserting
  <2>3. ASSUME NEW v \in Workers
        PROVE  /\ worker'[v].pc # "idle" => worker'[v].node \in Stored'
               /\ Inserting(v)' => InsertInv(v)'
               /\ Repairing(v)' => RepairInv(v)'
    <3>1. CASE v = w
      BY <1>1, <1>3, <1>7, <3>1 DEF WorkersInv
    <3>2. CASE v # w
      <4>1. worker'[v] = worker[v]
        BY <1>7, <3>2
      <4>2. QED
        BY <1>1, <1>3, <2>2, <4>1 DEF WorkersInv, RepairInv, InsertInv, Targeting, Repairing
    <3>3. QED
      BY <3>1, <3>2
  <2>4. \A u, v \in Workers :
          Inserting(u)' /\ Inserting(v)' /\ worker'[u].node = worker'[v].node => u = v
    BY <1>1, <2>2 DEF WorkersInv
  <2>5. LocksInv'
    <3>1. LocksInv
      BY <1>1 DEF WorkersInv
    <3>2. \A u, v \in Workers : u # v => Locks(worker'[u]) \cap Locks(worker'[v]) = {}
      BY <1>7, <3>1 DEF LocksInv
    <3>3. \A v \in Workers : /\ FoundAlive(worker'[v]) \subseteq Locks(worker'[v])
                             /\ FoundAlive(worker'[v]) \cap Deleted \subseteq Marking
      BY <1>7, <3>1 DEF LocksInv
    <3>4. QED
      BY <1>3, <3>2, <3>3 DEF LocksInv
  <2>6. QED
    BY <2>1, <2>3, <2>4, <2>5 DEF WorkersInv
<1>9. MainInv'
  <2>1. CollectInv' /\ InplaceInv'
    BY <1>1, <1>3 DEF MainInv, CollectInv, InplaceInv
  <2>2. QED
    BY <1>1, <1>2, <1>3, <2>1 DEF MainInv
<1>10. JobsInv'
  BY <1>1, <1>2, <1>3, JobsFrame
<1>11. EdgesIntoDeletedAreCovered'
  <2>1. ASSUME NEW i \in Stored, NEW e \in Deleted \ Uncollected, e \in graph.links[i]
        PROVE  \/ \E j \in jobs.byNode[i] : jobs.repair[j].swaps[meta[e].vec] > 0
               \/ \E v \in Workers : worker'[v].pc = "repair" /\ worker'[v].node = i
               \/ \E v \in Workers : /\ worker'[v].pc \in {"candidates", "update"}
                                     /\ worker'[v].node = i /\ e \in worker'[v].gone
    <3>1. CASE \E j \in jobs.byNode[i] : jobs.repair[j].swaps[meta[e].vec] > 0
      BY <3>1
    <3>2. ASSUME NEW v \in Workers, worker[v].node = i,
                 \/ worker[v].pc = "repair"
                 \/ worker[v].pc \in {"candidates", "update"} /\ e \in worker[v].gone
          PROVE  \/ worker'[v].pc = "repair" /\ worker'[v].node = i
                 \/ /\ worker'[v].pc \in {"candidates", "update"}
                    /\ worker'[v].node = i /\ e \in worker'[v].gone
      <4>1. CASE v # w
        BY <1>7, <3>2, <4>1
      <4>2. CASE v = w
        <5>1. r.pc \in {"candidates", "update"} /\ e \in r.gone
          BY <2>1, <3>2, <4>2 DEF Repairing
        <5>2. QED
          BY <1>7, <3>2, <4>2, <5>1
      <4>3. QED
        BY <4>1, <4>2
    <3>3. QED
      BY <1>1, <2>1, <3>1, <3>2 DEF EdgesIntoDeletedAreCovered
  <2>2. QED
    BY <1>3, <2>1 DEF EdgesIntoDeletedAreCovered
<1>12. QED
  BY <1>4, <1>5, <1>6, <1>8, <1>9, <1>10, <1>11 DEF DeletionInv

LEMMA LockNeighborStep ==
  ASSUME DeletionInv, NEW w \in Workers, LockNeighbor(w)
  PROVE  DeletionInv'
<1>1. worker[w].pc = "connect" /\ Inserting(w) /\ HasRoom(graph, worker[w].node)
  BY DEF LockNeighbor, Inserting
<1>2. PICK n, tried : n = worker[w].node /\ tried = worker[w].tried
  OBVIOUS
<1>3. /\ n \in Stored /\ n \in Ids /\ tried \in SUBSET Stored /\ tried \in SUBSET Ids
      /\ n \notin tried /\ InsertInv(w) /\ Stored \in SUBSET Ids
  BY <1>1, <1>2, InsertFacts
<1>4. PICK s \in Stored \ ({n} \cup tried) :
        /\ ~meta[s].inProcess /\ Free({n, s}) /\ BothAlive(n, s)
        /\ worker' = [worker EXCEPT ![w] =
             [pc |-> "link", node |-> n, target |-> s, tried |-> tried \cup {s}]]
  BY <1>2 DEF LockNeighbor
<1>5. UNCHANGED <<count, meta, lookup, unused, calls, graph, jobs, main>> /\ Stored' = Stored
  BY DEF LockNeighbor, Stored
<1>6. PICK r \in WorkerType :
        r = [pc |-> "link", node |-> n, target |-> s, tried |-> tried \cup {s}]
  BY <1>3, <1>4 DEF WorkerType
<1>7. worker' = [worker EXCEPT ![w] = r] /\ worker'[w] = r
  BY <1>4, <1>6 DEF DeletionInv, WorkersInv
<1>8. InsertInv(w)'
  <2>1. (tried \cup {s}) \ {s} = tried
    BY <1>4
  <2>2. /\ meta[n].inProcess /\ tried \subseteq Stored \ {n} /\ \A x \in tried : ~meta[x].inProcess
        /\ graph.links[n] \subseteq tried /\ \A x \in Ids : n \in graph.links[x] => x \in tried
    BY <1>1, <1>2, <1>3 DEF InsertInv, Targeting
  <2>3. /\ tried \cup {s} \subseteq Stored \ {n} /\ s \in tried \cup {s}
        /\ \A x \in tried \cup {s} : ~meta[x].inProcess
    BY <1>3, <1>4, <2>2
  <2>4. worker'[w].pc = "link" /\ worker'[w].node = n /\ worker'[w].target = s
        /\ worker'[w].tried = tried \cup {s}
    BY <1>6, <1>7
  <2>5. QED
    BY <1>1, <1>2, <1>5, <2>1, <2>2, <2>3, <2>4 DEF InsertInv, Targeting
<1>9. /\ Locks(r) = {n, s} /\ FoundAlive(r) = {n, s} /\ {n, s} \cap Deleted = {}
      /\ \A v \in Workers : Locks(worker[v]) \cap Locks(r) = {}
  BY <1>4, <1>6 DEF Locks, FoundAlive, BothAlive, Deleted, Free
<1>10. /\ r.node = worker[w].node /\ worker[w].pc # "idle" /\ worker[w].pc # "repair"
       /\ ~Repairing(w) /\ ~Repairing(w)'
  BY <1>1, <1>2, <1>6, <1>7 DEF Repairing
<1>11. FoundAlive(r) \subseteq Locks(r) /\ FoundAlive(r) \cap Deleted \subseteq Marking
  BY <1>9
<1>12. QED
  BY <1>1, <1>5, <1>7, <1>8, <1>9, <1>10, <1>11, LocalStep

LEMMA ConnectNextStep ==
  ASSUME DeletionInv, NEW w \in Workers, ConnectNext(w)
  PROVE  DeletionInv' /\ CollectedGain
<1>1. worker[w].pc = "link" /\ Inserting(w) /\ Targeting(w)
  BY DEF ConnectNext, Inserting, Targeting
<1>2. PICK n, s, tried : n = worker[w].node /\ s = worker[w].target /\ tried = worker[w].tried
  OBVIOUS
<1>3. /\ n \in Stored /\ n \in Ids /\ tried \in SUBSET Stored /\ tried \in SUBSET Ids
      /\ n \notin tried /\ InsertInv(w) /\ Exact(graph, Stored) /\ Stored \in SUBSET Ids
  BY <1>1, <1>2, InsertFacts
<1>4. /\ s \in tried /\ s \in Stored /\ s \in Ids /\ s # n /\ tried \subseteq Stored \ {n}
      /\ meta[n].inProcess /\ (\A x \in tried : ~meta[x].inProcess) /\ HasRoom(graph, n)
      /\ graph.links[n] \subseteq tried \ {s}
      /\ \A x \in Ids : n \in graph.links[x] => x \in tried \ {s}
  BY <1>1, <1>2, <1>3 DEF InsertInv
<1>5. s \notin graph.links[n] /\ n \notin graph.links[s]
  BY <1>4
<1>6. UNCHANGED <<count, meta, lookup, unused, calls, jobs, main>> /\ Stored' = Stored
  BY DEF ConnectNext, Stored
<1>7. worker \in [Workers -> WorkerType]
  BY DEF DeletionInv, WorkersInv
<1>8. CASE /\ HasRoom(graph, s) /\ graph' = ConnectBoth(graph, n, s)
           /\ worker' = [worker EXCEPT ![w] =
                [pc |-> "connect", node |-> n, tried |-> tried]]
  <2>1. /\ Exact(ConnectBoth(graph, n, s), Stored)
        /\ \A i, x \in Ids : x \in ConnectBoth(graph, n, s).links[i] <=>
             x \in graph.links[i] \/ (i = n /\ x = s) \/ (i = s /\ x = n)
    <3>1. /\ Stored \in SUBSET Ids /\ Exact(graph, Stored) /\ n \in Stored /\ s \in Stored /\ n # s
          /\ s \notin graph.links[n] /\ n \notin graph.links[s]
          /\ HasRoom(graph, n) /\ HasRoom(graph, s)
      BY <1>1, <1>2, <1>3, <1>4, <1>5, <1>8
    <3>2. QED
      BY <3>1, ConnectBothExact
  <2>2. /\ Exact(graph', Stored)
        /\ \A i, x \in Ids : x \in graph'.links[i] <=>
             x \in graph.links[i] \/ (i = n /\ x = s) \/ (i = s /\ x = n)
    BY <1>8, <2>1
  <2>3. MayGain(w, n) /\ MayGain(w, s)
    <3>1. FoundAlive(worker[w]) = {n, s} /\ FoundAlive(worker[w]) \cap Deleted \subseteq Marking
      BY <1>1, <1>2 DEF FoundAlive, DeletionInv, WorkersInv, LocksInv
    <3>2. QED
      BY <1>1, <1>2, <1>4, <3>1 DEF MayGain
  <2>4. PICK r \in WorkerType : r = [pc |-> "connect", node |-> n, tried |-> tried]
    BY <1>3 DEF WorkerType
  <2>5. worker'[w] = r
    BY <1>7, <1>8, <2>4
  <2>6. graph'.links[n] \subseteq tried
    BY <1>3, <1>4, <2>2 DEF Exact, Shaped, GraphType
  <2>7. InsertInv(w)'
    BY <1>3, <1>4, <1>6, <2>2, <2>4, <2>5, <2>6 DEF InsertInv, Targeting
  <2>8. \A i \in Ids : graph'.links[i] # graph.links[i] => i \in Locks(worker[w])
    <3>1. Locks(worker[w]) = {n, s}
      BY <1>1, <1>2 DEF Locks
    <3>2. graph.links \in [Ids -> SUBSET Ids] /\ graph'.links \in [Ids -> SUBSET Ids]
      BY <1>3, <2>2 DEF Exact, Shaped, GraphType
    <3>3. QED
      BY <2>2, <3>1, <3>2
  <2>9. QED
    BY <1>1, <1>2, <1>6, <1>8, <2>2, <2>3, <2>4, <2>7, <2>8, GraphStep
<1>9. CASE /\ UNCHANGED graph
           /\ \E kept \in Selections(graph.links[s] \cup {n}, MaxLinks) :
                worker' = [worker EXCEPT ![w] =
                  [pc |-> "revisit", node |-> n, target |-> s, tried |-> tried,
                   removed |-> (graph.links[s] \cup {n}) \ kept]]
  <2>1. PICK removed \in SUBSET Ids :
          worker' = [worker EXCEPT ![w] =
            [pc |-> "revisit", node |-> n, target |-> s, tried |-> tried, removed |-> removed]]
    BY <1>3, <1>4, <1>9 DEF Exact, Shaped, GraphType
  <2>2. PICK r \in WorkerType :
          r = [pc |-> "revisit", node |-> n, target |-> s, tried |-> tried, removed |-> removed]
    BY <1>3, <1>4 DEF WorkerType
  <2>3. worker' = [worker EXCEPT ![w] = r] /\ worker'[w] = r
    BY <1>7, <2>1, <2>2
  <2>4. InsertInv(w)'
    BY <1>3, <1>4, <1>6, <1>9, <2>2, <2>3 DEF InsertInv, Targeting
  <2>5. Locks(r) = {} /\ FoundAlive(r) = {}
    BY <2>2, NoLocks
  <2>6. /\ r.node = worker[w].node /\ worker[w].pc # "idle" /\ worker[w].pc # "repair"
        /\ ~Repairing(w) /\ ~Repairing(w)'
    BY <1>1, <1>2, <2>2, <2>3 DEF Repairing
  <2>7. QED
    BY <1>1, <1>6, <1>9, <2>3, <2>4, <2>5, <2>6, LocalStep, NoLinks
<1>10. QED
  BY <1>1, <1>2, <1>8, <1>9 DEF ConnectNext

LEMMA LockRevisitedStep ==
  ASSUME DeletionInv, NEW w \in Workers, LockRevisited(w)
  PROVE  DeletionInv'
<1>1. worker[w].pc = "revisit" /\ Inserting(w) /\ Targeting(w)
  BY DEF LockRevisited, Inserting, Targeting
<1>2. PICK n, s, tried, removed :
        /\ n = worker[w].node /\ s = worker[w].target
        /\ tried = worker[w].tried /\ removed = worker[w].removed
  OBVIOUS
<1>3. /\ n \in Ids /\ tried \in SUBSET Ids /\ InsertInv(w) /\ s \in Ids /\ removed \in SUBSET Ids
  BY <1>1, <1>2, InsertFacts, WorkerFields DEF DeletionInv
<1>4. PICK may \in BOOLEAN : may = BothAlive(n, s)
  BY DEF BothAlive
<1>5. /\ Free({n, s} \cup removed)
      /\ worker' = [worker EXCEPT ![w] = [pc |-> "relink", node |-> n, target |-> s,
                      tried |-> tried, removed |-> removed, may |-> may]]
      /\ UNCHANGED <<count, meta, lookup, unused, calls, graph, jobs, main>> /\ Stored' = Stored
  BY <1>2, <1>4 DEF LockRevisited, Stored
<1>6. PICK r \in WorkerType : r = [pc |-> "relink", node |-> n, target |-> s, tried |-> tried,
                                   removed |-> removed, may |-> may]
  BY <1>3 DEF WorkerType
<1>7. worker' = [worker EXCEPT ![w] = r] /\ worker'[w] = r
  BY <1>5, <1>6 DEF DeletionInv, WorkersInv
<1>8. InsertInv(w)'
  BY <1>1, <1>2, <1>3, <1>5, <1>6, <1>7 DEF InsertInv, Targeting
<1>9. /\ Locks(r) = {n, s} \cup removed /\ FoundAlive(r) \subseteq {n, s}
      /\ FoundAlive(r) \cap Deleted = {}
      /\ \A v \in Workers : Locks(worker[v]) \cap Locks(r) = {}
  BY <1>4, <1>5, <1>6 DEF Locks, FoundAlive, BothAlive, Deleted, Free
<1>10. /\ r.node = worker[w].node /\ worker[w].pc # "idle" /\ worker[w].pc # "repair"
       /\ ~Repairing(w) /\ ~Repairing(w)'
  BY <1>1, <1>2, <1>6, <1>7 DEF Repairing
<1>11. FoundAlive(r) \subseteq Locks(r) /\ FoundAlive(r) \cap Deleted \subseteq Marking
  BY <1>9
<1>12. QED
  BY <1>1, <1>5, <1>7, <1>8, <1>9, <1>10, <1>11, LocalStep

LEMMA RevisitStep ==
  ASSUME DeletionInv, NEW w \in Workers, RevisitNeighborConnections(w)
  PROVE  DeletionInv' /\ CollectedGain
<1>1. worker[w].pc = "relink" /\ Inserting(w) /\ Targeting(w)
  BY DEF RevisitNeighborConnections, Inserting, Targeting
<1>2. PICK n, s, tried, removed, may :
        /\ n = worker[w].node /\ s = worker[w].target /\ may = worker[w].may
        /\ tried = worker[w].tried /\ removed = worker[w].removed
  OBVIOUS
<1>3. /\ n \in Stored /\ n \in Ids /\ tried \in SUBSET Stored /\ tried \in SUBSET Ids
      /\ n \notin tried /\ InsertInv(w) /\ Exact(graph, Stored) /\ Stored \in SUBSET Ids
  BY <1>1, <1>2, InsertFacts
<1>4. /\ s \in tried /\ s \in Stored /\ s \in Ids /\ n # s
      /\ meta[n].inProcess /\ tried \subseteq Stored \ {n}
      /\ \A x \in tried : ~meta[x].inProcess
      /\ graph.links[n] \subseteq tried \ {s}
      /\ \A x \in Ids : n \in graph.links[x] => x \in tried \ {s}
  BY <1>1, <1>2, <1>3 DEF InsertInv
<1>5. UNCHANGED <<count, meta, lookup, unused, calls, jobs, main>> /\ Stored' = Stored
  BY DEF RevisitNeighborConnections, Stored
<1>6. PICK h : h = RemoveNeighbors(graph, s, (removed \ {n}) \cap graph.links[s])
  OBVIOUS
<1>7. /\ Exact(h, Stored)
      /\ \A i, x \in Ids : x \in h.links[i] <=>
           x \in graph.links[i] /\ ~(i = s /\ x \in (removed \ {n}) \cap graph.links[s])
  <2>1. (removed \ {n}) \cap graph.links[s] \in SUBSET graph.links[s]
    OBVIOUS
  <2>2. /\ Exact(RemoveNeighbors(graph, s, (removed \ {n}) \cap graph.links[s]), Stored)
        /\ \A i, x \in Ids :
             x \in RemoveNeighbors(graph, s, (removed \ {n}) \cap graph.links[s]).links[i] <=>
               x \in graph.links[i] /\ ~(i = s /\ x \in (removed \ {n}) \cap graph.links[s])
    <3>1. Stored \in SUBSET Ids /\ Exact(graph, Stored) /\ s \in Stored
      BY <1>3, <1>4
    <3>2. PICK R \in SUBSET graph.links[s] : R = (removed \ {n}) \cap graph.links[s]
      BY <2>1
    <3>3. /\ Exact(RemoveNeighbors(graph, s, R), Stored)
          /\ \A i, x \in Ids : x \in RemoveNeighbors(graph, s, R).links[i] <=>
               x \in graph.links[i] /\ ~(i = s /\ x \in R)
      BY <3>1, RemoveNeighborsExact
    <3>4. QED
      BY <3>2, <3>3
  <2>3. QED
    BY <1>6, <2>2
<1>8. n \notin graph.links[s] /\ s \notin h.links[n] /\ n \notin h.links[s]
  BY <1>3, <1>4, <1>7
<1>9. HasRoom(graph, n) => HasRoom(h, n)
  <2>1. h.links[n] = graph.links[n]
    <3>1. h.links[n] \in SUBSET Ids /\ graph.links[n] \in SUBSET Ids
      BY <1>3, <1>7 DEF Exact, Shaped, GraphType
    <3>2. \A x \in Ids : x \in h.links[n] <=> x \in graph.links[n]
      BY <1>3, <1>4, <1>7
    <3>3. QED
      BY <3>1, <3>2
  <2>2. QED
    BY <2>1 DEF HasRoom
<1>10. \/ graph' = h
       \/ may /\ HasRoom(h, n) /\ HasRoom(h, s) /\ graph' = ConnectBoth(h, n, s)
       \/ may /\ HasRoom(h, n) /\ graph' = ConnectOneWay(h, n, s)
  BY <1>2, <1>6, <1>8, <1>9 DEF RevisitNeighborConnections, RevisitNeighbor
<1>11. /\ Exact(graph', Stored)
       /\ \A i, x \in Ids : x \in graph'.links[i] =>
            x \in graph.links[i] \/ (may /\ ((i = n /\ x = s) \/ (i = s /\ x = n)))
       /\ \A i, x \in Ids : x \in graph.links[i] => x \in graph'.links[i] \/ i = s
  <2>1. CASE graph' = h
    BY <1>7, <2>1
  <2>2. CASE /\ may /\ HasRoom(h, n) /\ HasRoom(h, s)
             /\ graph' = ConnectBoth(h, n, s)
    <3>1. /\ Exact(ConnectBoth(h, n, s), Stored)
          /\ \A i, x \in Ids : x \in ConnectBoth(h, n, s).links[i] <=>
               x \in h.links[i] \/ (i = n /\ x = s) \/ (i = s /\ x = n)
      <4>1. /\ Stored \in SUBSET Ids /\ Exact(h, Stored) /\ n \in Stored /\ s \in Stored /\ n # s
            /\ s \notin h.links[n] /\ n \notin h.links[s] /\ HasRoom(h, n) /\ HasRoom(h, s)
        BY <1>3, <1>4, <1>7, <1>8, <2>2
      <4>2. QED
        BY <4>1, ConnectBothExact
    <3>2. QED
      BY <1>7, <2>2, <3>1
  <2>3. CASE may /\ HasRoom(h, n) /\ graph' = ConnectOneWay(h, n, s)
    <3>1. /\ Exact(ConnectOneWay(h, n, s), Stored)
          /\ \A i, x \in Ids : x \in ConnectOneWay(h, n, s).links[i] <=>
               x \in h.links[i] \/ (i = n /\ x = s)
      <4>1. /\ Stored \in SUBSET Ids /\ Exact(h, Stored) /\ n \in Stored /\ s \in Stored /\ n # s
            /\ s \notin h.links[n] /\ n \notin h.links[s] /\ HasRoom(h, n)
        BY <1>3, <1>4, <1>7, <1>8, <2>3
      <4>2. QED
        BY <4>1, ConnectOneWayExact
    <3>2. QED
      BY <1>7, <2>3, <3>1
  <2>4. QED
    BY <1>10, <2>1, <2>2, <2>3
<1>12. may => MayGain(w, n) /\ MayGain(w, s)
  <2>1. may => FoundAlive(worker[w]) = {n, s}
    BY <1>1, <1>2 DEF FoundAlive
  <2>2. FoundAlive(worker[w]) \cap Deleted \subseteq Marking
    BY DEF DeletionInv, WorkersInv, LocksInv
  <2>3. QED
    BY <1>1, <1>2, <1>4, <2>1, <2>2 DEF MayGain
<1>13. PICK r \in WorkerType : r = [pc |-> "connect", node |-> n, tried |-> tried]
  BY <1>3 DEF WorkerType
<1>14. worker' = [worker EXCEPT ![w] = r]
  BY <1>2, <1>13 DEF RevisitNeighborConnections
<1>15. worker'[w] = r
  BY <1>14 DEF DeletionInv, WorkersInv
<1>16. graph'.links[n] \subseteq tried
  BY <1>3, <1>4, <1>11 DEF Exact, Shaped, GraphType
<1>17. InsertInv(w)'
  BY <1>3, <1>4, <1>5, <1>11, <1>13, <1>15, <1>16 DEF InsertInv, Targeting
<1>18. \A i \in Ids : graph'.links[i] # graph.links[i] => i \in Locks(worker[w])
  <2>1. n \in Locks(worker[w]) /\ s \in Locks(worker[w])
    BY <1>1, <1>2 DEF Locks
  <2>2. graph.links \in [Ids -> SUBSET Ids] /\ graph'.links \in [Ids -> SUBSET Ids]
    BY <1>3, <1>11 DEF Exact, Shaped, GraphType
  <2>3. \A i, x \in Ids : i # n /\ i # s => (x \in graph'.links[i] <=> x \in graph.links[i])
    BY <1>11
  <2>4. QED
    BY <2>1, <2>2, <2>3
<1>19. QED
  BY <1>1, <1>2, <1>5, <1>11, <1>12, <1>13, <1>14, <1>17, <1>18, GraphStep

LEMMA LockNodesStep ==
  ASSUME DeletionInv, NEW w \in Workers, LockNodesToUpdate(w)
  PROVE  DeletionInv'
<1>1. worker[w].pc = "candidates" /\ worker[w].pc # "idle" /\ ~Inserting(w) /\ Repairing(w)
  BY DEF LockNodesToUpdate, Inserting, Repairing
<1>2. PICK u, r0 : u = worker[w].node /\ r0 = worker[w]
  OBVIOUS
<1>3. Exact(graph, Stored) /\ Stored \in SUBSET Ids /\ Deleted \in SUBSET Stored
  BY <1>1, ActiveShares
<1>4. u \in Stored /\ u \in Ids /\ RepairInv(w) /\ worker \in [Workers -> WorkerType]
  BY <1>1, <1>2, <1>3 DEF DeletionInv, WorkersInv
<1>5. r0.orig \in SUBSET Ids /\ r0.gone \in SUBSET Ids
  BY <1>1, <1>2, WorkerFields DEF DeletionInv
<1>6. PICK chosen \in SUBSET r0.cands :
        /\ Free({u} \cup r0.orig \cup chosen)
        /\ worker' = [worker EXCEPT ![w] =
             [pc |-> "update", node |-> u, orig |-> r0.orig, gone |-> r0.gone, cands |-> chosen,
              todo |-> chosen \ graph.links[u], eligible |-> {}]]
  BY <1>2 DEF LockNodesToUpdate, Selections
<1>7. UNCHANGED <<count, meta, lookup, unused, calls, graph, jobs, main>>
  BY DEF LockNodesToUpdate
<1>8. /\ r0.cands \subseteq Stored \ {u} /\ r0.cands \cap r0.gone = {}
      /\ r0.gone \subseteq r0.orig \cap Deleted
  BY <1>2, <1>4 DEF RepairInv
<1>9. chosen \subseteq Stored \ {u} /\ chosen \in SUBSET Ids /\ chosen \cap r0.gone = {}
  BY <1>3, <1>6, <1>8
<1>10. PICK r \in WorkerType :
         r = [pc |-> "update", node |-> u, orig |-> r0.orig, gone |-> r0.gone, cands |-> chosen,
              todo |-> chosen \ graph.links[u], eligible |-> {}]
  BY <1>4, <1>5, <1>9 DEF WorkerType
<1>11. worker' = [worker EXCEPT ![w] = r] /\ worker'[w] = r
  BY <1>4, <1>6, <1>10
<1>12. ~Inserting(w)'
  BY <1>10, <1>11 DEF Inserting
<1>13. RepairInv(w)'
  <2>1. Deleted' = Deleted /\ Stored' = Stored
    BY <1>7 DEF Deleted, Stored
  <2>2. QED
    BY <1>8, <1>9, <1>10, <1>11, <2>1 DEF RepairInv
<1>14. /\ Locks(r) = {u} \cup r0.orig \cup chosen /\ FoundAlive(r) = {}
       /\ \A v \in Workers : Locks(worker[v]) \cap Locks(r) = {}
  BY <1>6, <1>10 DEF Locks, FoundAlive, Free
<1>15. r.pc = "update" /\ r.node = u /\ r.gone = worker[w].gone
  BY <1>2, <1>10
<1>16. QED
  BY <1>1, <1>2, <1>7, <1>10, <1>11, <1>12, <1>13, <1>14, <1>15, LocalStep

LEMMA CheckChosenStep ==
  ASSUME DeletionInv, NEW w \in Workers, CheckChosen(w)
  PROVE  DeletionInv'
<1>1. worker[w].pc = "update" /\ worker[w].pc # "idle" /\ ~Inserting(w) /\ Repairing(w)
  BY DEF CheckChosen, Inserting, Repairing
<1>2. PICK u, r0 : u = worker[w].node /\ r0 = worker[w]
  OBVIOUS
<1>3. WorkersInv /\ worker \in [Workers -> WorkerType] /\ RepairInv(w) /\ LocksInv
  BY <1>1 DEF DeletionInv, WorkersInv
<1>4. r0 \in [pc : {"update"}, node : Ids, orig : SUBSET Ids, gone : SUBSET Ids,
              todo : SUBSET Ids, cands : SUBSET Ids, eligible : SUBSET Ids]
  BY <1>1, <1>2, <1>3 DEF WorkerType, Idle
<1>5. PICK c \in r0.todo :
        worker' = [worker EXCEPT
          ![w].todo = IF MayLink(u) THEN @ \ {c} ELSE {},
          ![w].eligible = IF Eligible(u, c) THEN @ \cup {c} ELSE @]
  BY <1>2 DEF CheckChosen
<1>6. UNCHANGED <<count, meta, lookup, unused, calls, graph, jobs, main>>
  BY DEF CheckChosen
<1>7. PICK todo, eligible : /\ todo = IF MayLink(u) THEN r0.todo \ {c} ELSE {}
                            /\ eligible = IF Eligible(u, c) THEN r0.eligible \cup {c}
                                          ELSE r0.eligible
  OBVIOUS
<1>8. /\ todo \subseteq r0.todo /\ todo \in SUBSET Ids /\ eligible \in SUBSET Ids
      /\ r0.eligible \subseteq eligible /\ eligible \subseteq r0.eligible \cup {c}
      /\ eligible # r0.eligible => MayLink(u) /\ MayLink(c) /\ c \in eligible
  BY <1>4, <1>5, <1>7 DEF Eligible
<1>9. PICK r \in WorkerType : r = [r0 EXCEPT !.todo = todo, !.eligible = eligible]
  <2>1. [r0 EXCEPT !.todo = todo, !.eligible = eligible] \in
          [pc : {"update"}, node : Ids, orig : SUBSET Ids, gone : SUBSET Ids,
           todo : SUBSET Ids, cands : SUBSET Ids, eligible : SUBSET Ids]
    BY <1>4, <1>8
  <2>2. QED
    BY <2>1 DEF WorkerType
<1>10. /\ r.pc = "update" /\ r.node = u /\ r.orig = r0.orig /\ r.gone = r0.gone
       /\ r.cands = r0.cands /\ r.todo = todo /\ r.eligible = eligible
  BY <1>2, <1>4, <1>9
<1>11. worker' = [worker EXCEPT ![w] = r] /\ worker'[w] = r
  BY <1>2, <1>3, <1>5, <1>7, <1>9
<1>12. ~Inserting(w)'
  BY <1>10, <1>11 DEF Inserting
<1>13. RepairInv(w)'
  <2>1. Deleted' = Deleted /\ Stored' = Stored
    BY <1>6 DEF Deleted, Stored
  <2>2. /\ r0.gone \subseteq r0.orig \cap Deleted /\ r0.cands \cap r0.gone = {}
        /\ r0.todo \subseteq Stored /\ r0.cands \subseteq Stored \ {u}
        /\ \A x \in r0.eligible : ~meta[x].inProcess /\ ~meta[u].inProcess
        /\ r0.todo \cup r0.eligible \subseteq r0.cands
    BY <1>1, <1>2, <1>3 DEF RepairInv
  <2>3. \A x \in eligible : ~meta[x].inProcess /\ ~meta[u].inProcess
    BY <1>8, <2>2 DEF MayLink
  <2>4. QED
    BY <1>6, <1>8, <1>10, <1>11, <2>1, <2>2, <2>3 DEF RepairInv
<1>14. Locks(r) = Locks(r0)
  BY <1>4, <1>10, <1>2 DEF Locks
<1>15. \A v \in Workers \ {w} : Locks(worker[v]) \cap Locks(r) = {}
  BY <1>2, <1>3, <1>14 DEF LocksInv
<1>16. FoundAlive(r) \subseteq Locks(r) /\ FoundAlive(r) \cap Deleted \subseteq Marking
  <2>1. FoundAlive(r) = IF eligible # {} THEN {u} \cup eligible ELSE {}
    BY <1>10 DEF FoundAlive
  <2>2. FoundAlive(r0) = IF r0.eligible # {} THEN {u} \cup r0.eligible ELSE {}
    BY <1>1, <1>2 DEF FoundAlive
  <2>3. FoundAlive(r0) \subseteq Locks(r0) /\ FoundAlive(r0) \cap Deleted \subseteq Marking
    BY <1>2, <1>3 DEF LocksInv
  <2>4. CASE eligible = r0.eligible
    BY <1>14, <2>1, <2>2, <2>3, <2>4
  <2>5. CASE eligible # r0.eligible
    <3>1. u \notin Deleted /\ c \notin Deleted
      BY <1>8, <2>5 DEF MayLink, Deleted
    <3>2. Locks(r) = {u} \cup r0.orig \cup r0.cands
      BY <1>1, <1>2, <1>14 DEF Locks
    <3>3. c \in r0.cands
      BY <1>1, <1>2, <1>3, <1>5 DEF RepairInv
    <3>4. \A x \in FoundAlive(r) : x = u \/ x = c \/ x \in FoundAlive(r0)
      BY <1>8, <2>1, <2>2
    <3>5. QED
      BY <1>14, <2>3, <3>1, <3>2, <3>3, <3>4
  <2>6. QED
    BY <2>4, <2>5
<1>17. QED
  BY <1>1, <1>2, <1>6, <1>9, <1>10, <1>11, <1>12, <1>13, <1>15, <1>16, LocalStep

LEMMA UpdateRepairedStep ==
  ASSUME DeletionInv, NEW w \in Workers, UpdateRepairedNode(w)
  PROVE  DeletionInv' /\ CollectedGain
<1>1. worker[w].pc = "update" /\ worker[w].pc # "idle" /\ ~Inserting(w) /\ Repairing(w)
  BY DEF UpdateRepairedNode, Inserting, Repairing
<1>2. PICK u, r : u = worker[w].node /\ r = worker[w]
  OBVIOUS
<1>3. Exact(graph, Stored) /\ Stored \in SUBSET Ids /\ Deleted \in SUBSET Stored
  BY <1>1, ActiveShares
<1>4. u \in Stored /\ u \in Ids /\ RepairInv(w) /\ LocksInv
  BY <1>1, <1>2, <1>3 DEF DeletionInv, WorkersInv
<1>5. graph' \in RepairOutcomes(graph, u, r.orig \cup r.cands, r.cands, r.eligible)
  BY <1>2 DEF UpdateRepairedNode
<1>6. r.orig \in SUBSET Ids
  BY <1>1, <1>2, WorkerFields DEF DeletionInv
<1>7. /\ r.cands \in SUBSET (Stored \ {u}) /\ r.cands \cap r.gone = {}
      /\ r.gone \subseteq r.orig \cap Deleted
      /\ \A x \in r.eligible : ~meta[x].inProcess /\ ~meta[u].inProcess
  BY <1>1, <1>2, <1>4 DEF RepairInv
<1>8. PICK T, h : T = r.orig \cup r.cands /\ h = graph'
  OBVIOUS
<1>9. RepairedFrom(graph, h, Stored, u, T, r.cands, r.eligible)
  <2>1. /\ Stored \in SUBSET Ids /\ Exact(graph, Stored) /\ u \in Stored
        /\ r.cands \in SUBSET (Stored \ {u})
        /\ h \in RepairOutcomes(graph, u, T, r.cands, r.eligible)
    BY <1>3, <1>4, <1>5, <1>7, <1>8
  <2>2. QED
    BY <2>1, RepairExact
<1>10. /\ Exact(graph', Stored)
       /\ \A i, x \in Ids : x \in graph'.links[i] =>
            \/ x \in graph.links[i] /\ ~(i = u /\ x \in T \ r.cands)
            \/ i = u /\ x \in r.cands \cap r.eligible
  BY <1>8, <1>9 DEF RepairedFrom
<1>11. \A x \in r.cands \cap r.eligible : MayGain(w, u) /\ MayGain(w, x)
  <2>1. ASSUME NEW x \in r.cands \cap r.eligible PROVE MayGain(w, u) /\ MayGain(w, x)
    <3>1. FoundAlive(r) = {u} \cup r.eligible
      BY <1>1, <1>2, <2>1 DEF FoundAlive
    <3>2. FoundAlive(r) \cap Deleted \subseteq Marking
      BY <1>2, <1>4 DEF LocksInv
    <3>3. QED
      BY <1>7, <2>1, <3>1, <3>2 DEF MayGain
  <2>2. QED
    BY <2>1
<1>12. \A e \in r.gone : e \notin graph'.links[u]
  <2>1. ASSUME NEW e \in r.gone, e \in graph'.links[u] PROVE FALSE
    <3>1. e \in Ids /\ e \in T /\ e \notin r.cands
      BY <1>3, <1>7, <1>8, <2>1
    <3>2. QED
      BY <1>4, <1>10, <2>1, <3>1
  <2>2. QED
    BY <2>1
<1>13. \A i \in Ids : graph'.links[i] # graph.links[i] => i \in Locks(worker[w])
  <2>1. Locks(worker[w]) = {u} \cup T
    BY <1>1, <1>2, <1>8 DEF Locks
  <2>2. \A i, x \in Ids : i # u => (x \in graph'.links[i] <=> x \in graph.links[i])
    BY <1>8, <1>9, <1>10 DEF RepairedFrom
  <2>3. graph.links \in [Ids -> SUBSET Ids] /\ graph'.links \in [Ids -> SUBSET Ids]
    BY <1>3, <1>10 DEF Exact, Shaped, GraphType
  <2>4. QED
    BY <2>1, <2>2, <2>3
<1>14. /\ UNCHANGED <<count, meta, lookup, unused, calls, jobs, main>>
       /\ worker' = [worker EXCEPT ![w] = Idle] /\ Idle \in WorkerType /\ Idle.pc = "idle"
  BY DEF UpdateRepairedNode, WorkerType, Idle
<1>15. QED
  BY <1>1, <1>2, <1>10, <1>11, <1>12, <1>13, <1>14, GraphStep

\* In a single-value index the label tells the vector.
LEMMA OneVector ==
  ASSUME SingleValue
  PROVE  /\ \A v, x \in Vecs : LabelOf[v] = LabelOf[x] => v = x
         /\ \A v \in Vecs : LabelOf[v] \in Labels
BY DeletionAssumption DEF SingleValue, IsInjective

LEMMA StoreNewStep ==
  ASSUME DeletionInv, SingleValue, NEW w \in Workers, StoreNewElement(w)
  PROVE  DeletionInv'
<1>1. /\ ElementsInv /\ LookupInv /\ WorkersInv /\ MainInv /\ JobsInv
      /\ EdgesIntoDeletedAreCovered
  BY DEF DeletionInv
<1>2. /\ ~OwnsMain /\ main.pc \notin {"gc", "inplace", "unlink"}
      /\ Exact(graph, Stored) /\ Stored \in SUBSET Ids /\ Deleted \in SUBSET Stored
      /\ Collected \in SUBSET Deleted
  BY ActiveShares DEF StoreNewElement
<1>3. PICK v \in unused :
        /\ unused' = unused \ {v}
        /\ meta' = [meta EXCEPT ![count + 1] = [vec |-> v, deleted |-> FALSE, inProcess |-> TRUE]]
        /\ lookup' = [lookup EXCEPT ![LabelOf[v]] = Append(@, count + 1)]
  BY DEF StoreNewElement
<1>4. /\ worker[w].pc = "idle" /\ calls < MaxCalls /\ calls' = calls + 1 /\ count' = count + 1
      /\ worker' = [worker EXCEPT ![w] = [pc |-> "connect", node |-> count + 1, tried |-> {}]]
      /\ UNCHANGED <<graph, jobs, main>>
  BY DEF StoreNewElement
<1>5. PICK n : n = count + 1
  OBVIOUS
<1>6. /\ n \in Ids /\ n \notin Stored /\ Stored' = Stored \cup {n} /\ v \in Vecs /\ n # 0
      /\ count \in Nat
  BY <1>1, <1>3, <1>4, <1>5, Storage DEF Stored, ElementsInv
<1>7. /\ meta' \in [Ids -> [vec : Vecs \cup {NoVec}, deleted : BOOLEAN, inProcess : BOOLEAN]]
      /\ \A i \in Ids : meta'[i] = IF i = n THEN [vec |-> v, deleted |-> FALSE, inProcess |-> TRUE]
                                   ELSE meta[i]
  BY <1>1, <1>3, <1>5, <1>6 DEF ElementsInv
<1>8. Deleted' = Deleted
  BY <1>2, <1>6, <1>7 DEF Deleted
<1>9. Collected' = Collected /\ Uncollected' = Uncollected
  BY <1>4, <1>8 DEF Collected, Uncollected
<1>10. ElementsInv'
  <2>1. count' + Cardinality(unused') <= Cardinality(Vecs)
    <3>1. unused \in SUBSET Vecs /\ count + Cardinality(unused) <= Cardinality(Vecs)
      BY <1>1 DEF ElementsInv
    <3>2. /\ Cardinality(unused') = Cardinality(unused) - 1
          /\ Cardinality(unused) \in Nat /\ Cardinality(Vecs) \in Nat
      BY <1>3, <1>6, <3>1, VecSets, IdsFacts
    <3>3. QED
      BY <1>4, <1>6, <3>1, <3>2
  <2>2. calls' \in Nat /\ count' \in Nat /\ unused' \subseteq Vecs
    BY <1>1, <1>3, <1>4 DEF ElementsInv
  <2>3. \A i \in Ids : i \in Stored' <=> meta'[i].vec # NoVec
    <3>1. v # NoVec
      BY <1>6, DeletionAssumption
    <3>2. QED
      BY <1>1, <1>6, <1>7, <3>1 DEF ElementsInv
  <2>4. \A i \in Stored' : meta'[i].vec \notin unused'
    BY <1>1, <1>2, <1>3, <1>6, <1>7 DEF ElementsInv
  <2>5. \A i, k \in Stored' : meta'[i].vec = meta'[k].vec => i = k
    BY <1>1, <1>2, <1>3, <1>6, <1>7 DEF ElementsInv
  <2>6. QED
    BY <1>7, <2>1, <2>2, <2>3, <2>4, <2>5 DEF ElementsInv
<1>11. LookupInv'
  <2>1. \A l \in Labels : ~Outdated(l) /\ ~Outdated(l)'
    BY <1>2, <1>4 DEF Outdated
  <2>2. PICK l0 \in Labels : l0 = LabelOf[v]
    BY <1>6, DeletionAssumption
  <2>3. lookup[l0] \in Seq(Ids) /\ Len(lookup[l0]) <= 1
    BY <1>1 DEF LookupInv
  <2>4. Range(lookup[l0]) = {}
    <3>1. Range(lookup[l0]) = {i \in Stored : ~meta[i].deleted /\ LabelOf[meta[i].vec] = l0}
      BY <1>1, <2>1 DEF LookupInv
    <3>2. \A i \in Stored : meta[i].vec \in Vecs /\ meta[i].vec # v
      BY <1>1, <1>2, <1>3, MetaFields DEF ElementsInv
    <3>3. \A i \in Stored : LabelOf[meta[i].vec] # l0
      BY <1>6, <2>2, <3>2, OneVector
    <3>4. QED
      BY <3>1, <3>3
  <2>5. lookup[l0] = <<>>
    BY <2>3, <2>4, ShortSeqs
  <2>6. /\ lookup' \in [Labels -> Seq(Ids)]
        /\ \A l \in Labels : lookup'[l] = IF l = l0 THEN <<n>> ELSE lookup[l]
    <3>1. Append(lookup[l0], n) = <<n>> /\ <<n>> \in Seq(Ids)
      BY <1>6, <2>5
    <3>2. QED
      BY <1>1, <1>3, <1>5, <2>2, <3>1 DEF LookupInv
  <2>7. ASSUME NEW l \in Labels
        PROVE  /\ Len(lookup'[l]) <= 1
               /\ {i \in Stored' : ~meta'[i].deleted /\ LabelOf[meta'[i].vec] = l} = Range(lookup'[l])
    <3>1. \A i \in Stored : meta'[i] = meta[i]
      BY <1>2, <1>6, <1>7
    <3>2. ~meta'[n].deleted /\ meta'[n].vec = v
      BY <1>6, <1>7
    <3>3. {i \in Stored : ~meta[i].deleted /\ LabelOf[meta[i].vec] = l} = Range(lookup[l])
      BY <1>1, <2>1 DEF LookupInv
    <3>4. CASE l = l0
      <4>1. lookup'[l] = <<n>>
        BY <2>6, <3>4
      <4>2. Range(<<n>>) = {n} /\ Len(<<n>>) = 1
        BY DEF Range
      <4>3. {i \in Stored' : ~meta'[i].deleted /\ LabelOf[meta'[i].vec] = l} = {n}
        BY <1>6, <2>2, <2>4, <3>1, <3>2, <3>3, <3>4
      <4>4. QED
        BY <4>1, <4>2, <4>3
    <3>5. CASE l # l0
      <4>1. lookup'[l] = lookup[l] /\ Len(lookup[l]) <= 1
        BY <1>1, <2>6, <3>5 DEF LookupInv
      <4>2. {i \in Stored' : ~meta'[i].deleted /\ LabelOf[meta'[i].vec] = l} = Range(lookup[l])
        BY <1>6, <2>2, <3>1, <3>2, <3>3, <3>5
      <4>3. QED
        BY <4>1, <4>2
    <3>6. QED
      BY <3>4, <3>5
  <2>8. QED
    BY <2>1, <2>6, <2>7 DEF LookupInv
<1>12. Exact(graph, Stored')
  <2>1. \A i \in Ids : /\ graph.links[i] \subseteq Stored' \ {i}
                       /\ Cardinality(graph.links[i]) <= MaxLinks
    BY <1>2, <1>6 DEF Exact, Shaped
  <2>2. QED
    BY <1>2, <1>6, <2>1 DEF Exact, Shaped
<1>13. GraphInv'
  BY <1>2, <1>4, <1>12 DEF GraphInv
<1>14. WorkersInv'
  <2>1. [pc |-> "connect", node |-> n, tried |-> {}] \in WorkerType
    BY <1>6 DEF WorkerType
  <2>2. /\ worker' \in [Workers -> WorkerType]
        /\ \A x \in Workers : worker'[x] = IF x = w THEN [pc |-> "connect", node |-> n, tried |-> {}]
                                           ELSE worker[x]
    BY <1>1, <1>4, <1>5, <2>1 DEF WorkersInv
  <2>3. ASSUME NEW x \in Workers
        PROVE  /\ worker'[x].pc # "idle" => worker'[x].node \in Stored'
               /\ Inserting(x)' => InsertInv(x)'
               /\ Repairing(x)' => RepairInv(x)'
    <3>1. CASE x = w
      <4>1. worker'[x] = [pc |-> "connect", node |-> n, tried |-> {}]
        BY <2>2, <3>1
      <4>2. graph.links[n] = {} /\ \A s \in Ids : n \notin graph.links[s]
        BY <1>2, <1>6 DEF Exact, Shaped
      <4>3. InsertInv(x)'
        BY <1>4, <1>6, <1>7, <4>1, <4>2 DEF InsertInv, Targeting
      <4>4. QED
        BY <1>6, <4>1, <4>3 DEF Repairing
    <3>2. CASE x # w
      <4>1. worker'[x] = worker[x]
        BY <2>2, <3>2
      <4>2. worker[x].pc # "idle" => worker[x].node \in Stored /\ worker[x].node # n
        BY <1>1, <1>6 DEF WorkersInv
      <4>3. ASSUME Inserting(x) PROVE InsertInv(x)'
        <5>1. InsertInv(x) /\ worker[x].node \in Stored /\ worker[x].node \in Ids
          BY <1>1, <1>2, <4>2, <4>3 DEF WorkersInv, Inserting
        <5>2. \A s \in worker[x].tried : s \in Stored /\ meta'[s] = meta[s]
          BY <1>2, <1>6, <1>7, <5>1 DEF InsertInv
        <5>3. meta'[worker[x].node] = meta[worker[x].node]
          BY <1>6, <1>7, <5>1
        <5>4. QED
          BY <1>4, <1>6, <4>1, <5>1, <5>2, <5>3 DEF InsertInv, Targeting
      <4>4. ASSUME Repairing(x) PROVE RepairInv(x)'
        <5>1. /\ RepairInv(x) /\ worker[x].node \in Stored
              /\ worker[x].pc = "update" => worker[x].eligible \in SUBSET Ids
          BY <1>1, <4>4, WorkerFields DEF WorkersInv, Repairing
        <5>2. ASSUME worker[x].pc = "update"
              PROVE  \A c \in worker[x].eligible : ~meta'[c].inProcess /\ ~meta'[worker[x].node].inProcess
          <6>1. worker[x].eligible \subseteq Stored
            BY <5>1, <5>2 DEF RepairInv
          <6>2. QED
            BY <1>2, <1>6, <1>7, <5>1, <5>2, <6>1 DEF RepairInv
        <5>3. QED
          BY <1>6, <1>8, <4>1, <5>1, <5>2 DEF RepairInv
      <4>5. QED
        BY <1>6, <4>1, <4>2, <4>3, <4>4 DEF Inserting, Repairing
    <3>3. QED
      BY <3>1, <3>2
  <2>4. ASSUME NEW x \in Workers, NEW y \in Workers, Inserting(x)', Inserting(y)',
               worker'[x].node = worker'[y].node
        PROVE  x = y
    <3>1. \A z \in Workers \ {w} : Inserting(z)' => /\ Inserting(z) /\ worker'[z].node = worker[z].node
                                                    /\ worker[z].node \in Stored
      BY <1>1, <2>2 DEF WorkersInv, Inserting
    <3>2. worker'[w].node = n
      BY <2>2
    <3>3. CASE x # w /\ y # w
      BY <1>1, <2>4, <3>1, <3>3 DEF WorkersInv
    <3>4. CASE x = w \/ y = w
      BY <1>6, <2>4, <3>1, <3>2, <3>4
    <3>5. QED
      BY <3>3, <3>4
  <2>5. LocksInv'
    <3>1. LocksInv /\ Deleted' \ Marking' = Deleted \ Marking
      BY <1>1, <1>4, <1>8 DEF WorkersInv, Marking
    <3>2. QED
      BY <2>2, <3>1, LocksFrame
  <2>6. QED
    BY <2>2, <2>3, <2>4, <2>5 DEF WorkersInv
<1>15. MainInv'
  <2>1. CollectInv' /\ InplaceInv'
    BY <1>1, <1>2, <1>4, <1>6, <1>8 DEF MainInv, CollectInv, InplaceInv
  <2>2. QED
    BY <1>1, <1>2, <1>4, <2>1 DEF MainInv, OwnsMain
<1>16. JobsInv'
  <2>1. ToRemove' = ToRemove /\ Executed' = Executed
    BY <1>4 DEF ToRemove, Executed, OwnsMain
  <2>2. \A i \in Collected : meta'[i].vec = meta[i].vec
    BY <1>2, <1>6, <1>7
  <2>3. QED
    BY <1>1, <1>2, <1>4, <1>6, <1>9, <2>1, <2>2, JobsFrame
<1>17. EdgesIntoDeletedAreCovered'
  <2>1. ASSUME NEW i \in Stored', NEW e \in Deleted' \ Uncollected', e \in graph.links[i]
        PROVE  \/ \E j \in jobs.byNode[i] : jobs.repair[j].swaps[meta'[e].vec] > 0
               \/ \E x \in Workers : worker'[x].pc = "repair" /\ worker'[x].node = i
               \/ \E x \in Workers : /\ worker'[x].pc \in {"candidates", "update"}
                                     /\ worker'[x].node = i /\ e \in worker'[x].gone
    <3>1. i \in Stored /\ e \in Deleted \ Uncollected
      <4>1. graph.links[n] = {}
        BY <1>2, <1>6 DEF Exact, Shaped
      <4>2. QED
        BY <1>6, <1>8, <1>9, <2>1, <4>1
    <3>2. meta'[e] = meta[e]
      BY <1>2, <1>6, <1>7, <3>1
    <3>3. \A x \in Workers : worker[x].pc # "idle" => worker'[x] = worker[x]
      BY <1>1, <1>4 DEF WorkersInv
    <3>4. QED
      BY <1>1, <2>1, <3>1, <3>2, <3>3 DEF EdgesIntoDeletedAreCovered
  <2>2. QED
    BY <1>4, <2>1 DEF EdgesIntoDeletedAreCovered
<1>18. QED
  BY <1>10, <1>11, <1>13, <1>14, <1>15, <1>16, <1>17 DEF DeletionInv

LEMMA UnmarkStep ==
  ASSUME DeletionInv, NEW w \in Workers, UnmarkInProcess(w)
  PROVE  DeletionInv'
<1>1. /\ ElementsInv /\ LookupInv /\ WorkersInv /\ MainInv /\ JobsInv
      /\ EdgesIntoDeletedAreCovered
  BY DEF DeletionInv
<1>2. PICK n : n = worker[w].node
  OBVIOUS
<1>3. /\ worker[w].pc = "connect" /\ Inserting(w)
      /\ meta' = [meta EXCEPT ![n].inProcess = FALSE] /\ worker' = [worker EXCEPT ![w] = Idle]
      /\ UNCHANGED <<count, lookup, unused, calls, graph, jobs, main>>
  BY <1>2 DEF UnmarkInProcess, Inserting
<1>4. /\ ~OwnsMain /\ main.pc \notin {"gc", "inplace", "unlink"}
      /\ Exact(graph, Stored) /\ Stored \in SUBSET Ids /\ Deleted \in SUBSET Stored
      /\ Collected \in SUBSET Deleted
  BY <1>3, ActiveShares
<1>5. n \in Ids /\ Stored' = Stored
  BY <1>1, <1>2, <1>3, <1>4 DEF WorkersInv, Stored
<1>6. /\ meta' \in [Ids -> [vec : Vecs \cup {NoVec}, deleted : BOOLEAN, inProcess : BOOLEAN]]
      /\ \A i \in Ids : /\ meta'[i].vec = meta[i].vec /\ meta'[i].deleted = meta[i].deleted
                        /\ meta'[i].inProcess = IF i = n THEN FALSE ELSE meta[i].inProcess
  BY <1>1, <1>3, <1>5 DEF ElementsInv
<1>7. /\ Deleted' = Deleted /\ Collected' = Collected /\ Uncollected' = Uncollected
      /\ ToRemove' = ToRemove /\ Executed' = Executed /\ OwnsMain' = OwnsMain
  <2>1. Deleted' = Deleted
    BY <1>4, <1>5, <1>6 DEF Deleted
  <2>2. QED
    BY <1>3, <2>1 DEF Collected, Uncollected, ToRemove, Executed, OwnsMain
<1>8. ElementsInv'
  BY <1>1, <1>3, <1>4, <1>5, <1>6 DEF ElementsInv
<1>9. LookupInv'
  <2>1. \A l \in Labels : Outdated(l)' <=> Outdated(l)
    BY <1>3 DEF Outdated
  <2>2. \A l \in Labels : {i \in Stored' : ~meta'[i].deleted /\ LabelOf[meta'[i].vec] = l} =
                          {i \in Stored : ~meta[i].deleted /\ LabelOf[meta[i].vec] = l}
    BY <1>4, <1>5, <1>6
  <2>3. QED
    BY <1>1, <1>3, <2>1, <2>2 DEF LookupInv
<1>10. GraphInv'
  BY <1>3, <1>4, <1>5 DEF GraphInv
<1>11. \A v \in Workers : worker'[v] = IF v = w THEN Idle ELSE worker[v]
  BY <1>1, <1>3 DEF WorkersInv
<1>12. WorkersInv'
  <2>1. worker' \in [Workers -> WorkerType]
    BY <1>1, <1>3 DEF WorkersInv, WorkerType
  <2>2. \A v \in Workers : Inserting(v)' => v # w /\ Inserting(v)
    BY <1>11 DEF Inserting, Idle
  <2>3. ASSUME NEW v \in Workers, Inserting(v)' PROVE InsertInv(v)'
    <3>1. /\ v # w /\ Inserting(v) /\ worker'[v] = worker[v] /\ InsertInv(v)
          /\ worker[v].node \in Ids /\ worker[v].node # n
      BY <1>1, <1>2, <1>3, <1>4, <1>11, <2>2, <2>3 DEF WorkersInv, Inserting
    <3>2. \A s \in worker[v].tried : s \in Ids
      BY <1>4, <3>1 DEF InsertInv
    <3>3. QED
      BY <1>3, <1>5, <1>6, <3>1, <3>2 DEF InsertInv, Targeting
  <2>4. ASSUME NEW v \in Workers
        PROVE  /\ worker'[v].pc # "idle" => worker'[v].node \in Stored'
               /\ Repairing(v)' => RepairInv(v)'
    <3>1. CASE v = w
      BY <1>11, <3>1 DEF Idle, Repairing
    <3>2. CASE v # w
      <4>1. worker'[v] = worker[v] /\ (worker[v].pc # "idle" => worker[v].node \in Stored)
        BY <1>1, <1>11, <3>2 DEF WorkersInv
      <4>2. ASSUME Repairing(v) PROVE RepairInv(v)'
        <5>1. RepairInv(v) /\ worker[v].node \in Ids /\ worker[v].cands \subseteq Ids
          BY <1>1, <4>2, WorkerFields DEF WorkersInv, Repairing
        <5>2. \A i \in Ids : ~meta[i].inProcess => ~meta'[i].inProcess
          BY <1>6
        <5>3. QED
          BY <1>5, <1>7, <4>1, <5>1, <5>2 DEF RepairInv
      <4>3. QED
        BY <1>5, <4>1, <4>2 DEF Repairing
    <3>3. QED
      BY <3>1, <3>2
  <2>5. LocksInv'
    <3>1. /\ LocksInv /\ Deleted' \ Marking' = Deleted \ Marking
          /\ \A v \in Workers : worker'[v] = worker[v] \/ worker'[v].pc = "idle"
      BY <1>1, <1>3, <1>7, <1>11 DEF WorkersInv, Marking, Idle
    <3>2. QED
      BY <3>1, LocksFrame
  <2>6. QED
    BY <1>1, <1>11, <2>1, <2>2, <2>3, <2>4, <2>5 DEF WorkersInv
<1>13. MainInv'
  <2>1. CollectInv' /\ InplaceInv'
    BY <1>1, <1>3, <1>5, <1>7 DEF MainInv, CollectInv, InplaceInv
  <2>2. QED
    BY <1>1, <1>3, <1>4, <1>7, <2>1 DEF MainInv
<1>14. JobsInv'
  BY <1>1, <1>3, <1>4, <1>5, <1>6, <1>7, JobsFrame
<1>15. EdgesIntoDeletedAreCovered'
  <2>1. \A e \in Deleted : meta'[e].vec = meta[e].vec
    BY <1>4, <1>6
  <2>2. \A v \in Workers : worker[v].pc \in {"repair", "candidates", "update"} => worker'[v] = worker[v]
    BY <1>3, <1>11
  <2>3. QED
    BY <1>1, <1>3, <1>5, <1>7, <2>1, <2>2 DEF EdgesIntoDeletedAreCovered
<1>16. QED
  BY <1>8, <1>9, <1>10, <1>12, <1>13, <1>14, <1>15 DEF DeletionInv

LEMMA CollectNeighborsStep ==
  ASSUME DeletionInv, NEW w \in Workers, CollectNeighbors(w)
  PROVE  DeletionInv'
<1>1. PICK u, gone : u = worker[w].node /\ gone = graph.links[u] \cap Deleted
  OBVIOUS
<1>2. /\ worker[w].pc = "repair"
      /\ worker' = [worker EXCEPT ![w] =
           IF gone = {} THEN Idle
           ELSE [pc |-> "candidates", node |-> u, orig |-> graph.links[u], gone |-> gone,
                 todo |-> gone, cands |-> graph.links[u] \ gone]]
      /\ UNCHANGED <<count, meta, lookup, unused, calls, graph, jobs, main>>
  BY <1>1 DEF CollectNeighbors
<1>3. /\ Exact(graph, Stored) /\ Stored \in SUBSET Ids /\ Deleted \in SUBSET Stored
  BY <1>2, ActiveShares
<1>4. WorkersInv /\ worker \in [Workers -> WorkerType] /\ u \in Stored /\ u \in Ids
  BY <1>1, <1>2, <1>3 DEF DeletionInv, WorkersInv
<1>5. graph.links[u] \in SUBSET Ids /\ graph.links[u] \subseteq Stored \ {u} /\ gone \in SUBSET Ids
  BY <1>1, <1>3, <1>4 DEF Exact, Shaped, GraphType
<1>6. CASE gone = {}
  <2>1. Idle \in WorkerType /\ Idle.pc = "idle" /\ worker' = [worker EXCEPT ![w] = Idle]
    BY <1>2, <1>6 DEF WorkerType, Idle
  <2>2. \A e \in Deleted : e \notin graph.links[worker[w].node]
    BY <1>1, <1>6
  <2>3. Locks(Idle) = {} /\ FoundAlive(Idle) = {} /\ worker'[w] = Idle
    BY <1>4, <2>1, NoLocks
  <2>4. QED
    BY <1>2, <2>1, <2>2, <2>3, LocalStep DEF Inserting, Repairing
<1>7. CASE gone # {}
  <2>1. PICK r \in WorkerType :
          r = [pc |-> "candidates", node |-> u, orig |-> graph.links[u], gone |-> gone,
               todo |-> gone, cands |-> graph.links[u] \ gone]
    BY <1>4, <1>5 DEF WorkerType
  <2>2. worker' = [worker EXCEPT ![w] = r] /\ worker'[w] = r
    BY <1>2, <1>4, <1>7, <2>1
  <2>3. Deleted' = Deleted /\ Stored' = Stored
    BY <1>2 DEF Deleted, Stored
  <2>4. RepairInv(w)'
    BY <1>1, <1>3, <1>5, <2>1, <2>2, <2>3 DEF RepairInv
  <2>5. r.pc = "candidates" /\ r.node = worker[w].node
    BY <1>1, <2>1
  <2>6. \A e \in Deleted : e \in graph.links[worker[w].node] => e \in r.gone
    BY <1>1, <2>1
  <2>7. Locks(r) = {} /\ FoundAlive(r) = {}
    BY <2>5, NoLocks
  <2>8. QED
    BY <1>2, <2>1, <2>2, <2>4, <2>5, <2>6, <2>7, LocalStep DEF Inserting, Repairing
<1>8. QED
  BY <1>6, <1>7

LEMMA CollectFromDeletedStep ==
  ASSUME DeletionInv, NEW w \in Workers, CollectFromDeleted(w)
  PROVE  DeletionInv'
<1>1. PICK r0 : r0 = worker[w]
  OBVIOUS
<1>2. PICK d \in r0.todo :
        /\ r0.pc = "candidates"
        /\ worker' = [worker EXCEPT ![w].todo = @ \ {d},
                        ![w].cands = @ \cup (graph.links[d] \ (Deleted \cup {r0.node}))]
        /\ UNCHANGED <<count, meta, lookup, unused, calls, graph, jobs, main>>
  BY <1>1 DEF CollectFromDeleted
<1>3. Exact(graph, Stored) /\ Stored \in SUBSET Ids /\ Deleted \in SUBSET Stored
  BY <1>1, <1>2, ActiveShares
<1>4. /\ WorkersInv /\ worker \in [Workers -> WorkerType] /\ RepairInv(w)
  BY <1>1, <1>2 DEF DeletionInv, WorkersInv, Repairing
<1>5. r0 \in [pc : {"candidates"}, node : Ids, orig : SUBSET Ids, gone : SUBSET Ids,
              todo : SUBSET Ids, cands : SUBSET Ids]
  BY <1>1, <1>2, <1>4 DEF WorkerType, Idle
<1>6. PICK more : more = graph.links[d] \ (Deleted \cup {r0.node})
  OBVIOUS
<1>7. more \in SUBSET Ids /\ more \subseteq Stored \ {r0.node} /\ more \cap Deleted = {}
  BY <1>2, <1>3, <1>5, <1>6 DEF Exact, Shaped
<1>8. PICK r \in WorkerType : r = [r0 EXCEPT !.todo = @ \ {d}, !.cands = @ \cup more]
  <2>1. [r0 EXCEPT !.todo = @ \ {d}, !.cands = @ \cup more] \in
          [pc : {"candidates"}, node : Ids, orig : SUBSET Ids, gone : SUBSET Ids,
           todo : SUBSET Ids, cands : SUBSET Ids]
    BY <1>5, <1>7
  <2>2. QED
    BY <2>1 DEF WorkerType
<1>9. /\ r.pc = "candidates" /\ r.node = r0.node /\ r.gone = r0.gone /\ r.orig = r0.orig
      /\ r.todo = r0.todo \ {d} /\ r.cands = r0.cands \cup more
  BY <1>5, <1>8
<1>10. worker' = [worker EXCEPT ![w] = r] /\ worker'[w] = r
  BY <1>1, <1>2, <1>4, <1>6, <1>8
<1>11. Deleted' = Deleted /\ Stored' = Stored
  BY <1>2 DEF Deleted, Stored
<1>12. RepairInv(w)'
  BY <1>1, <1>4, <1>7, <1>9, <1>10, <1>11 DEF RepairInv
<1>13. Locks(r) = {} /\ FoundAlive(r) = {}
  BY <1>9, NoLocks
<1>14. /\ worker[w].pc # "idle" /\ worker[w].pc # "repair" /\ r.node = worker[w].node
       /\ r.pc \in {"candidates", "update"} /\ r.gone = worker[w].gone /\ ~Inserting(w)'
  BY <1>1, <1>2, <1>9, <1>10 DEF Inserting
<1>15. QED
  BY <1>2, <1>10, <1>12, <1>13, <1>14, LocalStep

\* What the jobs say of the elements in a step that changes the repair jobs only.
LEMMA SameSwapJobs ==
  ASSUME JobsInv, ElementsInv, UNCHANGED <<count, meta, main>>, main.pc # "gc",
         jobs' \in JobsType, Filed(jobs', Stored), Counted(jobs'), NoDangling(jobs'),
         \A v \in Vecs : jobs'.swap[v].id = jobs.swap[v].id, jobs'.bySwapId = jobs.bySwapId,
         jobs'.ready = Cardinality(ReadyJobs(jobs')) + Executed
  PROVE  JobsInv'
<1>1. /\ Stored' = Stored /\ Collected' = Collected /\ ToRemove' = ToRemove
      /\ Executed' = Executed
  BY DEF Stored, Deleted, Collected, Uncollected, ToRemove, OwnsMain, Executed
<1>2. Reclaimed(jobs, Collected)'
  <2>1. \A i \in Collected : meta[i].vec \in Vecs
    BY Storage, MetaFields
  <2>2. \A v \in Vecs : HasSwap(jobs', v) <=> HasSwap(jobs, v)
    BY DEF HasSwap
  <2>3. Reclaimed(jobs, Collected)
    BY DEF JobsInv
  <2>4. QED
    BY <1>1, <2>1, <2>2, <2>3 DEF Reclaimed
<1>3. Indexes(jobs, Collected, ToRemove)'
  BY <1>1 DEF JobsInv, Indexes
<1>4. GCInv'
  BY DEF GCInv
<1>5. QED
  BY <1>1, <1>2, <1>3, <1>4 DEF JobsInv

LEMMA ExecuteRepairStep ==
  ASSUME DeletionInv, NEW w \in Workers, ExecuteRepairJob(w)
  PROVE  DeletionInv'
<1>1. /\ ElementsInv /\ LookupInv /\ WorkersInv /\ MainInv /\ JobsInv
      /\ EdgesIntoDeletedAreCovered
  BY DEF DeletionInv
<1>2. /\ ~OwnsMain /\ main.pc \notin {"gc", "inplace", "unlink"}
      /\ Exact(graph, Stored) /\ Stored \in SUBSET Ids /\ Deleted \in SUBSET Stored
      /\ Collected \in SUBSET Deleted
  BY ActiveShares DEF ExecuteRepairJob
<1>3. PICK j \in RepairJobs :
        /\ jobs.repair[j] # NoJob
        /\ \/ /\ ~jobs.repair[j].valid
              /\ jobs' = [jobs EXCEPT !.repair[j] = NoJob]
              /\ UNCHANGED worker
           \/ /\ jobs.repair[j].valid
              /\ jobs' = [Decreased(Unfiled(jobs, j), jobs.repair[j].swaps) EXCEPT
                            !.repair[j] = NoJob]
              /\ worker' = [worker EXCEPT ![w] =
                              [pc |-> "repair", node |-> jobs.repair[j].node]]
  BY DEF ExecuteRepairJob
<1>4. worker[w].pc = "idle" /\ UNCHANGED <<count, meta, lookup, unused, calls, graph, main>>
  BY DEF ExecuteRepairJob
<1>5. /\ Stored' = Stored /\ Deleted' = Deleted /\ Collected' = Collected
      /\ Uncollected' = Uncollected /\ OwnsMain' = OwnsMain /\ Executed = 0
  BY <1>2, <1>4 DEF Stored, Deleted, Collected, Uncollected, OwnsMain, Executed
<1>6. ElementsInv'
  BY <1>1, <1>4, ElementsFrame DEF ElementsInv
<1>7. LookupInv'
  BY <1>1, <1>4, LookupFrame DEF Outdated
<1>8. GraphInv'
  BY <1>2, <1>4, <1>5 DEF GraphInv
<1>9. MainInv'
  <2>1. CollectInv' /\ InplaceInv'
    BY <1>1, <1>4, <1>5 DEF MainInv, CollectInv, InplaceInv
  <2>2. QED
    BY <1>1, <1>2, <1>4, <1>5, <2>1 DEF MainInv
<1>10. jobs \in JobsType /\ Filed(jobs, Stored) /\ Counted(jobs) /\ NoDangling(jobs)
       /\ jobs.ready = Cardinality(ReadyJobs(jobs)) + Executed
  BY <1>1 DEF JobsInv
<1> DEFINE repair == [jobs.repair EXCEPT ![j] = NoJob]
<1>11. /\ repair \in [RepairJobs -> RepairType]
       /\ \A x \in RepairJobs : repair[x] = IF x = j THEN NoJob ELSE jobs.repair[x]
  <2>1. NoJob \in RepairType /\ jobs.repair \in [RepairJobs -> RepairType]
    BY <1>10, JobTypes DEF RepairType
  <2>2. QED
    BY <2>1
<1>12. CASE /\ ~jobs.repair[j].valid
            /\ jobs' = [jobs EXCEPT !.repair[j] = NoJob]
            /\ UNCHANGED worker
  <2>1. /\ jobs'.repair = repair /\ jobs'.byNode = jobs.byNode /\ jobs'.swap = jobs.swap
        /\ jobs'.bySwapId = jobs.bySwapId /\ jobs'.ready = jobs.ready /\ jobs' \in JobsType
    BY <1>10, <1>11, <1>12 DEF JobsType, RepairType
  <2>2. Alive(jobs') = Alive(jobs) /\ \A x \in Alive(jobs) : jobs'.repair[x] = jobs.repair[x]
    BY <1>11, <1>12, <2>1 DEF Alive
  <2>3. Filed(jobs', Stored) /\ NoDangling(jobs')
    BY <1>10, <2>1, <2>2 DEF Filed, NoDangling, HasSwap
  <2>4. Counted(jobs')
    <3>1. \A v \in Vecs : Associations(jobs', Alive(jobs'), v) = Associations(jobs, Alive(jobs), v)
      BY <2>2 DEF Associations
    <3>2. QED
      BY <1>10, <2>1, <3>1 DEF Counted, HasSwap
  <2>5. ReadyJobs(jobs') = ReadyJobs(jobs)
    BY <2>1 DEF ReadyJobs, HasSwap
  <2>6. JobsInv'
    BY <1>1, <1>2, <1>4, <1>10, <2>1, <2>3, <2>4, <2>5, SameSwapJobs
  <2>7. WorkersInv'
    <3>1. LocksInv'
      BY <1>1, <1>4, <1>5, <1>12, LocksFrame DEF WorkersInv, Marking
    <3>2. QED
      BY <1>1, <1>4, <1>5, <1>12, <3>1
         DEF WorkersInv, InsertInv, RepairInv, Inserting, Targeting, Repairing
  <2>8. EdgesIntoDeletedAreCovered'
    <3>1. \A i \in Stored : \A x \in jobs.byNode[i] : x \in Alive(jobs)
      BY <1>2, <1>10 DEF Filed
    <3>2. QED
      BY <1>1, <1>4, <1>5, <1>12, <2>1, <2>2, <3>1 DEF EdgesIntoDeletedAreCovered
  <2>9. QED
    BY <1>6, <1>7, <1>8, <1>9, <2>6, <2>7, <2>8 DEF DeletionInv
<1>13. CASE /\ jobs.repair[j].valid
            /\ jobs' = [Decreased(Unfiled(jobs, j), jobs.repair[j].swaps) EXCEPT
                          !.repair[j] = NoJob]
            /\ worker' = [worker EXCEPT ![w] =
                            [pc |-> "repair", node |-> jobs.repair[j].node]]
  <2>1. j \in Alive(jobs)
    BY <1>3, <1>13 DEF Alive
  <2>2. PICK u, n : u = jobs.repair[j].node /\ n = jobs.repair[j].swaps
    OBVIOUS
  <2>3. u \in Stored /\ u \in Ids /\ n \in [Vecs -> Nat] /\ jobs.byNode[u] = {j}
    BY <1>2, <1>10, <2>1, <2>2, JobTypes DEF Filed
  <2>4. PICK U : U = Unfiled(jobs, j)
    OBVIOUS
  <2>5. /\ U.repair = jobs.repair /\ U.byNode = [jobs.byNode EXCEPT ![u] = {}]
        /\ U.swap = jobs.swap /\ U.bySwapId = jobs.bySwapId /\ U.ready = jobs.ready
        /\ U \in JobsType
    <3>1. jobs.byNode \in [Ids -> SUBSET RepairJobs]
      BY <1>10, JobTypes
    <3>2. jobs.byNode[u] \ {j} = {}
      BY <2>3
    <3>3. [jobs.byNode EXCEPT ![u] = {}] \in [Ids -> SUBSET RepairJobs]
      BY <3>1
    <3>4. U = [jobs EXCEPT !.byNode = [jobs.byNode EXCEPT ![u] = {}]]
      BY <2>2, <2>4, <3>2 DEF Unfiled
    <3>5. QED
      BY <1>10, <3>3, <3>4 DEF JobsType
  <2>6. PICK D : D = Decreased(U, n)
    OBVIOUS
  <2>7. /\ D \in JobsType /\ D.repair = U.repair /\ D.byNode = U.byNode
        /\ D.bySwapId = U.bySwapId
        /\ \A v \in Vecs : /\ D.swap[v].id = U.swap[v].id
                           /\ D.swap[v].pending = U.swap[v].pending - n[v]
        /\ D.ready = U.ready + Cardinality(Done(U, n))
    <3>1. /\ Decreased(U, n) \in JobsType
          /\ Decreased(U, n).repair = U.repair /\ Decreased(U, n).byNode = U.byNode
          /\ Decreased(U, n).bySwapId = U.bySwapId
          /\ \A v \in Vecs : /\ Decreased(U, n).swap[v].id = U.swap[v].id
                             /\ Decreased(U, n).swap[v].pending = U.swap[v].pending - n[v]
          /\ Decreased(U, n).ready = U.ready + Cardinality(Done(U, n))
      BY <2>3, <2>5, DecreasedFields
    <3>2. QED
      BY <2>6, <3>1
  <2>8. /\ jobs'.repair = repair /\ jobs'.byNode = U.byNode /\ jobs'.swap = D.swap
        /\ jobs'.bySwapId = jobs.bySwapId /\ jobs'.ready = D.ready /\ jobs' \in JobsType
    <3>1. jobs' = [D EXCEPT !.repair = repair]
      BY <1>13, <2>2, <2>4, <2>5, <2>6, <2>7
    <3>2. QED
      BY <1>11, <2>5, <2>7, <3>1 DEF JobsType, RepairType
  <2>9. Alive(jobs') = Alive(jobs) \ {j} /\ \A x \in Alive(jobs') : jobs'.repair[x] = jobs.repair[x]
    <3>1. repair[j] = NoJob
      BY <1>11
    <3>2. QED
      BY <1>11, <2>8, <3>1 DEF Alive
  <2>10. \A i \in Ids : jobs'.byNode[i] = IF i = u THEN {} ELSE jobs.byNode[i]
    BY <1>10, <2>3, <2>5, <2>8, JobTypes
  <2>11. Filed(jobs', Stored)
    <3>1. ASSUME NEW x \in Alive(jobs')
          PROVE  jobs'.byNode[jobs'.repair[x].node] = {x} /\ jobs'.repair[x].node \in Stored
      <4>1. /\ x # j /\ jobs'.repair[x].node = jobs.repair[x].node
            /\ jobs.byNode[jobs.repair[x].node] = {x} /\ jobs.repair[x].node \in Stored
        BY <1>10, <2>9 DEF Filed
      <4>2. QED
        BY <1>2, <2>3, <2>10, <4>1
    <3>2. ASSUME NEW i \in Ids, NEW x \in jobs'.byNode[i]
          PROVE  x \in Alive(jobs') /\ jobs'.repair[x].node = i
      <4>1. i # u /\ x \in jobs.byNode[i]
        BY <2>10, <3>2
      <4>2. x \in Alive(jobs) /\ jobs.repair[x].node = i
        BY <1>10, <4>1 DEF Filed
      <4>3. QED
        BY <2>2, <2>9, <4>1, <4>2
    <3>3. QED
      BY <3>1, <3>2 DEF Filed
  <2>12. \A v \in Vecs : Repairs(jobs, {j})[v] = n[v]
    <3>1. ASSUME NEW v \in Vecs PROVE Cardinality(Associations(jobs, {j}, v)) = n[v]
      <4>1. jobs.repair[j].swaps[v] \in Nat
        BY <2>2, <2>3
      <4>2. QED
        BY <2>2, <4>1, AssociationsOne
    <3>2. QED
      BY <3>1 DEF Repairs
  <2>13. Done(U, n) = Done(jobs, Repairs(jobs, {j}))
    BY <2>5, <2>12 DEF Done
  <2>14. /\ Counted(jobs') /\ NoDangling(jobs')
         /\ jobs'.ready - Cardinality(ReadyJobs(jobs')) = jobs.ready - Cardinality(ReadyJobs(jobs))
    <3>1. {j} \in SUBSET Alive(jobs)
      BY <2>1
    <3>2. \A x \in Alive(jobs') : jobs'.repair[x].swaps = jobs.repair[x].swaps
      BY <2>9
    <3>3. \A v \in Vecs : /\ HasSwap(jobs', v) <=> HasSwap(jobs, v)
                          /\ jobs'.swap[v].pending = jobs.swap[v].pending - Repairs(jobs, {j})[v]
      BY <2>5, <2>7, <2>8, <2>12 DEF HasSwap
    <3>4. jobs'.ready = jobs.ready + Cardinality(Done(jobs, Repairs(jobs, {j})))
      BY <2>5, <2>7, <2>8, <2>13
    <3>5. QED
      BY <1>10, <2>8, <2>9, <3>1, <3>2, <3>3, <3>4, Settled
  <2>15. JobsInv'
    <3>1. jobs'.ready = Cardinality(ReadyJobs(jobs')) + Executed
      <4>1. /\ Cardinality(ReadyJobs(jobs')) \in Nat /\ Cardinality(ReadyJobs(jobs)) \in Nat
            /\ jobs'.ready \in Int /\ jobs.ready \in Int
        BY <1>10, <2>8, VecSets, JobTypes DEF ReadyJobs
      <4>2. QED
        BY <1>5, <1>10, <2>14, <4>1
    <3>2. \A v \in Vecs : jobs'.swap[v].id = jobs.swap[v].id
      BY <2>5, <2>7, <2>8
    <3>3. QED
      BY <1>1, <1>2, <1>4, <2>8, <2>11, <2>14, <3>1, <3>2, SameSwapJobs
  <2>16. PICK r \in WorkerType : r = [pc |-> "repair", node |-> u]
    BY <2>3 DEF WorkerType
  <2>17. /\ worker' \in [Workers -> WorkerType]
         /\ \A x \in Workers : worker'[x] = IF x = w THEN r ELSE worker[x]
    BY <1>1, <1>13, <2>2, <2>16 DEF WorkersInv
  <2>18. WorkersInv'
    <3>1. \A x \in Workers : Inserting(x)' => x # w /\ Inserting(x)
      BY <2>16, <2>17 DEF Inserting
    <3>2. ASSUME NEW x \in Workers
          PROVE  /\ worker'[x].pc # "idle" => worker'[x].node \in Stored'
                 /\ Inserting(x)' => InsertInv(x)'
                 /\ Repairing(x)' => RepairInv(x)'
      <4>1. CASE x = w
        BY <1>5, <2>3, <2>16, <2>17, <3>1, <4>1 DEF Repairing
      <4>2. CASE x # w
        <5>1. worker'[x] = worker[x]
          BY <2>17, <4>2
        <5>2. QED
          BY <1>1, <1>4, <1>5, <3>1, <5>1
             DEF WorkersInv, RepairInv, InsertInv, Targeting, Repairing
      <4>3. QED
        BY <4>1, <4>2
    <3>3. LocksInv'
      <4>1. /\ LocksInv /\ Deleted' \ Marking' = Deleted \ Marking
            /\ \A x \in Workers : worker'[x] = worker[x] \/ worker'[x].pc = "repair"
        BY <1>1, <1>4, <1>5, <2>16, <2>17 DEF WorkersInv, Marking
      <4>2. QED
        BY <4>1, LocksFrame
    <3>4. QED
      BY <1>1, <2>17, <3>1, <3>2, <3>3 DEF WorkersInv
  <2>19. EdgesIntoDeletedAreCovered'
    <3>1. ASSUME NEW i \in Stored, NEW e \in Deleted \ Uncollected, e \in graph.links[i]
          PROVE  \/ \E x \in jobs'.byNode[i] : jobs'.repair[x].swaps[meta[e].vec] > 0
                 \/ \E x \in Workers : worker'[x].pc = "repair" /\ worker'[x].node = i
                 \/ \E x \in Workers : /\ worker'[x].pc \in {"candidates", "update"}
                                       /\ worker'[x].node = i /\ e \in worker'[x].gone
      <4>1. CASE i = u
        BY <2>16, <2>17, <4>1
      <4>2. CASE i # u /\ \E x \in jobs.byNode[i] : jobs.repair[x].swaps[meta[e].vec] > 0
        <5>1. PICK x \in jobs.byNode[i] : jobs.repair[x].swaps[meta[e].vec] > 0
          BY <4>2
        <5>2. jobs'.byNode[i] = jobs.byNode[i] /\ x \in jobs'.byNode[i]
          BY <1>2, <2>10, <4>2, <5>1
        <5>3. x \in Alive(jobs')
          BY <1>2, <2>11, <5>2 DEF Filed
        <5>4. QED
          BY <2>9, <5>1, <5>2, <5>3
      <4>3. \A x \in Workers : worker[x].pc # "idle" => worker'[x] = worker[x]
        BY <1>4, <2>17
      <4>4. QED
        BY <1>1, <3>1, <4>1, <4>2, <4>3 DEF EdgesIntoDeletedAreCovered
    <3>2. QED
      BY <1>4, <1>5, <3>1 DEF EdgesIntoDeletedAreCovered
  <2>20. QED
    BY <1>6, <1>7, <1>8, <1>9, <2>15, <2>18, <2>19 DEF DeletionInv
<1>14. QED
  BY <1>3, <1>12, <1>13

-----------------------------------------------------------------------------
(* Steps of a deletion that goes on with the workers.                       *)

LEMMA WorkersFrame ==
  ASSUME WorkersInv, UNCHANGED <<worker, graph, count, meta>>,
         \A x \in Deleted : x \in Marking => x \in Marking' \/ Free({x})
  PROVE  WorkersInv'
<1>1. Stored' = Stored /\ Deleted' = Deleted
  BY DEF Stored, Deleted
<1>2. LocksInv'
  <2>1. \A x \in Deleted' \ Marking' : x \in Deleted \ Marking \/ Free({x})
    BY <1>1
  <2>2. QED
    BY <2>1, LocksFrame DEF WorkersInv
<1>3. QED
  BY <1>1, <1>2 DEF WorkersInv, Inserting, InsertInv, RepairInv, Targeting, Repairing

LEMMA CoveredFrame ==
  ASSUME EdgesIntoDeletedAreCovered, UNCHANGED <<worker, graph, count, meta, jobs>>,
         Collected' = Collected
  PROVE  EdgesIntoDeletedAreCovered'
BY DEF EdgesIntoDeletedAreCovered, Collected, Stored

LEMMA MarkDeleteStep ==
  ASSUME DeletionInv, SingleValue, NEW l \in Labels, MarkDelete(l)
  PROVE  DeletionInv'
<1>1. /\ ElementsInv /\ LookupInv /\ WorkersInv /\ MainInv /\ JobsInv
      /\ EdgesIntoDeletedAreCovered
  BY DEF DeletionInv
<1>2. /\ main = Idle /\ lookup[l] # <<>> /\ calls' = calls + 1
      /\ meta' = [i \in Ids |-> [meta[i] EXCEPT !.deleted = @ \/ i \in Range(lookup[l])]]
      /\ lookup' = [lookup EXCEPT ![l] = <<>>]
      /\ main' = [pc |-> "copy", ids |-> lookup[l]]
      /\ UNCHANGED <<count, unused, graph, jobs, worker>>
  BY DEF MarkDelete
<1>3. /\ main.pc = "idle" /\ main'.pc = "copy" /\ ~OwnsMain /\ ~OwnsMain'
      /\ Uncollected = {} /\ Uncollected' = Range(lookup[l])
      /\ ToRemove = {} /\ ToRemove' = {} /\ Executed = 0 /\ Executed' = 0
  BY <1>2 DEF Idle, OwnsMain, Uncollected, ToRemove, Executed
<1>4. Exact(graph, Stored) /\ Stored \in SUBSET Ids /\ Deleted \in SUBSET Stored
  BY <1>1, <1>3, Storage DEF DeletionInv, GraphInv
<1>5. PICK e \in Ids : lookup[l] = <<e>>
  <2>1. lookup[l] \in Seq(Ids) /\ Len(lookup[l]) <= 1
    BY <1>1 DEF LookupInv
  <2>2. QED
    BY <1>2, <2>1, ShortSeqs
<1>6. Range(lookup[l]) = {e}
  BY <1>5, ShortSeqs
<1>7. {i \in Stored : ~meta[i].deleted /\ LabelOf[meta[i].vec] = l} = {e}
  <2>1. ~Outdated(l)
    BY <1>3 DEF Outdated
  <2>2. QED
    BY <1>1, <1>6, <2>1 DEF LookupInv
<1>8. e \in Stored /\ e \notin Deleted /\ Stored' = Stored
  BY <1>2, <1>7 DEF Deleted, Stored
<1>9. /\ meta' \in [Ids -> [vec : Vecs \cup {NoVec}, deleted : BOOLEAN, inProcess : BOOLEAN]]
      /\ \A i \in Ids : /\ meta'[i].vec = meta[i].vec /\ meta'[i].inProcess = meta[i].inProcess
                        /\ meta'[i].deleted <=> meta[i].deleted \/ i = e
  <2>1. \A i \in Ids : meta[i] \in [vec : Vecs \cup {NoVec}, deleted : BOOLEAN, inProcess : BOOLEAN]
    BY <1>1 DEF ElementsInv
  <2>2. \A i \in Ids : meta'[i] = [meta[i] EXCEPT !.deleted = meta[i].deleted \/ i \in {e}]
    BY <1>2, <1>6
  <2>3. ASSUME NEW i \in Ids
        PROVE  /\ meta'[i] \in [vec : Vecs \cup {NoVec}, deleted : BOOLEAN, inProcess : BOOLEAN]
               /\ meta'[i].vec = meta[i].vec /\ meta'[i].inProcess = meta[i].inProcess
               /\ meta'[i].deleted <=> meta[i].deleted \/ i = e
    <3>1. PICK b \in BOOLEAN : b = (meta[i].deleted \/ i \in {e})
      BY <2>1
    <3>2. meta'[i] = [meta[i] EXCEPT !.deleted = b]
      BY <2>2, <3>1
    <3>3. QED
      BY <2>1, <3>1, <3>2
  <2>4. QED
    BY <1>2, <2>3
<1>10. Deleted' = Deleted \cup {e}
  BY <1>4, <1>8, <1>9 DEF Deleted
<1>11. Collected' = Collected
  BY <1>3, <1>6, <1>8, <1>10 DEF Collected
<1>12. ElementsInv'
  <2>1. calls' \in Nat
    BY <1>1, <1>2 DEF ElementsInv
  <2>2. QED
    BY <1>1, <1>2, <1>4, <1>8, <1>9, <2>1 DEF ElementsInv
<1>13. LookupInv'
  <2>1. \A k \in Labels : ~Outdated(k) /\ ~Outdated(k)'
    BY <1>3 DEF Outdated
  <2>2. lookup' \in [Labels -> Seq(Ids)]
    BY <1>1, <1>2 DEF LookupInv
  <2>3. ASSUME NEW k \in Labels
        PROVE  /\ Len(lookup'[k]) <= 1
               /\ {i \in Stored' : ~meta'[i].deleted /\ LabelOf[meta'[i].vec] = k} = Range(lookup'[k])
    <3>1. {i \in Stored : ~meta[i].deleted /\ LabelOf[meta[i].vec] = k} = Range(lookup[k])
      BY <1>1, <2>1 DEF LookupInv
    <3>2. \A i \in Stored : i \in {x \in Stored' : ~meta'[x].deleted /\ LabelOf[meta'[x].vec] = k} <=>
                            i # e /\ i \in {x \in Stored : ~meta[x].deleted /\ LabelOf[meta[x].vec] = k}
      BY <1>4, <1>8, <1>9
    <3>3. CASE k = l
      <4>1. lookup'[k] = <<>>
        BY <1>1, <1>2, <3>3 DEF LookupInv
      <4>2. {i \in Stored' : ~meta'[i].deleted /\ LabelOf[meta'[i].vec] = k} = {}
        BY <1>7, <1>8, <3>2, <3>3
      <4>3. QED
        BY <4>1, <4>2, ShortSeqs
    <3>4. CASE k # l
      <4>1. lookup'[k] = lookup[k] /\ Len(lookup[k]) <= 1
        BY <1>1, <1>2, <3>4 DEF LookupInv
      <4>2. LabelOf[meta[e].vec] # k
        BY <1>7, <3>4
      <4>3. {i \in Stored' : ~meta'[i].deleted /\ LabelOf[meta'[i].vec] = k} =
              {i \in Stored : ~meta[i].deleted /\ LabelOf[meta[i].vec] = k}
        BY <1>8, <3>2, <4>2
      <4>4. QED
        BY <3>1, <4>1, <4>3
    <3>5. QED
      BY <3>3, <3>4
  <2>4. QED
    BY <2>1, <2>2, <2>3 DEF LookupInv
<1>14. GraphInv'
  BY <1>2, <1>3, <1>4, <1>8 DEF GraphInv
<1>15. WorkersInv'
  <2>1. \A w \in Workers : Inserting(w) => InsertInv(w)'
    <3>1. ASSUME NEW w \in Workers, Inserting(w) PROVE InsertInv(w)'
      <4>1. InsertInv(w) /\ worker[w].node \in Ids
        BY <1>1, <1>4, <3>1 DEF WorkersInv, Inserting
      <4>2. worker[w].tried \subseteq Ids
        BY <1>4, <4>1 DEF InsertInv
      <4>3. QED
        BY <1>2, <1>8, <1>9, <4>1, <4>2 DEF InsertInv, Targeting
    <3>2. QED
      BY <3>1
  <2>2. \A w \in Workers : Repairing(w) => RepairInv(w)'
    <3>1. ASSUME NEW w \in Workers, Repairing(w) PROVE RepairInv(w)'
      <4>1. /\ RepairInv(w) /\ worker[w].node \in Ids /\ worker[w].cands \subseteq Ids
        BY <1>1, <3>1, WorkerFields DEF WorkersInv, Repairing
      <4>2. QED
        BY <1>2, <1>8, <1>9, <1>10, <4>1 DEF RepairInv
    <3>2. QED
      BY <3>1
  <2>3. LocksInv'
    <3>1. Marking = {} /\ Marking' = {e}
      BY <1>2, <1>3, <1>6 DEF Marking
    <3>2. QED
      BY <1>1, <1>2, <1>10, <3>1, LocksFrame DEF WorkersInv
  <2>4. QED
    BY <1>1, <1>2, <1>8, <2>1, <2>2, <2>3 DEF WorkersInv, Inserting, Repairing
<1>16. MainInv'
  <2>1. main' \in MainType
    BY <1>2, <1>5 DEF MainType
  <2>2. Len(main'.ids) = 1 /\ Head(main'.ids) = e
    BY <1>2, <1>5, ShortSeqs
  <2>3. CollectInv'
    BY <1>2, <1>10, <2>2 DEF CollectInv
  <2>4. InplaceInv'
    BY <1>3 DEF InplaceInv
  <2>5. QED
    BY <1>3, <2>1, <2>3, <2>4 DEF MainInv
<1>17. JobsInv'
  <2>1. \A i \in Collected : meta'[i].vec = meta[i].vec
    BY <1>4, <1>9 DEF Collected
  <2>2. QED
    BY <1>1, <1>2, <1>3, <1>8, <1>11, <2>1, JobsFrame
<1>18. EdgesIntoDeletedAreCovered'
  <2>1. \A x \in Deleted \ Uncollected : meta'[x].vec = meta[x].vec
    BY <1>4, <1>9
  <2>2. Deleted' \ Uncollected' = Deleted \ Uncollected
    BY <1>11 DEF Collected
  <2>3. ASSUME NEW i \in Stored', NEW x \in Deleted' \ Uncollected', x \in graph'.links[i]
        PROVE  \/ \E j \in jobs'.byNode[i] : jobs'.repair[j].swaps[meta'[x].vec] > 0
               \/ \E w \in Workers : worker'[w].pc = "repair" /\ worker'[w].node = i
               \/ \E w \in Workers : /\ worker'[w].pc \in {"candidates", "update"}
                                     /\ worker'[w].node = i /\ x \in worker'[w].gone
    <3>1. i \in Stored /\ x \in Deleted \ Uncollected /\ x \in graph.links[i]
      BY <1>2, <1>8, <2>2, <2>3
    <3>2. /\ meta'[x].vec = meta[x].vec /\ jobs' = jobs /\ worker' = worker
      BY <1>2, <2>1, <3>1
    <3>3. QED
      BY <1>1, <3>1, <3>2 DEF EdgesIntoDeletedAreCovered
  <2>4. QED
    BY <2>3 DEF EdgesIntoDeletedAreCovered
<1>19. QED
  BY <1>12, <1>13, <1>14, <1>15, <1>16, <1>17, <1>18 DEF DeletionInv

\* A step in which the main thread learns something, and nothing else changes.
LEMMA LearningStep ==
  ASSUME DeletionInv, main.pc \in {"copy", "check"}, main'.pc \in {"check", "create"},
         UNCHANGED <<count, meta, lookup, unused, calls, graph, jobs, worker>>,
         main' \in MainType, main'.ids = main.ids, CollectInv',
         main.pc = "copy" => Free({Head(main.ids)})
  PROVE  DeletionInv'
<1>1. /\ ElementsInv /\ LookupInv /\ GraphInv /\ WorkersInv /\ MainInv /\ JobsInv
      /\ EdgesIntoDeletedAreCovered
  BY DEF DeletionInv
<1>2. /\ Stored' = Stored /\ Collected' = Collected /\ ToRemove' = ToRemove
      /\ Executed' = Executed /\ ~OwnsMain'
  BY DEF Stored, Deleted, Collected, Uncollected, ToRemove, OwnsMain, Executed
<1>3. ElementsInv'
  BY <1>1, ElementsFrame DEF ElementsInv
<1>4. LookupInv'
  BY <1>1, LookupFrame DEF Outdated
<1>5. GraphInv'
  BY <1>1, <1>2 DEF GraphInv
<1>6. WorkersInv'
  <2>1. \A x \in Marking : Free({x})
    BY <1>1, MarkingFacts
  <2>2. QED
    BY <1>1, <2>1, WorkersFrame
<1>7. MainInv'
  BY <1>2 DEF MainInv, InplaceInv
<1>8. JobsInv'
  BY <1>1, <1>2, JobsFrame
<1>9. EdgesIntoDeletedAreCovered'
  BY <1>1, <1>2, CoveredFrame
<1>10. QED
  BY <1>3, <1>4, <1>5, <1>6, <1>7, <1>8, <1>9 DEF DeletionInv

\* The element that a deletion is collecting the neighbours of.
LEMMA CollectFacts ==
  ASSUME DeletionInv, main.pc \in {"copy", "check", "create"}
  PROVE  /\ main.ids \in Seq(Ids) /\ Len(main.ids) = 1 /\ Head(main.ids) \in Deleted
         /\ Head(main.ids) \in Ids /\ Uncollected = {Head(main.ids)}
         /\ ~OwnsMain /\ Exact(graph, Stored) /\ Stored \in SUBSET Ids /\ Deleted \in SUBSET Stored
<1>1. ElementsInv /\ GraphInv /\ MainInv /\ CollectInv
  BY DEF DeletionInv, MainInv
<1>2. /\ ~OwnsMain /\ Exact(graph, Stored) /\ Stored \in SUBSET Ids /\ Deleted \in SUBSET Stored
  BY <1>1, Storage DEF GraphInv, OwnsMain
<1>3. main.ids \in Seq(Ids) /\ Len(main.ids) = 1 /\ Head(main.ids) \in Deleted
  BY <1>1, MainFields DEF CollectInv
<1>4. Range(main.ids) = {Head(main.ids)}
  BY <1>3, ShortSeqs
<1>5. QED
  BY <1>2, <1>3, <1>4 DEF Uncollected

LEMMA CopyLinksStep ==
  ASSUME DeletionInv, CopyLinks
  PROVE  DeletionInv'
<1>1. PICK e : e = Head(main.ids)
  OBVIOUS
<1>2. /\ main.pc = "copy" /\ Free({e})
      /\ main' = [pc |-> "check", ids |-> main.ids, todo |-> graph.links[e],
                  found |-> [i \in Ids |-> 0]]
      /\ UNCHANGED <<count, meta, lookup, unused, calls, graph, jobs, worker>>
  BY <1>1 DEF CopyLinks
<1>3. /\ main.ids \in Seq(Ids) /\ Len(main.ids) = 1 /\ e \in Deleted /\ e \in Ids
      /\ Exact(graph, Stored)
  BY <1>1, <1>2, CollectFacts
<1>4. graph.links[e] \in SUBSET Ids /\ graph.links[e] \subseteq Stored
  BY <1>3 DEF Exact, Shaped, GraphType
<1>5. main' \in MainType
  BY <1>2, <1>3, <1>4 DEF MainType
<1>6. CollectInv'
  <2>1. \A i \in Ids : e \in graph.links[i] => i \in graph.links[e] \/ i \in graph.incoming[e]
    BY <1>3 DEF Exact, EdgeExact
  <2>2. Deleted' = Deleted /\ Stored' = Stored
    BY <1>2 DEF Deleted, Stored
  <2>3. QED
    BY <1>1, <1>2, <1>3, <1>4, <2>1, <2>2 DEF CollectInv
<1>7. QED
  BY <1>1, <1>2, <1>5, <1>6, LearningStep

LEMMA CheckNeighborStep ==
  ASSUME DeletionInv, CheckNeighbor
  PROVE  DeletionInv'
<1>1. PICK e : e = Head(main.ids)
  OBVIOUS
<1>2. PICK u \in main.todo :
        main' = [main EXCEPT !.todo = @ \ {u},
                             !.found[u] = @ + IF e \in graph.links[u] THEN 1 ELSE 0]
  BY <1>1 DEF CheckNeighbor
<1>3. main.pc = "check" /\ UNCHANGED <<count, meta, lookup, unused, calls, graph, jobs, worker>>
  BY DEF CheckNeighbor
<1>4. /\ main.ids \in Seq(Ids) /\ Len(main.ids) = 1 /\ e \in Deleted /\ e \in Ids
      /\ Exact(graph, Stored) /\ Stored \in SUBSET Ids
  BY <1>1, <1>3, CollectFacts
<1>5. main \in [pc : {"check"}, ids : Seq(Ids), todo : SUBSET Ids, found : [Ids -> Nat]]
  BY <1>3 DEF DeletionInv, MainInv, MainType, Idle
<1>6. CollectInv
  BY DEF DeletionInv, MainInv
<1>7. u \in Ids /\ u \in Stored
  BY <1>2, <1>3, <1>4, <1>6 DEF CollectInv
<1>8. PICK k \in Nat : k = main.found[u] + IF e \in graph.links[u] THEN 1 ELSE 0
  BY <1>5, <1>7
<1>9. main' = [pc |-> "check", ids |-> main.ids, todo |-> main.todo \ {u},
               found |-> [main.found EXCEPT ![u] = k]]
  BY <1>2, <1>5, <1>8
<1>10. /\ main' \in MainType
       /\ \A i \in Ids : main'.found[i] = IF i = u THEN k ELSE main.found[i]
  <2>1. [main.found EXCEPT ![u] = k] \in [Ids -> Nat] /\ main.todo \ {u} \in SUBSET Ids
    BY <1>5, <1>7
  <2>2. main' \in [pc : {"check"}, ids : Seq(Ids), todo : SUBSET Ids, found : [Ids -> Nat]]
    BY <1>4, <1>9, <2>1
  <2>3. QED
    BY <1>5, <1>7, <1>9, <2>2 DEF MainType
<1>11. CollectInv'
  <2>1. Deleted' = Deleted /\ Stored' = Stored
    BY <1>3 DEF Deleted, Stored
  <2>2. \A i \in Ids : main'.found[i] > 0 => i \in Stored
    BY <1>3, <1>6, <1>7, <1>10 DEF CollectInv
  <2>3. ASSUME NEW i \in Ids, e \in graph.links[i]
        PROVE  main'.found[i] > 0 \/ i \in main'.todo \/ i \in graph.incoming[e]
    <3>1. main.found[i] > 0 \/ i \in main.todo \/ i \in graph.incoming[e]
      BY <1>1, <1>3, <1>6, <2>3 DEF CollectInv
    <3>2. CASE i = u
      <4>1. k > 0 /\ main'.found[i] = k
        BY <1>5, <1>8, <1>10, <2>3, <3>2
      <4>2. QED
        BY <4>1
    <3>3. CASE i # u
      BY <1>9, <1>10, <3>1, <3>3
    <3>4. QED
      BY <3>2, <3>3
  <2>4. main'.pc = "check" /\ main'.ids = main.ids /\ main'.todo \subseteq main.todo
    BY <1>9
  <2>5. main.todo \subseteq Stored
    BY <1>3, <1>6 DEF CollectInv
  <2>6. QED
    BY <1>1, <1>3, <1>4, <2>1, <2>2, <2>3, <2>4, <2>5 DEF CollectInv
<1>12. QED
  BY <1>3, <1>9, <1>10, <1>11, LearningStep

LEMMA CollectIncomingStep ==
  ASSUME DeletionInv, CollectIncoming
  PROVE  DeletionInv'
<1>1. PICK e : e = Head(main.ids)
  OBVIOUS
<1>2. /\ main.pc = "check" /\ main.todo = {}
      /\ main' = [pc |-> "create", ids |-> main.ids,
                  found |-> [i \in Ids |-> main.found[i] + IF i \in graph.incoming[e] THEN 1 ELSE 0]]
      /\ UNCHANGED <<count, meta, lookup, unused, calls, graph, jobs, worker>>
  BY <1>1 DEF CollectIncoming
<1>3. /\ main.ids \in Seq(Ids) /\ Len(main.ids) = 1 /\ e \in Deleted /\ e \in Ids
      /\ Exact(graph, Stored) /\ Stored \in SUBSET Ids
  BY <1>1, <1>2, CollectFacts
<1>4. main.found \in [Ids -> Nat] /\ CollectInv
  BY <1>2, MainFields DEF DeletionInv, MainInv
<1>5. main'.found \in [Ids -> Nat]
  BY <1>2, <1>4
<1>6. main' \in MainType
  BY <1>2, <1>3, <1>5 DEF MainType
<1>7. CollectInv'
  <2>1. Deleted' = Deleted /\ Stored' = Stored
    BY <1>2 DEF Deleted, Stored
  <2>2. ASSUME NEW i \in Ids, main'.found[i] > 0 PROVE i \in Stored
    <3>1. main.found[i] \in Nat
      BY <1>4
    <3>2. main.found[i] > 0 \/ i \in graph.incoming[e]
      BY <1>2, <2>2, <3>1
    <3>3. i \in graph.incoming[e] => e \in graph.links[i]
      BY <1>3 DEF Exact, EdgeExact
    <3>4. e \in graph.links[i] => i \in Stored
      BY <1>3 DEF Exact, Shaped
    <3>5. QED
      BY <1>2, <1>4, <3>2, <3>3, <3>4 DEF CollectInv
  <2>3. ASSUME NEW i \in Ids, e \in graph.links[i] PROVE main'.found[i] > 0
    <3>1. main.found[i] \in Nat
      BY <1>4
    <3>2. main.found[i] > 0 \/ i \in graph.incoming[e]
      BY <1>1, <1>2, <1>4, <2>3 DEF CollectInv
    <3>3. QED
      BY <1>2, <3>1, <3>2
  <2>4. QED
    BY <1>1, <1>2, <1>3, <2>1, <2>2, <2>3 DEF CollectInv
<1>8. QED
  BY <1>2, <1>6, <1>7, LearningStep

-----------------------------------------------------------------------------
(* Creating the repair jobs and the swap job of a deleted element.          *)

\* Each node found has one pending repair job in K: the one that it had in J, or
\* a new one.  All of them are associated with the swap job v.
Assigned(J, K, v, found, job) ==
  LET nodes == {i \in Ids : found[i] > 0} IN
  /\ job \in [nodes -> RepairJobs] /\ \A i, k \in nodes : job[i] = job[k] => i = k
  /\ \A i \in nodes :
       /\ J.byNode[i] \subseteq {job[i]} /\ K.byNode[i] = {job[i]}
       /\ K.repair[job[i]] \in [node : Ids, valid : BOOLEAN, swaps : [Vecs -> Nat]]
       /\ K.repair[job[i]].node = i /\ K.repair[job[i]].valid
       /\ K.repair[job[i]].swaps[v] = found[i]
       /\ IF job[i] \in Alive(J)
          THEN /\ J.repair[job[i]].node = i
               /\ \A u \in Vecs \ {v} : K.repair[job[i]].swaps[u] = J.repair[job[i]].swaps[u]
          ELSE /\ J.byNode[i] = {}
               /\ \A u \in Vecs \ {v} : K.repair[job[i]].swaps[u] = 0
  /\ \A i \in Ids \ nodes : K.byNode[i] = J.byNode[i]
  /\ \A j \in RepairJobs : (\A i \in nodes : j # job[i]) => K.repair[j] = J.repair[j]

LEMMA RepairJobsAssigned ==
  ASSUME NEW J \in JobsType, NEW N \in SUBSET Ids, Filed(J, N), NEW v \in Vecs,
         NEW found \in [Ids -> Nat], Numberings(J, found) # {},
         \A j \in Alive(J) : J.repair[j].swaps[v] = 0
  PROVE  /\ \E job : Assigned(J, WithRepairJobs(J, v, found), v, found, job)
         /\ WithRepairJobs(J, v, found) \in JobsType
         /\ WithRepairJobs(J, v, found).swap = J.swap
         /\ WithRepairJobs(J, v, found).bySwapId = J.bySwapId
         /\ WithRepairJobs(J, v, found).ready = J.ready
<1>0. PICK K : K = WithRepairJobs(J, v, found)
  OBVIOUS
<1> DEFINE nodes == {i \in Ids : found[i] > 0}
           fresh == {i \in nodes : J.byNode[i] = {}}
           free  == {j \in RepairJobs : J.repair[j] = NoJob}
           new   == CHOOSE f \in Numberings(J, found) : TRUE
           JobOf(i) == IF i \in fresh THEN new[i] ELSE CHOOSE j \in J.byNode[i] : TRUE
           After(j) ==
             IF \E i \in fresh : new[i] = j
             THEN LET i == CHOOSE i \in fresh : new[i] = j
                  IN  [node |-> i, valid |-> TRUE, swaps |-> [NoSwaps EXCEPT ![v] = found[i]]]
             ELSE IF \E i \in nodes : JobOf(i) = j
                  THEN [J.repair[j] EXCEPT !.swaps[v] = @ + found[J.repair[j].node]]
                  ELSE J.repair[j]
           byNode == [i \in Ids |-> IF i \in nodes THEN J.byNode[i] \cup {JobOf(i)} ELSE J.byNode[i]]
<1>1. K = [repair |-> [j \in RepairJobs |-> After(j)], byNode |-> byNode, swap |-> J.swap,
           bySwapId |-> J.bySwapId, ready |-> J.ready]
  <2>1. K = [J EXCEPT !.repair = [j \in RepairJobs |-> After(j)], !.byNode = byNode]
    BY <1>0 DEF WithRepairJobs
  <2>2. QED
    BY <2>1 DEF JobsType
<1>2. /\ new \in [fresh -> free] /\ \A i, k \in fresh : new[i] = new[k] => i = k
  <2>1. new \in Numberings(J, found)
    OBVIOUS
  <2>2. fresh = {i \in Ids : found[i] > 0 /\ J.byNode[i] = {}}
    OBVIOUS
  <2>3. new \in Injection(fresh, free)
    BY <2>1, <2>2 DEF Numberings
  <2>4. QED
    BY <2>3 DEF Injection, IsInjective
<1> HIDE DEF new
<1>3. ASSUME NEW i \in nodes, i \notin fresh
      PROVE  J.byNode[i] = {JobOf(i)} /\ JobOf(i) \in Alive(J) /\ J.repair[JobOf(i)].node = i
  <2>1. JobOf(i) \in J.byNode[i]
    BY <1>3
  <2>2. JobOf(i) \in Alive(J) /\ J.repair[JobOf(i)].node = i
    BY <2>1 DEF Filed
  <2>3. QED
    BY <2>2 DEF Filed
<1>4. \A i \in fresh : JobOf(i) = new[i] /\ new[i] \in free
  BY <1>2
<1> DEFINE job == [i \in nodes |-> JobOf(i)]
<1> HIDE DEF JobOf
<1>5. free \cap Alive(J) = {} /\ Alive(J) \subseteq RepairJobs
  BY DEF Alive
<1>6. job \in [nodes -> RepairJobs] /\ \A i, k \in nodes : job[i] = job[k] => i = k
  <2>1. \A i \in nodes : JobOf(i) \in RepairJobs
    BY <1>3, <1>4, <1>5
  <2>2. ASSUME NEW i \in nodes, NEW k \in nodes, JobOf(i) = JobOf(k) PROVE i = k
    BY <1>2, <1>3, <1>4, <1>5, <2>2
  <2>3. QED
    BY <2>1, <2>2
<1>7. ASSUME NEW i \in nodes, i \in fresh
      PROVE  /\ J.byNode[i] = {} /\ job[i] \notin Alive(J)
             /\ After(job[i]) \in [node : Ids, valid : BOOLEAN, swaps : [Vecs -> Nat]]
             /\ After(job[i]).node = i /\ After(job[i]).valid
             /\ After(job[i]).swaps[v] = found[i]
             /\ \A u \in Vecs \ {v} : After(job[i]).swaps[u] = 0
  <2>1. job[i] = new[i]
    BY <1>4, <1>7
  <2>2. (CHOOSE k \in fresh : new[k] = job[i]) = i
    BY <1>2, <1>7, <2>1
  <2>3. After(job[i]) = [node |-> i, valid |-> TRUE, swaps |-> [NoSwaps EXCEPT ![v] = found[i]]]
    BY <1>7, <2>1, <2>2
  <2>4. /\ [NoSwaps EXCEPT ![v] = found[i]] \in [Vecs -> Nat]
        /\ [NoSwaps EXCEPT ![v] = found[i]][v] = found[i]
        /\ \A u \in Vecs \ {v} : [NoSwaps EXCEPT ![v] = found[i]][u] = 0
    BY DEF NoSwaps
  <2>5. QED
    BY <1>4, <1>5, <1>7, <2>1, <2>3, <2>4
<1>8. ASSUME NEW i \in nodes, i \notin fresh
      PROVE  /\ job[i] \in Alive(J) /\ J.repair[job[i]].node = i
             /\ After(job[i]) \in [node : Ids, valid : BOOLEAN, swaps : [Vecs -> Nat]]
             /\ After(job[i]).node = i /\ After(job[i]).valid
             /\ After(job[i]).swaps[v] = found[i]
             /\ \A u \in Vecs \ {v} : After(job[i]).swaps[u] = J.repair[job[i]].swaps[u]
  <2>1. PICK j : j = job[i]
    OBVIOUS
  <2>2. j = JobOf(i) /\ j \in Alive(J) /\ J.repair[j].node = i
    BY <1>3, <1>8, <2>1
  <2>3. ~ \E k \in fresh : new[k] = j
    BY <1>4, <1>5, <2>2
  <2>4. /\ J.repair[j] \in [node : Ids, valid : BOOLEAN, swaps : [Vecs -> Nat]]
        /\ J.repair[j].valid /\ J.repair[j].swaps[v] = 0
    BY <2>2, JobTypes DEF Alive
  <2>5. After(j) = [J.repair[j] EXCEPT !.swaps[v] = @ + found[J.repair[j].node]]
    BY <2>2, <2>3
  <2>6. PICK k \in Nat : k = found[i]
    OBVIOUS
  <2>7. PICK a : a = After(j)
    OBVIOUS
  <2>8. PICK r : r = J.repair[j]
    OBVIOUS
  <2>9. a = [r EXCEPT !.swaps[v] = r.swaps[v] + k]
    BY <2>2, <2>5, <2>6, <2>7, <2>8
  <2>10. /\ r \in [node : Ids, valid : BOOLEAN, swaps : [Vecs -> Nat]]
         /\ r.valid /\ r.swaps[v] = 0 /\ r.node = i
    BY <2>2, <2>4, <2>8
  <2> HIDE DEF After, nodes, fresh
  <2>11. a = [node |-> i, valid |-> r.valid, swaps |-> [r.swaps EXCEPT ![v] = k]]
    <3>1. r.swaps[v] + k = k
      BY <2>6, <2>10
    <3>2. a = [r EXCEPT !.swaps[v] = k]
      BY <2>9, <3>1
    <3>3. a = [r EXCEPT !.swaps = [r.swaps EXCEPT ![v] = k]]
      BY <3>2
    <3>4. QED
      BY <2>10, <3>3
  <2>12. /\ [r.swaps EXCEPT ![v] = k] \in [Vecs -> Nat]
         /\ [r.swaps EXCEPT ![v] = k][v] = k
         /\ \A u \in Vecs \ {v} : [r.swaps EXCEPT ![v] = k][u] = r.swaps[u]
    BY <2>6, <2>10
  <2>13. i \in Ids
    BY DEF nodes
  <2>14. /\ a \in [node : Ids, valid : BOOLEAN, swaps : [Vecs -> Nat]]
         /\ a.node = i /\ a.valid /\ a.swaps[v] = k
         /\ \A u \in Vecs \ {v} : a.swaps[u] = r.swaps[u]
    BY <2>10, <2>11, <2>12, <2>13
  <2>15. QED
    BY <2>1, <2>2, <2>6, <2>7, <2>8, <2>14
<1>9. ASSUME NEW j \in RepairJobs, \A i \in nodes : j # job[i] PROVE After(j) = J.repair[j]
  BY <1>4, <1>9
<1>10. /\ \A i \in nodes : J.byNode[i] \subseteq {job[i]} /\ byNode[i] = {job[i]}
       /\ \A i \in Ids \ nodes : byNode[i] = J.byNode[i]
       /\ byNode \in [Ids -> SUBSET RepairJobs]
  <2>1. \A i \in nodes : J.byNode[i] \subseteq {JobOf(i)} /\ JobOf(i) \in RepairJobs
    BY <1>3, <1>4, <1>5
  <2>2. QED
    BY <2>1, JobTypes
<1>11. \A j \in RepairJobs : After(j) \in RepairType
  <2>1. ASSUME NEW j \in RepairJobs PROVE After(j) \in RepairType
    <3>1. CASE \E i \in nodes : j = job[i]
      <4>1. PICK i \in nodes : j = job[i]
        BY <3>1
      <4>2. After(job[i]) \in [node : Ids, valid : BOOLEAN, swaps : [Vecs -> Nat]]
        BY <1>7, <1>8
      <4>3. QED
        BY <4>1, <4>2 DEF RepairType
    <3>2. CASE \A i \in nodes : j # job[i]
      <4>1. After(j) = J.repair[j]
        BY <1>9, <3>2
      <4>2. QED
        BY <4>1, JobTypes
    <3>3. QED
      BY <3>1, <3>2
  <2>2. QED
    BY <2>1
<1> HIDE DEF After, byNode, job, nodes, fresh, free
<1>12. K \in JobsType
  <2>1. [j \in RepairJobs |-> After(j)] \in [RepairJobs -> RepairType]
    BY <1>11
  <2>2. QED
    BY <1>1, <1>10, <2>1, JobTypes DEF JobsType, RepairType
<1>13. \A j \in RepairJobs : K.repair[j] = After(j)
  BY <1>1
<1>14. Assigned(J, K, v, found, job)
  <2>1. \A i \in nodes : job[i] \in RepairJobs
    BY <1>6
  <2>2. \A i \in nodes : K.repair[job[i]] = After(job[i])
    BY <1>13, <2>1
  <2>3. K.byNode = byNode
    BY <1>1
  <2>4. nodes = {i \in Ids : found[i] > 0}
    BY DEF nodes
  <2>5. QED
    BY <1>6, <1>7, <1>8, <1>9, <1>10, <1>13, <2>2, <2>3, <2>4 DEF Assigned
<1>15. QED
  BY <1>0, <1>1, <1>12, <1>14

\* What the jobs of the assigned nodes mean for the swap jobs.
AssignedExactly(J, K, N, v, found) ==
  /\ Filed(K, N) /\ Alive(J) \subseteq Alive(K)
  /\ \A u \in Vecs \ {v} : Associations(K, Alive(K), u) = Associations(J, Alive(J), u)
  /\ Cardinality(Associations(K, Alive(K), v)) = Cardinality(Entries(found))
  /\ \A i \in Ids : found[i] > 0 => \E j \in K.byNode[i] : K.repair[j].swaps[v] > 0
  /\ \A i \in Ids : \A j \in J.byNode[i] : \A u \in Vecs :
       J.repair[j].swaps[u] > 0 => j \in K.byNode[i] /\ K.repair[j].swaps[u] > 0

LEMMA RepairJobsExact ==
  ASSUME NEW J \in JobsType, NEW K \in JobsType, NEW N \in SUBSET Ids, Filed(J, N),
         NEW v \in Vecs, NEW found \in [Ids -> Nat], \A i \in Ids : found[i] > 0 => i \in N,
         \A j \in Alive(J) : J.repair[j].swaps[v] = 0,
         NEW job, Assigned(J, K, v, found, job)
  PROVE  AssignedExactly(J, K, N, v, found)
<1> DEFINE nodes == {i \in Ids : found[i] > 0}
<1>1. /\ job \in [nodes -> RepairJobs] /\ \A i, k \in nodes : job[i] = job[k] => i = k
      /\ \A i \in Ids \ nodes : K.byNode[i] = J.byNode[i]
      /\ \A j \in RepairJobs : (\A i \in nodes : j # job[i]) => K.repair[j] = J.repair[j]
  BY DEF Assigned
<1>2. ASSUME NEW i \in nodes
      PROVE  /\ J.byNode[i] \subseteq {job[i]} /\ K.byNode[i] = {job[i]}
             /\ K.repair[job[i]].node = i /\ K.repair[job[i]].swaps[v] = found[i]
             /\ job[i] \in Alive(K) /\ job[i] \in RepairJobs
  <2>1. /\ J.byNode[i] \subseteq {job[i]} /\ K.byNode[i] = {job[i]}
        /\ K.repair[job[i]] \in [node : Ids, valid : BOOLEAN, swaps : [Vecs -> Nat]]
        /\ K.repair[job[i]].node = i /\ K.repair[job[i]].valid
        /\ K.repair[job[i]].swaps[v] = found[i]
    BY DEF Assigned
  <2>2. job[i] \in RepairJobs
    BY <1>1
  <2>3. K.repair[job[i]] # NoJob
    BY <2>1, IdsFacts DEF NoJob
  <2>4. QED
    BY <2>1, <2>2, <2>3 DEF Alive
<1>3. ASSUME NEW i \in nodes, NEW u \in Vecs \ {v}
      PROVE  /\ job[i] \in Alive(J) => K.repair[job[i]].swaps[u] = J.repair[job[i]].swaps[u]
             /\ job[i] \notin Alive(J) => K.repair[job[i]].swaps[u] = 0
  BY DEF Assigned
<1>4. \A i \in nodes : job[i] \in Alive(J) => J.repair[job[i]].node = i
  BY DEF Assigned
<1> HIDE DEF nodes
<1>5. nodes \subseteq Ids /\ nodes \subseteq N /\ \A i \in Ids : i \in nodes <=> found[i] > 0
  BY DEF nodes
<1>6. ASSUME NEW j \in RepairJobs, \A i \in nodes : j # job[i], j \in Alive(K) \/ j \in Alive(J)
      PROVE  /\ j \in Alive(J) /\ j \in Alive(K) /\ K.repair[j] = J.repair[j]
             /\ J.repair[j].node \in N \ nodes /\ K.byNode[J.repair[j].node] = {j}
  <2>1. K.repair[j] = J.repair[j]
    BY <1>1, <1>6
  <2>2. j \in Alive(J) /\ j \in Alive(K)
    BY <1>6, <2>1 DEF Alive
  <2>3. J.byNode[J.repair[j].node] = {j} /\ J.repair[j].node \in N
    BY <2>2 DEF Filed
  <2>4. J.repair[j].node \notin nodes
    BY <1>2, <1>6, <2>3
  <2>5. QED
    BY <1>1, <2>1, <2>2, <2>3, <2>4
<1>7. Filed(K, N)
  <2>1. ASSUME NEW j \in Alive(K) PROVE K.byNode[K.repair[j].node] = {j} /\ K.repair[j].node \in N
    <3>1. j \in RepairJobs
      BY DEF Alive
    <3>2. CASE \E i \in nodes : j = job[i]
      BY <1>2, <1>5, <3>2
    <3>3. CASE \A i \in nodes : j # job[i]
      BY <1>6, <3>1, <3>3
    <3>4. QED
      BY <3>2, <3>3
  <2>2. ASSUME NEW i \in Ids, NEW j \in K.byNode[i] PROVE j \in Alive(K) /\ K.repair[j].node = i
    <3>1. CASE i \in nodes
      BY <1>2, <3>1
    <3>2. CASE i \notin nodes
      <4>1. j \in J.byNode[i]
        BY <1>1, <3>2
      <4>2. j \in Alive(J) /\ J.repair[j].node = i /\ j \in RepairJobs
        BY <4>1 DEF Filed, Alive
      <4>3. \A k \in nodes : j # job[k]
        BY <1>4, <3>2, <4>2
      <4>4. QED
        BY <1>6, <4>2, <4>3
    <3>3. QED
      BY <3>1, <3>2
  <2>3. QED
    BY <2>1, <2>2 DEF Filed
<1>8. Alive(J) \subseteq Alive(K)
  <2>1. ASSUME NEW j \in Alive(J) PROVE j \in Alive(K)
    <3>1. j \in RepairJobs
      BY DEF Alive
    <3>2. QED
      BY <1>2, <1>6, <3>1
  <2>2. QED
    BY <2>1
<1>9. ASSUME NEW u \in Vecs \ {v}
      PROVE  /\ \A j \in Alive(J) : K.repair[j].swaps[u] = J.repair[j].swaps[u]
             /\ \A j \in Alive(K) \ Alive(J) : K.repair[j].swaps[u] = 0
  <2>1. \A j \in Alive(J) \cup Alive(K) : j \in RepairJobs
    BY DEF Alive
  <2>2. QED
    BY <1>3, <1>6, <2>1
<1>10. ASSUME NEW u \in Vecs \ {v}
       PROVE  Associations(K, Alive(K), u) = Associations(J, Alive(J), u)
  <2>1. \A j \in Alive(J) : {j} \X (1..K.repair[j].swaps[u]) = {j} \X (1..J.repair[j].swaps[u])
    BY <1>9
  <2>2. \A j \in Alive(K) \ Alive(J) : {j} \X (1..K.repair[j].swaps[u]) = {}
    <3>1. 1..0 = {}
      OBVIOUS
    <3>2. QED
      BY <1>9, <3>1
  <2>3. QED
    BY <1>8, <2>1, <2>2 DEF Associations
<1>11. ASSUME NEW j \in Alive(K)
       PROVE  /\ j \in RepairJobs /\ K.repair[j].node \in Ids /\ K.byNode[K.repair[j].node] = {j}
              /\ K.repair[j].swaps[v] \in Nat /\ found[K.repair[j].node] \in Nat
              /\ K.repair[j].swaps[v] > 0 => K.repair[j].swaps[v] = found[K.repair[j].node]
  <2>1. /\ j \in RepairJobs /\ K.repair[j].node \in Ids /\ K.byNode[K.repair[j].node] = {j}
        /\ K.repair[j].swaps[v] \in Nat
    BY <1>7, JobTypes DEF Filed
  <2>2. CASE \E i \in nodes : j = job[i]
    BY <1>2, <2>1, <2>2
  <2>3. CASE \A i \in nodes : j # job[i]
    <3>1. K.repair[j].swaps[v] = 0
      BY <1>6, <2>1, <2>3
    <3>2. QED
      BY <2>1, <3>1
  <2>4. QED
    BY <2>2, <2>3
<1>12. Cardinality(Associations(K, Alive(K), v)) = Cardinality(Entries(found))
  <2> DEFINE S == Associations(K, Alive(K), v)
             T == Entries(found)
             g == [x \in S |-> <<K.repair[x[1]].node, x[2]>>]
  <2>1. ASSUME NEW x \in S
        PROVE  /\ x = <<x[1], x[2]>> /\ x[1] \in Alive(K) /\ x[2] \in 1..K.repair[x[1]].swaps[v]
               /\ K.repair[x[1]].node \in Ids /\ x[2] \in 1..found[K.repair[x[1]].node]
    <3>1. PICK j \in Alive(K) : x \in {j} \X (1..K.repair[j].swaps[v])
      BY DEF Associations
    <3>2. x = <<x[1], x[2]>> /\ x[1] = j /\ x[2] \in 1..K.repair[j].swaps[v]
      BY <3>1
    <3>3. K.repair[j].swaps[v] \in Nat /\ (K.repair[j].swaps[v] > 0 => K.repair[j].swaps[v] = found[K.repair[j].node])
      BY <1>11
    <3>4. K.repair[j].swaps[v] > 0
      BY <3>2, <3>3
    <3>5. QED
      BY <1>11, <3>2, <3>3, <3>4
  <2>2. \A x \in S : g[x] \in T
    BY <2>1 DEF Entries
  <2>3. ASSUME NEW x \in S, NEW y \in S, g[x] = g[y] PROVE x = y
    <3>1. K.repair[x[1]].node = K.repair[y[1]].node /\ x[2] = y[2]
      BY <2>3
    <3>2. x[1] = y[1]
      <4>1. x[1] \in Alive(K) /\ y[1] \in Alive(K)
        BY <2>1
      <4>2. K.byNode[K.repair[x[1]].node] = {x[1]} /\ K.byNode[K.repair[y[1]].node] = {y[1]}
        BY <1>11, <4>1
      <4>3. QED
        BY <3>1, <4>2
    <3>3. QED
      BY <2>1, <3>1, <3>2
  <2>4. ASSUME NEW t \in T PROVE \E x \in S : g[x] = t
    <3>1. PICK i \in Ids : t \in {i} \X (1..found[i])
      BY DEF Entries
    <3>2. PICK k \in 1..found[i] : t = <<i, k>>
      BY <3>1
    <3>3. i \in nodes
      BY <1>5, <3>2
    <3>4. PICK x : x = <<job[i], k>>
      OBVIOUS
    <3>5. job[i] \in Alive(K) /\ K.repair[job[i]].node = i /\ K.repair[job[i]].swaps[v] = found[i]
      BY <1>2, <3>3
    <3>6. x \in {job[i]} \X (1..K.repair[job[i]].swaps[v])
      BY <3>2, <3>4, <3>5
    <3>7. x \in S
      BY <3>5, <3>6 DEF Associations
    <3>8. x[1] = job[i] /\ x[2] = k
      BY <3>4
    <3>9. g[x] = t
      BY <3>2, <3>5, <3>7, <3>8
    <3>10. QED
      BY <3>7, <3>9
  <2>5. g \in Injection(S, T) /\ g \in Surjection(S, T)
    <3>1. g \in [S -> T]
      BY <2>2
    <3> HIDE DEF S, T
    <3>2. g \in Injection(S, T)
      BY <2>3, <3>1 DEF Injection, IsInjective
    <3>3. g \in Surjection(S, T)
      BY <2>4, <3>1 DEF Surjection
    <3>4. QED
      BY <3>2, <3>3
  <2>6. IsFiniteSet(S)
    <3>1. \A j \in Alive(K) : K.repair[j].swaps[v] \in Nat
      BY <1>11
    <3>2. Alive(K) \in SUBSET RepairJobs
      BY DEF Alive
    <3>3. QED
      BY <3>1, <3>2, AssociationsFinite
  <2> HIDE DEF S, T, g
  <2>7. Cardinality(S) = Cardinality(T)
    BY <2>5, <2>6, FS_Surjection
  <2>8. QED
    BY <2>7 DEF S, T
<1>13. ASSUME NEW i \in Ids, found[i] > 0 PROVE \E j \in K.byNode[i] : K.repair[j].swaps[v] > 0
  BY <1>2, <1>5, <1>13
<1>14. ASSUME NEW i \in Ids, NEW j \in J.byNode[i], NEW u \in Vecs, J.repair[j].swaps[u] > 0
       PROVE  j \in K.byNode[i] /\ K.repair[j].swaps[u] > 0
  <2>1. j \in Alive(J) /\ J.repair[j].node = i
    BY DEF Filed
  <2>2. u # v
    <3>1. ~ (0 > 0)
      OBVIOUS
    <3>2. QED
      BY <1>14, <2>1, <3>1
  <2>3. K.repair[j].swaps[u] = J.repair[j].swaps[u]
    BY <1>9, <2>1, <2>2
  <2>4. K.byNode[i] = {j}
    <3>1. CASE i \in nodes
      BY <1>2, <3>1
    <3>2. CASE i \notin nodes
      BY <1>1, <2>1, <3>2 DEF Filed
    <3>3. QED
      BY <3>1, <3>2
  <2>5. QED
    BY <1>14, <2>3, <2>4
<1>15. QED
  BY <1>7, <1>8, <1>10, <1>12, <1>13, <1>14 DEF AssignedExactly

\* The jobs once the swap job v of the element e, with n repairs, is there too.
WithSwapJob(W, v, e, n) ==
  ReadyIfNone([W EXCEPT !.swap[v] = [id |-> e, pending |-> n], !.bySwapId[e] = v], n)

SwapJobCreated(W, K, v, e, n) ==
  /\ K \in JobsType /\ K.repair = W.repair /\ K.byNode = W.byNode
  /\ \A u \in Vecs : K.swap[u] = IF u = v THEN [id |-> e, pending |-> n] ELSE W.swap[u]
  /\ \A i \in Ids : K.bySwapId[i] = IF i = e THEN v ELSE W.bySwapId[i]
  /\ K.ready = W.ready + IF n = 0 THEN 1 ELSE 0

LEMMA CreatedFields ==
  ASSUME NEW W \in JobsType, NEW v \in Vecs, NEW e \in Ids, NEW n \in Nat
  PROVE  SwapJobCreated(W, WithSwapJob(W, v, e, n), v, e, n)
<1>0. PICK K : K = WithSwapJob(W, v, e, n)
  OBVIOUS
<1> DEFINE swap == [W.swap EXCEPT ![v] = [id |-> e, pending |-> n]]
           bySwapId == [W.bySwapId EXCEPT ![e] = v]
<1>1. K = [repair |-> W.repair, byNode |-> W.byNode, swap |-> swap, bySwapId |-> bySwapId,
           ready |-> W.ready + IF n = 0 THEN 1 ELSE 0]
  <2>1. W.ready \in Int
    BY JobTypes
  <2>2. PICK H : H = [W EXCEPT !.swap = swap, !.bySwapId = bySwapId]
    OBVIOUS
  <2>3. H = [repair |-> W.repair, byNode |-> W.byNode, swap |-> swap, bySwapId |-> bySwapId,
             ready |-> W.ready]
    BY <2>2 DEF JobsType
  <2>4. K = ReadyIfNone(H, n)
    BY <1>0, <2>2 DEF WithSwapJob
  <2> HIDE DEF swap, bySwapId
  <2>5. CASE n = 0
    BY <2>1, <2>3, <2>4, <2>5 DEF ReadyIfNone
  <2>6. CASE n # 0
    BY <2>1, <2>3, <2>4, <2>6 DEF ReadyIfNone
  <2>7. QED
    BY <2>5, <2>6
<1>2. /\ swap \in [Vecs -> [id : Ids \cup {0}, pending : Int]]
      /\ bySwapId \in [Ids -> Vecs \cup {NoVec}] /\ W.ready \in Int
      /\ \A u \in Vecs : swap[u] = IF u = v THEN [id |-> e, pending |-> n] ELSE W.swap[u]
      /\ \A i \in Ids : bySwapId[i] = IF i = e THEN v ELSE W.bySwapId[i]
  BY JobTypes
<1> HIDE DEF swap, bySwapId
<1>3. K \in JobsType
  BY <1>1, <1>2, JobTypes DEF JobsType, RepairType
<1>4. SwapJobCreated(W, K, v, e, n)
  BY <1>1, <1>2, <1>3 DEF SwapJobCreated
<1>5. QED
  BY <1>0, <1>4

LEMMA CreateJobsStep ==
  ASSUME DeletionInv, CreateJobs
  PROVE  DeletionInv'
<1>0. /\ ElementsInv /\ LookupInv /\ GraphInv /\ WorkersInv /\ MainInv /\ JobsInv
      /\ EdgesIntoDeletedAreCovered
  BY DEF DeletionInv
<1>1. PICK e : e = Head(main.ids)
  OBVIOUS
<1>2. PICK v : v = meta[e].vec
  OBVIOUS
<1>3. PICK found : found = main.found
  OBVIOUS
<1>4. PICK W : W = WithRepairJobs(jobs, v, found)
  OBVIOUS
<1>5. PICK n : n = Cardinality(Entries(found))
  OBVIOUS
<1>6. /\ main.pc = "create" /\ Numberings(jobs, found) # {}
      /\ jobs' = ReadyIfNone([W EXCEPT !.swap[v] = [id |-> e, pending |-> n], !.bySwapId[e] = v], n)
      /\ main' = IF Len(main.ids) = 1 THEN Idle ELSE [pc |-> "copy", ids |-> Tail(main.ids)]
      /\ UNCHANGED <<count, meta, lookup, unused, calls, graph, worker>>
  BY <1>1, <1>2, <1>3, <1>4, <1>5 DEF CreateJobs
<1>7. /\ Len(main.ids) = 1 /\ e \in Deleted /\ e \in Ids /\ Uncollected = {e}
      /\ ~OwnsMain /\ Exact(graph, Stored) /\ Stored \in SUBSET Ids /\ Deleted \in SUBSET Stored
  BY <1>1, <1>6, CollectFacts
<1>8. main' = Idle
  BY <1>6, <1>7
<1>9. found \in [Ids -> Nat]
  BY <1>0, <1>3, <1>6, MainFields
<1>10. \A i \in Ids : /\ found[i] > 0 => i \in Stored
                      /\ e \in graph.links[i] => found[i] > 0
  BY <1>0, <1>1, <1>3, <1>6 DEF MainInv, CollectInv
<1>11. /\ main'.pc = "idle" /\ ~OwnsMain' /\ Uncollected' = {} /\ ToRemove = {} /\ ToRemove' = {}
       /\ Executed = 0 /\ Executed' = 0 /\ Stored' = Stored /\ Deleted' = Deleted
       /\ Collected = Deleted \ {e} /\ Collected' = Deleted
  BY <1>6, <1>7, <1>8
     DEF Idle, OwnsMain, Uncollected, ToRemove, Executed, Stored, Deleted, Collected
<1>12. /\ jobs \in JobsType /\ Filed(jobs, Stored) /\ Counted(jobs) /\ NoDangling(jobs)
       /\ Reclaimed(jobs, Deleted \ {e}) /\ Indexes(jobs, Deleted \ {e}, {})
       /\ jobs.ready = Cardinality(ReadyJobs(jobs))
  <2>1. jobs.ready \in Int /\ Cardinality(ReadyJobs(jobs)) \in Nat
    BY <1>0, JobTypes, VecSets DEF JobsInv, ReadyJobs
  <2>2. QED
    BY <1>0, <1>11, <2>1 DEF JobsInv
<1>13. v \in Vecs /\ ~HasSwap(jobs, v)
  <2>1. v \in Vecs
    BY <1>0, <1>2, <1>7, MetaFields
  <2>2. ASSUME HasSwap(jobs, v) PROVE FALSE
    <3>1. jobs.swap[v].id \in Deleted \ {e} /\ meta[jobs.swap[v].id].vec = v
      BY <1>12, <2>1, <2>2 DEF Reclaimed
    <3>2. QED
      BY <1>0, <1>2, <1>7, <3>1 DEF ElementsInv
  <2>3. QED
    BY <2>1, <2>2
<1>14. \A j \in Alive(jobs) : jobs.repair[j].swaps[v] = 0
  <2>1. \A j \in Alive(jobs) : jobs.repair[j].swaps[v] \in Nat
    BY <1>12, <1>13, JobTypes
  <2>2. QED
    BY <1>12, <1>13, <2>1 DEF NoDangling
<1>15. /\ W \in JobsType /\ W.swap = jobs.swap /\ W.bySwapId = jobs.bySwapId /\ W.ready = jobs.ready
       /\ \E job : Assigned(jobs, W, v, found, job)
  BY <1>4, <1>6, <1>7, <1>9, <1>12, <1>13, <1>14, RepairJobsAssigned
<1>16. AssignedExactly(jobs, W, Stored, v, found)
  BY <1>7, <1>9, <1>10, <1>12, <1>13, <1>14, <1>15, RepairJobsExact
<1>17. Cardinality(Associations(W, Alive(W), v)) = n
  BY <1>5, <1>16 DEF AssignedExactly
<1>18. n \in Nat
  BY <1>13, <1>15, <1>17, AliveAssociations
<1>19. /\ jobs' \in JobsType /\ jobs'.repair = W.repair /\ jobs'.byNode = W.byNode
       /\ \A u \in Vecs : jobs'.swap[u] = IF u = v THEN [id |-> e, pending |-> n] ELSE jobs.swap[u]
       /\ \A i \in Ids : jobs'.bySwapId[i] = IF i = e THEN v ELSE jobs.bySwapId[i]
       /\ jobs'.ready = jobs.ready + IF n = 0 THEN 1 ELSE 0
  <2>1. jobs' = WithSwapJob(W, v, e, n)
    BY <1>6 DEF WithSwapJob
  <2>2. SwapJobCreated(W, jobs', v, e, n)
    BY <1>7, <1>13, <1>15, <1>18, <2>1, CreatedFields
  <2>3. QED
    BY <1>15, <2>2 DEF SwapJobCreated
<1>20. Alive(jobs') = Alive(W)
  BY <1>19 DEF Alive
<1>21. JobsInv'
  <2>1. Filed(jobs', Stored)
    BY <1>16, <1>19, <1>20 DEF Filed, AssignedExactly
  <2>2. e # 0
    BY <1>7, IdsFacts
  <2>3. \A u \in Vecs : HasSwap(jobs', u) <=> HasSwap(jobs, u) \/ u = v
    BY <1>19, <2>2 DEF HasSwap
  <2>4. \A u \in Vecs : Associations(jobs', Alive(jobs'), u) = Associations(W, Alive(W), u)
    BY <1>19, <1>20 DEF Associations
  <2>5. \A u \in Vecs \ {v} : Associations(W, Alive(W), u) = Associations(jobs, Alive(jobs), u)
    BY <1>16 DEF AssignedExactly
  <2>6. Counted(jobs')
    <3>1. ASSUME NEW u \in Vecs
          PROVE  jobs'.swap[u].pending =
                   IF HasSwap(jobs', u) THEN Cardinality(Associations(jobs', Alive(jobs'), u)) ELSE 0
      <4>1. CASE u = v
        BY <1>17, <1>19, <2>3, <2>4, <4>1
      <4>2. CASE u # v
        BY <1>12, <1>19, <2>3, <2>4, <2>5, <4>2 DEF Counted
      <4>3. QED
        BY <4>1, <4>2
    <3>2. QED
      BY <3>1 DEF Counted
  <2>7. NoDangling(jobs')
    <3>1. ASSUME NEW j \in Alive(jobs'), NEW u \in Vecs \ {v}, jobs'.repair[j].swaps[u] > 0
          PROVE  HasSwap(jobs', u)
      <4>1. j \in Alive(W) /\ W.repair[j].swaps[u] \in Nat /\ W.repair[j].swaps[u] > 0
        BY <1>15, <1>19, <1>20, <3>1, JobTypes
      <4>2. <<j, 1>> \in {j} \X (1..W.repair[j].swaps[u])
        BY <4>1
      <4>3. <<j, 1>> \in Associations(jobs, Alive(jobs), u)
        BY <2>5, <4>1, <4>2 DEF Associations
      <4>4. PICK k \in Alive(jobs) : <<j, 1>> \in {k} \X (1..jobs.repair[k].swaps[u])
        BY <4>3 DEF Associations
      <4>5. jobs.repair[k].swaps[u] \in Nat /\ 1 \in 1..jobs.repair[k].swaps[u]
        BY <1>12, <4>4, JobTypes
      <4>6. HasSwap(jobs, u)
        BY <1>12, <4>5 DEF NoDangling
      <4>7. QED
        BY <2>3, <4>6
    <3>2. QED
      BY <1>13, <2>3, <3>1 DEF NoDangling
  <2>8. Reclaimed(jobs, Collected)'
    <3>1. ASSUME NEW u \in Vecs, HasSwap(jobs', u)
          PROVE  jobs'.swap[u].id \in Deleted /\ meta[jobs'.swap[u].id].vec = u
      BY <1>2, <1>7, <1>12, <1>19, <2>3, <3>1 DEF Reclaimed
    <3>2. ASSUME NEW i \in Deleted PROVE jobs'.swap[meta[i].vec].id = i
      <4>1. meta[i].vec \in Vecs /\ (meta[i].vec = v => i = e)
        BY <1>0, <1>2, <1>7, MetaFields DEF ElementsInv
      <4>2. QED
        BY <1>2, <1>12, <1>19, <4>1 DEF Reclaimed
    <3>3. QED
      BY <1>6, <1>11, <3>1, <3>2 DEF Reclaimed
  <2>9. Indexes(jobs, Collected, ToRemove)'
    BY <1>2, <1>6, <1>7, <1>11, <1>12, <1>19 DEF Indexes
  <2>10. GCInv'
    BY <1>11 DEF GCInv
  <2>11. jobs'.ready = Cardinality(ReadyJobs(jobs'))
    <3>1. ReadyJobs(jobs') = ReadyJobs(jobs) \cup IF n = 0 THEN {v} ELSE {}
      BY <1>13, <1>18, <1>19, <2>3 DEF ReadyJobs
    <3>2. ReadyJobs(jobs) \in SUBSET Vecs /\ v \notin ReadyJobs(jobs)
      BY <1>13 DEF ReadyJobs
    <3>3. Cardinality(ReadyJobs(jobs) \cup {v}) = Cardinality(ReadyJobs(jobs)) + 1
      BY <1>13, <3>2, VecSets
    <3>4. jobs.ready \in Int
      BY <1>12, JobTypes
    <3>5. CASE n = 0
      BY <1>12, <1>19, <3>1, <3>3, <3>4, <3>5
    <3>6. CASE n # 0
      <4>1. ReadyJobs(jobs') = ReadyJobs(jobs)
        BY <3>1, <3>6
      <4>2. QED
        BY <1>12, <1>19, <3>4, <3>6, <4>1
    <3>7. QED
      BY <3>5, <3>6
  <2>12. jobs'.ready \in Int
    BY <1>19, JobTypes
  <2>13. QED
    BY <1>11, <1>19, <2>1, <2>6, <2>7, <2>8, <2>9, <2>10, <2>11, <2>12 DEF JobsInv
<1>22. EdgesIntoDeletedAreCovered'
  <2>1. ASSUME NEW i \in Stored, NEW x \in Deleted, x \in graph.links[i]
        PROVE  \/ \E j \in W.byNode[i] : W.repair[j].swaps[meta[x].vec] > 0
               \/ \E w \in Workers : worker[w].pc = "repair" /\ worker[w].node = i
               \/ \E w \in Workers : /\ worker[w].pc \in {"candidates", "update"}
                                     /\ worker[w].node = i /\ x \in worker[w].gone
    <3>1. i \in Ids /\ meta[x].vec \in Vecs
      BY <1>0, <1>7, MetaFields
    <3>2. CASE x = e
      <4>1. found[i] > 0
        BY <1>10, <2>1, <3>1, <3>2
      <4>2. QED
        BY <1>2, <1>16, <3>1, <3>2, <4>1 DEF AssignedExactly
    <3>3. CASE x # e
      <4>1. x \in Deleted \ Uncollected
        BY <1>7, <3>3
      <4>2. CASE \E j \in jobs.byNode[i] : jobs.repair[j].swaps[meta[x].vec] > 0
        BY <1>16, <3>1, <4>2 DEF AssignedExactly
      <4>3. CASE ~ \E j \in jobs.byNode[i] : jobs.repair[j].swaps[meta[x].vec] > 0
        BY <1>0, <2>1, <4>1, <4>3 DEF EdgesIntoDeletedAreCovered
      <4>4. QED
        BY <4>2, <4>3
    <3>4. QED
      BY <3>2, <3>3
  <2>2. QED
    BY <1>6, <1>11, <1>19, <2>1 DEF EdgesIntoDeletedAreCovered
<1>23. ElementsInv'
  BY <1>0, <1>6, ElementsFrame DEF ElementsInv
<1>24. LookupInv'
  BY <1>0, <1>6, <1>11, LookupFrame DEF Outdated
<1>25. GraphInv'
  BY <1>6, <1>7, <1>11 DEF GraphInv
<1>26. WorkersInv'
  <2>1. Marking = {}
    BY <1>0, <1>6, MarkingFacts
  <2>2. QED
    BY <1>0, <1>6, <2>1, WorkersFrame
<1>27. MainInv'
  <2>1. CollectInv' /\ InplaceInv' /\ main' \in MainType
    BY <1>8, <1>11 DEF CollectInv, InplaceInv, MainType
  <2>2. QED
    BY <1>11, <2>1 DEF MainInv
<1>28. QED
  BY <1>21, <1>22, <1>23, <1>24, <1>25, <1>26, <1>27 DEF DeletionInv

-----------------------------------------------------------------------------
(* Calls that own the index begin and end.                                  *)

\* A step that leaves the elements, the graph, the repair jobs and the swap jobs
\* as they are.
LEMMA OwnersFrame ==
  ASSUME DeletionInv, UNCHANGED <<count, meta, unused, graph, worker>>, calls' \in Nat,
         jobs' \in JobsType, jobs'.repair = jobs.repair, jobs'.byNode = jobs.byNode,
         jobs'.swap = jobs.swap, Collected' = Collected,
         Indexes(jobs, Collected, ToRemove)', GCInv',
         jobs'.ready - Executed' = jobs.ready - Executed, Executed \in Nat, Executed' \in Nat,
         LookupInv', GraphInv', MainInv', main.pc # "copy"
  PROVE  DeletionInv'
<1>1. /\ ElementsInv /\ WorkersInv /\ JobsInv /\ EdgesIntoDeletedAreCovered
  BY DEF DeletionInv
<1>2. Stored' = Stored /\ Deleted' = Deleted
  BY DEF Stored, Deleted
<1>3. ElementsInv'
  BY <1>1, ElementsFrame
<1>4. WorkersInv'
  <2>1. Marking = {}
    BY MarkingFacts DEF DeletionInv
  <2>2. QED
    BY <1>1, <2>1, WorkersFrame
<1>5. EdgesIntoDeletedAreCovered'
  BY <1>1, <1>2 DEF EdgesIntoDeletedAreCovered, Collected
<1>6. Filed(jobs', Stored') /\ Counted(jobs') /\ NoDangling(jobs') /\ Reclaimed(jobs, Collected)'
  <2>1. Alive(jobs') = Alive(jobs)
    BY DEF Alive
  <2>2. \A v \in Vecs : HasSwap(jobs', v) <=> HasSwap(jobs, v)
    BY DEF HasSwap
  <2>3. \A v \in Vecs : Associations(jobs', Alive(jobs'), v) = Associations(jobs, Alive(jobs), v)
    BY <2>1 DEF Associations
  <2>4. Filed(jobs', Stored')
    BY <1>1, <1>2, <2>1 DEF JobsInv, Filed
  <2>5. Counted(jobs') /\ NoDangling(jobs')
    BY <1>1, <2>1, <2>2, <2>3 DEF JobsInv, Counted, NoDangling
  <2>6. Reclaimed(jobs, Collected)'
    BY <1>1, <2>2 DEF JobsInv, Reclaimed
  <2>7. QED
    BY <2>4, <2>5, <2>6
<1>7. jobs'.ready = Cardinality(ReadyJobs(jobs')) + Executed'
  <2>1. ReadyJobs(jobs') = ReadyJobs(jobs)
    BY DEF ReadyJobs, HasSwap
  <2>2. Cardinality(ReadyJobs(jobs)) \in Nat
    BY VecSets DEF ReadyJobs
  <2>3. jobs.ready = Cardinality(ReadyJobs(jobs)) + Executed /\ jobs'.ready \in Int /\ jobs.ready \in Int
    BY <1>1, JobTypes DEF JobsInv
  <2>4. QED
    BY <2>1, <2>2, <2>3
<1>8. JobsInv'
  BY <1>6, <1>7 DEF JobsInv
<1>9. QED
  BY <1>3, <1>4, <1>5, <1>8 DEF DeletionInv

LEMMA StartGCStep ==
  ASSUME DeletionInv, StartGC
  PROVE  DeletionInv'
<1>1. /\ ElementsInv /\ LookupInv /\ GraphInv /\ MainInv /\ JobsInv
  BY DEF DeletionInv
<1>2. /\ main = Idle /\ NoWorkerActive
      /\ main' = [pc |-> "gc", todo |-> {i \in Ids : jobs.bySwapId[i] # NoVec}, toRemove |-> <<>>]
      /\ UNCHANGED <<count, meta, lookup, unused, calls, graph, jobs, worker>>
  BY DEF StartGC
<1>3. /\ main.pc = "idle" /\ main'.pc = "gc" /\ ~OwnsMain /\ OwnsMain'
      /\ Uncollected = {} /\ Uncollected' = {} /\ ToRemove = {} /\ ToRemove' = {}
      /\ Executed = 0 /\ Executed' = 0
  BY <1>2, ShortSeqs DEF Idle, OwnsMain, Uncollected, ToRemove, Executed
<1>4. Stored' = Stored /\ Deleted' = Deleted /\ Collected' = Collected
  BY <1>2, <1>3 DEF Stored, Deleted, Collected
<1>5. /\ jobs \in JobsType /\ Reclaimed(jobs, Collected) /\ Indexes(jobs, Collected, {})
  BY <1>1, <1>3 DEF JobsInv
<1>6. Indexes(jobs, Collected, ToRemove)'
  BY <1>2, <1>3, <1>4, <1>5 DEF Indexes
<1>7. GCInv'
  <2>1. ASSUME NEW i \in Ids, jobs.bySwapId[i] # NoVec
        PROVE  /\ HasSwap(jobs, jobs.bySwapId[i]) /\ jobs.swap[jobs.bySwapId[i]].id = i
    <3>1. i \in Collected /\ jobs.bySwapId[i] = meta[i].vec
      BY <1>5, <2>1 DEF Indexes
    <3>2. jobs.swap[jobs.bySwapId[i]].id = i
      BY <1>5, <3>1 DEF Reclaimed
    <3>3. QED
      BY <3>2, IdsFacts DEF HasSwap
  <2>2. QED
    BY <1>2, <2>1 DEF GCInv
<1>8. main' \in MainType
  BY <1>2 DEF MainType
<1>9. MainInv'
  BY <1>2, <1>3, <1>8 DEF MainInv, CollectInv, InplaceInv, NoWorkerActive
<1>10. LookupInv' /\ GraphInv'
  BY <1>1, <1>2, <1>3, <1>4, LookupFrame DEF Outdated, GraphInv
<1>11. calls' \in Nat /\ jobs' \in JobsType
  BY <1>1, <1>2, <1>5 DEF ElementsInv
<1>12. QED
  BY <1>2, <1>3, <1>4, <1>6, <1>7, <1>9, <1>10, <1>11, OwnersFrame

LEMMA ErasedFields ==
  ASSUME NEW J \in JobsType, NEW R \in Seq(Ids)
  PROVE  /\ Erased(J, R) \in JobsType
         /\ Erased(J, R).repair = J.repair /\ Erased(J, R).byNode = J.byNode
         /\ Erased(J, R).swap = J.swap
         /\ \A i \in Ids : Erased(J, R).bySwapId[i] = IF i \in Range(R) THEN NoVec ELSE J.bySwapId[i]
         /\ Erased(J, R).ready = J.ready - Len(R)
<1>0. PICK K : K = Erased(J, R)
  OBVIOUS
<1> DEFINE bySwapId == [i \in Ids |-> IF i \in Range(R) THEN NoVec ELSE J.bySwapId[i]]
<1>1. K = [repair |-> J.repair, byNode |-> J.byNode, swap |-> J.swap, bySwapId |-> bySwapId,
           ready |-> J.ready - Len(R)]
  BY <1>0 DEF Erased, JobsType
<1>2. /\ bySwapId \in [Ids -> Vecs \cup {NoVec}] /\ J.ready \in Int /\ Len(R) \in Nat
  BY JobTypes
<1>3. K \in JobsType
  BY <1>1, <1>2, JobTypes DEF JobsType, RepairType
<1>4. QED
  BY <1>0, <1>1, <1>3

LEMMA FinishGCStep ==
  ASSUME DeletionInv, FinishGC
  PROVE  DeletionInv'
<1>1. /\ ElementsInv /\ LookupInv /\ GraphInv /\ MainInv /\ JobsInv
  BY DEF DeletionInv
<1>2. /\ main.pc = "gc" /\ jobs' = Erased(jobs, main.toRemove) /\ main' = Idle
      /\ UNCHANGED <<count, meta, lookup, unused, calls, graph, worker>>
  BY DEF FinishGC
<1>3. /\ main'.pc = "idle" /\ OwnsMain /\ ~OwnsMain' /\ Uncollected = {} /\ Uncollected' = {}
      /\ ToRemove = Range(main.toRemove) /\ ToRemove' = {}
      /\ Executed = Len(main.toRemove) /\ Executed' = 0
  BY <1>2 DEF Idle, OwnsMain, Uncollected, ToRemove, Executed
<1>4. Stored' = Stored /\ Deleted' = Deleted /\ Collected' = Collected
  BY <1>2, <1>3 DEF Stored, Deleted, Collected
<1>5. main.toRemove \in Seq(Ids) /\ jobs \in JobsType
  BY <1>1, <1>3, MainFields DEF JobsInv
<1>6. /\ jobs' \in JobsType /\ jobs'.repair = jobs.repair /\ jobs'.byNode = jobs.byNode
      /\ jobs'.swap = jobs.swap
      /\ \A i \in Ids : jobs'.bySwapId[i] = IF i \in ToRemove THEN NoVec ELSE jobs.bySwapId[i]
      /\ jobs'.ready = jobs.ready - Executed
  BY <1>2, <1>3, <1>5, ErasedFields
<1>7. Indexes(jobs, Collected, ToRemove)'
  <2>1. Indexes(jobs, Collected, ToRemove)
    BY <1>1 DEF JobsInv
  <2>2. \A i \in Ids : jobs'.bySwapId[i] = IF i \in Collected THEN meta[i].vec ELSE NoVec
    BY <1>6, <2>1 DEF Indexes
  <2>3. QED
    BY <1>2, <1>3, <1>4, <2>2 DEF Indexes
<1>8. GCInv' /\ MainInv'
  BY <1>2, <1>3 DEF GCInv, MainInv, MainType, CollectInv, InplaceInv
<1>9. LookupInv' /\ GraphInv'
  BY <1>1, <1>2, <1>3, <1>4, LookupFrame DEF Outdated, GraphInv
<1>10. /\ calls' \in Nat /\ Executed \in Nat /\ Executed' \in Nat
       /\ jobs'.ready - Executed' = jobs.ready - Executed
  <2>1. jobs.ready \in Int /\ Executed \in Nat
    BY <1>3, <1>5, JobTypes
  <2>2. QED
    BY <1>1, <1>2, <1>3, <1>6, <2>1 DEF ElementsInv
<1>11. QED
  BY <1>2, <1>4, <1>6, <1>7, <1>8, <1>9, <1>10, OwnersFrame

LEMMA StartInplaceStep ==
  ASSUME DeletionInv, NEW l \in Labels, StartInplace(l)
  PROVE  DeletionInv'
<1>1. /\ ElementsInv /\ LookupInv /\ GraphInv /\ MainInv /\ JobsInv
  BY DEF DeletionInv
<1>2. /\ main = Idle /\ NoWorkerActive /\ lookup[l] # <<>> /\ calls' = calls + 1
      /\ jobs' = [jobs EXCEPT !.ready = @ + Len(lookup[l])]
      /\ main' = [pc |-> "inplace", label |-> l, ind |-> 1, toRemove |-> <<>>]
      /\ UNCHANGED <<count, meta, lookup, unused, graph, worker>>
  BY DEF StartInplace
<1>3. /\ main.pc = "idle" /\ main'.pc = "inplace" /\ ~OwnsMain /\ OwnsMain'
      /\ Uncollected = {} /\ Uncollected' = {} /\ ToRemove = {} /\ ToRemove' = {}
      /\ Executed = 0 /\ Executed' = 1
  BY <1>2, ShortSeqs DEF Idle, OwnsMain, Uncollected, ToRemove, Executed
<1>4. Stored' = Stored /\ Deleted' = Deleted /\ Collected' = Collected
  BY <1>2, <1>3 DEF Stored, Deleted, Collected
<1>5. Len(lookup[l]) = 1
  <2>1. lookup[l] \in Seq(Ids) /\ Len(lookup[l]) <= 1
    BY <1>1 DEF LookupInv
  <2>2. QED
    BY <1>2, <2>1, ShortSeqs
<1>6. /\ jobs' \in JobsType /\ jobs'.repair = jobs.repair /\ jobs'.byNode = jobs.byNode
      /\ jobs'.swap = jobs.swap /\ jobs'.bySwapId = jobs.bySwapId
      /\ jobs.ready \in Int /\ jobs'.ready = jobs.ready + 1
  <2>1. jobs \in JobsType
    BY <1>1 DEF JobsInv
  <2>2. jobs' = [jobs EXCEPT !.ready = jobs.ready + 1]
    BY <1>2, <1>5
  <2>3. QED
    BY <2>1, <2>2 DEF JobsType
<1>7. Indexes(jobs, Collected, ToRemove)'
  <2>1. Indexes(jobs, Collected, ToRemove)
    BY <1>1 DEF JobsInv
  <2>2. QED
    BY <1>2, <1>3, <1>4, <1>6, <2>1 DEF Indexes
<1>8. GCInv'
  BY <1>3 DEF GCInv
<1>9. MainInv'
  <2>1. main' \in MainType
    BY <1>2 DEF MainType
  <2>2. InplaceInv'
    BY <1>2, <1>5 DEF InplaceInv
  <2>3. QED
    BY <1>2, <1>3, <2>1, <2>2 DEF MainInv, CollectInv, NoWorkerActive
<1>10. LookupInv' /\ GraphInv'
  <2>1. \A k \in Labels : ~Outdated(k) /\ ~Outdated(k)'
    BY <1>2, <1>3 DEF Outdated
  <2>2. QED
    BY <1>1, <1>2, <1>3, <1>4, <2>1, LookupFrame DEF GraphInv
<1>11. /\ calls' \in Nat /\ Executed \in Nat /\ Executed' \in Nat
       /\ jobs'.ready - Executed' = jobs.ready - Executed
  BY <1>1, <1>2, <1>3, <1>6 DEF ElementsInv
<1>12. QED
  BY <1>2, <1>3, <1>4, <1>6, <1>7, <1>8, <1>9, <1>10, <1>11, OwnersFrame

LEMMA NextInplaceStep ==
  ASSUME DeletionInv, NextInplace
  PROVE  DeletionInv'
<1>1. /\ ElementsInv /\ LookupInv /\ GraphInv /\ MainInv /\ JobsInv
  BY DEF DeletionInv
<1>2. PICK l : l = main.label
  OBVIOUS
<1>3. PICK e : e = lookup[l][1]
  OBVIOUS
<1>4. main.pc = "inplace" /\ main.ind <= Len(lookup[l])
  BY <1>2 DEF NextInplace
<1>5. /\ l \in Labels /\ main.ind = 1 /\ main.toRemove = <<>> /\ Len(lookup[l]) = 1
      /\ lookup[l] = <<e>> /\ e \in Ids
  <2>1. Len(lookup[l]) = 1 /\ Len(main.toRemove) = main.ind - 1
    BY <1>1, <1>2, <1>4 DEF MainInv, InplaceInv
  <2>2. l \in Labels /\ main.ind \in {1, 2} /\ main.toRemove \in Seq(Ids)
    BY <1>1, <1>2, <1>4, MainFields DEF OwnsMain
  <2>3. main.ind = 1 /\ Len(main.toRemove) = 0
    BY <1>4, <2>1, <2>2
  <2>4. lookup[l] \in Seq(Ids)
    BY <1>1, <2>2 DEF LookupInv
  <2>5. QED
    BY <1>3, <2>1, <2>2, <2>3, <2>4, ShortSeqs
<1> DEFINE todo == {u \in graph.links[e] : e \in graph.links[u]} \cup graph.incoming[e]
<1>6. /\ main' = [pc |-> "unlink", label |-> l, ind |-> 1, toRemove |-> <<>>, id |-> e,
                  todo |-> todo]
      /\ UNCHANGED <<count, meta, lookup, unused, calls, graph, jobs, worker>>
  BY <1>2, <1>3, <1>5 DEF NextInplace
<1>7. /\ main'.pc = "unlink" /\ OwnsMain /\ OwnsMain' /\ Uncollected = {} /\ Uncollected' = {}
      /\ ToRemove = {} /\ ToRemove' = {} /\ Executed = 1 /\ Executed' = 1
  BY <1>4, <1>5, <1>6, ShortSeqs DEF OwnsMain, Uncollected, ToRemove, Executed
<1>8. Stored' = Stored /\ Deleted' = Deleted /\ Collected' = Collected
  BY <1>6, <1>7 DEF Stored, Deleted, Collected
<1>9. e \in Stored /\ Exact(graph, Stored) /\ Stored \in SUBSET Ids
  <2>1. ~Outdated(l)
    BY <1>5 DEF Outdated
  <2>2. e \in Range(lookup[l])
    BY <1>5, ShortSeqs
  <2>3. e \in Stored
    BY <1>1, <1>5, <2>1, <2>2 DEF LookupInv
  <2>4. QED
    BY <1>1, <1>4, <2>3, Storage DEF GraphInv
<1>10. Unlinking(graph, Stored, e, todo)
  BY <1>9, UnlinkingBegins
<1>11. todo \in SUBSET Ids
  BY <1>9 DEF Exact, Shaped, GraphType
<1> HIDE DEF todo
<1>12. GraphInv'
  BY <1>6, <1>8, <1>10 DEF GraphInv
<1>13. MainInv'
  <2>1. main' \in MainType
    <3>1. <<>> \in Seq(Ids) /\ 1 \in {1}
      OBVIOUS
    <3>2. main' \in [pc : {"unlink"}, label : Labels, ind : {1}, toRemove : Seq(Ids),
                     id : Ids, todo : SUBSET Ids]
      BY <1>5, <1>6, <1>11, <3>1
    <3>3. QED
      BY <3>2, Zenon DEF MainType
  <2>2. InplaceInv'
    <3>1. main'.label = l /\ main'.ind = 1 /\ main'.toRemove = <<>> /\ main'.id = e /\ lookup' = lookup
      BY <1>6
    <3>2. Len(<<>>) = 1 - 1
      OBVIOUS
    <3>3. QED
      BY <1>3, <1>5, <3>1, <3>2 DEF InplaceInv
  <2>3. QED
    BY <1>1, <1>6, <1>7, <2>1, <2>2 DEF MainInv, CollectInv, NoWorkerActive
<1>14. LookupInv'
  <2>1. \A k \in Labels : ~Outdated(k) /\ ~Outdated(k)'
    BY <1>5, <1>6 DEF Outdated
  <2>2. QED
    BY <1>1, <1>6, <2>1, LookupFrame
<1>15. Indexes(jobs, Collected, ToRemove)' /\ GCInv' /\ jobs' \in JobsType /\ jobs.ready \in Int
  <2>1. Indexes(jobs, Collected, ToRemove) /\ jobs \in JobsType
    BY <1>1 DEF JobsInv
  <2>2. QED
    BY <1>6, <1>7, <1>8, <2>1, JobTypes DEF Indexes, GCInv
<1>16. calls' \in Nat /\ Executed \in Nat /\ Executed' \in Nat
  BY <1>1, <1>6, <1>7 DEF ElementsInv
<1>17. QED
  BY <1>4, <1>6, <1>7, <1>8, <1>12, <1>13, <1>14, <1>15, <1>16, OwnersFrame

LEMMA FinishInplaceStep ==
  ASSUME DeletionInv, FinishInplace
  PROVE  DeletionInv'
<1>1. /\ ElementsInv /\ LookupInv /\ GraphInv /\ MainInv /\ JobsInv
  BY DEF DeletionInv
<1>2. PICK l : l = main.label
  OBVIOUS
<1>3. /\ main.pc = "inplace" /\ main.ind > Len(lookup[l])
      /\ lookup' = [lookup EXCEPT ![l] = <<>>]
      /\ jobs' = Erased(jobs, main.toRemove) /\ main' = Idle
      /\ UNCHANGED <<count, meta, unused, calls, graph, worker>>
  BY <1>2 DEF FinishInplace
<1>4. /\ l \in Labels /\ main.ind = 2 /\ main.toRemove \in Seq(Ids) /\ Len(main.toRemove) = 1
  <2>1. Len(lookup[l]) = 1 /\ Len(main.toRemove) = main.ind - 1
    BY <1>1, <1>2, <1>3 DEF MainInv, InplaceInv
  <2>2. l \in Labels /\ main.ind \in {1, 2} /\ main.toRemove \in Seq(Ids)
    BY <1>1, <1>2, <1>3, MainFields DEF OwnsMain
  <2>3. QED
    BY <1>3, <2>1, <2>2
<1>5. /\ main'.pc = "idle" /\ OwnsMain /\ ~OwnsMain' /\ Uncollected = {} /\ Uncollected' = {}
      /\ ToRemove = Range(main.toRemove) /\ ToRemove' = {}
      /\ Executed = 1 /\ Executed' = 0
  BY <1>3 DEF Idle, OwnsMain, Uncollected, ToRemove, Executed
<1>6. Stored' = Stored /\ Deleted' = Deleted /\ Collected' = Collected
  BY <1>3, <1>5 DEF Stored, Deleted, Collected
<1>7. jobs \in JobsType
  BY <1>1 DEF JobsInv
<1>8. /\ jobs' \in JobsType /\ jobs'.repair = jobs.repair /\ jobs'.byNode = jobs.byNode
      /\ jobs'.swap = jobs.swap
      /\ \A i \in Ids : jobs'.bySwapId[i] = IF i \in ToRemove THEN NoVec ELSE jobs.bySwapId[i]
      /\ jobs'.ready = jobs.ready - 1
  BY <1>3, <1>4, <1>5, <1>7, ErasedFields
<1>9. Indexes(jobs, Collected, ToRemove)'
  <2>1. Indexes(jobs, Collected, ToRemove)
    BY <1>1 DEF JobsInv
  <2>2. \A i \in Ids : jobs'.bySwapId[i] = IF i \in Collected THEN meta[i].vec ELSE NoVec
    BY <1>8, <2>1 DEF Indexes
  <2>3. QED
    BY <1>3, <1>5, <1>6, <2>2 DEF Indexes
<1>10. GCInv' /\ MainInv'
  BY <1>3, <1>5 DEF GCInv, MainInv, MainType, CollectInv, InplaceInv
<1>11. LookupInv'
  <2>1. \A k \in Labels : (Outdated(k) <=> k = l) /\ ~Outdated(k)'
    BY <1>2, <1>3, <1>4, <1>5 DEF Outdated
  <2>2. lookup \in [Labels -> Seq(Ids)] /\ lookup' \in [Labels -> Seq(Ids)]
    BY <1>1, <1>3, <1>4 DEF LookupInv
  <2>3. ASSUME NEW k \in Labels
        PROVE  /\ Len(lookup'[k]) <= 1
               /\ {i \in Stored : ~meta[i].deleted /\ LabelOf[meta[i].vec] = k} = Range(lookup'[k])
    <3>1. CASE k = l
      <4>1. lookup'[k] = <<>> /\ Len(<<>>) = 0
        BY <1>3, <2>2, <3>1
      <4>2. {i \in Stored : ~meta[i].deleted /\ LabelOf[meta[i].vec] = k} = {}
        BY <1>1, <2>1, <3>1 DEF LookupInv
      <4>3. QED
        BY <4>1, <4>2, ShortSeqs
    <3>2. CASE k # l
      <4>1. lookup'[k] = lookup[k]
        BY <1>3, <2>2, <3>2
      <4>2. /\ Len(lookup[k]) <= 1
            /\ {i \in Stored : ~meta[i].deleted /\ LabelOf[meta[i].vec] = k} = Range(lookup[k])
        BY <1>1, <2>1, <3>2 DEF LookupInv
      <4>3. QED
        BY <4>1, <4>2
    <3>3. QED
      BY <3>1, <3>2
  <2>4. QED
    BY <1>3, <1>6, <2>1, <2>2, <2>3 DEF LookupInv
<1>12. GraphInv'
  BY <1>1, <1>3, <1>5, <1>6 DEF GraphInv
<1>13. /\ calls' \in Nat /\ Executed \in Nat /\ Executed' \in Nat
       /\ jobs'.ready - Executed' = jobs.ready - Executed
  <2>1. jobs.ready \in Int
    BY <1>7, JobTypes
  <2>2. QED
    BY <1>1, <1>3, <1>5, <1>8, <2>1 DEF ElementsInv
<1>14. QED
  BY <1>3, <1>6, <1>8, <1>9, <1>10, <1>11, <1>12, <1>13, OwnersFrame

LEMMA RepairForDeletionStep ==
  ASSUME DeletionInv, RepairForDeletion
  PROVE  DeletionInv' /\ CollectedGain
<1>1. /\ ElementsInv /\ LookupInv /\ GraphInv /\ WorkersInv /\ MainInv /\ JobsInv
      /\ EdgesIntoDeletedAreCovered
  BY DEF DeletionInv
<1>2. PICK u \in main.todo : /\ graph' \in InplaceRepairs(graph, main.id, u, Deleted)
                             /\ main' = [main EXCEPT !.todo = @ \ {u}]
  BY DEF RepairForDeletion
<1>3. main.pc = "unlink" /\ UNCHANGED <<count, meta, lookup, unused, calls, jobs, worker>>
  BY DEF RepairForDeletion
<1>4. main \in [pc : {"unlink"}, label : Labels, ind : {1}, toRemove : Seq(Ids),
                id : Ids, todo : SUBSET Ids]
  BY <1>1, <1>3 DEF MainInv, MainType, Idle
<1>5. /\ main' = [pc |-> "unlink", label |-> main.label, ind |-> 1, toRemove |-> main.toRemove,
                  id |-> main.id, todo |-> main.todo \ {u}]
      /\ main' \in MainType
  <2>1. main' = [pc |-> "unlink", label |-> main.label, ind |-> 1, toRemove |-> main.toRemove,
                 id |-> main.id, todo |-> main.todo \ {u}]
    BY <1>2, <1>4
  <2>2. QED
    BY <1>4, <2>1 DEF MainType
<1>6. /\ OwnsMain /\ OwnsMain' /\ Uncollected = {} /\ Uncollected' = {} /\ ToRemove' = ToRemove
      /\ Executed = 1 /\ Executed' = 1
  BY <1>3, <1>5 DEF OwnsMain, Uncollected, ToRemove, Executed
<1>7. /\ Stored' = Stored /\ Deleted' = Deleted /\ Collected' = Collected
      /\ Stored \in SUBSET Ids /\ Collected = Deleted
  BY <1>1, <1>3, <1>6, Storage DEF Stored, Deleted, Collected
<1>8. PICK e : e = main.id
  OBVIOUS
<1>9. /\ Unlinking(graph, Stored, e, main.todo) /\ e \in Stored
  <2>1. Unlinking(graph, Stored, e, main.todo)
    BY <1>1, <1>3, <1>8 DEF GraphInv
  <2>2. e \in graph.links[u] /\ u \in Ids
    BY <1>2, <1>4, <2>1 DEF Unlinking
  <2>3. QED
    BY <2>1, <2>2 DEF Unlinking, Shaped
<1>10. /\ Unlinking(graph', Stored, e, main.todo \ {u})
       /\ \A i, x \in Ids : x \in graph'.links[i] => x \in graph.links[i] \/ x \notin Deleted
  <2>1. PICK todo \in SUBSET Ids : todo = main.todo
    BY <1>4
  <2>2. PICK D : D = Deleted
    OBVIOUS
  <2>3. PICK N \in SUBSET Ids : N = Stored
    BY <1>7
  <2>4. e \in N /\ Unlinking(graph, N, e, todo) /\ u \in todo
        /\ graph' \in InplaceRepairs(graph, e, u, D)
    BY <1>2, <1>8, <1>9, <2>1, <2>2, <2>3
  <2>5. /\ Unlinking(graph', N, e, todo \ {u})
        /\ \A i, x \in Ids : x \in graph'.links[i] => x \in graph.links[i] \/ x \notin D
    BY <2>4, InplaceRepairExact
  <2>6. QED
    BY <2>1, <2>2, <2>3, <2>5
<1>11. GraphInv'
  BY <1>5, <1>7, <1>8, <1>10 DEF GraphInv
<1>12. WorkersInv'
  <2>1. \A w \in Workers : worker'[w].pc = "idle"
    BY <1>1, <1>3, <1>6 DEF MainInv, NoWorkerActive
  <2>2. worker' \in [Workers -> WorkerType]
    BY <1>1, <1>3 DEF WorkersInv
  <2>3. \A w \in Workers : ~Inserting(w)' /\ ~Repairing(w)'
    BY <2>1 DEF Inserting, Repairing
  <2>4. LocksInv'
    BY <2>1, NoLocks DEF LocksInv
  <2>5. QED
    BY <2>1, <2>2, <2>3, <2>4, Zenon DEF WorkersInv
<1>13. MainInv'
  <2>1. main.ind = 1 /\ InplaceInv
    BY <1>1, <1>4 DEF MainInv
  <2>2. /\ main'.pc = "unlink" /\ main'.label = main.label /\ main'.ind = 1 /\ main'.id = main.id
        /\ main'.toRemove = main.toRemove /\ lookup' = lookup
    BY <1>3, <1>5
  <2>3. InplaceInv'
    BY <1>3, <2>1, <2>2 DEF InplaceInv
  <2>4. CollectInv'
    BY <2>2 DEF CollectInv
  <2>5. NoWorkerActive'
    BY <1>1, <1>3, <1>6 DEF MainInv, NoWorkerActive
  <2>6. QED
    BY <1>5, <2>3, <2>4, <2>5 DEF MainInv
<1>14. LookupInv'
  BY <1>1, <1>3, <1>5, LookupFrame DEF Outdated
<1>15. ElementsInv'
  BY <1>1, <1>3, ElementsFrame DEF ElementsInv
<1>16. JobsInv'
  BY <1>1, <1>3, <1>5, <1>6, <1>7, JobsFrame
<1>17. EdgesIntoDeletedAreCovered'
  <2>1. ASSUME NEW i \in Stored, NEW x \in Deleted, x \in graph'.links[i]
        PROVE  \E j \in jobs.byNode[i] : jobs.repair[j].swaps[meta[x].vec] > 0
    <3>1. x \in graph.links[i]
      BY <1>7, <1>10, <2>1 DEF Deleted
    <3>2. \A w \in Workers : worker[w].pc = "idle"
      BY <1>1, <1>6 DEF MainInv, NoWorkerActive
    <3>3. QED
      BY <1>1, <1>6, <3>1, <3>2 DEF EdgesIntoDeletedAreCovered
  <2>2. QED
    BY <1>3, <1>6, <1>7, <2>1 DEF EdgesIntoDeletedAreCovered
<1>18. CollectedGain
  BY <1>1, <1>7, <1>10, Storage DEF CollectedGain
<1>19. QED
  BY <1>11, <1>12, <1>13, <1>14, <1>15, <1>16, <1>17, <1>18 DEF DeletionInv

-----------------------------------------------------------------------------
(* An element is removed, and the last one takes its id.                    *)

LEMMA MovedElements ==
  ASSUME ElementsInv, NEW d \in Stored, MoveLastTo(d), UNCHANGED <<unused, calls>>
  PROVE  /\ count \in Stored /\ count \in Ids /\ d \in Ids /\ Stored' = Stored \ {count}
         /\ \A i \in Stored' : /\ meta'[i] = meta[Before(d, count, i)]
                               /\ Before(d, count, i) \in Stored /\ Before(d, count, i) # d
                               /\ Before(d, count, i) # count \/ i = d
         /\ Deleted' = {i \in Stored \ {count} : Before(d, count, i) \in Deleted}
         /\ ElementsInv'
<1>1. /\ count \in Nat /\ Stored \in SUBSET Ids /\ Stored = 1..count
  BY Storage DEF Stored
<1>2. count \in Stored /\ count \in Ids /\ d \in Ids /\ count' = count - 1
  BY <1>1 DEF MoveLastTo
<1>3. Stored' = Stored \ {count}
  BY <1>1, <1>2 DEF Stored
<1>4. meta' = [[meta EXCEPT ![d] = meta[count]] EXCEPT ![count] = NoMeta]
  BY DEF MoveLastTo
<1>5. meta \in [Ids -> [vec : Vecs \cup {NoVec}, deleted : BOOLEAN, inProcess : BOOLEAN]]
  BY DEF ElementsInv
<1>6. /\ meta' \in [Ids -> [vec : Vecs \cup {NoVec}, deleted : BOOLEAN, inProcess : BOOLEAN]]
      /\ \A i \in Ids : meta'[i] = IF i = count THEN NoMeta
                                   ELSE IF i = d THEN meta[count] ELSE meta[i]
  <2>1. NoMeta \in [vec : Vecs \cup {NoVec}, deleted : BOOLEAN, inProcess : BOOLEAN]
    BY DEF NoMeta
  <2>2. QED
    BY <1>2, <1>4, <1>5, <2>1
<1>7. ASSUME NEW i \in Stored'
      PROVE  /\ meta'[i] = meta[Before(d, count, i)]
             /\ Before(d, count, i) \in Stored /\ Before(d, count, i) # d
             /\ Before(d, count, i) # count \/ i = d
  BY <1>1, <1>2, <1>3, <1>6 DEF Before
<1>8. Deleted' = {i \in Stored \ {count} : Before(d, count, i) \in Deleted}
  BY <1>3, <1>7 DEF Deleted
<1>9. ElementsInv'
  <2>1. \A i \in Ids : i \in Stored' <=> meta'[i].vec # NoVec
    <3>1. ASSUME NEW i \in Ids PROVE i \in Stored' <=> meta'[i].vec # NoVec
      <4>1. CASE i = count
        BY <1>3, <1>6, <4>1 DEF NoMeta
      <4>2. CASE i # count
        BY <1>2, <1>3, <1>6, <4>2 DEF ElementsInv
      <4>3. QED
        BY <4>1, <4>2
    <3>2. QED
      BY <3>1
  <2>2. \A i \in Stored' : meta'[i].vec \notin unused
    BY <1>7 DEF ElementsInv
  <2>3. ASSUME NEW i \in Stored', NEW k \in Stored', meta'[i].vec = meta'[k].vec PROVE i = k
    <3>1. Before(d, count, i) = Before(d, count, k)
      BY <1>7, <2>3 DEF ElementsInv
    <3>2. i # count /\ k # count
      BY <1>3
    <3>3. QED
      BY <3>1, <3>2 DEF Before
  <2>4. /\ count' \in Nat /\ count' + Cardinality(unused') <= Cardinality(Vecs)
        /\ unused' \subseteq Vecs /\ calls' \in Nat /\ unused' = unused
    <3>1. Cardinality(unused) \in Nat /\ Cardinality(Vecs) \in Nat /\ count \in Nat /\ count # 0
      BY <1>1, <1>2, VecSets DEF ElementsInv
    <3>2. count + Cardinality(unused) <= Cardinality(Vecs)
      BY DEF ElementsInv
    <3>3. count' \in Nat /\ count' + Cardinality(unused) <= Cardinality(Vecs)
      BY <1>2, <3>1, <3>2
    <3>4. QED
      BY <3>3 DEF ElementsInv
  <2>5. QED
    BY <1>6, <2>1, <2>2, <2>3, <2>4 DEF ElementsInv
<1>10. QED
  BY <1>2, <1>3, <1>7, <1>8, <1>9

\* The elements that have the label l and are not deleted.
Holders(l) == {i \in Stored : ~meta[i].deleted /\ LabelOf[meta[i].vec] = l}

LEMMA ReplacedOne ==
  ASSUME NEW c \in Ids, NEW d \in Ids
  PROVE  Replaced(<<c>>, c, d) = <<d>>
<1> DEFINE at == {p \in DOMAIN <<c>> : <<c>>[p] = c}
<1>1. at = {1}
  OBVIOUS
<1>2. (CHOOSE p \in {1} : \A q \in {1} : q <= p) = 1
  OBVIOUS
<1>3. Replaced(<<c>>, c, d) = [<<c>> EXCEPT ![1] = d]
  BY <1>1, <1>2 DEF Replaced
<1>4. QED
  BY <1>3

LEMMA MovedLookup ==
  ASSUME ElementsInv, LookupInv, NEW d \in Stored, MoveLastTo(d), UNCHANGED <<unused, calls>>,
         \A l \in Labels : ~Outdated(l)
  PROVE  /\ lookup' \in [Labels -> Seq(Ids)]
         /\ \A l \in Labels :
              /\ Len(lookup'[l]) <= 1
              /\ d \notin Holders(l) => Holders(l)' = Range(lookup'[l])
              /\ d \in Holders(l) => Holders(l)' = {} /\ lookup'[l] = lookup[l]
<1>1. /\ count \in Stored /\ count \in Ids /\ d \in Ids /\ Stored' = Stored \ {count}
      /\ \A i \in Stored' : /\ meta'[i] = meta[Before(d, count, i)]
                            /\ Before(d, count, i) \in Stored /\ Before(d, count, i) # d
                            /\ Before(d, count, i) # count \/ i = d
  BY MovedElements
<1>2. PICK last : last = meta[count]
  OBVIOUS
<1>3. /\ lookup \in [Labels -> Seq(Ids)] /\ Stored \in SUBSET Ids
      /\ \A l \in Labels : Len(lookup[l]) <= 1 /\ Holders(l) = Range(lookup[l])
  BY Storage DEF LookupInv, Holders
<1>4. LabelOf[last.vec] \in Labels
  <2>1. last.vec \in Vecs
    BY <1>1, <1>2, MetaFields
  <2>2. QED
    BY <2>1, DeletionAssumption
<1>5. lookup' = IF d = count \/ last.deleted THEN lookup
                ELSE [lookup EXCEPT ![LabelOf[last.vec]] = Replaced(lookup[LabelOf[last.vec]], count, d)]
  BY <1>2 DEF MoveLastTo
<1>6. ASSUME NEW l \in Labels
      PROVE  \A i \in Stored' : i \in Holders(l)' <=> Before(d, count, i) \in Holders(l)
  BY <1>1 DEF Holders
<1>7. \A l \in Labels : Holders(l)' \subseteq Stored' /\ Holders(l) \subseteq Stored
  BY DEF Holders
<1>8. \A l \in Labels : (Holders(l) = {}) \/ \E i \in Ids : lookup[l] = <<i>> /\ Holders(l) = {i}
  <2>1. ASSUME NEW l \in Labels
        PROVE  (Holders(l) = {}) \/ \E i \in Ids : lookup[l] = <<i>> /\ Holders(l) = {i}
    <3>1. lookup[l] \in Seq(Ids) /\ Len(lookup[l]) <= 1 /\ Holders(l) = Range(lookup[l])
      BY <1>3
    <3>2. CASE Len(lookup[l]) = 0
      BY <3>1, <3>2, ShortSeqs
    <3>3. CASE Len(lookup[l]) = 1
      BY <3>1, <3>3, ShortSeqs
    <3>4. QED
      BY <3>1, <3>2, <3>3, ShortSeqs
  <2>2. QED
    BY <2>1
<1>9. \A l \in Labels : count \in Holders(l) <=> ~last.deleted /\ LabelOf[last.vec] = l
  BY <1>1, <1>2 DEF Holders
<1>10. CASE d = count \/ last.deleted
  <2>1. lookup' = lookup
    BY <1>5, <1>10
  <2>2. ASSUME NEW l \in Labels PROVE Holders(l)' = Holders(l) \ {d}
    BY <1>1, <1>6, <1>7, <1>9, <1>10 DEF Before
  <2>3. ASSUME NEW l \in Labels, d \in Holders(l) PROVE Holders(l)' = {}
    BY <1>8, <2>2, <2>3
  <2>4. QED
    BY <1>3, <2>1, <2>2, <2>3
<1>11. CASE ~(d = count \/ last.deleted)
  <2>1. PICK m \in Labels : m = LabelOf[last.vec]
    BY <1>4
  <2>2. Holders(m) = {count} /\ lookup[m] = <<count>>
    BY <1>8, <1>9, <1>11, <2>1
  <2>3. lookup' = [lookup EXCEPT ![m] = <<d>>]
    BY <1>1, <1>5, <1>11, <2>1, <2>2, ReplacedOne
  <2>4. <<d>> \in Seq(Ids) /\ Len(<<d>>) = 1 /\ Range(<<d>>) = {d}
    BY <1>1, ShortSeqs
  <2>5. lookup' \in [Labels -> Seq(Ids)] /\ lookup'[m] = <<d>>
    BY <1>3, <2>3, <2>4
  <2>6. Holders(m)' = {d} /\ d \notin Holders(m)
    BY <1>1, <1>6, <1>7, <1>11, <2>2 DEF Before
  <2>7. ASSUME NEW l \in Labels, l # m
        PROVE  /\ lookup'[l] = lookup[l] /\ count \notin Holders(l)
               /\ Holders(l)' = Holders(l) \ {d}
    <3>1. lookup'[l] = lookup[l] /\ count \notin Holders(l)
      BY <1>3, <1>9, <2>1, <2>3, <2>7
    <3>2. QED
      BY <1>1, <1>6, <1>7, <3>1 DEF Before
  <2>8. ASSUME NEW l \in Labels, d \in Holders(l) PROVE l # m /\ Holders(l)' = {}
    BY <1>8, <2>6, <2>7, <2>8
  <2>9. ASSUME NEW l \in Labels
        PROVE  /\ Len(lookup'[l]) <= 1
               /\ d \notin Holders(l) => Holders(l)' = Range(lookup'[l])
               /\ d \in Holders(l) => Holders(l)' = {} /\ lookup'[l] = lookup[l]
    <3>1. CASE l = m
      <4>1. lookup'[l] = <<d>> /\ Holders(l)' = {d} /\ d \notin Holders(l)
        BY <2>5, <2>6, <3>1
      <4>2. Len(lookup'[l]) = 1 /\ Range(lookup'[l]) = {d}
        BY <2>4, <4>1
      <4>3. QED
        BY <4>1, <4>2
    <3>2. CASE l # m
      <4>1. /\ lookup'[l] = lookup[l] /\ Holders(l)' = Holders(l) \ {d}
            /\ Len(lookup[l]) <= 1 /\ Holders(l) = Range(lookup[l])
        BY <1>3, <2>7, <3>2
      <4>2. d \in Holders(l) => Holders(l)' = {}
        BY <2>8
      <4>3. d \notin Holders(l) => Holders(l)' = Range(lookup'[l])
        BY <4>1
      <4>4. QED
        BY <4>1, <4>2, <4>3
    <3>3. QED
      BY <3>1, <3>2
  <2>10. QED
    BY <2>5, <2>9
<1>12. QED
  BY <1>10, <1>11

\* The swap jobs after executeSwapJob, of which the one of the vector in d is gone.
SwapsMoved(J, d, last, R) ==
  /\ \A u \in Vecs : jobs'.swap[u].id =
       IF u = meta[d].vec THEN 0
       ELSE IF TakesOver(J, d, last, R) /\ u = J.bySwapId[last] THEN d ELSE J.swap[u].id
  /\ \A i \in Ids : jobs'.bySwapId[i] =
       IF TakesOver(J, d, last, R) /\ i = d THEN J.bySwapId[last] ELSE J.bySwapId[i]

\* The id that leaves idToSwapJob.
Leaves(J, d, last, R) == IF TakesOver(J, d, last, R) THEN last ELSE d

LEMMA TakesOverFacts ==
  ASSUME ElementsInv, NEW d \in Stored, NEW R \in Seq(Ids), jobs \in JobsType,
         Reclaimed(jobs, Deleted), Indexes(jobs, Deleted, Range(R))
  PROVE  /\ TakesOver(jobs, d, count, R) <=> count # d /\ count \in Deleted
         /\ TakesOver(jobs, d, count, R) =>
              /\ jobs.bySwapId[count] = meta[count].vec /\ jobs.bySwapId[count] \in Vecs
              /\ HasSwap(jobs, jobs.bySwapId[count])
<1>1. count \in Stored /\ count \in Ids /\ Stored \in SUBSET Ids
  BY Storage DEF Stored
<1>2. meta[count].vec \in Vecs /\ meta[count].vec # NoVec
  BY <1>1, MetaFields DEF ElementsInv
<1>3. count \notin Range(R) => jobs.bySwapId[count] = IF count \in Deleted THEN meta[count].vec ELSE NoVec
  BY <1>1 DEF Indexes
<1>4. count \in Deleted => count \notin Range(R)
  BY DEF Indexes
<1>5. TakesOver(jobs, d, count, R) <=> count # d /\ count \in Deleted
  BY <1>2, <1>3, <1>4 DEF TakesOver
<1>6. count \in Deleted => HasSwap(jobs, meta[count].vec)
  BY <1>1, <1>2, IdsFacts DEF Reclaimed, HasSwap
<1>7. QED
  BY <1>2, <1>3, <1>4, <1>5, <1>6

LEMMA SwapsMovedExact ==
  ASSUME ElementsInv, NEW d \in Stored, MoveLastTo(d), UNCHANGED <<unused, calls>>,
         NEW R \in Seq(Ids), jobs \in JobsType,
         Reclaimed(jobs, Deleted), Indexes(jobs, Deleted, Range(R)), d \notin Range(R),
         SwapsMoved(jobs, d, count, R), NEW x, x = Leaves(jobs, d, count, R)
  PROVE  Reclaimed(jobs, Deleted)' /\ Indexes(jobs, Deleted, Range(R) \cup {x})'
<1>1. /\ count \in Stored /\ count \in Ids /\ d \in Ids /\ Stored' = Stored \ {count}
      /\ \A i \in Stored' : /\ meta'[i] = meta[Before(d, count, i)]
                            /\ Before(d, count, i) \in Stored /\ Before(d, count, i) # d
                            /\ Before(d, count, i) # count \/ i = d
      /\ Deleted' = {i \in Stored \ {count} : Before(d, count, i) \in Deleted}
  BY MovedElements
<1>2. /\ TakesOver(jobs, d, count, R) <=> count # d /\ count \in Deleted
      /\ TakesOver(jobs, d, count, R) =>
           /\ jobs.bySwapId[count] = meta[count].vec /\ jobs.bySwapId[count] \in Vecs
           /\ HasSwap(jobs, jobs.bySwapId[count])
  BY TakesOverFacts
<1>3. PICK T : T = TakesOver(jobs, d, count, R)
  OBVIOUS
<1>4. PICK a : a = meta[d].vec
  OBVIOUS
<1>5. PICK z : z = meta[count].vec
  OBVIOUS
<1>6. /\ T <=> count # d /\ count \in Deleted
      /\ \A u \in Vecs : jobs'.swap[u].id = IF u = a THEN 0 ELSE IF T /\ u = z THEN d
                                            ELSE jobs.swap[u].id
      /\ \A i \in Ids : jobs'.bySwapId[i] = IF T /\ i = d THEN z ELSE jobs.bySwapId[i]
      /\ x = IF T THEN count ELSE d
  BY <1>2, <1>3, <1>4, <1>5 DEF SwapsMoved, Leaves
<1>7. /\ Deleted \in SUBSET Stored /\ Stored \in SUBSET Ids /\ 0 \notin Ids
      /\ \A i \in Stored : meta[i].vec \in Vecs
      /\ \A i, k \in Stored : meta[i].vec = meta[k].vec => i = k
  BY Storage, MetaFields DEF ElementsInv
<1>8. Reclaimed(jobs, Deleted)'
  <2>1. ASSUME NEW u \in Vecs, HasSwap(jobs', u)
        PROVE  jobs'.swap[u].id \in Deleted' /\ meta'[jobs'.swap[u].id].vec = u
    <3>1. u # a /\ jobs'.swap[u].id # 0
      BY <1>6, <2>1 DEF HasSwap
    <3>2. CASE T /\ u = z
      <4>1. jobs'.swap[u].id = d /\ count # d /\ count \in Deleted
        BY <1>6, <3>1, <3>2
      <4>2. d \in Stored'
        BY <1>1, <4>1
      <4>3. Before(d, count, d) = count
        BY DEF Before
      <4>4. QED
        BY <1>1, <1>5, <3>2, <4>1, <4>2, <4>3
    <3>3. CASE ~(T /\ u = z)
      <4>1. PICK y : y = jobs.swap[u].id
        OBVIOUS
      <4>2. jobs'.swap[u].id = y /\ y # 0
        BY <1>6, <3>1, <3>3, <4>1
      <4>3. y \in Deleted /\ meta[y].vec = u
        BY <4>1, <4>2 DEF Reclaimed, HasSwap
      <4>4. y # d
        BY <1>4, <3>1, <4>3
      <4>5. y # count
        BY <1>5, <1>6, <3>3, <4>3, <4>4
      <4>6. y \in Stored' /\ Before(d, count, y) = y
        BY <1>1, <1>7, <4>3, <4>4, <4>5 DEF Before
      <4>7. QED
        BY <1>1, <4>2, <4>3, <4>6
    <3>4. QED
      BY <3>2, <3>3
  <2>2. ASSUME NEW y \in Deleted' PROVE jobs'.swap[meta'[y].vec].id = y
    <3>1. PICK b : b = Before(d, count, y)
      OBVIOUS
    <3>2. /\ y \in Stored' /\ y \in Stored /\ y # count /\ b \in Deleted /\ b # d
          /\ meta'[y] = meta[b] /\ b \in Stored
      BY <1>1, <3>1
    <3>3. PICK u \in Vecs : u = meta[b].vec
      BY <1>7, <3>2
    <3>4. u # a /\ jobs.swap[u].id = b
      BY <1>4, <1>7, <3>2, <3>3 DEF Reclaimed
    <3>5. CASE y = d
      <4>1. b = count /\ T /\ u = z
        BY <1>5, <1>6, <3>1, <3>2, <3>3, <3>5 DEF Before
      <4>2. QED
        BY <1>6, <3>2, <3>3, <3>4, <3>5, <4>1
    <3>6. CASE y # d
      <4>1. b = y
        BY <3>1, <3>6 DEF Before
      <4>2. u # z
        BY <1>1, <1>5, <1>7, <3>2, <3>3, <4>1
      <4>3. QED
        BY <1>6, <3>2, <3>3, <3>4, <4>1, <4>2
    <3>7. QED
      BY <3>5, <3>6
  <2>3. QED
    BY <2>1, <2>2 DEF Reclaimed
<1>9. ASSUME NEW y \in Ids, y \notin Range(R), y # x
      PROVE  jobs'.bySwapId[y] = IF y \in Deleted' THEN meta'[y].vec ELSE NoVec
  <2>1. jobs.bySwapId[y] = IF y \in Deleted THEN meta[y].vec ELSE NoVec
    BY <1>9 DEF Indexes
  <2>2. CASE T /\ y = d
    <3>1. d \in Stored' /\ Before(d, count, d) = count /\ count \in Deleted
      BY <1>1, <1>6, <2>2 DEF Before
    <3>2. QED
      BY <1>1, <1>5, <1>6, <2>2, <3>1
  <2>3. CASE ~(T /\ y = d)
    <3>1. y # d
      BY <1>6, <1>9, <2>3
    <3>2. y \in Deleted => y # count
      BY <1>6, <1>9, <3>1
    <3>3. Before(d, count, y) = y
      BY <3>1 DEF Before
    <3>4. y \in Deleted' <=> y \in Deleted
      BY <1>1, <1>7, <3>2, <3>3
    <3>5. y \in Deleted' => meta'[y] = meta[y]
      BY <1>1, <3>3
    <3>6. QED
      BY <1>6, <2>1, <2>3, <3>4, <3>5
  <2>4. QED
    BY <2>2, <2>3
<1>10. (Range(R) \cup {x}) \cap Deleted' = {}
  <2>1. ASSUME NEW y \in Deleted' PROVE y \notin Range(R) /\ y # x
    <3>1. y \in Stored /\ y # count /\ Before(d, count, y) \in Deleted
      BY <1>1
    <3>2. CASE y = d
      <4>1. count \in Deleted /\ count # d
        BY <3>1, <3>2 DEF Before
      <4>2. QED
        BY <1>6, <3>1, <3>2, <4>1
    <3>3. CASE y # d
      <4>1. y \in Deleted
        BY <3>1, <3>3 DEF Before
      <4>2. QED
        BY <1>6, <3>1, <3>3, <4>1 DEF Indexes
    <3>4. QED
      BY <3>2, <3>3
  <2>2. QED
    BY <2>1
<1>11. Indexes(jobs, Deleted, Range(R) \cup {x})'
  BY <1>9, <1>10 DEF Indexes
<1>12. QED
  BY <1>8, <1>11

\* The repair jobs that are left when d is gone are those of the nodes that are left.
RepairsMoved(J, N, d, last) ==
  /\ jobs' \in JobsType /\ Filed(jobs', N \ {last}) /\ Counted(jobs') /\ NoDangling(jobs')
  /\ Alive(jobs') \subseteq Alive(J)
  /\ \A j \in Alive(jobs') : jobs'.repair[j].swaps = J.repair[j].swaps
  /\ \A i \in N \ {last} : jobs'.byNode[i] = J.byNode[Before(d, last, i)]

\* The element d is removed: what is to be shown of the two ways to do it.
LEMMA RemovalStep ==
  ASSUME DeletionInv, OwnsMain, OwnsMain', main'.pc # "unlink",
         NEW d \in Stored, MoveLastTo(d), UNCHANGED <<unused, calls, worker>>,
         Removed(graph, graph', Stored, d, count),
         NEW R \in Seq(Ids), R = main.toRemove, d \notin Range(R),
         NEW x \in Ids, x = Leaves(jobs, d, count, R), main'.toRemove = Append(R, x),
         SwapsMoved(jobs, d, count, R), RepairsMoved(jobs, Stored, d, count),
         jobs'.ready = Cardinality(ReadyJobs(jobs')) + Executed',
         GCInv', LookupInv', MainInv'
  PROVE  DeletionInv'
<1>1. /\ ElementsInv /\ WorkersInv /\ MainInv /\ JobsInv /\ EdgesIntoDeletedAreCovered
  BY DEF DeletionInv
<1>2. /\ count \in Stored /\ count \in Ids /\ d \in Ids /\ Stored' = Stored \ {count}
      /\ \A i \in Stored' : /\ meta'[i] = meta[Before(d, count, i)]
                            /\ Before(d, count, i) \in Stored /\ Before(d, count, i) # d
                            /\ Before(d, count, i) # count \/ i = d
      /\ Deleted' = {i \in Stored \ {count} : Before(d, count, i) \in Deleted}
      /\ ElementsInv'
  BY <1>1, MovedElements
<1>3. /\ Uncollected = {} /\ Uncollected' = {} /\ ToRemove = Range(R)
      /\ ToRemove' = Range(R) \cup {x}
  <2>1. Uncollected = {} /\ Uncollected' = {}
    BY DEF OwnsMain, Uncollected
  <2>2. Range(Append(R, x)) = Range(R) \cup {x}
    <3>1. \A p \in 1..Len(R) : Append(R, x)[p] = R[p]
      OBVIOUS
    <3>2. Append(R, x)[Len(R) + 1] = x /\ DOMAIN R = 1..Len(R) /\ DOMAIN Append(R, x) = 1..(Len(R) + 1)
      OBVIOUS
    <3>3. 1..(Len(R) + 1) = 1..Len(R) \cup {Len(R) + 1}
      OBVIOUS
    <3>4. QED
      BY <3>1, <3>2, <3>3 DEF Range
  <2>3. QED
    BY <2>1, <2>2 DEF ToRemove
<1>4. Collected = Deleted /\ Collected' = Deleted' /\ Deleted \in SUBSET Stored /\ Stored \in SUBSET Ids
  BY <1>1, <1>3, Storage DEF Collected
<1>5. jobs \in JobsType /\ Reclaimed(jobs, Deleted) /\ Indexes(jobs, Deleted, Range(R)) /\ Filed(jobs, Stored)
  BY <1>1, <1>3, <1>4 DEF JobsInv
<1>6. Reclaimed(jobs, Deleted)' /\ Indexes(jobs, Deleted, Range(R) \cup {x})'
  BY <1>1, <1>5, SwapsMovedExact
<1>7. Filed(jobs', Stored')
  BY <1>2 DEF RepairsMoved
<1>8. JobsInv'
  <2>1. Reclaimed(jobs, Collected)'
    BY <1>4, <1>6 DEF Reclaimed
  <2>2. Indexes(jobs, Collected, ToRemove)'
    BY <1>3, <1>4, <1>6 DEF Indexes
  <2>3. QED
    BY <1>7, <2>1, <2>2 DEF JobsInv, RepairsMoved
<1>9. GraphInv'
  BY <1>2 DEF GraphInv, Removed
<1>10. \A w \in Workers : worker[w].pc = "idle"
  BY <1>1 DEF MainInv, NoWorkerActive
<1>11. WorkersInv'
  <2>1. worker' \in [Workers -> WorkerType]
    BY <1>1 DEF WorkersInv
  <2>2. \A w \in Workers : worker'[w].pc = "idle"
    BY <1>10
  <2>3. \A w \in Workers : ~Inserting(w)' /\ ~Repairing(w)'
    BY <2>2 DEF Inserting, Repairing
  <2>4. LocksInv'
    BY <2>2, NoLocks DEF LocksInv
  <2>5. QED
    BY <2>1, <2>2, <2>3, <2>4, Zenon DEF WorkersInv
<1>12. EdgesIntoDeletedAreCovered'
  <2>1. ASSUME NEW i \in Stored', NEW e \in Deleted', e \in graph'.links[i]
        PROVE  \E j \in jobs'.byNode[i] : jobs'.repair[j].swaps[meta'[e].vec] > 0
    <3>1. PICK b \in Stored : b = Before(d, count, i)
      BY <1>2
    <3>2. PICK c \in Deleted : c = Before(d, count, e)
      BY <1>2
    <3>3. meta'[e].vec = meta[c].vec /\ jobs'.byNode[i] = jobs.byNode[b]
      BY <1>2, <3>1, <3>2 DEF RepairsMoved
    <3>4. c \in graph.links[b]
      BY <1>2, <1>4, <2>1, <3>1, <3>2 DEF Removed
    <3>5. PICK j \in jobs.byNode[b] : jobs.repair[j].swaps[meta[c].vec] > 0
      BY <1>1, <1>3, <1>10, <3>4 DEF EdgesIntoDeletedAreCovered
    <3>6. j \in Alive(jobs')
      BY <1>2, <1>4, <1>7, <3>3, <3>5 DEF Filed
    <3>7. jobs'.repair[j].swaps = jobs.repair[j].swaps
      BY <3>6 DEF RepairsMoved
    <3>8. QED
      BY <3>3, <3>5, <3>7
  <2>2. QED
    BY <1>3, <2>1 DEF EdgesIntoDeletedAreCovered
<1>13. QED
  BY <1>2, <1>8, <1>9, <1>11, <1>12 DEF DeletionInv

\* A swap job without repairs is deleted.
Forgotten(K, v) == [K EXCEPT !.swap[v] = NoSwapJob]

LEMMA ForgottenExact ==
  ASSUME NEW K \in JobsType, Counted(K), NoDangling(K),
         NEW v \in Vecs, HasSwap(K, v), K.swap[v].pending = 0
  PROVE  /\ Forgotten(K, v) \in JobsType
         /\ Forgotten(K, v).repair = K.repair /\ Forgotten(K, v).byNode = K.byNode
         /\ Forgotten(K, v).bySwapId = K.bySwapId /\ Forgotten(K, v).ready = K.ready
         /\ \A u \in Vecs : Forgotten(K, v).swap[u].id = IF u = v THEN 0 ELSE K.swap[u].id
         /\ Counted(Forgotten(K, v)) /\ NoDangling(Forgotten(K, v))
         /\ Cardinality(ReadyJobs(Forgotten(K, v))) = Cardinality(ReadyJobs(K)) - 1
<1>0. PICK H : H = Forgotten(K, v)
  OBVIOUS
<1> DEFINE swap == [K.swap EXCEPT ![v] = NoSwapJob]
<1>1. H = [repair |-> K.repair, byNode |-> K.byNode, swap |-> swap, bySwapId |-> K.bySwapId,
           ready |-> K.ready]
  BY <1>0 DEF Forgotten, JobsType
<1>2. /\ swap \in [Vecs -> [id : Ids \cup {0}, pending : Int]]
      /\ \A u \in Vecs : swap[u] = IF u = v THEN NoSwapJob ELSE K.swap[u]
      /\ NoSwapJob.id = 0 /\ NoSwapJob.pending = 0
  <2>1. K.swap \in [Vecs -> [id : Ids \cup {0}, pending : Int]]
    BY JobTypes
  <2>2. QED
    BY <2>1 DEF NoSwapJob
<1> HIDE DEF swap
<1>3. H \in JobsType
  BY <1>1, <1>2, JobTypes DEF JobsType, RepairType
<1>4. Alive(H) = Alive(K)
  BY <1>1 DEF Alive
<1>5. \A u \in Vecs : Associations(H, Alive(H), u) = Associations(K, Alive(K), u)
  BY <1>1, <1>4 DEF Associations
<1>6. \A u \in Vecs : HasSwap(H, u) <=> HasSwap(K, u) /\ u # v
  BY <1>1, <1>2 DEF HasSwap
<1>7. Counted(H)
  BY <1>1, <1>2, <1>5, <1>6 DEF Counted
<1>8. \A j \in Alive(K) : K.repair[j].swaps[v] = 0
  <2>1. Cardinality(Associations(K, Alive(K), v)) = 0
    BY DEF Counted
  <2>2. QED
    BY <2>1, AliveAssociations
<1>9. NoDangling(H)
  <2>1. ~ (0 > 0)
    OBVIOUS
  <2>2. QED
    BY <1>1, <1>4, <1>6, <1>8, <2>1 DEF NoDangling
<1>10. ReadyJobs(H) = ReadyJobs(K) \ {v}
  BY <1>1, <1>2, <1>6 DEF ReadyJobs
<1>11. v \in ReadyJobs(K) /\ ReadyJobs(K) \in SUBSET Vecs
  BY DEF ReadyJobs
<1>12. Cardinality(ReadyJobs(H)) = Cardinality(ReadyJobs(K)) - 1
  BY <1>10, <1>11, VecSets
<1>13. QED
  BY <1>0, <1>1, <1>2, <1>3, <1>7, <1>9, <1>12

-----------------------------------------------------------------------------
(* Steps of the garbage collection and of the deletion in place.            *)

\* The fields of a main thread that collects garbage.
LEMMA CollectingFacts ==
  ASSUME DeletionInv, main.pc = "gc"
  PROVE  /\ main \in [pc : {"gc"}, todo : SUBSET Ids, toRemove : Seq(Ids)]
         /\ OwnsMain /\ Uncollected = {} /\ Collected = Deleted
         /\ ToRemove = Range(main.toRemove) /\ Executed = Len(main.toRemove)
         /\ \A l \in Labels : ~Outdated(l)
         /\ Exact(graph, Stored) /\ Stored \in SUBSET Ids /\ Deleted \in SUBSET Stored
         /\ \A w \in Workers : worker[w].pc = "idle"
<1>1. ElementsInv /\ GraphInv /\ MainInv
  BY DEF DeletionInv
<1>2. main \in [pc : {"gc"}, todo : SUBSET Ids, toRemove : Seq(Ids)]
  BY <1>1 DEF MainInv, MainType, Idle
<1>3. OwnsMain /\ Uncollected = {} /\ ToRemove = Range(main.toRemove) /\ Executed = Len(main.toRemove)
  BY DEF OwnsMain, Uncollected, ToRemove, Executed
<1>4. Collected = Deleted
  BY <1>3 DEF Collected
<1>5. QED
  BY <1>1, <1>2, <1>3, <1>4, Storage DEF MainInv, NoWorkerActive, GraphInv, Outdated

LEMMA SkipStep ==
  ASSUME DeletionInv, main.pc = "gc", NEW i \in main.todo,
         main' = [main EXCEPT !.todo = @ \ {i}],
         UNCHANGED <<count, meta, lookup, unused, calls, graph, jobs, worker>>
  PROVE  DeletionInv'
<1>1. /\ ElementsInv /\ LookupInv /\ MainInv /\ JobsInv
  BY DEF DeletionInv
<1>2. /\ main \in [pc : {"gc"}, todo : SUBSET Ids, toRemove : Seq(Ids)]
      /\ OwnsMain /\ Uncollected = {} /\ Collected = Deleted
      /\ ToRemove = Range(main.toRemove) /\ Executed = Len(main.toRemove)
      /\ \A l \in Labels : ~Outdated(l)
      /\ Exact(graph, Stored) /\ Stored \in SUBSET Ids /\ Deleted \in SUBSET Stored
      /\ \A w \in Workers : worker[w].pc = "idle"
  BY CollectingFacts
<1>3. main' = [pc |-> "gc", todo |-> main.todo \ {i}, toRemove |-> main.toRemove]
  BY <1>2
<1>4. /\ main'.pc = "gc" /\ OwnsMain' /\ Uncollected' = {} /\ ToRemove' = ToRemove
      /\ Executed' = Executed /\ Executed \in Nat
  BY <1>2, <1>3 DEF OwnsMain, Uncollected, ToRemove, Executed
<1>5. Stored' = Stored /\ Deleted' = Deleted /\ Collected' = Collected
  BY <1>2, <1>4 DEF Stored, Deleted, Collected
<1>6. main' \in MainType
  BY <1>2, <1>3 DEF MainType
<1>7. MainInv'
  BY <1>2, <1>4, <1>6 DEF MainInv, CollectInv, InplaceInv, NoWorkerActive
<1>8. GCInv'
  BY <1>1, <1>3 DEF GCInv, JobsInv
<1>9. Indexes(jobs, Collected, ToRemove)'
  BY <1>1, <1>4, <1>5 DEF Indexes, JobsInv
<1>10. LookupInv' /\ GraphInv'
  BY <1>1, <1>2, <1>4, <1>5, LookupFrame DEF Outdated, GraphInv
<1>11. calls' \in Nat /\ jobs' \in JobsType
  BY <1>1 DEF ElementsInv, JobsInv
<1>12. QED
  BY <1>4, <1>5, <1>7, <1>8, <1>9, <1>10, <1>11, OwnersFrame

LEMMA GCStepStep ==
  ASSUME DeletionInv, GCStep
  PROVE  DeletionInv'
<1>1. /\ ElementsInv /\ LookupInv /\ MainInv /\ JobsInv /\ EdgesIntoDeletedAreCovered
  BY DEF DeletionInv
<1>2. main.pc = "gc" /\ UNCHANGED <<unused, calls, worker>>
  BY DEF GCStep
<1>3. /\ main \in [pc : {"gc"}, todo : SUBSET Ids, toRemove : Seq(Ids)]
      /\ OwnsMain /\ Uncollected = {} /\ Collected = Deleted
      /\ ToRemove = Range(main.toRemove) /\ Executed = Len(main.toRemove)
      /\ \A l \in Labels : ~Outdated(l)
      /\ Exact(graph, Stored) /\ Stored \in SUBSET Ids /\ Deleted \in SUBSET Stored
      /\ \A w \in Workers : worker[w].pc = "idle"
  BY <1>2, CollectingFacts
<1>4. PICK i \in main.todo :
       LET v == jobs.bySwapId[i]
           d == jobs.swap[v].id
           e == ExecuteSwapJob(jobs, d, count, main.toRemove)
       IN
       \/ /\ jobs.swap[v].pending > 0
          /\ main' = [main EXCEPT !.todo = @ \ {i}]
          /\ UNCHANGED <<count, meta, lookup, graph, jobs>>
       \/ /\ jobs.swap[v].pending = 0
          /\ graph' = RemoveAndSwap(graph, d, count, TRUE)
          /\ MoveLastTo(d)
          /\ jobs' = [e.jobs EXCEPT !.swap[v] = NoSwapJob]
          /\ main' = [main EXCEPT !.toRemove = e.toRemove,
                                  !.todo = IF Len(e.toRemove) >= Threshold THEN {} ELSE @ \ {i}]
  BY DEF GCStep
<1>5. PICK v : v = jobs.bySwapId[i]
  OBVIOUS
<1>6. PICK d : d = jobs.swap[v].id
  OBVIOUS
<1>7. PICK R \in Seq(Ids) : R = main.toRemove
  BY <1>3
<1>8. PICK e : e = ExecuteSwapJob(jobs, d, count, R)
  OBVIOUS
<1>9. CASE main' = [main EXCEPT !.todo = @ \ {i}] /\ UNCHANGED <<count, meta, lookup, graph, jobs>>
  BY <1>2, <1>9, SkipStep
<1>10. CASE /\ jobs.swap[v].pending = 0
            /\ graph' = RemoveAndSwap(graph, d, count, TRUE)
            /\ MoveLastTo(d)
            /\ jobs' = [e.jobs EXCEPT !.swap[v] = NoSwapJob]
            /\ main' = [main EXCEPT !.toRemove = e.toRemove,
                                    !.todo = IF Len(e.toRemove) >= Threshold THEN {} ELSE @ \ {i}]
  <2>1. /\ jobs \in JobsType /\ Filed(jobs, Stored) /\ Counted(jobs) /\ NoDangling(jobs)
        /\ Reclaimed(jobs, Deleted) /\ Indexes(jobs, Deleted, Range(R)) /\ GCInv
        /\ jobs.ready = Cardinality(ReadyJobs(jobs)) + Len(R)
    BY <1>1, <1>3, <1>7 DEF JobsInv
  <2>2. /\ v \in Vecs /\ HasSwap(jobs, v) /\ (d = i \/ d \notin main.todo)
        /\ \A k \in main.todo : jobs.bySwapId[k] = v => k = i
    <3>1. v # NoVec /\ v \in Vecs \cup {NoVec}
      BY <1>2, <1>3, <1>5, <2>1, JobTypes DEF GCInv
    <3>2. QED
      BY <1>2, <1>5, <1>6, <2>1, <3>1 DEF GCInv
  <2>3. d \in Deleted /\ meta[d].vec = v
    BY <1>6, <2>1, <2>2 DEF Reclaimed
  <2>4. d \in Stored /\ d \in Ids /\ d # 0 /\ d \notin Range(R)
    BY <1>3, <2>1, <2>3, IdsFacts DEF Indexes
  <2>5. /\ count \in Stored /\ count \in Ids /\ Stored' = Stored \ {count}
        /\ Deleted' = {y \in Stored \ {count} : Before(d, count, y) \in Deleted}
    BY <1>1, <1>2, <1>10, <2>4, MovedElements
  <2>6. /\ TakesOver(jobs, d, count, R) <=> count # d /\ count \in Deleted
        /\ TakesOver(jobs, d, count, R) =>
             /\ jobs.bySwapId[count] = meta[count].vec /\ jobs.bySwapId[count] \in Vecs
             /\ HasSwap(jobs, jobs.bySwapId[count])
    BY <1>1, <2>1, <2>4, TakesOverFacts
  <2>7. SwapJobDone(jobs, e, Stored, d, count, R)
    <3>1. Stored \in SUBSET Ids
      BY <1>3
    <3>2. QED
      BY <1>7, <1>8, <2>1, <2>4, <2>5, <2>6, <3>1, SwapJobExecuted
  <2>8. PICK K : K = e.jobs
    OBVIOUS
  <2>9. PICK x : x = Leaves(jobs, d, count, R)
    OBVIOUS
  <2>10. PICK T : T = TakesOver(jobs, d, count, R)
    OBVIOUS
  <2>11. PICK z : z = jobs.bySwapId[count]
    OBVIOUS
  <2>12. /\ K \in JobsType /\ Filed(K, Stored \ {count}) /\ Counted(K) /\ NoDangling(K)
         /\ K.ready - Cardinality(ReadyJobs(K)) = jobs.ready - Cardinality(ReadyJobs(jobs))
         /\ Alive(K) \subseteq Alive(jobs)
         /\ \A j \in Alive(K) : K.repair[j].swaps = jobs.repair[j].swaps
         /\ \A y \in Stored \ {count} : K.byNode[y] = jobs.byNode[Before(d, count, y)]
         /\ \A u \in Vecs : K.swap[u].id = IF T /\ u = z THEN d ELSE jobs.swap[u].id
         /\ K.swap[v].pending = 0
         /\ \A y \in Ids : K.bySwapId[y] = IF T /\ y = d THEN z ELSE jobs.bySwapId[y]
         /\ e.toRemove = Append(R, x) /\ x \in Ids
    BY <1>10, <2>2, <2>4, <2>5, <2>7, <2>8, <2>9, <2>10, <2>11 DEF SwapJobDone, Leaves
  <2>13. HasSwap(K, v)
    BY <1>6, <2>2, <2>4, <2>12 DEF HasSwap
  <2>14. jobs' = Forgotten(K, v)
    BY <1>10, <2>8 DEF Forgotten
  <2>15. /\ jobs' \in JobsType /\ jobs'.repair = K.repair /\ jobs'.byNode = K.byNode
         /\ jobs'.bySwapId = K.bySwapId /\ jobs'.ready = K.ready
         /\ \A u \in Vecs : jobs'.swap[u].id = IF u = v THEN 0 ELSE K.swap[u].id
         /\ Counted(jobs') /\ NoDangling(jobs')
         /\ Cardinality(ReadyJobs(jobs')) = Cardinality(ReadyJobs(K)) - 1
    <3>1. v \in Vecs /\ K \in JobsType /\ Counted(K) /\ NoDangling(K) /\ HasSwap(K, v)
          /\ K.swap[v].pending = 0
      BY <2>2, <2>12, <2>13
    <3>2. /\ Forgotten(K, v) \in JobsType
          /\ Forgotten(K, v).repair = K.repair /\ Forgotten(K, v).byNode = K.byNode
          /\ Forgotten(K, v).bySwapId = K.bySwapId /\ Forgotten(K, v).ready = K.ready
          /\ \A u \in Vecs : Forgotten(K, v).swap[u].id = IF u = v THEN 0 ELSE K.swap[u].id
          /\ Counted(Forgotten(K, v)) /\ NoDangling(Forgotten(K, v))
          /\ Cardinality(ReadyJobs(Forgotten(K, v))) = Cardinality(ReadyJobs(K)) - 1
      BY <3>1, ForgottenExact
    <3>3. QED
      BY <2>14, <3>2
  <2>16. Alive(jobs') = Alive(K)
    BY <2>15 DEF Alive
  <2>17. RepairsMoved(jobs, Stored, d, count)
    <3>1. Filed(jobs', Stored \ {count})
      BY <2>12, <2>15, <2>16 DEF Filed
    <3>2. QED
      BY <2>12, <2>15, <2>16, <3>1 DEF RepairsMoved
  <2>18. SwapsMoved(jobs, d, count, R)
    BY <2>3, <2>10, <2>11, <2>12, <2>15 DEF SwapsMoved
  <2>19. PICK todo \in SUBSET main.todo : /\ todo \subseteq main.todo \ {i}
                                          /\ main' = [main EXCEPT !.toRemove = Append(R, x), !.todo = todo]
    BY <1>10, <2>12
  <2>20. main' = [pc |-> "gc", todo |-> todo, toRemove |-> Append(R, x)]
    BY <1>3, <2>19
  <2>21. Append(R, x) \in Seq(Ids) /\ Len(Append(R, x)) = Len(R) + 1 /\ Len(R) \in Nat
    BY <2>12
  <2>22. /\ main'.pc = "gc" /\ OwnsMain' /\ Executed' = Len(R) + 1 /\ main' \in MainType
    BY <1>3, <2>20, <2>21 DEF OwnsMain, Executed, MainType
  <2>23. jobs'.ready = Cardinality(ReadyJobs(jobs')) + Executed'
    <3>1. /\ Cardinality(ReadyJobs(K)) \in Nat /\ Cardinality(ReadyJobs(jobs)) \in Nat
          /\ K.ready \in Int /\ jobs.ready \in Int
      BY <2>1, <2>12, JobTypes, VecSets DEF ReadyJobs
    <3>2. QED
      BY <2>1, <2>12, <2>15, <2>21, <2>22, <3>1
  <2>24. GCInv'
    <3>1. ASSUME NEW k \in todo
          PROVE  /\ k \in Ids /\ k # i /\ k # d /\ k \in main.todo /\ d \notin todo
                 /\ jobs'.bySwapId[k] = jobs.bySwapId[k] /\ jobs.bySwapId[k] # v
                 /\ jobs.bySwapId[k] \in Vecs
      <4>1. k \in Ids /\ k # i /\ k \in main.todo /\ d \notin todo
        BY <1>3, <2>2, <2>19
      <4>2. jobs'.bySwapId[k] = jobs.bySwapId[k] /\ jobs.bySwapId[k] # v
        BY <2>2, <2>12, <2>15, <4>1
      <4>3. jobs.bySwapId[k] \in Vecs
        BY <1>2, <2>1, <4>1, JobTypes DEF GCInv
      <4>4. QED
        BY <4>1, <4>2, <4>3
    <3>2. ASSUME NEW k \in todo
          PROVE  /\ HasSwap(jobs', jobs.bySwapId[k]) /\ jobs.bySwapId[k] # NoVec
                 /\ jobs'.swap[jobs.bySwapId[k]].id = k \/ jobs'.swap[jobs.bySwapId[k]].id \notin todo
      <4>1. PICK u \in Vecs : u = jobs.bySwapId[k] /\ u # v
        BY <3>1
      <4>2. u # NoVec /\ HasSwap(jobs, u) /\ (jobs.swap[u].id = k \/ jobs.swap[u].id \notin main.todo)
        BY <1>2, <2>1, <3>1, <4>1 DEF GCInv
      <4>3. jobs'.swap[u].id = IF T /\ u = z THEN d ELSE jobs.swap[u].id
        BY <2>12, <2>15, <4>1
      <4>4. QED
        BY <2>4, <3>1, <4>1, <4>2, <4>3 DEF HasSwap
    <3>3. ASSUME NEW k \in todo, NEW m \in todo, jobs'.bySwapId[m] = jobs.bySwapId[k] PROVE m = k
      BY <1>2, <2>1, <3>1, <3>3 DEF GCInv
    <3>4. QED
      BY <2>20, <3>1, <3>2, <3>3 DEF GCInv
  <2>25. MainInv'
    BY <1>2, <1>3, <2>22 DEF MainInv, CollectInv, InplaceInv, NoWorkerActive
  <2>26. LookupInv'
    <3>1. /\ lookup' \in [Labels -> Seq(Ids)]
          /\ \A l \in Labels :
               /\ Len(lookup'[l]) <= 1
               /\ d \notin Holders(l) => Holders(l)' = Range(lookup'[l])
               /\ d \in Holders(l) => Holders(l)' = {} /\ lookup'[l] = lookup[l]
      BY <1>1, <1>2, <1>3, <1>10, <2>4, MovedLookup
    <3>2. \A l \in Labels : d \notin Holders(l) /\ ~Outdated(l)'
      BY <2>3, <2>22 DEF Holders, Deleted, Outdated
    <3>3. QED
      BY <3>1, <3>2 DEF LookupInv, Holders
  <2>27. Removed(graph, graph', Stored, d, count)
    <3>1. ASSUME NEW y \in Ids, d \in graph.links[y] PROVE FALSE
      <4>1. y \in Stored
        BY <1>3, <3>1 DEF Exact, Shaped
      <4>2. PICK j \in jobs.byNode[y] : jobs.repair[j].swaps[v] > 0
        BY <1>1, <1>3, <2>3, <3>1, <4>1 DEF EdgesIntoDeletedAreCovered
      <4>3. j \in Alive(jobs)
        BY <1>3, <2>1, <4>1, <4>2 DEF Filed
      <4>4. Cardinality(Associations(jobs, Alive(jobs), v)) = 0
        BY <1>10, <2>1, <2>2 DEF Counted
      <4>5. jobs.repair[j].swaps[v] = 0
        BY <2>1, <2>2, <4>3, <4>4, AliveAssociations
      <4>6. QED
        BY <4>2, <4>5
    <3>2. Stored \in SUBSET Ids /\ \A y \in Ids : d \notin graph.links[y]
      BY <1>3, <3>1
    <3>3. Removed(graph, RemoveAndSwap(graph, d, count, TRUE), Stored, d, count)
      BY <1>3, <2>4, <2>5, <3>2, RemovedMarked
    <3>4. QED
      BY <1>10, <3>3
  <2>28. main'.toRemove = Append(R, x) /\ main'.pc # "unlink"
    BY <2>20
  <2>29. QED
    BY <1>2, <1>3, <1>7, <1>10, <2>4, <2>9, <2>12, <2>17, <2>18, <2>22, <2>23, <2>24, <2>25,
       <2>26, <2>27, <2>28, RemovalStep
<1>11. QED
  BY <1>4, <1>5, <1>6, <1>7, <1>8, <1>9, <1>10

LEMMA RemoveInplaceStep ==
  ASSUME DeletionInv, RemoveInplace
  PROVE  DeletionInv'
<1>1. /\ ElementsInv /\ LookupInv /\ GraphInv /\ MainInv /\ JobsInv
  BY DEF DeletionInv
<1>2. PICK d : d = main.id
  OBVIOUS
<1>3. PICK l : l = main.label
  OBVIOUS
<1>4. main.pc = "unlink" /\ main.todo = {}
  BY DEF RemoveInplace
<1>5. main \in [pc : {"unlink"}, label : Labels, ind : {1}, toRemove : Seq(Ids),
                id : Ids, todo : SUBSET Ids]
  BY <1>1, <1>4 DEF MainInv, MainType, Idle
<1>6. /\ l \in Labels /\ main.ind = 1 /\ main.toRemove = <<>> /\ Len(lookup[l]) = 1
      /\ lookup[l] = <<d>> /\ d \in Ids
  <2>1. /\ Len(lookup[l]) = 1 /\ Len(main.toRemove) = main.ind - 1 /\ d = lookup[l][1]
    BY <1>1, <1>2, <1>3, <1>4 DEF MainInv, InplaceInv
  <2>2. l \in Labels /\ main.ind = 1 /\ main.toRemove \in Seq(Ids) /\ d \in Ids
    BY <1>2, <1>3, <1>5
  <2>3. lookup[l] \in Seq(Ids) /\ Len(main.toRemove) = 0
    BY <1>1, <2>1, <2>2 DEF LookupInv
  <2>4. QED
    BY <2>1, <2>2, <2>3, ShortSeqs
<1>7. PICK e : e = ExecuteSwapJob(jobs, d, count, <<>>)
  OBVIOUS
<1>8. /\ graph' = RemoveAndSwap(graph, d, count, FALSE) /\ MoveLastTo(d) /\ jobs' = e.jobs
      /\ main' = [pc |-> "inplace", label |-> l, ind |-> 2, toRemove |-> e.toRemove]
      /\ UNCHANGED <<unused, calls, worker>>
  <2>1. main.ind + 1 = 2
    BY <1>6
  <2>2. QED
    BY <1>2, <1>3, <1>6, <1>7, <2>1 DEF RemoveInplace
<1>9. /\ OwnsMain /\ Uncollected = {} /\ ToRemove = {} /\ Executed = 1
      /\ \A k \in Labels : ~Outdated(k)
  BY <1>4, <1>6, ShortSeqs DEF OwnsMain, Uncollected, ToRemove, Executed, Outdated
<1>10. Stored \in SUBSET Ids /\ Deleted \in SUBSET Stored /\ Collected = Deleted
  BY <1>1, <1>9, Storage DEF Collected
<1>11. /\ d \in Holders(l) /\ \A k \in Labels : k # l => d \notin Holders(k)
  <2>1. Holders(l) = {d}
    BY <1>1, <1>6, <1>9, ShortSeqs DEF LookupInv, Holders
  <2>2. QED
    BY <2>1 DEF Holders
<1>12. d \in Stored /\ d \notin Deleted /\ d # 0
  <2>1. d \in Stored /\ ~meta[d].deleted
    BY <1>11 DEF Holders
  <2>2. d # 0
    BY <1>1, <1>6, Storage
  <2>3. d \notin Deleted
    BY <2>1, Zenon DEF Deleted
  <2>4. QED
    BY <2>1, <2>2, <2>3, Zenon
<1>13. PICK R \in Seq(Ids) : R = <<>> /\ R = main.toRemove /\ d \notin Range(R)
  <2>1. <<>> \in Seq(Ids) /\ Range(<<>>) = {}
    BY ShortSeqs
  <2>2. QED
    BY <1>6, <2>1
<1>14. /\ jobs \in JobsType /\ Filed(jobs, Stored) /\ Counted(jobs) /\ NoDangling(jobs)
       /\ Reclaimed(jobs, Deleted) /\ Indexes(jobs, Deleted, Range(R))
       /\ jobs.ready = Cardinality(ReadyJobs(jobs)) + 1
  BY <1>1, <1>9, <1>10, <1>13, ShortSeqs DEF JobsInv
<1>15. count \in Stored /\ count \in Ids
  BY <1>1, <1>8, <1>12, MovedElements
<1>16. /\ TakesOver(jobs, d, count, R) <=> count # d /\ count \in Deleted
       /\ TakesOver(jobs, d, count, R) =>
            /\ jobs.bySwapId[count] = meta[count].vec /\ jobs.bySwapId[count] \in Vecs
            /\ HasSwap(jobs, jobs.bySwapId[count])
  BY <1>1, <1>12, <1>14, TakesOverFacts
<1>17. SwapJobDone(jobs, e, Stored, d, count, R)
  <2>1. e = ExecuteSwapJob(jobs, d, count, R)
    BY <1>7, <1>13
  <2>2. QED
    BY <1>10, <1>12, <1>14, <1>15, <1>16, <2>1, SwapJobExecuted
<1>18. PICK x : x = Leaves(jobs, d, count, R)
  OBVIOUS
<1>19. /\ x \in Ids /\ e.toRemove = Append(R, x) /\ e.toRemove = <<x>>
  <2>1. x \in Ids /\ e.toRemove = Append(R, x)
    BY <1>6, <1>15, <1>17, <1>18 DEF SwapJobDone, Leaves
  <2>2. Append(<<>>, x) = <<x>>
    OBVIOUS
  <2>3. QED
    BY <1>13, <2>1, <2>2
<1>20. /\ main'.pc = "inplace" /\ main'.label = l /\ main'.ind = 2 /\ main'.toRemove = <<x>>
       /\ main'.toRemove = Append(R, x) /\ main' \in MainType
  <2>1. <<x>> \in Seq(Ids)
    BY <1>19
  <2>2. main' = [pc |-> "inplace", label |-> l, ind |-> 2, toRemove |-> <<x>>]
    BY <1>8, <1>19
  <2>3. main' \in [pc : {"inplace"}, label : Labels, ind : {1, 2}, toRemove : Seq(Ids)]
    BY <1>6, <2>1, <2>2
  <2>4. main' \in MainType
    BY <2>3 DEF MainType
  <2>5. QED
    BY <1>19, <2>2, <2>4
<1>21. OwnsMain' /\ Executed' = 1 /\ \A k \in Labels : Outdated(k)' <=> k = l
  BY <1>20 DEF OwnsMain, Executed, Outdated
<1>22. RepairsMoved(jobs, Stored, d, count)
  BY <1>8, <1>17 DEF RepairsMoved, SwapJobDone
<1>23. SwapsMoved(jobs, d, count, R)
  <2>1. meta[d].vec \in Vecs
    BY <1>1, <1>6, <1>12, MetaFields
  <2>2. jobs.swap[meta[d].vec].id = 0
    <3>1. SUFFICES ASSUME HasSwap(jobs, meta[d].vec) PROVE FALSE
      BY DEF HasSwap
    <3>2. PICK y : y = jobs.swap[meta[d].vec].id
      OBVIOUS
    <3>3. y \in Deleted /\ meta[y].vec = meta[d].vec
      BY <1>14, <2>1, <3>1, <3>2 DEF Reclaimed
    <3>4. y = d
      BY <1>1, <1>10, <1>12, <3>3 DEF ElementsInv
    <3>5. QED
      BY <1>12, <3>3, <3>4
  <2>3. TakesOver(jobs, d, count, R) => jobs.bySwapId[count] # meta[d].vec
    BY <1>1, <1>12, <1>15, <1>16 DEF ElementsInv
  <2>4. QED
    BY <1>8, <1>17, <2>2, <2>3 DEF SwapsMoved, SwapJobDone
<1>24. jobs'.ready = Cardinality(ReadyJobs(jobs')) + Executed'
  <2>1. /\ jobs'.ready - Cardinality(ReadyJobs(jobs')) = jobs.ready - Cardinality(ReadyJobs(jobs))
        /\ jobs' \in JobsType
    BY <1>8, <1>17 DEF SwapJobDone
  <2>2. /\ Cardinality(ReadyJobs(jobs')) \in Nat /\ Cardinality(ReadyJobs(jobs)) \in Nat
        /\ jobs'.ready \in Int /\ jobs.ready \in Int
    BY <1>14, <2>1, JobTypes, VecSets DEF ReadyJobs
  <2>3. QED
    BY <1>14, <1>21, <2>1, <2>2
<1>25. GCInv'
  BY <1>20 DEF GCInv
<1>26. /\ lookup' \in [Labels -> Seq(Ids)]
       /\ \A k \in Labels :
            /\ Len(lookup'[k]) <= 1
            /\ d \notin Holders(k) => Holders(k)' = Range(lookup'[k])
            /\ d \in Holders(k) => Holders(k)' = {} /\ lookup'[k] = lookup[k]
  BY <1>1, <1>8, <1>9, <1>12, MovedLookup
<1>27. LookupInv'
  BY <1>11, <1>21, <1>26 DEF LookupInv, Holders
<1>28. MainInv'
  <2>1. Len(lookup'[l]) = 1 /\ Len(<<x>>) = 2 - 1
    <3>1. lookup'[l] = lookup[l]
      BY <1>6, <1>11, <1>26
    <3>2. Len(<<x>>) = 1 /\ 2 - 1 = 1
      OBVIOUS
    <3>3. QED
      BY <1>6, <3>1, <3>2
  <2>2. InplaceInv'
    BY <1>20, <2>1 DEF InplaceInv
  <2>3. CollectInv'
    BY <1>20 DEF CollectInv
  <2>4. NoWorkerActive'
    BY <1>1, <1>8, <1>9 DEF MainInv, NoWorkerActive
  <2>5. QED
    BY <1>20, <2>2, <2>3, <2>4 DEF MainInv
<1>29. Removed(graph, graph', Stored, d, count)
  <2>1. Unlinking(graph, Stored, d, {})
    BY <1>1, <1>2, <1>4 DEF GraphInv
  <2>2. Removed(graph, RemoveAndSwap(graph, d, count, FALSE), Stored, d, count)
    BY <1>10, <1>12, <1>15, <2>1, RemovedInPlace
  <2>3. QED
    BY <1>8, <2>2
<1>30. main'.pc # "unlink"
  BY <1>20
<1>31. QED
  BY <1>8, <1>9, <1>12, <1>13, <1>18, <1>19, <1>20, <1>21, <1>22, <1>23, <1>24, <1>25, <1>27,
     <1>28, <1>29, <1>30, RemovalStep

-----------------------------------------------------------------------------
(* The initial state.                                                       *)

LEMMA AscendingShort ==
  /\ Ascending({}) = <<>>
  /\ \A x \in Ids : Ascending({x}) = <<x>>
<1>1. Cardinality({}) = 0 /\ \A x : Cardinality({x}) = 1
  BY FS_EmptySet, FS_Singleton
<1>2. Ascending({}) = <<>>
  <2>1. <<>> \in [1..0 -> {}] /\ \A s \in [1..0 -> {}] : s = <<>>
    OBVIOUS
  <2>2. \A p, q \in 1..0 : p < q => <<>>[p] < <<>>[q]
    OBVIOUS
  <2>3. \E s \in [1..Cardinality({}) -> {}] :
          \A p, q \in 1..Cardinality({}) : p < q => s[p] < s[q]
    BY <1>1, <2>1, <2>2
  <2>4. Ascending({}) \in [1..0 -> {}]
    BY <1>1, <2>3 DEF Ascending
  <2>5. QED
    BY <2>1, <2>4
<1>3. ASSUME NEW x \in Ids PROVE Ascending({x}) = <<x>>
  <2>1. 1..1 = {1}
    OBVIOUS
  <2>2. <<x>> \in [1..1 -> {x}] /\ \A s \in [1..1 -> {x}] : s = <<x>>
    BY <2>1
  <2>3. \A p, q \in 1..1 : ~ (p < q)
    OBVIOUS
  <2>4. \E s \in [1..Cardinality({x}) -> {x}] :
          \A p, q \in 1..Cardinality({x}) : p < q => s[p] < s[q]
    BY <1>1, <2>2, <2>3
  <2>5. Ascending({x}) \in [1..1 -> {x}]
    BY <1>1, <2>4 DEF Ascending
  <2>6. QED
    BY <2>2, <2>5
<1>4. QED
  BY <1>2, <1>3

LEMMA StarExact ==
  ASSUME NEW g, g = [EmptyGraph EXCEPT !.links = [i \in Ids |->
                       IF i > Indexed THEN {}
                       ELSE IF i = Centre THEN 1..Indexed \ {i} ELSE {Centre}]]
  PROVE  Exact(g, 1..Indexed) /\ 1..Indexed \in SUBSET Ids
<1>0. PICK c \in {1, 2} : c = Centre
  BY DeletionAssumption
<1>1. /\ Indexed \in Nat /\ Indexed >= 3 /\ MaxLinks \in Nat /\ Indexed <= MaxLinks + 1
      /\ 1..Indexed \subseteq Vecs /\ Ids = 1..Cardinality(Vecs) /\ IsFiniteSet(Vecs)
  BY DeletionAssumption
<1>2. IsFiniteSet(1..Indexed) /\ Cardinality(1..Indexed) = Indexed
  BY <1>1, UpTo
<1>3. Indexed <= Cardinality(Vecs) /\ Cardinality(Vecs) \in Nat
  BY <1>1, <1>2, FS_Subset, FS_CardinalityType
<1>4. 1..Indexed \in SUBSET Ids /\ c \in 1..Indexed /\ c \in Ids
  BY <1>1, <1>3
<1> DEFINE links == [i \in Ids |-> IF i > Indexed THEN {}
                                   ELSE IF i = c THEN 1..Indexed \ {i} ELSE {c}]
<1>5. g = [links |-> links, incoming |-> [i \in Ids |-> {}], ok |-> TRUE]
  BY <1>0 DEF EmptyGraph
<1>6. /\ \A i \in Ids : i > Indexed <=> i \notin 1..Indexed
  BY <1>1
<1>7. /\ links \in [Ids -> SUBSET Ids]
      /\ \A i \in Ids : links[i] = IF i \notin 1..Indexed THEN {}
                                   ELSE IF i = c THEN 1..Indexed \ {i} ELSE {c}
  BY <1>4, <1>6
<1> HIDE DEF links
<1>8. Cardinality(1..Indexed \ {c}) = Indexed - 1 /\ Cardinality({c}) = 1 /\ Cardinality({}) = 0
  <2>1. Cardinality((1..Indexed) \ {c}) = Cardinality(1..Indexed) - 1
    BY <1>2, <1>4, FS_RemoveElement
  <2>2. Cardinality({c}) = 1
    BY FS_Singleton
  <2>3. Cardinality({}) = 0
    BY FS_EmptySet
  <2>4. QED
    BY <1>2, <2>1, <2>2, <2>3
<1>9. ASSUME NEW i \in Ids
      PROVE  g.links[i] \subseteq 1..Indexed \ {i} /\ Cardinality(g.links[i]) <= MaxLinks
  <2>1. CASE i \notin 1..Indexed
    BY <1>1, <1>5, <1>7, <1>8, <2>1
  <2>2. CASE i = c
    BY <1>1, <1>4, <1>5, <1>7, <1>8, <2>2
  <2>3. CASE i \in 1..Indexed /\ i # c
    <3>1. g.links[i] = {c}
      BY <1>5, <1>7, <2>3
    <3>2. {c} \subseteq 1..Indexed \ {i}
      BY <1>4, <2>3
    <3>3. Cardinality(g.links[i]) = 1
      BY <1>8, <3>1, Zenon
    <3>4. 1 <= MaxLinks
      BY <1>1
    <3>5. QED
      BY <3>1, <3>2, <3>3, <3>4
  <2>4. QED
    BY <2>1, <2>2, <2>3
<1>10. \A i \in Ids \ 1..Indexed : g.links[i] = {}
  BY <1>5, <1>7
<1>11. g \in GraphType /\ g.ok
  <2>1. PICK A \in [Ids -> SUBSET Ids], B \in [Ids -> SUBSET Ids] :
          A = links /\ B = [i \in Ids |-> {}]
    BY <1>7
  <2>2. g = [links |-> A, incoming |-> B, ok |-> TRUE]
    BY <1>5, <2>1
  <2>3. [links |-> A, incoming |-> B, ok |-> TRUE] \in GraphType
    BY DEF GraphType
  <2>4. g \in GraphType
    BY <2>2, <2>3, Zenon
  <2>5. g.ok
    BY <1>5
  <2>6. QED
    BY <2>4, <2>5
<1>12. \A u, v \in Ids : EdgeExact(g, u, v)
  BY <1>4, <1>5, <1>7 DEF EdgeExact
<1>13. QED
  BY <1>4, <1>9, <1>10, <1>11, <1>12 DEF Exact, Shaped

LEMMA InitDeletion ==
  ASSUME Init, SingleValue
  PROVE  DeletionInv
<1>1. /\ count = Indexed
      /\ meta = [i \in Ids |-> IF i <= Indexed THEN [NoMeta EXCEPT !.vec = i] ELSE NoMeta]
      /\ lookup = [l \in Labels |-> Ascending({i \in 1..Indexed : LabelOf[i] = l})]
      /\ unused = Vecs \ 1..Indexed /\ calls = 0
      /\ jobs = InitJobs /\ worker = [w \in Workers |-> Idle] /\ main = Idle
  BY DEF Init
<1>2. /\ Indexed \in Nat /\ 1..Indexed \subseteq Vecs /\ Ids = 1..Cardinality(Vecs)
      /\ IsFiniteSet(Vecs) /\ 0 \notin Vecs /\ Vecs \subseteq Nat
  BY DeletionAssumption DEF NoVec
<1>3. graph = [EmptyGraph EXCEPT !.links = [i \in Ids |->
                 IF i > Indexed THEN {}
                 ELSE IF i = Centre THEN 1..Indexed \ {i} ELSE {Centre}]]
  BY DEF Init
<1>4. Exact(graph, Stored) /\ Stored \in SUBSET Ids /\ Stored = 1..Indexed
  BY <1>1, <1>3, StarExact DEF Stored
<1>5. /\ main.pc = "idle" /\ ~OwnsMain /\ Uncollected = {} /\ ToRemove = {} /\ Executed = 0
      /\ \A l \in Labels : ~Outdated(l)
  BY <1>1 DEF Idle, OwnsMain, Uncollected, ToRemove, Executed, Outdated
<1>6. /\ meta \in [Ids -> [vec : Vecs \cup {NoVec}, deleted : BOOLEAN, inProcess : BOOLEAN]]
      /\ \A i \in Ids : /\ meta[i].vec = IF i \in Stored THEN i ELSE NoVec
                        /\ meta[i].deleted = FALSE /\ meta[i].inProcess = FALSE
  <2>1. \A i \in Ids : i <= Indexed <=> i \in Stored
    BY <1>2, <1>4
  <2>2. \A i \in Stored : /\ [NoMeta EXCEPT !.vec = i] \in [vec : Vecs \cup {NoVec}, deleted : BOOLEAN, inProcess : BOOLEAN]
                          /\ [NoMeta EXCEPT !.vec = i].vec = i
                          /\ [NoMeta EXCEPT !.vec = i].deleted = FALSE
                          /\ [NoMeta EXCEPT !.vec = i].inProcess = FALSE
    BY <1>2, <1>4 DEF NoMeta
  <2>3. /\ NoMeta \in [vec : Vecs \cup {NoVec}, deleted : BOOLEAN, inProcess : BOOLEAN]
        /\ NoMeta.vec = NoVec /\ NoMeta.deleted = FALSE /\ NoMeta.inProcess = FALSE
    BY DEF NoMeta
  <2>4. QED
    BY <1>1, <2>1, <2>2, <2>3
<1>7. Deleted = {} /\ Collected = {}
  BY <1>4, <1>6 DEF Deleted, Collected
<1>8. ElementsInv
  <2>1. \A i \in Ids : i \in Stored <=> meta[i].vec # NoVec
    BY <1>2, <1>4, <1>6 DEF NoVec
  <2>2. /\ \A i \in Stored : meta[i].vec \notin unused
        /\ \A i, k \in Stored : meta[i].vec = meta[k].vec => i = k
    BY <1>1, <1>4, <1>6
  <2>3. count + Cardinality(unused) <= Cardinality(Vecs)
    <3>1. IsFiniteSet(1..Indexed) /\ Cardinality(1..Indexed) = Indexed /\ Cardinality(Vecs) \in Nat
      BY <1>2, UpTo, FS_CardinalityType
    <3>2. Cardinality(Vecs \ (1..Indexed)) = Cardinality(Vecs) - Cardinality(Vecs \cap (1..Indexed))
      BY <1>2, <3>1, FS_Difference
    <3>3. Vecs \cap (1..Indexed) = 1..Indexed
      BY <1>2
    <3>4. QED
      <4>1. Cardinality(unused) = Cardinality(Vecs) - Indexed
        BY <1>1, <3>1, <3>2, <3>3
      <4>2. Indexed + (Cardinality(Vecs) - Indexed) <= Cardinality(Vecs)
        BY <1>2, <3>1
      <4>3. QED
        BY <1>1, <4>1, <4>2
  <2>4. count \in Nat /\ unused \subseteq Vecs /\ calls \in Nat
    BY <1>1, <1>2
  <2>5. QED
    BY <1>6, <2>1, <2>2, <2>3, <2>4 DEF ElementsInv
<1>9. LookupInv
  <2>1. ASSUME NEW l \in Labels
        PROVE  /\ lookup[l] \in Seq(Ids) /\ Len(lookup[l]) <= 1
               /\ {i \in Stored : ~meta[i].deleted /\ LabelOf[meta[i].vec] = l} = Range(lookup[l])
    <3>1. PICK S : S = {i \in 1..Indexed : LabelOf[i] = l}
      OBVIOUS
    <3>2. lookup[l] = Ascending(S)
      BY <1>1, <3>1
    <3>3. {i \in Stored : ~meta[i].deleted /\ LabelOf[meta[i].vec] = l} = S
      BY <1>4, <1>6, <3>1
    <3>4. \A i, k \in S : i = k
      BY <1>2, <3>1, OneVector
    <3>5. CASE S = {}
      <4>1. lookup[l] = <<>> /\ <<>> \in Seq(Ids) /\ Len(<<>>) = 0
        BY <3>2, <3>5, AscendingShort
      <4>2. QED
        BY <3>3, <3>5, <4>1, ShortSeqs
    <3>6. CASE S # {}
      <4>1. PICK x \in Ids : S = {x}
        BY <1>4, <3>1, <3>4, <3>6
      <4>2. lookup[l] = <<x>> /\ <<x>> \in Seq(Ids) /\ Len(<<x>>) = 1
        BY <3>2, <4>1, AscendingShort
      <4>3. QED
        BY <3>3, <4>1, <4>2, ShortSeqs
    <3>7. QED
      BY <3>5, <3>6
  <2>2. lookup \in [Labels -> Seq(Ids)]
    BY <1>1, <2>1
  <2>3. QED
    BY <1>5, <2>1, <2>2 DEF LookupInv
<1>10. GraphInv
  BY <1>4, <1>5 DEF GraphInv
<1>11. WorkersInv
  <2>1. \A w \in Workers : worker[w] = Idle /\ worker[w].pc = "idle"
    BY <1>1 DEF Idle
  <2>2. worker \in [Workers -> WorkerType]
    BY <1>1 DEF WorkerType
  <2>3. \A w \in Workers : ~Inserting(w) /\ ~Repairing(w)
    BY <2>1 DEF Inserting, Repairing
  <2>4. LocksInv
    BY <2>1, NoLocks DEF LocksInv
  <2>5. QED
    BY <2>1, <2>2, <2>3, <2>4, Zenon DEF WorkersInv
<1>12. MainInv
  BY <1>1, <1>5 DEF MainInv, MainType, CollectInv, InplaceInv
<1>13. JobsInv
  <2>1. /\ jobs = [repair |-> [j \in RepairJobs |-> NoJob], byNode |-> [i \in Ids |-> {}],
                   swap |-> [v \in Vecs |-> [id |-> 0, pending |-> 0]],
                   bySwapId |-> [i \in Ids |-> NoVec], ready |-> 0]
    BY <1>1 DEF InitJobs
  <2>2. jobs \in JobsType
    BY <2>1 DEF JobsType
  <2>3. Alive(jobs) = {} /\ \A v \in Vecs : ~HasSwap(jobs, v) /\ jobs.swap[v].pending = 0
    BY <2>1 DEF Alive, HasSwap
  <2>4. Filed(jobs, Stored) /\ Counted(jobs) /\ NoDangling(jobs)
    BY <2>1, <2>3 DEF Filed, Counted, NoDangling
  <2>5. Reclaimed(jobs, Collected) /\ Indexes(jobs, Collected, ToRemove) /\ GCInv
    BY <1>5, <1>7, <2>1, <2>3 DEF Reclaimed, Indexes, GCInv
  <2>6. ReadyJobs(jobs) = {}
    BY <2>3 DEF ReadyJobs
  <2>7. jobs.ready = Cardinality(ReadyJobs(jobs)) + Executed
    <3>1. jobs.ready = 0
      BY <2>1
    <3>2. Cardinality(ReadyJobs(jobs)) = 0
      BY <2>6, FS_EmptySet
    <3>3. QED
      BY <1>5, <3>1, <3>2
  <2>8. QED
    BY <2>2, <2>4, <2>5, <2>7 DEF JobsInv
<1>14. EdgesIntoDeletedAreCovered
  BY <1>7 DEF EdgesIntoDeletedAreCovered
<1>15. QED
  BY <1>8, <1>9, <1>10, <1>11, <1>12, <1>13, <1>14 DEF DeletionInv

-----------------------------------------------------------------------------
(* Every step preserves the invariant, and links nothing to a deleted       *)
(* element.                                                                 *)

\* A removal makes the index smaller.
LEMMA RemovalGain ==
  ASSUME ElementsInv, NEW d, MoveLastTo(d)
  PROVE  CollectedGain
<1>1. count \in Nat /\ count' = count - 1
  BY DEF ElementsInv, MoveLastTo
<1>2. ~ (count' >= count)
  BY <1>1
<1>3. QED
  BY <1>2, NoLinks

LEMMA WorkerStepDeletion ==
  ASSUME DeletionInv, SingleValue, NEW w \in Workers, WorkerStep(w)
  PROVE  DeletionInv' /\ CollectedGain
<1>1. CASE StoreNewElement(w)
  BY <1>1, StoreNewStep, NoLinks DEF StoreNewElement
<1>2. CASE LockNeighbor(w)
  BY <1>2, LockNeighborStep, NoLinks DEF LockNeighbor
<1>3. CASE ConnectNext(w)
  BY <1>3, ConnectNextStep
<1>4. CASE LockRevisited(w)
  BY <1>4, LockRevisitedStep, NoLinks DEF LockRevisited
<1>5. CASE RevisitNeighborConnections(w)
  BY <1>5, RevisitStep
<1>6. CASE UnmarkInProcess(w)
  BY <1>6, UnmarkStep, NoLinks DEF UnmarkInProcess
<1>7. CASE ExecuteRepairJob(w)
  BY <1>7, ExecuteRepairStep, NoLinks DEF ExecuteRepairJob
<1>8. CASE CollectNeighbors(w)
  BY <1>8, CollectNeighborsStep, NoLinks DEF CollectNeighbors
<1>9. CASE CollectFromDeleted(w)
  BY <1>9, CollectFromDeletedStep, NoLinks DEF CollectFromDeleted
<1>10. CASE LockNodesToUpdate(w)
  BY <1>10, LockNodesStep, NoLinks DEF LockNodesToUpdate
<1>11. CASE CheckChosen(w)
  BY <1>11, CheckChosenStep, NoLinks DEF CheckChosen
<1>12. CASE UpdateRepairedNode(w)
  BY <1>12, UpdateRepairedStep
<1>13. QED
  BY <1>1, <1>2, <1>3, <1>4, <1>5, <1>6, <1>7, <1>8, <1>9, <1>10, <1>11, <1>12 DEF WorkerStep

LEMMA MainStepDeletion ==
  ASSUME DeletionInv, SingleValue, MainStart \/ MainStep
  PROVE  DeletionInv' /\ CollectedGain
<1>1. CASE StartGC
  BY <1>1, StartGCStep, NoLinks DEF StartGC
<1>2. ASSUME NEW l \in Labels, MarkDelete(l) PROVE DeletionInv' /\ CollectedGain
  BY <1>2, MarkDeleteStep, NoLinks DEF MarkDelete
<1>3. ASSUME NEW l \in Labels, StartInplace(l) PROVE DeletionInv' /\ CollectedGain
  BY <1>3, StartInplaceStep, NoLinks DEF StartInplace
<1>4. CASE CopyLinks
  BY <1>4, CopyLinksStep, NoLinks DEF CopyLinks
<1>5. CASE CheckNeighbor
  BY <1>5, CheckNeighborStep, NoLinks DEF CheckNeighbor
<1>6. CASE CollectIncoming
  BY <1>6, CollectIncomingStep, NoLinks DEF CollectIncoming
<1>7. CASE CreateJobs
  BY <1>7, CreateJobsStep, NoLinks DEF CreateJobs
<1>8. CASE GCStep
  <2>1. UNCHANGED graph \/ \E d : MoveLastTo(d)
    BY <1>8 DEF GCStep
  <2>2. CollectedGain
    BY <2>1, NoLinks, RemovalGain DEF DeletionInv
  <2>3. QED
    BY <1>8, <2>2, GCStepStep
<1>9. CASE FinishGC
  BY <1>9, FinishGCStep, NoLinks DEF FinishGC
<1>10. CASE NextInplace
  BY <1>10, NextInplaceStep, NoLinks DEF NextInplace
<1>11. CASE RepairForDeletion
  BY <1>11, RepairForDeletionStep
<1>12. CASE RemoveInplace
  <2>1. MoveLastTo(main.id)
    BY <1>12 DEF RemoveInplace
  <2>2. CollectedGain
    BY <2>1, RemovalGain DEF DeletionInv
  <2>3. QED
    BY <1>12, <2>2, RemoveInplaceStep
<1>13. CASE FinishInplace
  BY <1>13, FinishInplaceStep, NoLinks DEF FinishInplace
<1>14. QED
  BY <1>1, <1>2, <1>3, <1>4, <1>5, <1>6, <1>7, <1>8, <1>9, <1>10, <1>11, <1>12, <1>13
     DEF MainStart, MainStep

LEMMA StutterDeletion ==
  ASSUME DeletionInv, UNCHANGED vars
  PROVE  DeletionInv' /\ CollectedGain
<1>1. UNCHANGED <<count, meta, lookup, unused, calls, graph, jobs, worker, main>>
  BY DEF vars
<1>2. ElementsInv' /\ LookupInv'
  BY <1>1 DEF DeletionInv, ElementsInv, LookupInv, Stored, Outdated
<1>3. GraphInv'
  BY <1>1 DEF DeletionInv, GraphInv, Stored
<1>4. WorkersInv'
  BY <1>1, WorkersFrame DEF DeletionInv, Marking
<1>5. MainInv'
  BY <1>1 DEF DeletionInv, MainInv, OwnsMain, NoWorkerActive, CollectInv, InplaceInv, Stored, Deleted
<1>6. JobsInv'
  BY <1>1 DEF DeletionInv, JobsInv, Stored, Deleted, Collected, Uncollected, ToRemove, OwnsMain,
              Reclaimed, Indexes, GCInv, Executed
<1>7. EdgesIntoDeletedAreCovered'
  BY <1>1 DEF DeletionInv, EdgesIntoDeletedAreCovered, Stored, Deleted, Uncollected
<1>8. QED
  BY <1>1, <1>2, <1>3, <1>4, <1>5, <1>6, <1>7, NoLinks DEF DeletionInv

LEMMA NextDeletion ==
  ASSUME DeletionInv, SingleValue, [Next]_vars
  PROVE  DeletionInv' /\ CollectedGain
<1>1. CASE MainStart \/ MainStep
  BY <1>1, MainStepDeletion
<1>2. ASSUME NEW w \in Workers, WorkerStep(w) PROVE DeletionInv' /\ CollectedGain
  BY <1>2, WorkerStepDeletion
<1>3. CASE UNCHANGED vars
  BY <1>3, StutterDeletion
<1>4. QED
  BY <1>1, <1>2, <1>3 DEF Next

-----------------------------------------------------------------------------
(* Theorems.                                                                *)

\* The inductive invariant holds of every run of a single-value index.
THEOREM DeletionInvHolds == ASSUME SingleValue PROVE Spec => []DeletionInv
<1>1. Init => DeletionInv
  BY InitDeletion
<1>2. DeletionInv /\ [Next]_vars => DeletionInv'
  BY NextDeletion
<1>3. QED
  BY <1>1, <1>2, PTL DEF Spec

\* Ids, links and flags stay in range, exactly the stored ids have a vector, and no
\* pending counter of a swap job drops below zero (hnsw_tiered.h:286-301, 405-411).
THEOREM DeletionTypes == ASSUME SingleValue PROVE Spec => []TypeOK
<1>1. DeletionInv => TypeOK
  <2> SUFFICES ASSUME DeletionInv PROVE TypeOK
    OBVIOUS
  <2>1. ElementsInv /\ LookupInv /\ GraphInv /\ JobsInv
    BY DEF DeletionInv
  <2>2. count \in 0..Cardinality(Ids)
    <3>1. /\ count \in Nat /\ count <= Cardinality(Vecs) /\ Cardinality(Vecs) \in Nat
      BY <2>1, Storage, DeletionAssumption, FS_CardinalityType
    <3>2. Cardinality(Ids) = Cardinality(Vecs)
      BY <3>1, UpTo, DeletionAssumption
    <3>3. QED
      BY <3>1, <3>2
  <2>3. \A l \in Labels : Range(lookup[l]) \subseteq Ids
    BY <2>1 DEF LookupInv, Range
  <2>4. graph.links \in [Ids -> SUBSET Ids] /\ graph.incoming \in [Ids -> SUBSET Ids]
    BY <2>1 DEF GraphInv, Exact, Unlinking, Shaped, GraphType
  <2>5. ASSUME NEW v \in Vecs PROVE jobs.swap[v].pending >= 0
    <3>1. \A j \in Alive(jobs) : jobs.repair[j].swaps[v] \in Nat
      BY <2>1, JobTypes DEF JobsInv
    <3>2. Cardinality(Associations(jobs, Alive(jobs), v)) \in Nat
      BY <3>1, AssociationsFinite DEF Alive
    <3>3. jobs.swap[v].pending \in Nat
      BY <2>1, <3>2 DEF JobsInv, Counted
    <3>4. QED
      BY <3>3
  <2>6. QED
    BY <2>1, <2>2, <2>3, <2>4, <2>5 DEF TypeOK, ElementsInv
<1>2. QED
  BY <1>1, DeletionInvHolds, PTL

\* Whatever inserts, repairs and removals interleave, the incoming unidirectional
\* edges are exactly the edges without an edge back, and no list points to an id that
\* is not stored: the swap of ids finds every edge it must rename (hnsw.h:1132-1192).
THEOREM GraphStaysExact == ASSUME SingleValue PROVE Spec => []GraphIsExact
<1>1. DeletionInv => GraphIsExact
  <2> SUFFICES ASSUME DeletionInv, main.pc # "unlink"
               PROVE  graph.ok /\ GraphConsistent(graph, Stored)
    BY DEF GraphIsExact
  <2>1. Exact(graph, Stored) /\ Stored \in SUBSET Ids
    BY Storage DEF DeletionInv, GraphInv
  <2>2. QED
    BY <2>1 DEF Exact, Shaped, EdgeExact, GraphConsistent
<1>2. QED
  BY <1>1, DeletionInvHolds, PTL

\* The pending counter of a swap job counts the associations of valid repair jobs with
\* it, and no repair job refers to a swap job that is gone (hnsw_tiered.h:385-411,
\* 631-640, 291-301).
THEOREM PendingStaysExact == ASSUME SingleValue PROVE Spec => []PendingIsExact
<1>1. DeletionInv => PendingIsExact
  <2> SUFFICES ASSUME DeletionInv, NEW v \in Vecs
               PROVE  IF HasSwap(jobs, v)
                      THEN jobs.swap[v].pending = Cardinality(Associations(jobs, JobsAlive, v))
                      ELSE Cardinality(Associations(jobs, JobsAlive, v)) = 0
    BY DEF PendingIsExact
  <2>1. JobsAlive = Alive(jobs)
    BY DEF JobsAlive, Alive
  <2>2. jobs \in JobsType /\ Counted(jobs) /\ NoDangling(jobs)
    BY DEF DeletionInv, JobsInv
  <2>3. CASE HasSwap(jobs, v)
    BY <2>1, <2>2, <2>3 DEF Counted
  <2>4. CASE ~HasSwap(jobs, v)
    <3>1. \A j \in Alive(jobs) : jobs.repair[j].swaps[v] \in Nat
      BY <2>2, JobTypes
    <3>2. \A j \in Alive(jobs) : jobs.repair[j].swaps[v] = 0
      BY <2>2, <2>4, <3>1 DEF NoDangling
    <3>3. Cardinality(Associations(jobs, Alive(jobs), v)) = 0
      BY <3>1, <3>2, AssociationsFinite DEF Alive
    <3>4. QED
      BY <2>1, <2>4, <3>3
  <2>5. QED
    BY <2>3, <2>4
<1>2. QED
  BY <1>1, DeletionInvHolds, PTL

\* Every valid repair job is the only one filed for its node, under the id the node has
\* now, across the renaming of ids by swaps (hnsw_tiered.h:303-309, 623-634).
THEOREM RepairJobsAlwaysFollow == ASSUME SingleValue PROVE Spec => []RepairJobsFollowNodes
<1>1. DeletionInv => RepairJobsFollowNodes
  BY DEF DeletionInv, JobsInv, Filed, RepairJobsFollowNodes, JobsAlive, Alive
<1>2. QED
  BY <1>1, DeletionInvHolds, PTL

\* readySwapJobs is the number of swap jobs without pending repairs whenever the main
\* index is not owned: what decides on garbage collection (hnsw_tiered.h:811, 859).
THEOREM ReadyStaysExact == ASSUME SingleValue PROVE Spec => []ReadyIsExact
<1>1. DeletionInv => ReadyIsExact
  <2> SUFFICES ASSUME DeletionInv, ~OwnsMain
               PROVE  jobs.ready = Cardinality(ReadyJobs(jobs))
    BY DEF ReadyIsExact, ReadyJobs
  <2>1. /\ jobs \in JobsType /\ jobs.ready = Cardinality(ReadyJobs(jobs)) + Executed
    BY DEF DeletionInv, JobsInv
  <2>2. Executed = 0
    BY DEF Executed, OwnsMain
  <2>3. Cardinality(ReadyJobs(jobs)) \in Nat
    BY VecSets DEF ReadyJobs
  <2>4. QED
    BY <2>1, <2>2, <2>3
<1>2. QED
  BY <1>1, DeletionInvHolds, PTL

\* Every element that is marked deleted and collected has a swap job that will reclaim
\* it, filed under the id the element has now (hnsw_tiered.h:310).
THEOREM DeletedAlwaysHaveSwapJobs == ASSUME SingleValue PROVE Spec => []DeletedHaveSwapJobs
<1>1. DeletionInv => DeletedHaveSwapJobs
  <2> SUFFICES ASSUME DeletionInv, ~OwnsMain, NEW i \in Ids
               PROVE  /\ jobs.bySwapId[i] = IF i \in Collected THEN meta[i].vec ELSE NoVec
                      /\ jobs.bySwapId[i] # NoVec => jobs.swap[jobs.bySwapId[i]].id = i
    BY DEF DeletedHaveSwapJobs, Collected
  <2>1. Reclaimed(jobs, Collected) /\ Indexes(jobs, Collected, {})
    BY DEF DeletionInv, JobsInv, ToRemove
  <2>2. QED
    BY <2>1 DEF Reclaimed, Indexes
<1>2. QED
  BY <1>1, DeletionInvHolds, PTL

\* Once a deleted element is collected, an edge into it is the concern of a repair job
\* that its swap job waits for, or of a worker that repairs the node: so nothing points
\* to an element whose swap job is executed (hnsw_tiered.h:623-642, 340-350).
THEOREM EdgesIntoDeletedAlwaysCovered ==
  ASSUME SingleValue PROVE Spec => []EdgesIntoDeletedAreCovered
<1>1. DeletionInv => EdgesIntoDeletedAreCovered
  BY DEF DeletionInv
<1>2. QED
  BY <1>1, DeletionInvHolds, PTL

\* Although marks are set without node locks, and a worker may link to an element that
\* was marked after it had looked: once the collection of a deleted element has begun,
\* no step of any thread adds an edge to it (hnsw.h:846, 919, 1403-1412, 1258).
THEOREM CollectedNeverGainEdges == ASSUME SingleValue PROVE Spec => CollectedGainNoEdges
<1>1. DeletionInv /\ [Next]_vars => [CollectedGain]_vars
  BY NextDeletion
<1>2. Spec => [][CollectedGain]_vars
  BY <1>1, DeletionInvHolds, PTL DEF Spec
<1>3. QED
  BY <1>2, PTL DEF CollectedGainNoEdges, CollectedGain

=============================================================================
