----------------------------- MODULE HNSWGraph -----------------------------
(***************************************************************************)
(* The links of the HNSW graph at one level, as operators on a value: what *)
(* the code does to them while it holds the locks of the nodes involved.   *)
(*                                                                         *)
(* A graph is a record                                                     *)
(*    links     the out-neighbours of every internal id                    *)
(*    incoming  incomingUnidirectionalEdges: those that point to an id and *)
(*              that it does not point to                                  *)
(*    ok        FALSE once an assert of the code has failed, or a list     *)
(*              would hold an id twice                                     *)
(* Distances are abstracted: the heuristic may select any candidates.      *)
(***************************************************************************)
EXTENDS Naturals, FiniteSets

CONSTANTS
  Ids,          \* internal ids
  MaxLinks      \* M0, the largest number of links of a node

EmptyGraph == [links |-> [i \in Ids |-> {}], incoming |-> [i \in Ids |-> {}], ok |-> TRUE]

HasRoom(g, u) == Cardinality(g.links[u]) < MaxLinks

\* What getNeighborsByHeuristic2 may select out of the candidates C: all if
\* they are fewer than bound, else between one and bound of them.
Selections(C, bound) ==
  IF Cardinality(C) < bound THEN {C}
  ELSE {S \in SUBSET C : S # {} /\ Cardinality(S) <= bound}

\* A connection in both directions (both nodes have room).
ConnectBoth(g, n, s) ==
  [g EXCEPT !.links[n] = @ \cup {s}, !.links[s] = @ \cup {n},
            !.ok = @ /\ n # s /\ s \notin g.links[n] /\ n \notin g.links[s]]

\* A connection from n to s only (s has no room).
ConnectOneWay(g, n, s) ==
  [g EXCEPT !.links[n] = @ \cup {s}, !.incoming[s] = @ \cup {n},
            !.ok = @ /\ s \notin g.links[n] /\ n \notin g.incoming[s]]

\* mutuallyRemoveNeighborAtPos for all of R, which are links of u: an edge back
\* becomes unidirectional, otherwise the neighbour forgets u.
RemoveNeighbors(g, u, R) ==
  [g EXCEPT !.links[u] = @ \ R,
            !.incoming = [x \in Ids |->
               IF x = u THEN @[u] \cup {r \in R : u \notin @[r]}
               ELSE IF x \in R THEN @[x] \ {u} ELSE @[x]]]

\* revisitNeighborConnections once all locks are held again: the neighbour s of
\* the new node n drops what the heuristic had removed, and n connects to it if
\* there is still room and neither was deleted meanwhile (may).
RevisitNeighbor(g, n, s, removed, may) ==
  LET h      == RemoveNeighbors(g, s, (removed \ {n}) \cap g.links[s])
      linked == n \in g.links[s]
  IN  IF linked \/ ~may \/ ~HasRoom(g, n) THEN h
      ELSE IF n \notin removed /\ HasRoom(h, s) THEN ConnectBoth(h, n, s)
      ELSE ConnectOneWay(h, n, s)

\* The new edges from u to the nodes A of mutuallyUpdateForRepairedNode.
AddNeighbors(g, u, A) ==
  [g EXCEPT !.links[u] = @ \cup A,
            !.incoming = [x \in Ids |->
               IF x = u THEN @[u] \ A
               ELSE IF x \in A /\ x \notin @[u] THEN @[x] \cup {u} ELSE @[x]],
            !.ok = @ /\ u \notin A
                     /\ \A a \in A : a \notin g.incoming[u] => u \notin g.incoming[a]]

\* mutuallyUpdateForRepairedNode: of its neighbours u keeps those that were not
\* looked at or were chosen; chosen nodes that may be linked (eligible) are added
\* while there is room.  Which of them come first is left open.
RepairOutcomes(g, u, toUpdate, chosen, eligible) ==
  LET removed == (g.links[u] \cap toUpdate) \ chosen
      h       == RemoveNeighbors(g, u, removed)
      new     == (chosen \ g.links[u]) \cap eligible
      room    == MaxLinks - Cardinality(h.links[u])
      added   == {A \in SUBSET new :
                    Cardinality(A) = IF Cardinality(new) <= room
                                     THEN Cardinality(new) ELSE room}
  IN  {AddNeighbors(h, u, A) : A \in added}

-----------------------------------------------------------------------------
(* Removal of a node under the exclusive lock.                             *)

\* repairConnectionsForDeletion: u points to the node e that is removed in place
\* and takes over links of e.  Deleted marks the nodes that will be removed too.
InplaceRepairs(g, e, u, Deleted) ==
  IF u \in Deleted THEN {[g EXCEPT !.links[u] = @ \ {e}]}
  ELSE LET orig  == g.links[u]
           cands == (orig \ (g.links[e] \cup {e}))
                    \cup {c \in g.links[e] \ {u} : c \notin Deleted \/ c \in orig}
           kept  == IF Cardinality(cands) <= MaxLinks THEN {cands}
                    ELSE Selections(cands, MaxLinks)
           After(S) ==
             LET lost == {x \in (orig \cap cands) \ S : u \in g.incoming[x]}
                 mutual == (orig \cap cands) \ (S \cup lost)   \* x still points to u
                 both == {x \in S \ orig : u \in g.links[x]}
                 new  == {x \in S \ orig : u \notin g.links[x]}
             IN  [g EXCEPT !.links[u] = S,
                           !.incoming = [x \in Ids |->
                              IF x = u THEN (@[u] \cup mutual) \ both
                              ELSE IF x \in lost THEN @[x] \ {u}
                              ELSE IF x \in new THEN @[x] \cup {u} ELSE @[x]],
                           !.ok = @ /\ both \subseteq g.incoming[u]]
       IN  {After(S) : S \in kept}

RenamedId(s, from, to) == IF from \in s THEN (s \ {from}) \cup {to} ELSE s

\* SwapLastIdWithDeletedId: only the neighbours of the last node are told.
SwapLastId(g, id, last) ==
  LET out  == g.links[last]
      inc  == g.incoming[last]
      back == {v \in out : last \in g.links[v]}
      Moved(f) == [f EXCEPT ![id] = f[last], ![last] = {}]
  IN  [links    |-> Moved([u \in Ids |-> IF u \in back \cup inc
                                        THEN RenamedId(g.links[u], last, id)
                                        ELSE g.links[u]]),
       incoming |-> Moved([v \in Ids |-> IF v \in out \ back
                                        THEN RenamedId(g.incoming[v], last, id)
                                        ELSE g.incoming[v]]),
       ok       |-> g.ok /\ \A v \in out \ back : last \in g.incoming[v]]

\* removeAndSwap: e leaves the incoming edges of its links, then the last node
\* takes its id.  marked: e went through markDelete.
RemoveAndSwap(g, e, last, marked) ==
  LET h == [links    |-> [g.links EXCEPT ![e] = {}],
            incoming |-> [x \in Ids |-> IF x = e THEN {}
                                        ELSE IF x \in g.links[e] THEN g.incoming[x] \ {e}
                                        ELSE g.incoming[x]],
            ok       |-> g.ok /\ (marked => \A v \in g.links[e] : e \in g.incoming[v])]
  IN  IF e = last THEN h ELSE SwapLastId(h, e, last)

-----------------------------------------------------------------------------
\* Among the nodes N the incoming sets hold exactly the edges without an edge
\* back, and nothing points outside N.
GraphConsistent(g, N) ==
  /\ \A u \in N : /\ g.links[u] \subseteq N \ {u}
                  /\ Cardinality(g.links[u]) <= MaxLinks
  /\ \A u, v \in N : u \in g.incoming[v] <=> v \in g.links[u] /\ u \notin g.links[v]

=============================================================================
