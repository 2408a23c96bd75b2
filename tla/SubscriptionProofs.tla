------------------------- MODULE SubscriptionProofs -------------------------
(***************************************************************************)
(* Proofs about the nodes of subscriptions and what is rendered of them:   *)
(* the detours of manual nodes never form a circle, for any number of      *)
(* nodes, names and requests; a rendered document is closed and its exits  *)
(* fail closed, for any detours and any policy. And about lists that are   *)
(* read in pages: they show each entry once, for any size of the pages.    *)
(*                                                                         *)
(* A circle can only be closed by the node that is saved. The walk of      *)
(* validateManualDependencies begins there, so the circle lies on it; the  *)
(* member of the circle which the walk leaves first for good is led to by  *)
(* a member that it left even before. What lies off the walk was a circle  *)
(* already. InductionLemmas has what the walk computes.                    *)
(***************************************************************************)
EXTENDS MCRequests, InductionLemmas

-----------------------------------------------------------------------------
(* Manual nodes. The writes of the other tables are bounded by the sum of  *)
(* their revisions, so the types need that each of them is at most the sum. *)

\* What is stored is finite, and the limits are numbers.
NodesAssumption ==
  /\ IsFiniteSet(Nodes) /\ IsFiniteSet(Remotes) /\ IsFiniteSet(RemoteTags) /\ IsFiniteSet(Members)
  /\ IsFiniteSet(Tags) /\ NoTag \notin Tags
  /\ MaxManualNodes \in Nat /\ MaxRevisions \in Nat /\ MaxMarks \in Nat

\* The module counts with the operator of FiniteSets.
LEMMA NodeCardinality == ASSUME NEW S PROVE NodeParts!Cardinality(S) = Cardinality(S)
BY DEF NodeParts!Cardinality, Cardinality

\* The sum that Functions folds is that of InductionLemmas.
LEMMA SumIsTotal == ASSUME NEW f PROVE NodeParts!Sum(f) = Total(f, DOMAIN f)
BY DEF NodeParts!Sum, NodeParts!FoldFunction, NodeParts!FoldFunctionOnSet,
   NodeParts!MapThenFoldSet, Total

\* A member of a sum of numbers is at most the sum.
LEMMA SumBounds ==
  ASSUME NEW f, IsFiniteSet(DOMAIN f), \A x \in DOMAIN f : f[x] \in Nat
  PROVE  NodeParts!Sum(f) \in Nat /\ \A x \in DOMAIN f : f[x] <= NodeParts!Sum(f)
<1>1. NodeParts!Sum(f) = Total(f, DOMAIN f)
  BY SumIsTotal
<1>2. Total(f, DOMAIN f) \in Nat
  BY TotalTakes
<1>3. ASSUME NEW x \in DOMAIN f PROVE f[x] <= Total(f, DOMAIN f)
  BY TotalChanges
<1> QED
  BY <1>1, <1>2, <1>3

\* What a row can be about.
LEMMA IdentitiesAreFinite ==
  ASSUME NodesAssumption
  PROVE  /\ IsFiniteSet(NodeParts!PublicationID) /\ IsFiniteSet(NodeParts!Collections)
         /\ IsFiniteSet(Nodes \cup Remotes)
<1>1. IsFiniteSet(Remotes \X RemoteTags)
  BY FS_Product DEF NodesAssumption
<1>2. IsFiniteSet(Nodes \cup (Remotes \X RemoteTags)) /\ IsFiniteSet(Nodes \cup Remotes)
  BY <1>1, FS_Union DEF NodesAssumption
<1>3. IsFiniteSet({"manual"}) /\ IsFiniteSet(Remotes)
  BY FS_Singleton DEF NodesAssumption
<1>4. IsFiniteSet({"manual"} \cup Remotes)
  BY <1>3, FS_Union
<1> QED
  BY <1>2, <1>4 DEF NodeParts!PublicationID, NodeParts!Collections

\* Within the bound of the writes each row has room for another revision.
LEMMA RowsHaveRoom ==
  ASSUME NodesAssumption, NodeParts!TypeOK, NodeParts!MayMark
  PROVE  /\ MaxMarks \in Nat /\ 0 < MaxMarks
         /\ \A x \in DOMAIN visibility : visibility[x].revision \in Nat /\ visibility[x].revision < MaxMarks
         /\ \A c \in DOMAIN orders : orders[c].revision \in Nat /\ orders[c].revision < MaxMarks
         /\ \A u \in Members : grants[u].update \in Nat /\ grants[u].update < MaxMarks
<1>1. PICK f : f = [x \in DOMAIN visibility |-> visibility[x].revision]
  OBVIOUS
<1>2. PICK g : g = [c \in DOMAIN orders |-> orders[c].revision]
  OBVIOUS
<1>3. PICK h : h = [u \in Members |-> grants[u].update]
  OBVIOUS
<1>4. IsFiniteSet(DOMAIN f) /\ IsFiniteSet(DOMAIN g) /\ IsFiniteSet(DOMAIN h)
  BY <1>1, <1>2, <1>3, IdentitiesAreFinite, FS_Subset DEF NodeParts!TypeOK, NodesAssumption
<1>5. \A x \in DOMAIN f : f[x] \in Nat
  BY <1>1 DEF NodeParts!TypeOK, NodeParts!Marks, NodeParts!Range
<1>6. \A x \in DOMAIN g : g[x] \in Nat
  BY <1>2 DEF NodeParts!TypeOK, NodeParts!Marks, NodeParts!Range
<1>7. \A x \in DOMAIN h : h[x] \in Nat
  BY <1>3 DEF NodeParts!TypeOK, NodeParts!Marks
<1>8. /\ NodeParts!Sum(f) \in Nat /\ \A x \in DOMAIN f : f[x] <= NodeParts!Sum(f)
      /\ NodeParts!Sum(g) \in Nat /\ \A x \in DOMAIN g : g[x] <= NodeParts!Sum(g)
      /\ NodeParts!Sum(h) \in Nat /\ \A x \in DOMAIN h : h[x] <= NodeParts!Sum(h)
  BY <1>4, <1>5, <1>6, <1>7, SumBounds
<1>9. NodeParts!Sum(f) + NodeParts!Sum(g) + NodeParts!Sum(h) < MaxMarks /\ MaxMarks \in Nat
  BY <1>1, <1>2, <1>3 DEF NodeParts!MayMark, NodeParts!Marked, NodesAssumption
<1>10. /\ NodeParts!Sum(f) < MaxMarks /\ NodeParts!Sum(g) < MaxMarks
       /\ NodeParts!Sum(h) < MaxMarks /\ 0 < MaxMarks
  BY <1>8, <1>9
<1>11. /\ \A x \in DOMAIN f : f[x] < MaxMarks
       /\ \A x \in DOMAIN g : g[x] < MaxMarks
       /\ \A x \in DOMAIN h : h[x] < MaxMarks
  BY <1>5, <1>6, <1>7, <1>8, <1>9, <1>10
<1> QED
  BY <1>1, <1>2, <1>3, <1>5, <1>6, <1>7, <1>9, <1>10, <1>11

-----------------------------------------------------------------------------
(* The types *)

\* A save leaves one row of its node and stays within the limit of nodes.

LEMMA SaveKeepsTypes ==
  ASSUME NodesAssumption, NodeParts!TypeOK, NEW id \in Nodes, NEW tag \in Tags, NEW detour \in Tags \cup {NoTag},
         NEW expected \in {0} \cup NodeParts!Revisions, NodeParts!SaveManualNode(id, tag, detour, expected)
  PROVE  /\ DOMAIN manual' = DOMAIN manual \cup {id}
         /\ NodeParts!Range(manual') \subseteq NodeParts!ManualNode
         /\ Cardinality(DOMAIN manual') <= MaxManualNodes
<1>1. PICK row : row = [tag |-> tag, detour |-> detour, revision |-> expected + 1]
  OBVIOUS
<1>2. manual' = [y \in DOMAIN manual \cup {id} |-> IF y = id THEN row ELSE manual[y]]
  BY <1>1 DEF NodeParts!SaveManualNode, NodeParts!With
<1>3. row \in NodeParts!ManualNode
  <2>1. expected \in Nat /\ expected + 1 \in NodeParts!Revisions
    BY DEF NodeParts!SaveManualNode, NodeParts!Revisions, NodesAssumption
  <2> QED
    BY <1>1, <2>1 DEF NodeParts!ManualNode
<1>4. NodeParts!Range(manual') \subseteq NodeParts!ManualNode
  BY <1>2, <1>3 DEF NodeParts!Range, NodeParts!TypeOK
<1>5. IsFiniteSet(DOMAIN manual \ {id})
  <2>1. DOMAIN manual \ {id} \subseteq Nodes \cup Remotes
    BY DEF NodeParts!TypeOK
  <2> QED
    BY <2>1, IdentitiesAreFinite, FS_Subset
<1>6. PICK rest : rest = DOMAIN manual \ {id}
  OBVIOUS
<1>7. rest \cup {id} = DOMAIN manual' /\ id \notin rest
  BY <1>2, <1>6
<1>8. Cardinality(rest) \in Nat /\ Cardinality(rest \cup {id}) = Cardinality(rest) + 1
  BY <1>5, <1>6, <1>7, FS_AddElement, FS_CardinalityType
<1>9. Cardinality(rest) < MaxManualNodes
  BY <1>6, NodeCardinality DEF NodeParts!SaveManualNode
<1>10. Cardinality(rest \cup {id}) <= MaxManualNodes
  BY <1>8, <1>9 DEF NodesAssumption
<1> QED
  BY <1>2, <1>4, <1>7, <1>10

\* The types hold at first and after every step.
LEMMA TypeInit == ASSUME NodesAssumption, NodeParts!Init PROVE NodeParts!TypeOK
<1>1. DOMAIN NodeParts!Empty = {} /\ NodeParts!Range(NodeParts!Empty) = {}
  BY DEF NodeParts!Empty, NodeParts!Range
<1>2. Cardinality({}) = 0
  BY FS_EmptySet
<1> QED
  BY <1>1, <1>2, NodeCardinality DEF NodeParts!Init, NodeParts!TypeOK, NodesAssumption

LEMMA TypeStep == ASSUME NodesAssumption, NodeParts!TypeOK, [NodeParts!Next]_(NodeParts!nodeVars) PROVE NodeParts!TypeOK'
<1> USE DEF NodeParts!TypeOK
<1>1. ASSUME NEW id \in Nodes, NodeParts!PostNode(id) PROVE NodeParts!TypeOK'
  <2>1. PICK tag \in Tags, detour \in Tags \cup {NoTag} : NodeParts!CreateNode(id, tag, detour)
    BY <1>1 DEF NodeParts!PostNode
  <2>2. /\ DOMAIN manual' = DOMAIN manual \cup {id}
        /\ NodeParts!Range(manual') \subseteq NodeParts!ManualNode
        /\ Cardinality(DOMAIN manual') <= MaxManualNodes
    BY <2>1, SaveKeepsTypes DEF NodeParts!CreateNode
  <2> QED
    BY <2>1, <2>2, NodeCardinality DEF NodeParts!CreateNode
<1>2. ASSUME NEW e \in Editors, NodeParts!PutNode(e) PROVE NodeParts!TypeOK'
  <2>1. PICK id \in Nodes, tag \in Tags, detour \in Tags \cup {NoTag}, expected \in NodeParts!Revisions :
          NodeParts!UpdateNode(e, id, tag, detour, expected)
    BY <1>2 DEF NodeParts!PutNode
  <2>2. /\ DOMAIN manual' = DOMAIN manual \cup {id}
        /\ NodeParts!Range(manual') \subseteq NodeParts!ManualNode
        /\ Cardinality(DOMAIN manual') <= MaxManualNodes
    BY <2>1, SaveKeepsTypes DEF NodeParts!UpdateNode
  <2> QED
    BY <2>1, <2>2, NodeCardinality DEF NodeParts!UpdateNode
<1>3. ASSUME NEW e \in Editors, NodeParts!RemoveNode(e) PROVE NodeParts!TypeOK'
  <2>1. PICK id \in Nodes, expected \in NodeParts!Revisions : NodeParts!DeleteNode(e, id, expected)
    BY <1>3 DEF NodeParts!RemoveNode
  <2>2. /\ DOMAIN manual' = DOMAIN manual \ {id}
        /\ NodeParts!Range(manual') \subseteq NodeParts!Range(manual)
        /\ DOMAIN visibility' = DOMAIN visibility \ {id}
        /\ NodeParts!Range(visibility') \subseteq NodeParts!Range(visibility)
        /\ UNCHANGED <<feeds, used, orders, grants>>
    BY <2>1 DEF NodeParts!DeleteNode, NodeParts!Without, NodeParts!Range
  <2>3. IsFiniteSet(DOMAIN manual)
    BY IdentitiesAreFinite, FS_Subset
  <2>4. /\ Cardinality(DOMAIN manual') <= Cardinality(DOMAIN manual)
        /\ Cardinality(DOMAIN manual') \in Nat /\ Cardinality(DOMAIN manual) \in Nat
    BY <2>2, <2>3, FS_Subset, FS_CardinalityType
  <2>5. Cardinality(DOMAIN manual') <= MaxManualNodes
    BY <2>4, NodeCardinality DEF NodesAssumption
  <2> QED
    BY <2>2, <2>5, NodeCardinality
<1>4. ASSUME NEW e \in Editors, NodeParts!PutVisibility(e) PROVE NodeParts!TypeOK'
  <2>1. PICK id \in NodeParts!PublicationID, hidden \in BOOLEAN, expected \in {0} \cup NodeParts!Marks :
          NodeParts!SetVisibility(e, id, hidden, expected)
    BY <1>4 DEF NodeParts!PutVisibility
  <2>2. expected \in Nat /\ expected < MaxMarks /\ MaxMarks \in Nat
    BY <2>1, RowsHaveRoom DEF NodeParts!SetVisibility, NodeParts!StoreVisibility,
       NodeParts!Current, NodeParts!Revision
  <2>3. [hidden |-> hidden, revision |-> expected + 1] \in [hidden : BOOLEAN, revision : NodeParts!Marks]
    BY <2>2 DEF NodeParts!Marks
  <2>4. /\ DOMAIN visibility' \subseteq NodeParts!PublicationID
        /\ NodeParts!Range(visibility') \subseteq [hidden : BOOLEAN, revision : NodeParts!Marks]
    BY <2>1, <2>3 DEF NodeParts!SetVisibility, NodeParts!StoreVisibility, NodeParts!With,
       NodeParts!Range
  <2> QED
    BY <2>1, <2>4 DEF NodeParts!SetVisibility
<1>5. ASSUME NEW e \in Editors, NodeParts!PutOrder(e) PROVE NodeParts!TypeOK'
  <2>1. PICK c \in NodeParts!Collections, chosen \in SUBSET NodeParts!PublicationID, expected \in {0} \cup NodeParts!Marks :
          NodeParts!SetOrder(e, c, chosen, expected)
    BY <1>5 DEF NodeParts!PutOrder
  <2>2. expected \in Nat /\ expected < MaxMarks /\ MaxMarks \in Nat
    BY <2>1, RowsHaveRoom DEF NodeParts!SetOrder, NodeParts!StoreOrder, NodeParts!Current,
       NodeParts!Revision
  <2>3. [ids |-> chosen, revision |-> expected + 1] \in [ids : SUBSET NodeParts!PublicationID, revision : NodeParts!Marks]
    BY <2>2 DEF NodeParts!Marks
  <2>4. /\ DOMAIN orders' \subseteq NodeParts!Collections
        /\ NodeParts!Range(orders') \subseteq [ids : SUBSET NodeParts!PublicationID, revision : NodeParts!Marks]
    BY <2>1, <2>3 DEF NodeParts!SetOrder, NodeParts!StoreOrder, NodeParts!With, NodeParts!Range
  <2> QED
    BY <2>1, <2>4 DEF NodeParts!SetOrder
<1>6. ASSUME NEW e \in Editors, NodeParts!PutGrants(e) PROVE NodeParts!TypeOK'
  <2>1. PICK u \in Members, keys \in SUBSET NodeParts!PublicationID, expected \in {0} \cup NodeParts!Marks :
          NodeParts!ReplaceGrants(e, u, keys, expected)
    BY <1>6 DEF NodeParts!PutGrants
  <2>2. expected \in Nat /\ expected < MaxMarks /\ MaxMarks \in Nat
    BY <2>1, RowsHaveRoom DEF NodeParts!ReplaceGrants, NodeParts!StoreGrants
  <2>3. expected + 1 \in NodeParts!Marks
    BY <2>2 DEF NodeParts!Marks
  <2>4. grants' \in [Members -> [keys : SUBSET NodeParts!PublicationID, update : {0} \cup NodeParts!Marks]]
    BY <2>1, <2>3 DEF NodeParts!ReplaceGrants, NodeParts!StoreGrants
  <2> QED
    BY <2>1, <2>4 DEF NodeParts!ReplaceGrants
<1>7. ASSUME NEW s \in Remotes, NodeParts!RemoveSource(s) PROVE NodeParts!TypeOK'
  <2>1. /\ DOMAIN feeds' \subseteq DOMAIN feeds
        /\ NodeParts!Range(feeds') \subseteq NodeParts!Range(feeds)
        /\ DOMAIN orders' \subseteq DOMAIN orders
        /\ NodeParts!Range(orders') \subseteq NodeParts!Range(orders)
    BY <1>7 DEF NodeParts!RemoveSource, NodeParts!Without, NodeParts!Range
  <2> QED
    BY <1>7, <2>1 DEF NodeParts!RemoveSource
<1>8. ASSUME NEW s \in Remotes, NEW tags \in SUBSET RemoteTags, NodeParts!Refresh(s, tags) PROVE NodeParts!TypeOK'
  <2>1. DOMAIN feeds' = DOMAIN feeds \cup {s} /\ NodeParts!Range(feeds') \subseteq SUBSET RemoteTags
    BY <1>8 DEF NodeParts!Refresh, NodeParts!With, NodeParts!Range
  <2> QED
    BY <1>8, <2>1 DEF NodeParts!Refresh
<1>9. ASSUME NEW e \in Editors, NodeParts!ReadCatalog(e) \/ NodeParts!GiveUp(e) PROVE NodeParts!TypeOK'
  BY <1>9 DEF NodeParts!ReadCatalog, NodeParts!GiveUp
<1>10. CASE UNCHANGED NodeParts!nodeVars
  BY <1>10 DEF NodeParts!nodeVars
<1> HIDE DEF NodeParts!TypeOK
<1> QED
  BY <1>1, <1>2, <1>3, <1>4, <1>5, <1>6, <1>7, <1>8, <1>9, <1>10 DEF NodeParts!Next

-----------------------------------------------------------------------------
(* Detours *)

\* The edges that the walk follows; the walk of validateManualDependencies starts at the node that is saved,
\* follows the detours and ends at a node without one.
Edges(id, tag, detour) ==
  [t \in {tag} \cup {manual[m].tag : m \in DOMAIN manual \ {id}} |->
    IF t = tag THEN detour ELSE manual[CHOOSE m \in DOMAIN manual \ {id} : manual[m].tag = t].detour]

\* It is accepted only when it ends so.
LEMMA WalkEnds ==
  ASSUME NodesAssumption, NodeParts!TypeOK, NEW id, NEW tag \in Tags, NEW detour \in Tags \cup {NoTag},
         NodeParts!Acyclic(id, tag, detour)
  PROVE  \E N \in Nat : \E w \in [0 .. N -> Tags \cup {NoTag}] :
           /\ w[0] = tag /\ w[N] = NoTag
           /\ \A n \in 1 .. N : w[n - 1] \in DOMAIN Edges(id, tag, detour) =>
                                  w[n] = Edges(id, tag, detour)[w[n - 1]]
<1>1. PICK N \in Nat : N = NodeParts!Cardinality(Tags)
  BY NodeCardinality, FS_CardinalityType DEF NodesAssumption
<1>2. PICK edges : edges = Edges(id, tag, detour)
  OBVIOUS
<1> DEFINE Walk(w) == [n \in 0 .. N |-> IF n = 0 THEN tag
                                        ELSE IF w[n - 1] \in DOMAIN edges THEN edges[w[n - 1]] ELSE w[n - 1]]
<1>3. (CHOOSE w : w = Walk(w))[N] = NoTag
  BY <1>1, <1>2 DEF NodeParts!Acyclic, Edges
<1>4. \A t \in DOMAIN edges : edges[t] \in Tags \cup {NoTag}
  <2>1. \A m \in DOMAIN manual : manual[m].detour \in Tags \cup {NoTag}
    BY DEF NodeParts!TypeOK, NodeParts!ManualNode, NodeParts!Range
  <2>2. ASSUME NEW t \in DOMAIN edges, t # tag PROVE edges[t] \in Tags \cup {NoTag}
    <3>1. t \in {manual[m].tag : m \in DOMAIN manual \ {id}}
      BY <1>2, <2>2 DEF Edges
    <3>2. PICK m \in DOMAIN manual \ {id} :
            m = CHOOSE k \in DOMAIN manual \ {id} : manual[k].tag = t
      BY <3>1
    <3>3. edges[t] = manual[m].detour
      BY <1>2, <2>2, <3>2 DEF Edges
    <3> QED
      BY <2>1, <3>3
  <2>3. tag \in DOMAIN edges => edges[tag] = detour
    BY <1>2 DEF Edges
  <2> QED
    BY <2>2, <2>3
<1>5. PICK s \in [Tags \cup {NoTag} -> Tags \cup {NoTag}] :
        \A x \in Tags \cup {NoTag} : s[x] = IF x \in DOMAIN edges THEN edges[x] ELSE x
  <2> DEFINE s == [x \in Tags \cup {NoTag} |-> IF x \in DOMAIN edges THEN edges[x] ELSE x]
  <2>1. s \in [Tags \cup {NoTag} -> Tags \cup {NoTag}]
    BY <1>4
  <2> QED
    BY <2>1
<1>6. PICK v \in [0 .. N -> Tags \cup {NoTag}] : v[0] = tag /\ \A n \in 1 .. N : v[n] = s[v[n - 1]]
  <2>1. PICK A : A = Tags \cup {NoTag}
    OBVIOUS
  <2>2. tag \in A /\ s \in [A -> A]
    BY <2>1
  <2>3. PICK t \in [Nat -> [A -> A]] : \A n \in Nat : t[n] = s
    <3>1. [n \in Nat |-> s] \in [Nat -> [A -> A]]
      BY <2>2
    <3> QED
      BY <3>1
  <2>4. PICK v \in [0 .. N -> A] : Iterates(v, tag, t, N)
    BY <2>2, <2>3, Iteration
  <2>5. v[0] = tag /\ \A n \in 1 .. N : v[n] = s[v[n - 1]]
    BY <2>3, <2>4 DEF Iterates
  <2> QED
    BY <2>1, <2>5
<1>7. v = Walk(v)
  <2>1. ASSUME NEW n \in 0 .. N PROVE v[n] = Walk(v)[n]
    <3>1. CASE n = 0
      BY <1>6, <3>1
    <3>2. CASE n # 0
      <4>1. n \in 1 .. N /\ n - 1 \in 0 .. N
        BY <3>2
      <4>2. v[n] = s[v[n - 1]] /\ v[n - 1] \in Tags \cup {NoTag}
        BY <1>6, <4>1
      <4> QED
        BY <1>5, <3>2, <4>2
    <3> QED
      BY <3>1, <3>2
  <2>2. v = [n \in 0 .. N |-> v[n]]
    OBVIOUS
  <2> QED
    BY <2>1, <2>2
<1>8. PICK w : w = Walk(w) /\ w[N] = NoTag
  <2>1. (CHOOSE w : w = Walk(w)) = Walk(CHOOSE w : w = Walk(w))
    BY <1>7
  <2> QED
    BY <1>3, <2>1
<1>9. /\ w[0] = tag
      /\ \A n \in 1 .. N : w[n] = IF w[n - 1] \in DOMAIN edges THEN edges[w[n - 1]] ELSE w[n - 1]
  BY <1>8
<1>10. w \in [0 .. N -> Tags \cup {NoTag}]
  <2> DEFINE In == {n \in Nat : n <= N => w[n] \in Tags \cup {NoTag}}
  <2>1. 0 \in In
    BY <1>9
  <2>2. ASSUME NEW n \in In PROVE n + 1 \in In
    <3>1. n + 1 \in Nat /\ (n + 1 <= N => n + 1 \in 1 .. N /\ n <= N /\ (n + 1) - 1 = n)
      OBVIOUS
    <3>2. n + 1 <= N => w[n + 1] = IF w[n] \in DOMAIN edges THEN edges[w[n]] ELSE w[n]
      BY <1>9, <3>1
    <3> QED
      BY <1>4, <3>1, <3>2
  <2>3. In = Nat
    <3>1. In \subseteq Nat
      OBVIOUS
    <3> HIDE DEF In
    <3> QED
      BY <2>1, <2>2, <3>1, NumberInduction
  <2>4. \A n \in 0 .. N : w[n] \in Tags \cup {NoTag}
    BY <2>3
  <2> QED
    BY <1>8, <2>4
<1> QED
  BY <1>2, <1>8, <1>9, <1>10

\* The property for the nodes of a catalog that is not in place yet.
Leads(rows, T) == {rows[m].detour : m \in {n \in DOMAIN rows : rows[n].tag \in T}} \ {NoTag}
NoCircleIn(rows) ==
  /\ \A m, n \in DOMAIN rows : rows[m].tag = rows[n].tag => m = n
  /\ \A T \in SUBSET Tags : T # {} => ~(T \subseteq Leads(rows, T))

\* What holds of rows that are put in place is the property.
LEMMA CirclesInPlace == ASSUME NEW rows, manual' = rows, NoCircleIn(rows) PROVE NodeParts!NoDependencyCycle'
<1>1. \A T : NodeParts!Detours(T)' = Leads(rows, T)
  BY DEF NodeParts!Detours, Leads
<1> QED
  BY <1>1 DEF NodeParts!NoDependencyCycle, NoCircleIn

\* A save that the walk accepts closes no circle.
LEMMA SaveKeepsOrder ==
  ASSUME NodesAssumption, NodeParts!TypeOK, NodeParts!NoDependencyCycle, NEW id, NEW tag \in Tags,
         NEW detour \in Tags \cup {NoTag}, NodeParts!Acyclic(id, tag, detour), NEW new, NEW rev,
         new = NodeParts!With(manual, id, [tag |-> tag, detour |-> detour, revision |-> rev])
  PROVE  NoCircleIn(new)
<1>1. /\ DOMAIN new = DOMAIN manual \cup {id} /\ new[id].tag = tag /\ new[id].detour = detour
      /\ \A m \in DOMAIN manual \ {id} : new[m] = manual[m]
  BY DEF NodeParts!With
<1>2. \A m \in DOMAIN manual \ {id} : manual[m].tag # tag
  BY DEF NodeParts!Acyclic
<1>3. \A m, n \in DOMAIN manual : manual[m].tag = manual[n].tag => m = n
  BY DEF NodeParts!NoDependencyCycle
<1>4. ASSUME NEW m \in DOMAIN new, NEW n \in DOMAIN new, new[m].tag = new[n].tag PROVE m = n
  BY <1>1, <1>2, <1>3, <1>4
<1>5. PICK edges : edges = Edges(id, tag, detour)
  OBVIOUS
<1>6. ASSUME NEW m \in DOMAIN new PROVE new[m].tag \in DOMAIN edges /\ edges[new[m].tag] = new[m].detour
  <2>1. CASE m = id
    BY <1>1, <1>5, <2>1 DEF Edges
  <2>2. CASE m # id
    <3>1. m \in DOMAIN manual \ {id} /\ new[m] = manual[m] /\ manual[m].tag # tag
      BY <1>1, <1>2, <2>2
    <3>2. (CHOOSE k \in DOMAIN manual \ {id} : manual[k].tag = manual[m].tag) = m
      BY <1>3, <3>1
    <3> QED
      BY <1>5, <3>1, <3>2 DEF Edges
  <2> QED
    BY <2>1, <2>2
<1>7a. PICK N \in Nat : \E w \in [0 .. N -> Tags \cup {NoTag}] :
        /\ w[0] = tag /\ w[N] = NoTag
        /\ \A n \in 1 .. N : w[n - 1] \in DOMAIN edges => w[n] = edges[w[n - 1]]
  BY <1>5, WalkEnds
<1>7. PICK w \in [0 .. N -> Tags \cup {NoTag}] :
        /\ w[0] = tag /\ w[N] = NoTag
        /\ \A n \in 1 .. N : w[n - 1] \in DOMAIN edges => w[n] = edges[w[n - 1]]
  BY <1>7a
<1>8. SUFFICES ASSUME NEW T \in SUBSET Tags, T # {}, T \subseteq Leads(new, T) PROVE FALSE
  BY <1>4 DEF NoCircleIn
<1>9. ASSUME NEW t \in T
      PROVE  \E m \in DOMAIN new : new[m].tag \in T /\ new[m].detour = t /\ t # NoTag /\ t \in Tags
  BY <1>8, <1>9 DEF Leads
\* Where the walk stands on a node it goes on to the detour of that node.
<1>10. ASSUME NEW m \in DOMAIN new, NEW i \in 0 .. N, w[i] = new[m].tag, new[m].tag \in Tags
       PROVE  i + 1 \in 0 .. N /\ w[i + 1] = new[m].detour
  <2>1. i # N
    BY <1>7, <1>10 DEF NodesAssumption
  <2>2. i + 1 \in 1 .. N /\ i + 1 \in 0 .. N /\ (i + 1) - 1 = i
    BY <2>1
  <2> QED
    BY <1>6, <1>7, <1>10, <2>2
<1>11. PICK W : W = {w[i] : i \in 0 .. N}
  OBVIOUS
\* What the walk does not reach has led in a circle before.
<1>12. T \subseteq W
  <2>1. SUFFICES ASSUME T \ W # {} PROVE FALSE
    OBVIOUS
  <2>2. ASSUME NEW t \in T \ W PROVE t \in NodeParts!Detours(T \ W)
    <3>1. PICK m \in DOMAIN new : new[m].tag \in T /\ new[m].detour = t /\ t # NoTag
      BY <1>9
    <3>2. new[m].tag \notin W
      <4>1. SUFFICES ASSUME NEW i \in 0 .. N, w[i] = new[m].tag PROVE FALSE
        BY <1>11
      <4>2. i + 1 \in 0 .. N /\ w[i + 1] = t
        BY <1>8, <1>10, <3>1, <4>1
      <4> QED
        BY <1>11, <4>2
    <3>3. m # id
      BY <1>1, <1>7, <1>11, <3>2
    <3>4. m \in DOMAIN manual /\ manual[m].tag \in T \ W /\ manual[m].detour = t
      BY <1>1, <3>1, <3>2, <3>3
    <3> QED
      BY <3>1, <3>4 DEF NodeParts!Detours
  <2>3. T \ W \in SUBSET Tags /\ T \ W \subseteq NodeParts!Detours(T \ W)
    BY <1>8, <2>2
  <2> QED
    BY <2>1, <2>3 DEF NodeParts!NoDependencyCycle
\* The walk leaves every node of the circle for the last time, and leaves the one
\* that leads to it before.
<1>13. PICK Last : Last = {j \in 0 .. N : w[j] \in T /\ \A k \in 0 .. N : w[k] = w[j] => k <= j}
  OBVIOUS
<1>14. ASSUME NEW t \in T PROVE \E j \in Last : w[j] = t
  <2>1. PICK At : At = {k \in 0 .. N : w[k] = t}
    OBVIOUS
  <2>2. At \subseteq Nat /\ At # {} /\ \A k \in At : k <= N
    BY <1>11, <1>12, <2>1
  <2>3. PICK j \in At : \A k \in At : k <= j
    BY <2>2, Greatest
  <2> QED
    BY <1>13, <2>1, <2>3
<1>15. Last \subseteq Nat /\ Last # {}
  BY <1>8, <1>13, <1>14
<1>16. PICK j \in Last : \A k \in Last : j <= k
  BY <1>15, Least
<1>17. j \in 0 .. N /\ w[j] \in T /\ \A k \in 0 .. N : w[k] = w[j] => k <= j
  BY <1>13
<1>18. PICK m \in DOMAIN new : new[m].tag \in T /\ new[m].detour = w[j]
  BY <1>9, <1>17
<1>19. PICK k \in Last : w[k] = new[m].tag
  BY <1>14, <1>18
<1>20. k \in 0 .. N /\ j <= k
  BY <1>13, <1>16
<1>21. k + 1 \in 0 .. N /\ w[k + 1] = w[j]
  BY <1>8, <1>10, <1>18, <1>19, <1>20
<1>22. k + 1 <= j
  BY <1>17, <1>21
<1> QED
  BY <1>17, <1>20, <1>22

\* No step closes one: a deletion takes detours away, the others write other rows.
LEMMA CycleStep ==
  ASSUME NodesAssumption, NodeParts!TypeOK, NodeParts!NoDependencyCycle, [NodeParts!Next]_(NodeParts!nodeVars)
  PROVE  NodeParts!NoDependencyCycle'
<1>1. ASSUME NEW id \in Nodes, NEW tag \in Tags, NEW detour \in Tags \cup {NoTag}, NEW expected,
             NodeParts!SaveManualNode(id, tag, detour, expected)
      PROVE  NodeParts!NoDependencyCycle'
  <2>1. PICK new : new = NodeParts!With(manual, id, [tag |-> tag, detour |-> detour, revision |-> expected + 1])
    OBVIOUS
  <2>2. manual' = new /\ NodeParts!Acyclic(id, tag, detour)
    BY <1>1, <2>1 DEF NodeParts!SaveManualNode
  <2>3. NoCircleIn(new)
    BY <2>1, <2>2, SaveKeepsOrder
  <2> QED
    BY <2>2, <2>3, CirclesInPlace
<1>2. ASSUME NEW id, manual' = NodeParts!Without(manual, id) PROVE NodeParts!NoDependencyCycle'
  <2>1. DOMAIN manual' \subseteq DOMAIN manual /\ \A m \in DOMAIN manual' : manual'[m] = manual[m]
    BY <1>2 DEF NodeParts!Without
  <2>2. \A T \in SUBSET Tags : NodeParts!Detours(T)' \subseteq NodeParts!Detours(T)
    BY <2>1 DEF NodeParts!Detours
  <2>3. \A T \in SUBSET Tags : T # {} => ~(T \subseteq NodeParts!Detours(T)')
    BY <2>2 DEF NodeParts!NoDependencyCycle
  <2>4. \A m, n \in DOMAIN manual' : manual'[m].tag = manual'[n].tag => m = n
    BY <2>1 DEF NodeParts!NoDependencyCycle
  <2> QED
    BY <2>3, <2>4 DEF NodeParts!NoDependencyCycle
<1>3. CASE UNCHANGED manual
  <2>1. \A T : NodeParts!Detours(T)' = NodeParts!Detours(T)
    BY <1>3 DEF NodeParts!Detours
  <2> QED
    BY <1>3, <2>1 DEF NodeParts!NoDependencyCycle
<1>4. CASE \E id \in Nodes : NodeParts!PostNode(id)
  BY <1>1, <1>4 DEF NodeParts!PostNode, NodeParts!CreateNode
<1>5. CASE \E e \in Editors : NodeParts!PutNode(e)
  BY <1>1, <1>5 DEF NodeParts!PutNode, NodeParts!UpdateNode
<1>6. CASE \E e \in Editors : NodeParts!RemoveNode(e)
  BY <1>2, <1>6 DEF NodeParts!RemoveNode, NodeParts!DeleteNode
<1>7. CASE \E e \in Editors : \/ NodeParts!ReadCatalog(e) \/ NodeParts!GiveUp(e)
                              \/ NodeParts!PutVisibility(e) \/ NodeParts!PutOrder(e) \/ NodeParts!PutGrants(e)
  BY <1>3, <1>7 DEF NodeParts!ReadCatalog, NodeParts!GiveUp, NodeParts!PutVisibility,
     NodeParts!SetVisibility, NodeParts!PutOrder, NodeParts!SetOrder, NodeParts!PutGrants,
     NodeParts!ReplaceGrants
<1>8. CASE \E s \in Remotes : NodeParts!RemoveSource(s) \/ \E tags \in SUBSET RemoteTags : NodeParts!Refresh(s, tags)
  BY <1>3, <1>8 DEF NodeParts!RemoveSource, NodeParts!Refresh
<1>9. CASE UNCHANGED NodeParts!nodeVars
  BY <1>3, <1>9 DEF NodeParts!nodeVars
<1> QED
  BY <1>4, <1>5, <1>6, <1>7, <1>8, <1>9 DEF NodeParts!Next

NodesInv == NodeParts!TypeOK /\ NodeParts!NoDependencyCycle

\* The invariant of the part.
THEOREM NodesInvariant == NodesAssumption => (NodeParts!Spec => []NodesInv)
<1> SUFFICES ASSUME NodesAssumption PROVE NodeParts!Spec => []NodesInv
  OBVIOUS
<1>1. NodeParts!Init => NodesInv
  <2>1. NodeParts!Init => DOMAIN manual = {}
    BY DEF NodeParts!Init, NodeParts!Empty
  <2>2. DOMAIN manual = {} => NodeParts!NoDependencyCycle
    BY DEF NodeParts!NoDependencyCycle, NodeParts!Detours
  <2> QED
    BY <2>1, <2>2, TypeInit DEF NodesInv
<1>2. NodesInv /\ [NodeParts!Next]_(NodeParts!nodeVars) => NodesInv'
  BY TypeStep, CycleStep DEF NodesInv
<1> QED
  BY <1>1, <1>2, PTL DEF NodeParts!Spec

\* MCRequests behaves as the part or leaves it alone.
LEMMA RequestsHaveNodes == Spec => NodeParts!Spec
<1>1. Init => NodeParts!Init
  BY DEF Init
<1>2. [Next]_<<part, sourceVars, keyVars, nodeVars, renderVars, settingsVars, limiterVars, eventsVars, feedVars>>
        => [NodeParts!Next]_(NodeParts!nodeVars)
  BY DEF Next, nodeVars, NodeParts!nodeVars
<1> QED
  BY <1>1, <1>2, PTL DEF Spec, NodeParts!Spec

(***************************************************************************)
(* The detours of manual nodes never form a circle, whatever requests      *)
(* rename, delete and write again at the same time, and the nodes stay     *)
(* within their limit (validateManualDependencies,                         *)
(* SaveManualSubscriptionNode, DeleteManualSubscriptionNode).              *)
(***************************************************************************)
THEOREM DetoursNeverCircle == Spec => []NoDependencyCycle
<1>1. NodesAssumption
  BY ConstantsAssumption DEF NodesAssumption
<1>2. NodeParts!Spec => []NodesInv
  BY <1>1, NodesInvariant
<1>3. NodesInv => NoDependencyCycle
  BY DEF NodesInv, NoDependencyCycle
<1> QED
  BY <1>2, <1>3, RequestsHaveNodes, PTL

-----------------------------------------------------------------------------
(* The rendering of a channel: the detours of its nodes and the groups of  *)
(* its policy are graphs, and both recursions over them come to an end.    *)

\* Nodes and groups are finitely many, and no name is used for two of them.
DraftsAssumption ==
  /\ IsFiniteSet(Outbounds) /\ IsFiniteSet(Groups) /\ NoDetour \notin Outbounds
  /\ Outbounds \cap Groups = {} /\ (Outbounds \cup Groups) \cap Rendering!Builtins = {}
  /\ Drafts \subseteq Rendering!Draft

\* The module counts with the operator of FiniteSets.
LEMMA RenderCardinality == ASSUME NEW S PROVE Rendering!Cardinality(S) = Cardinality(S)
BY DEF Rendering!Cardinality, Cardinality

\* What is in a draft.
LEMMA DraftTypes ==
  ASSUME DraftsAssumption, draft \in Drafts
  PROVE  /\ draft.detour \in [Outbounds -> Outbounds \cup {NoDetour}]
         /\ Rendering!Chosen \subseteq Outbounds /\ draft.remote \subseteq Outbounds
         /\ \A g \in Groups : /\ Rendering!Order(g) \in Seq(Rendering!Target) /\ draft.groups[g].rule \in Rendering!Exits
                              /\ draft.groups[g].place \in Nat
                              /\ Rendering!NodeIDs(g) \subseteq Outbounds
                              /\ Rendering!GroupIDs(g) \subseteq Groups
         /\ draft.exit \in Rendering!Exits /\ Rendering!Enabled \subseteq Groups
         /\ draft.selected \subseteq Outbounds
<1>1. draft \in Rendering!Draft
  BY DEF DraftsAssumption
<1>2. PICK d : d = draft /\ d \in Rendering!Draft
  BY <1>1
<1>3. /\ d.detour \in [Outbounds -> Outbounds \cup {NoDetour}] /\ d.present \subseteq Outbounds
      /\ d.remote \subseteq Outbounds /\ d.groups \in [Groups -> Rendering!Group]
      /\ d.exit \in Rendering!Exits
      /\ d.selected \subseteq Outbounds
  BY <1>2 DEF Rendering!Draft
<1>4. \A g \in Groups : d.groups[g] \in Rendering!Group
  BY <1>3
<1>5. \A g \in Groups : d.groups[g].order \in Seq(Rendering!Target) /\ d.groups[g].rule \in Rendering!Exits /\ d.groups[g].place \in Nat
  BY <1>4 DEF Rendering!Group
<1> QED
  BY <1>2, <1>3, <1>5 DEF Rendering!Chosen, Rendering!Order, Rendering!NodeIDs,
     Rendering!GroupIDs, Rendering!Enabled

-----------------------------------------------------------------------------
(* Chains *)

\* One more step over detours.
Follow(X) == X \cup {draft.detour[m] : m \in X \cap Outbounds}

\* The nodes on a chain of detours: those in every set with n that is closed under detours.
LEMMA ChainIs ==
  ASSUME DraftsAssumption, draft \in Drafts, NEW n \in Outbounds
  PROVE  /\ n \in Rendering!Chain(n) /\ Rendering!Chain(n) \subseteq Outbounds \cup {NoDetour}
         /\ \A m \in Rendering!Chain(n) \cap Outbounds : draft.detour[m] \in Rendering!Chain(n)
         /\ \A C : n \in C /\ (\A m \in C \cap Outbounds : draft.detour[m] \in C) => Rendering!Chain(n) \subseteq C
<1>1. PICK N \in Nat : N = Cardinality(Outbounds) /\ N = Rendering!Cardinality(Outbounds)
  BY RenderCardinality, FS_CardinalityType DEF DraftsAssumption
<1>2. PICK U : U = Outbounds \cup {NoDetour}
  OBVIOUS
<1>3. IsFiniteSet(U) /\ Cardinality(U) = N + 1
  BY <1>1, <1>2, FS_AddElement DEF DraftsAssumption
<1> DEFINE F(w) == [i \in 0 .. N |-> IF i = 0 THEN {n}
                                     ELSE Follow(w[i - 1])]
<1>4. Rendering!Chain(n) = (CHOOSE w : w = F(w))[N]
  BY <1>1 DEF Rendering!Chain, Follow
<1>5. \A m \in Outbounds : draft.detour[m] \in U
  BY <1>2, DraftTypes
<1>6. PICK t \in [SUBSET U -> SUBSET U] : \A X \in SUBSET U : t[X] = Follow(X)
  <2> DEFINE t == [X \in SUBSET U |-> Follow(X)]
  <2>1. t \in [SUBSET U -> SUBSET U]
    BY <1>5 DEF Follow
  <2> QED
    BY <2>1
<1>7. PICK s \in [Nat -> [SUBSET U -> SUBSET U]] : \A k \in Nat : s[k] = t
  <2>1. [k \in Nat |-> t] \in [Nat -> [SUBSET U -> SUBSET U]]
    OBVIOUS
  <2> QED
    BY <2>1
<1>8. PICK a \in SUBSET U : a = {n}
  BY <1>2
<1>9. PICK A : A = SUBSET U
  OBVIOUS
<1>10. PICK v \in [0 .. N -> A] : Iterates(v, a, s, N)
  <2>1. s \in [Nat -> [A -> A]] /\ a \in A
    BY <1>9
  <2> QED
    BY <2>1, Iteration
<1>11. v[0] = {n} /\ \A i \in 1 .. N : v[i] = t[v[i - 1]]
  BY <1>7, <1>8, <1>10 DEF Iterates
<1>12. v = F(v)
  <2>1. ASSUME NEW i \in 0 .. N PROVE v[i] = F(v)[i]
    <3>1. CASE i = 0
      BY <1>11, <3>1
    <3>2. CASE i # 0
      <4>1. i \in 1 .. N /\ i - 1 \in 0 .. N
        BY <3>2
      <4>2. v[i - 1] \in SUBSET U
        BY <1>9, <4>1
      <4> QED
        BY <1>6, <1>11, <3>2, <4>1, <4>2
    <3> QED
      BY <3>1, <3>2
  <2>2. v = [i \in 0 .. N |-> v[i]]
    OBVIOUS
  <2> QED
    BY <2>1, <2>2
<1>13. PICK w : w = F(w) /\ w[N] = Rendering!Chain(n)
  <2>1. (CHOOSE w : w = F(w)) = F(CHOOSE w : w = F(w))
    BY <1>12
  <2> QED
    BY <1>4, <2>1
<1>14. Agree(v, w, N)
  <2>1. v[0] = w[0]
    BY <1>11, <1>13
  <2>2. ASSUME NEW i \in 1 .. N, v[i - 1] = w[i - 1] PROVE v[i] = w[i]
    <3>1. F(v)[i] = Follow(v[i - 1]) /\ F(w)[i] = Follow(w[i - 1])
      OBVIOUS
    <3>2. v[i] = F(v)[i] /\ w[i] = F(w)[i]
      <4> HIDE DEF F
      <4> QED
        BY <1>12, <1>13
    <3> HIDE DEF F
    <3> QED
      BY <2>2, <3>1, <3>2
  <2> HIDE DEF F
  <2> QED
    BY <2>1, <2>2, Agreement
<1>15. v[N] = Rendering!Chain(n)
  BY <1>13, <1>14 DEF Agree
<1>16. t[v[N]] = v[N] /\ v[0] \subseteq v[N]
  <2>1. v \in [0 .. N -> SUBSET U]
    BY <1>9
  <2>2. Cardinality(v[0]) = 1
    BY <1>11, FS_Singleton
  <2>3. \A X \in SUBSET U : X \subseteq t[X]
    BY <1>6 DEF Follow
  <2>4. Cardinality(U) <= Cardinality(v[0]) + N
    BY <1>3, <2>2
  <2> HIDE DEF F
  <2> QED
    BY <1>3, <1>11, <2>1, <2>3, <2>4, Saturation
<1>17. v[N] \in SUBSET U
  BY <1>9
<1>18. Rendering!Chain(n) = Follow(Rendering!Chain(n))
  BY <1>6, <1>15, <1>16, <1>17
<1>19. ASSUME NEW C, n \in C, \A m \in C \cap Outbounds : draft.detour[m] \in C PROVE Rendering!Chain(n) \subseteq C
  <2>1. v[0] \subseteq C
    BY <1>11, <1>19
  <2>2. ASSUME NEW i \in 1 .. N, v[i - 1] \subseteq C PROVE v[i] \subseteq C
    <3>1. i - 1 \in 0 .. N
      OBVIOUS
    <3>2. v[i] = Follow(v[i - 1])
      BY <1>6, <1>9, <1>11, <3>1
    <3> QED
      BY <1>19, <2>2, <3>2 DEF Follow
  <2>3. \A i \in 0 .. N : v[i] \subseteq C
    <3> HIDE DEF F
    <3> QED
      BY <2>1, <2>2, Containment
  <2> QED
    BY <1>15, <2>3
<1>20. n \in Rendering!Chain(n) /\ Rendering!Chain(n) \subseteq Outbounds \cup {NoDetour}
  BY <1>2, <1>11, <1>15, <1>16, <1>17
<1>21. \A m \in Rendering!Chain(n) \cap Outbounds : draft.detour[m] \in Rendering!Chain(n)
  BY <1>18 DEF Follow
<1> QED
  BY <1>19, <1>20, <1>21

\* The nodes that a document may have.
There == Rendering!Chosen \cap draft.remote
Whole(n) == NoDetour \in Rendering!Chain(n) /\ Rendering!Chain(n) \ {NoDetour} \subseteq There

\* Whether a node may stay depends on the node that it goes through; a circle may not.
LEMMA WholeIs ==
  ASSUME DraftsAssumption, draft \in Drafts, NEW n \in Outbounds
  PROVE  /\ Whole(n) => n \in There /\ ~Rendering!Unresolved(n)
         /\ n \in There /\ draft.detour[n] = NoDetour => Whole(n)
         /\ n \in There /\ draft.detour[n] \in Outbounds => (Whole(n) <=> Whole(draft.detour[n]))
         /\ \A C \in SUBSET Outbounds :
              n \in C /\ (\A m \in C : draft.detour[m] \in C) => ~Whole(n)
<1>1. /\ n \in Rendering!Chain(n) /\ Rendering!Chain(n) \subseteq Outbounds \cup {NoDetour}
      /\ \A m \in Rendering!Chain(n) \cap Outbounds : draft.detour[m] \in Rendering!Chain(n)
      /\ \A C : n \in C /\ (\A m \in C \cap Outbounds : draft.detour[m] \in C) => Rendering!Chain(n) \subseteq C
  BY ChainIs
<1>2. NoDetour \notin Outbounds /\ draft.detour[n] \in Outbounds \cup {NoDetour}
  BY DraftTypes DEF DraftsAssumption
<1>3. Whole(n) => n \in There /\ ~Rendering!Unresolved(n)
  BY <1>1, <1>2 DEF Whole, Rendering!Unresolved, There
<1>4. ASSUME n \in There, draft.detour[n] = NoDetour PROVE Whole(n)
  <2>1. Rendering!Chain(n) \subseteq {n, NoDetour}
    <3>1. PICK C : C = {n, NoDetour}
      OBVIOUS
    <3>2. \A m \in C \cap Outbounds : draft.detour[m] \in C
      BY <1>2, <1>4, <3>1
    <3> QED
      BY <1>1, <3>1, <3>2
  <2>2. NoDetour \in Rendering!Chain(n)
    BY <1>1, <1>4
  <2> QED
    BY <1>4, <2>1, <2>2 DEF Whole
<1>5. ASSUME n \in There, NEW m \in Outbounds, m = draft.detour[n] PROVE Whole(n) <=> Whole(m)
  <2>1. /\ m \in Rendering!Chain(m)
        /\ \A k \in Rendering!Chain(m) \cap Outbounds : draft.detour[k] \in Rendering!Chain(m)
        /\ \A C : m \in C /\ (\A k \in C \cap Outbounds : draft.detour[k] \in C) => Rendering!Chain(m) \subseteq C
    BY ChainIs
  <2>2. Rendering!Chain(m) \subseteq Rendering!Chain(n)
    BY <1>1, <1>5, <2>1
  <2>3. Rendering!Chain(n) \subseteq {n} \cup Rendering!Chain(m)
    <3>1. \A k \in ({n} \cup Rendering!Chain(m)) \cap Outbounds : draft.detour[k] \in {n} \cup Rendering!Chain(m)
      BY <1>5, <2>1
    <3> QED
      BY <1>1, <3>1
  <2> QED
    BY <1>2, <1>5, <2>2, <2>3 DEF Whole
<1>6. ASSUME NEW C \in SUBSET Outbounds, n \in C, \A m \in C : draft.detour[m] \in C PROVE ~Whole(n)
  <2>1. Rendering!Chain(n) \subseteq C
    BY <1>1, <1>6
  <2> QED
    BY <1>2, <2>1 DEF Whole
<1> QED
  BY <1>3, <1>4, <1>5, <1>6

-----------------------------------------------------------------------------
(* Walks *)

\* Where Walk stops.
Ends(path) ==
  \/ Rendering!Last(path) \in resolved \/ Rendering!Last(path) \notin eligible
  \/ \E i \in 1 .. Len(path) - 1 : path[i] = Rendering!Last(path)
  \/ draft.detour[Rendering!Last(path)] = NoDetour

\* A path from n that goes over the detours of nodes which are not resolved.
Path(n, p) ==
  /\ p \in Seq(Outbounds) /\ p # <<>> /\ p[1] = n
  /\ \A i \in 1 .. Len(p) - 1 : /\ p[i] \in eligible \ resolved /\ p[i + 1] = draft.detour[p[i]]
                                /\ \A j \in 1 .. Len(p) - 1 : p[i] = p[j] => i = j

\* One step of the walk.
Onward(p) == IF Ends(p) THEN p ELSE Append(p, draft.detour[Rendering!Last(p)])

\* Where a walk does not end it goes on to the detour of its last node.
LEMMA GoesOn ==
  ASSUME DraftsAssumption, draft \in Drafts, eligible \subseteq Outbounds,
         NEW p \in Seq(Outbounds), p # <<>>, ~Ends(p)
  PROVE  /\ Len(p) \in Nat \ {0} /\ Rendering!Last(p) = p[Len(p)]
         /\ Rendering!Last(p) \in eligible \ resolved
         /\ draft.detour[Rendering!Last(p)] \in Outbounds
         /\ draft.detour[Rendering!Last(p)] # NoDetour
         /\ \A i \in 1 .. Len(p) - 1 : p[i] # Rendering!Last(p)
<1>1. Rendering!Last(p) = p[Len(p)] /\ Rendering!Last(p) \in Outbounds /\ Len(p) \in Nat \ {0}
  BY DEF Rendering!Last
<1>2. draft.detour[Rendering!Last(p)] \in Outbounds \cup {NoDetour}
  BY <1>1, DraftTypes
<1> QED
  BY <1>1, <1>2 DEF Ends

\* It is a path again when it went on.
LEMMA PathGrows ==
  ASSUME DraftsAssumption, draft \in Drafts, eligible \subseteq Outbounds, NEW n \in Outbounds,
         NEW p, Path(n, p), ~Ends(p)
  PROVE  /\ Path(n, Append(p, draft.detour[Rendering!Last(p)]))
         /\ Len(Append(p, draft.detour[Rendering!Last(p)])) = Len(p) + 1
<1>1. p \in Seq(Outbounds) /\ p # <<>>
  BY DEF Path
<1>2. PICK k \in Nat \ {0} : k = Len(p)
  BY <1>1, GoesOn
<1>3. PICK m \in Outbounds : m = draft.detour[Rendering!Last(p)]
  BY <1>1, GoesOn
<1>4. PICK q : q = Append(p, m)
  OBVIOUS
<1>5. q \in Seq(Outbounds) /\ Len(q) = k + 1 /\ q[k + 1] = m /\ \A i \in 1 .. k : q[i] = p[i]
  BY <1>1, <1>2, <1>4
<1>6. /\ Rendering!Last(p) = p[k] /\ Rendering!Last(p) \in eligible \ resolved
      /\ \A i \in 1 .. k - 1 : p[i] # p[k]
  BY <1>1, <1>2, GoesOn
<1>7. \A i \in 1 .. k - 1 : /\ p[i] \in eligible \ resolved /\ p[i + 1] = draft.detour[p[i]]
                            /\ \A j \in 1 .. k - 1 : p[i] = p[j] => i = j
  BY <1>2 DEF Path
<1>8. ASSUME NEW i \in 1 .. k
      PROVE  /\ q[i] \in eligible \ resolved /\ q[i + 1] = draft.detour[q[i]]
             /\ \A j \in 1 .. k : q[i] = q[j] => i = j
  <2>1. CASE i = k
    <3>1. q[i] = p[k] /\ q[i + 1] = m
      BY <1>5, <2>1
    <3>2. \A j \in 1 .. k : q[i] = q[j] => i = j
      <4>1. \A j \in 1 .. k : j = k \/ j \in 1 .. k - 1
        OBVIOUS
      <4> QED
        BY <1>5, <1>6, <2>1, <3>1, <4>1
    <3> QED
      BY <1>3, <1>6, <3>1, <3>2
  <2>2. CASE i # k
    <3>1. i \in 1 .. k - 1 /\ i + 1 \in 1 .. k
      BY <2>2
    <3>2. q[i] = p[i] /\ q[i + 1] = p[i + 1]
      BY <1>5, <3>1
    <3>3. \A j \in 1 .. k : q[i] = q[j] => i = j
      <4>1. \A j \in 1 .. k : j = k \/ j \in 1 .. k - 1
        OBVIOUS
      <4> QED
        BY <1>5, <1>6, <1>7, <3>1, <3>2, <4>1
    <3> QED
      BY <1>7, <3>1, <3>2, <3>3
  <2> QED
    BY <2>1, <2>2
<1>9. q # <<>> /\ q[1] = n /\ Len(q) - 1 = k
  <2>1. p[1] = n
    BY DEF Path
  <2>2. 1 \in 1 .. k
    OBVIOUS
  <2> QED
    BY <1>5, <2>1, <2>2
<1>10. Path(n, q)
  BY <1>5, <1>8, <1>9 DEF Path
<1> QED
  BY <1>2, <1>3, <1>4, <1>5, <1>10

\* A path that does not end is no longer than there are nodes.
LEMMA PathIsShort ==
  ASSUME DraftsAssumption, draft \in Drafts, eligible \subseteq Outbounds, NEW n \in Outbounds,
         NEW p, Path(n, p), ~Ends(p)
  PROVE  Len(p) <= Cardinality(Outbounds)
<1>1. p \in Seq(Outbounds) /\ p # <<>>
  BY DEF Path
<1>2. PICK k \in Nat \ {0} : k = Len(p)
  BY <1>1, GoesOn
<1>3. p \in [1 .. k -> Outbounds]
  BY <1>1, <1>2
<1>4. \A i \in 1 .. k - 1 : p[i] # p[k]
  BY <1>1, <1>2, GoesOn
<1>5. \A i, j \in 1 .. k - 1 : p[i] = p[j] => i = j
  BY <1>2 DEF Path
<1>6. \A i, j \in 1 .. k : p[i] = p[j] => i = j
  <2>1. \A i \in 1 .. k : i = k \/ i \in 1 .. k - 1
    OBVIOUS
  <2> QED
    BY <1>4, <1>5, <2>1
<1>7. p \in Injection(1 .. k, Outbounds)
  BY <1>3, <1>6 DEF Injection, IsInjective
<1>8. Cardinality(1 .. k) = k
  <2>1. Cardinality(1 .. k) = IF 1 > k THEN 0 ELSE k - 1 + 1
    BY ONLY k \in Nat \ {0}, FS_Interval
  <2> QED
    BY <2>1
<1> QED
  BY <1>2, <1>7, <1>8, FS_Injection DEF DraftsAssumption

\* So Walk computes a path, up to where it ends.
LEMMA WalkIs ==
  ASSUME DraftsAssumption, draft \in Drafts, eligible \subseteq Outbounds, NEW n \in Outbounds
  PROVE  Path(n, Rendering!Walk(n)) /\ Ends(Rendering!Walk(n))
<1>1. PICK N \in Nat : N = Cardinality(Outbounds) /\ N = Rendering!Cardinality(Outbounds)
  BY RenderCardinality, FS_CardinalityType DEF DraftsAssumption
<1>2. PICK A : A = Seq(Outbounds) \ {<<>>}
  OBVIOUS
<1> DEFINE F(w) == [i \in 0 .. N |-> IF i = 0 THEN <<n>> ELSE Onward(w[i - 1])]
<1>3. Rendering!Walk(n) = (CHOOSE w : w = F(w))[N]
  BY <1>1 DEF Rendering!Walk, Ends, Onward
<1>4. \A p \in A : Onward(p) \in A
  <2>1. ASSUME NEW p \in A, ~Ends(p) PROVE Append(p, draft.detour[Rendering!Last(p)]) \in A
    <3>1. PICK m \in Outbounds : m = draft.detour[Rendering!Last(p)]
      BY <1>2, <2>1, GoesOn
    <3>2. Append(p, m) \in Seq(Outbounds) /\ Append(p, m) # <<>>
      BY <1>2
    <3> QED
      BY <1>2, <3>1, <3>2
  <2> QED
    BY <2>1 DEF Onward
<1>5. PICK s \in [Nat -> [A -> A]] : \A i \in Nat : \A p \in A : s[i][p] = Onward(p)
  <2>1. [i \in Nat |-> [p \in A |-> Onward(p)]] \in [Nat -> [A -> A]]
    BY <1>4
  <2> QED
    BY <2>1
<1>6. <<n>> \in A
  BY <1>2
<1>7. PICK v \in [0 .. N -> A] : Iterates(v, <<n>>, s, N)
  BY <1>5, <1>6, Iteration
<1>8. v[0] = <<n>> /\ \A i \in 1 .. N : v[i] = Onward(v[i - 1])
  <2>1. \A i \in 1 .. N : v[i] = s[i][v[i - 1]] /\ v[i - 1] \in A /\ i \in Nat
    BY <1>7 DEF Iterates
  <2> QED
    BY <1>5, <1>7, <2>1 DEF Iterates
<1>9. v = F(v)
  <2>1. ASSUME NEW i \in 0 .. N PROVE v[i] = F(v)[i]
    <3>1. CASE i = 0
      BY <1>8, <3>1
    <3>2. CASE i # 0
      <4>1. i \in 1 .. N
        BY <3>2
      <4> QED
        BY <1>8, <3>2, <4>1
    <3> QED
      BY <3>1, <3>2
  <2>2. v = [i \in 0 .. N |-> v[i]]
    OBVIOUS
  <2> QED
    BY <2>1, <2>2
<1>10. PICK w : w = F(w) /\ w[N] = Rendering!Walk(n)
  <2>1. (CHOOSE w : w = F(w)) = F(CHOOSE w : w = F(w))
    BY <1>9
  <2> QED
    BY <1>3, <2>1
<1>11. Agree(v, w, N)
  <2>1. v[0] = w[0]
    BY <1>8, <1>10
  <2>2. ASSUME NEW i \in 1 .. N, v[i - 1] = w[i - 1] PROVE v[i] = w[i]
    <3>1. F(v)[i] = Onward(v[i - 1]) /\ F(w)[i] = Onward(w[i - 1])
      OBVIOUS
    <3>2. v[i] = F(v)[i] /\ w[i] = F(w)[i]
      <4> HIDE DEF F
      <4> QED
        BY <1>9, <1>10
    <3> HIDE DEF F
    <3> QED
      BY <2>2, <3>1, <3>2
  <2> HIDE DEF F
  <2> QED
    BY <2>1, <2>2, Agreement
<1>12. v[N] = Rendering!Walk(n)
  BY <1>10, <1>11 DEF Agree
<1> DEFINE T == {i \in 0 .. N : Path(n, v[i]) /\ (Ends(v[i]) \/ Len(v[i]) = i + 1)}
<1>13. 0 \in T
  <2>1. Path(n, <<n>>) /\ Len(<<n>>) = 1
    BY DEF Path
  <2> QED
    BY <1>8, <2>1
<1>14. ASSUME NEW i \in 1 .. N, i - 1 \in T PROVE i \in T
  <2>1. PICK p \in A : p = v[i - 1]
    OBVIOUS
  <2>2. Path(n, p) /\ (Ends(p) \/ Len(p) = i)
    BY <1>14, <2>1
  <2>3. v[i] = Onward(p)
    BY <1>8, <2>1
  <2>4. CASE Ends(p)
    BY <2>2, <2>3, <2>4 DEF Onward
  <2>5. CASE ~Ends(p)
    <3>1. v[i] = Append(p, draft.detour[Rendering!Last(p)])
      BY <2>3, <2>5 DEF Onward
    <3>2. Path(n, v[i]) /\ Len(v[i]) = Len(p) + 1
      BY <2>2, <2>5, <3>1, PathGrows
    <3> QED
      BY <2>2, <2>5, <3>2
  <2> QED
    BY <2>4, <2>5
<1>15. N \in T
  <2>1. N \in 0 .. N
    OBVIOUS
  <2> HIDE DEF T, F
  <2> QED
    BY <1>13, <1>14, <2>1, Persistence
<1>16. Path(n, v[N]) /\ (Ends(v[N]) \/ Len(v[N]) = N + 1)
  BY <1>15
<1>17. Ends(v[N])
  <2>1. ~Ends(v[N]) => Len(v[N]) <= N
    BY <1>1, <1>16, PathIsShort
  <2> QED
    BY <1>16, <2>1
<1> QED
  BY <1>12, <1>16, <1>17

-----------------------------------------------------------------------------
(* The nodes of a document *)

Start == {n \in There : ~Rendering!Unresolved(n)}

\* What is known of the nodes while they are resolved, with resolved r and eligible e.
Sorted(r, e) ==
  /\ e \subseteq Start /\ r \subseteq Outbounds
  /\ \A n \in Start \ e : ~Whole(n)
  /\ \A n \in r \cap e : Whole(n)

\* Along a path all nodes are whole or none of them is.
LEMMA SameWhole ==
  ASSUME DraftsAssumption, draft \in Drafts, Sorted(resolved, eligible), NEW n \in Outbounds, NEW p, Path(n, p)
  PROVE  /\ Len(p) \in Nat \ {0} /\ Rendering!Last(p) = p[Len(p)] /\ Rendering!Last(p) \in Outbounds
         /\ \A i \in 1 .. Len(p) : p[i] \in Outbounds /\ (Whole(p[i]) <=> Whole(Rendering!Last(p)))
<1>1. p \in Seq(Outbounds) /\ p # <<>>
  BY DEF Path
<1>2. PICK k \in Nat \ {0} : k = Len(p)
  BY <1>1
<1>3. Rendering!Last(p) = p[k] /\ \A i \in 1 .. k : p[i] \in Outbounds
  BY <1>1, <1>2 DEF Rendering!Last
<1>4. \A i \in 1 .. k - 1 : p[i] \in There /\ p[i + 1] = draft.detour[p[i]]
  BY <1>2 DEF Path, Sorted, Start
<1> DEFINE T == {i \in 1 .. k : ~(Whole(p[i]) <=> Whole(p[k]))}
<1>5. T = {}
  <2>1. SUFFICES ASSUME T # {} PROVE FALSE
    OBVIOUS
  <2>2. PICK i \in T : \A j \in T : j <= i
    <3>1. T \subseteq Nat /\ \A j \in T : j <= k
      OBVIOUS
    <3> HIDE DEF T
    <3> QED
      BY <2>1, <3>1, Greatest
  <2>3. i \in 1 .. k /\ ~(Whole(p[i]) <=> Whole(p[k]))
    BY <2>2
  <2>4. i # k
    BY <2>3
  <2>5. i \in 1 .. k - 1 /\ i + 1 \in 1 .. k /\ ~(i + 1 <= i)
    BY <2>3, <2>4
  <2>6. i + 1 \notin T
    <3> HIDE DEF T
    <3> QED
      BY <2>2, <2>5
  <2>7. Whole(p[i + 1]) <=> Whole(p[k])
    BY <2>5, <2>6
  <2>8. Whole(p[i]) <=> Whole(p[i + 1])
    <3>1. PICK m \in Outbounds : m = p[i]
      BY <1>3, <2>3
    <3>2. m \in There /\ draft.detour[m] = p[i + 1] /\ p[i + 1] \in Outbounds
      BY <1>3, <1>4, <2>5, <3>1
    <3>3. Whole(m) <=> Whole(draft.detour[m])
      BY <3>2, WholeIs
    <3> QED
      BY <3>1, <3>2, <3>3
  <2> QED
    BY <2>3, <2>7, <2>8
<1> QED
  BY <1>1, <1>2, <1>3, <1>5

\* One turn of the loop decides on the nodes of its walk.
LEMMA ResolveSorts ==
  ASSUME DraftsAssumption, draft \in Drafts, Sorted(resolved, eligible), NEW n \in Outbounds, Rendering!Resolve(n)
  PROVE  Sorted(resolved', eligible')
<1>1. PICK p : p = Rendering!Walk(n)
  OBVIOUS
<1>2. eligible \subseteq Outbounds
  BY DraftTypes DEF Sorted, Start, There
<1>3. Path(n, p) /\ Ends(p)
  BY <1>1, <1>2, WalkIs
<1>4. PICK k \in Nat \ {0} : k = Len(p)
  BY <1>3, SameWhole
<1>5. PICK last \in Outbounds : last = Rendering!Last(p) /\ last = p[k]
  BY <1>3, <1>4, SameWhole
<1>6. \A i \in 1 .. k : p[i] \in Outbounds /\ (Whole(p[i]) <=> Whole(last))
  BY <1>3, <1>4, <1>5, SameWhole
<1>7. /\ p \in Seq(Outbounds) /\ p[1] = n
      /\ \A i \in 1 .. k - 1 : p[i] \in eligible \ resolved /\ p[i + 1] = draft.detour[p[i]]
  BY <1>3, <1>4 DEF Path
<1>8. /\ Rendering!ToSet(p) = {p[i] : i \in 1 .. k}
      /\ Rendering!ToSet(Rendering!Front(p)) = {p[i] : i \in 1 .. k - 1}
  <2>1. Rendering!ToSet(p) = {p[i] : i \in 1 .. k}
    BY <1>4, <1>7 DEF Rendering!ToSet
  <2>2. PICK f : f = Rendering!Front(p)
    OBVIOUS
  <2>3. DOMAIN f = 1 .. k - 1 /\ \A i \in 1 .. k - 1 : f[i] = p[i]
    BY <1>4, <1>7, <2>2 DEF Rendering!Front
  <2>4. Rendering!ToSet(f) = {p[i] : i \in 1 .. k - 1}
    BY <2>3 DEF Rendering!ToSet
  <2> QED
    BY <2>1, <2>2, <2>4
<1>9. PICK known \in BOOLEAN : known <=> last \in resolved \/ last \notin eligible
  OBVIOUS
<1>10. PICK path : path = IF known THEN {p[i] : i \in 1 .. k - 1} ELSE {p[i] : i \in 1 .. k}
  OBVIOUS
<1>11. PICK valid \in BOOLEAN : valid <=> IF known THEN last \in eligible ELSE draft.detour[last] = NoDetour
  OBVIOUS
<1>12. resolved' = resolved \cup path \cup {n} /\ eligible' = IF valid THEN eligible ELSE eligible \ path
  BY <1>1, <1>5, <1>8, <1>9, <1>10, <1>11 DEF Rendering!Resolve
<1>13. /\ path \subseteq Outbounds /\ \A m \in path : Whole(m) <=> Whole(last)
       /\ n \in path \/ (n = last /\ known)
  <2>1. 1 \in 1 .. k /\ (k # 1 => 1 \in 1 .. k - 1)
    OBVIOUS
  <2>2. \A i \in 1 .. k - 1 : i \in 1 .. k
    OBVIOUS
  <2>3. \A m \in path : \E i \in 1 .. k : m = p[i]
    BY <1>10, <2>2
  <2>4. path \subseteq Outbounds /\ \A m \in path : Whole(m) <=> Whole(last)
    BY <1>6, <2>3
  <2>5. n \in path \/ (n = last /\ known)
    <3>1. CASE k = 1 /\ known
      BY <1>5, <1>7, <3>1
    <3>2. CASE k # 1 /\ known
      BY <1>7, <1>10, <2>1, <3>2
    <3>3. CASE ~known
      BY <1>7, <1>10, <2>1, <3>3
    <3> QED
      BY <3>1, <3>2, <3>3
  <2> QED
    BY <2>4, <2>5
<1>14. valid => Whole(last)
  <2>1. ASSUME valid, known PROVE Whole(last)
    BY <1>9, <1>11, <2>1 DEF Sorted
  <2>2. ASSUME valid, ~known PROVE Whole(last)
    <3>1. last \in There /\ draft.detour[last] = NoDetour
      BY <1>9, <1>11, <2>2 DEF Sorted, Start
    <3> QED
      BY <3>1, WholeIs
  <2> QED
    BY <2>1, <2>2
<1>15. ~valid => ~Whole(last)
  <2>1. ASSUME ~valid, known PROVE ~Whole(last)
    <3>1. last \notin eligible
      BY <1>11, <2>1
    <3>2. last \notin Start => ~Whole(last)
      BY WholeIs DEF Start
    <3> QED
      BY <3>1, <3>2 DEF Sorted
  <2>2. ASSUME ~valid, ~known PROVE ~Whole(last)
    <3>1. last \in eligible \ resolved /\ draft.detour[last] # NoDetour
      BY <1>9, <1>11, <2>2
    <3>2. PICK j \in 1 .. k - 1 : p[j] = last
      BY <1>3, <1>4, <1>5, <3>1 DEF Ends
    <3>3. PICK C : C = {p[i] : i \in j .. k}
      OBVIOUS
    <3>4. C \in SUBSET Outbounds /\ last \in C
      BY <1>5, <1>6, <3>3
    <3>5. ASSUME NEW i \in j .. k PROVE draft.detour[p[i]] \in C
      <4>1. CASE i # k
        <5>1. i \in 1 .. k - 1 /\ i + 1 \in j .. k
          BY <4>1
        <5> QED
          BY <1>7, <3>3, <5>1
      <4>2. CASE i = k
        <5>1. draft.detour[p[i]] = p[j + 1] /\ j + 1 \in j .. k
          BY <1>5, <1>7, <3>2, <4>2
        <5> QED
          BY <3>3, <5>1
      <4> QED
        BY <4>1, <4>2
    <3>6. \A m \in C : draft.detour[m] \in C
      BY <3>3, <3>5
    <3> QED
      BY <3>4, <3>6, WholeIs
  <2> QED
    BY <2>1, <2>2
<1>16. CASE valid
  <2>1. Whole(last) /\ Whole(n) /\ \A m \in path : Whole(m)
    BY <1>13, <1>14, <1>16
  <2> QED
    BY <1>12, <1>13, <1>16, <2>1 DEF Sorted
<1>17. CASE ~valid
  <2>1. ~Whole(last) /\ \A m \in path : ~Whole(m)
    BY <1>13, <1>15, <1>17
  <2>2. n \notin eligible \ path
    BY <1>11, <1>13, <1>17
  <2> QED
    BY <1>12, <1>13, <1>17, <2>1, <2>2 DEF Sorted
<1> QED
  BY <1>16, <1>17

-----------------------------------------------------------------------------
(* Groups *)

\* One more step over the references of groups.
Widen(X) == X \cup UNION {Rendering!GroupIDs(h) : h \in X}

\* What can be reached from a group.
LEMMA ReachedIs ==
  ASSUME DraftsAssumption, draft \in Drafts, NEW g \in Groups
  PROVE  /\ Rendering!GroupIDs(g) \subseteq Rendering!Reached(g)
         /\ Rendering!Reached(g) \subseteq Groups
         /\ \A h \in Rendering!Reached(g) : Rendering!GroupIDs(h) \subseteq Rendering!Reached(g)
         /\ \A C : Rendering!GroupIDs(g) \subseteq C /\ (\A h \in C : Rendering!GroupIDs(h) \subseteq C) => Rendering!Reached(g) \subseteq C
<1>1. PICK N \in Nat : N = Cardinality(Groups) /\ N = Rendering!Cardinality(Groups)
  BY RenderCardinality, FS_CardinalityType DEF DraftsAssumption
<1>2. IsFiniteSet(Groups)
  BY DEF DraftsAssumption
<1>3. PICK a \in SUBSET Groups : a = Rendering!GroupIDs(g)
  BY DraftTypes
<1> DEFINE F(w) == [i \in 0 .. N |-> IF i = 0 THEN a ELSE Widen(w[i - 1])]
<1>4. Rendering!Reached(g) = (CHOOSE w : w = F(w))[N]
  BY <1>1, <1>3 DEF Rendering!Reached, Widen
<1>5. PICK t \in [SUBSET Groups -> SUBSET Groups] : \A X \in SUBSET Groups : t[X] = Widen(X)
  <2> DEFINE t == [X \in SUBSET Groups |-> Widen(X)]
  <2>1. \A h \in Groups : Rendering!GroupIDs(h) \subseteq Groups
    BY DraftTypes
  <2>2. t \in [SUBSET Groups -> SUBSET Groups]
    BY <2>1 DEF Widen
  <2> QED
    BY <2>2
<1>6. PICK s \in [Nat -> [SUBSET Groups -> SUBSET Groups]] : \A k \in Nat : s[k] = t
  <2>1. [k \in Nat |-> t] \in [Nat -> [SUBSET Groups -> SUBSET Groups]]
    OBVIOUS
  <2> QED
    BY <2>1
<1>7. PICK A : A = SUBSET Groups
  OBVIOUS
<1>8. PICK v \in [0 .. N -> A] : Iterates(v, a, s, N)
  <2>1. s \in [Nat -> [A -> A]] /\ a \in A
    BY <1>7
  <2> QED
    BY <2>1, Iteration
<1>9. v[0] = a /\ \A i \in 1 .. N : v[i] = t[v[i - 1]]
  BY <1>6, <1>8 DEF Iterates
<1>10. v = F(v)
  <2>1. ASSUME NEW i \in 0 .. N PROVE v[i] = F(v)[i]
    <3>1. CASE i = 0
      BY <1>9, <3>1
    <3>2. CASE i # 0
      <4>1. i \in 1 .. N /\ i - 1 \in 0 .. N
        BY <3>2
      <4>2. v[i - 1] \in SUBSET Groups
        BY <1>7, <4>1
      <4> QED
        BY <1>5, <1>9, <3>2, <4>1, <4>2
    <3> QED
      BY <3>1, <3>2
  <2>2. v = [i \in 0 .. N |-> v[i]]
    OBVIOUS
  <2> QED
    BY <2>1, <2>2
<1>11. PICK w : w = F(w) /\ w[N] = Rendering!Reached(g)
  <2>1. (CHOOSE w : w = F(w)) = F(CHOOSE w : w = F(w))
    BY <1>10
  <2> QED
    BY <1>4, <2>1
<1>12. Agree(v, w, N)
  <2>1. v[0] = w[0]
    BY <1>9, <1>11
  <2>2. ASSUME NEW i \in 1 .. N, v[i - 1] = w[i - 1] PROVE v[i] = w[i]
    <3>1. F(v)[i] = Widen(v[i - 1]) /\ F(w)[i] = Widen(w[i - 1])
      OBVIOUS
    <3>2. v[i] = F(v)[i] /\ w[i] = F(w)[i]
      <4> HIDE DEF F
      <4> QED
        BY <1>10, <1>11
    <3> HIDE DEF F
    <3> QED
      BY <2>2, <3>1, <3>2
  <2> HIDE DEF F
  <2> QED
    BY <2>1, <2>2, Agreement
<1>13. v[N] = Rendering!Reached(g)
  BY <1>11, <1>12 DEF Agree
<1>14. t[v[N]] = v[N] /\ v[0] \subseteq v[N]
  <2>1. v \in [0 .. N -> SUBSET Groups]
    BY <1>7
  <2>2. Cardinality(v[0]) \in Nat
    BY <1>2, <1>9, FS_Subset, FS_CardinalityType
  <2>3. \A X \in SUBSET Groups : X \subseteq t[X]
    BY <1>5 DEF Widen
  <2>4. Cardinality(Groups) <= Cardinality(v[0]) + N
    BY <1>1, <2>2
  <2> HIDE DEF F
  <2> QED
    BY <1>2, <1>9, <2>1, <2>3, <2>4, Saturation
<1>15. v[N] \in SUBSET Groups
  BY <1>7
<1>16. Rendering!Reached(g) = Widen(Rendering!Reached(g))
  BY <1>5, <1>13, <1>14, <1>15
<1>17. ASSUME NEW C, Rendering!GroupIDs(g) \subseteq C, \A h \in C : Rendering!GroupIDs(h) \subseteq C PROVE Rendering!Reached(g) \subseteq C
  <2>1. v[0] \subseteq C
    BY <1>3, <1>9, <1>17
  <2>2. ASSUME NEW i \in 1 .. N, v[i - 1] \subseteq C PROVE v[i] \subseteq C
    <3>1. i - 1 \in 0 .. N
      OBVIOUS
    <3>2. v[i] = Widen(v[i - 1])
      BY <1>5, <1>7, <1>9, <3>1
    <3> QED
      BY <1>17, <2>2, <3>2 DEF Widen
  <2>3. \A i \in 0 .. N : v[i] \subseteq C
    <3> HIDE DEF F
    <3> QED
      BY <2>1, <2>2, Containment
  <2> QED
    BY <1>13, <2>3
<1> QED
  BY <1>3, <1>9, <1>13, <1>14, <1>15, <1>16, <1>17 DEF Widen

\* Where no group reaches itself, one of those that are left refers to none of them.
LEMMA GroupToRenderNext ==
  ASSUME DraftsAssumption, draft \in Drafts, Rendering!ReferencesValid, NEW D, D \subseteq Groups, D # Groups
  PROVE  \E g \in Groups \ D : Rendering!GroupIDs(g) \subseteq D
<1> DEFINE F == {Rendering!Reached(g) : g \in Groups \ D}
<1>1. F \subseteq SUBSET Groups /\ F # {}
  BY ReachedIs
<1>2. IsFiniteSet(Groups)
  BY DEF DraftsAssumption
<1>3. PICK T \in F : \A U \in F : Cardinality(T) <= Cardinality(U)
  <2> HIDE DEF F
  <2> QED
    BY <1>1, <1>2, SmallestSet
<1>4. PICK g \in Groups \ D : T = Rendering!Reached(g)
  BY <1>3
<1>5. ASSUME NEW h \in Rendering!GroupIDs(g), h \notin D PROVE FALSE
  <2>1. h \in Groups \ D /\ h \in Rendering!Reached(g)
    BY <1>4, <1>5, DraftTypes, ReachedIs
  <2>2. Rendering!Reached(h) \subseteq Rendering!Reached(g)
    BY <1>4, <2>1, ReachedIs
  <2>3. h \notin Rendering!Reached(h)
    BY <2>1 DEF Rendering!ReferencesValid
  <2>4. Rendering!Reached(g) \subseteq Groups /\ Rendering!Reached(g) # Rendering!Reached(h)
    BY <1>4, <2>1, <2>3, ReachedIs
  <2>5. IsFiniteSet(Rendering!Reached(g))
    BY <1>2, <2>4, FS_Subset
  <2>6. Cardinality(Rendering!Reached(h)) < Cardinality(Rendering!Reached(g))
    <3>1. /\ Cardinality(Rendering!Reached(h)) <= Cardinality(Rendering!Reached(g))
          /\ Cardinality(Rendering!Reached(h)) = Cardinality(Rendering!Reached(g)) => Rendering!Reached(h) = Rendering!Reached(g)
      BY <2>2, <2>5, FS_Subset
    <3>2. Cardinality(Rendering!Reached(h)) \in Nat /\ Cardinality(Rendering!Reached(g)) \in Nat
      BY <2>2, <2>5, FS_Subset, FS_CardinalityType
    <3> QED
      BY <2>4, <3>1, <3>2
  <2>7. Cardinality(Rendering!Reached(g)) <= Cardinality(Rendering!Reached(h))
    BY <1>3, <1>4, <2>1
  <2>8. Cardinality(Rendering!Reached(h)) \in Nat /\ Cardinality(Rendering!Reached(g)) \in Nat
    BY <2>2, <2>5, FS_Subset, FS_CardinalityType
  <2> QED
    BY <2>6, <2>7, <2>8
<1> QED
  BY <1>5

\* What is shown of group g where the groups it refers to are rendered as r says.
Found(r, g) == {x \in Rendering!ToSet(Rendering!Order(g)) : x \in eligible \cup Rendering!Builtins \/ (x \in Rendering!Enabled /\ r[x].exit # "reject")}
Shown(r, g) ==
  [candidates |-> Rendering!Kept(Rendering!Order(g), Found(r, g)),
   exit |-> Rendering!GroupExit(g, Rendering!Kept(Rendering!Order(g), Found(r, g)), Rendering!Order(g) # <<>> /\ Rendering!Order(g)[1] \in Found(r, g))]

\* It depends on those alone.
LEMMA ShownDepends ==
  ASSUME DraftsAssumption, draft \in Drafts, NEW g \in Groups, NEW r, NEW q, \A h \in Rendering!GroupIDs(g) : r[h] = q[h]
  PROVE  Shown(r, g) = Shown(q, g)
<1>1. \A x \in Rendering!ToSet(Rendering!Order(g)) : x \in Rendering!Enabled => x \in Rendering!GroupIDs(g)
  BY DEF Rendering!Enabled, Rendering!GroupIDs
<1>2. \A x \in Rendering!ToSet(Rendering!Order(g)) : x \in Rendering!Enabled => r[x] = q[x]
  BY <1>1
<1>3. Found(r, g) = Found(q, g)
  <2>1. PICK S, E : S = Rendering!ToSet(Rendering!Order(g)) /\ E = Rendering!Enabled
    OBVIOUS
  <2>2. PICK B : B = eligible \cup Rendering!Builtins
    OBVIOUS
  <2>3. \A x \in S : x \in E => r[x] = q[x]
    BY <1>2, <2>1
  <2>4. \A x \in S : x \in E => r[x].exit = q[x].exit
    BY <2>3
  <2>5. {x \in S : x \in B \/ (x \in E /\ r[x].exit # "reject")} = {x \in S : x \in B \/ (x \in E /\ q[x].exit # "reject")}
    <3>1. ASSUME NEW x \in S PROVE (x \in B \/ (x \in E /\ r[x].exit # "reject")) <=> (x \in B \/ (x \in E /\ q[x].exit # "reject"))
      BY <2>4
    <3> QED
      BY ONLY <3>1
  <2> QED
    BY <2>1, <2>2, <2>5 DEF Found
<1> QED
  BY <1>3 DEF Shown

\* The definition of Rendered is one: children can be rendered before parents.
LEMMA RenderedIs ==
  ASSUME DraftsAssumption, draft \in Drafts, Rendering!ReferencesValid
  PROVE  \A g \in Groups : Rendering!Rendered[g] = Shown(Rendering!Rendered, g)
<1> DEFINE F(r) == [g \in Groups |-> Shown(r, g)]
           Good(D, r) == r = [g \in Groups |-> r[g]] /\ \A g \in D : r[g] = Shown(r, g)
           Family == {D \in SUBSET Groups : (\A g \in D : Rendering!GroupIDs(g) \subseteq D) /\ \E r : Good(D, r)}
<1>1. IsFiniteSet(Groups)
  BY DEF DraftsAssumption
<1>2. {} \in Family
  <2>1. PICK r : r = [g \in Groups |-> 0]
    OBVIOUS
  <2>2. Good({}, r)
    BY <2>1
  <2> HIDE DEF Good
  <2> QED
    BY <2>2
<1>3. PICK D \in Family : \A E \in Family : Cardinality(E) <= Cardinality(D)
  <2>1. Family \subseteq SUBSET Groups /\ Family # {}
    BY <1>2
  <2> HIDE DEF Family
  <2> QED
    BY <1>1, <2>1, LargestSet
<1>4. D \in SUBSET Groups /\ \A g \in D : Rendering!GroupIDs(g) \subseteq D
  BY <1>3
<1>5. PICK r : Good(D, r)
  <2> HIDE DEF Good
  <2> QED
    BY <1>3
<1>6. ASSUME D # Groups PROVE FALSE
  <2>1. PICK g \in Groups \ D : Rendering!GroupIDs(g) \subseteq D
    BY <1>4, <1>6, GroupToRenderNext
  <2>2. PICK E \in SUBSET Groups : E = D \cup {g}
    BY <1>4
  <2>3. PICK q : q = [h \in Groups |-> IF h = g THEN Shown(r, g) ELSE r[h]]
    OBVIOUS
  <2>4. \A h \in E : Rendering!GroupIDs(h) \subseteq D
    BY <1>4, <2>1, <2>2
  <2>5. \A h \in D : r[h] = q[h]
    BY <1>4, <2>1, <2>3
  <2>6. ASSUME NEW h \in E PROVE q[h] = Shown(q, h)
    <3>1. Shown(r, h) = Shown(q, h)
      <4>1. \A k \in Rendering!GroupIDs(h) : r[k] = q[k]
        BY <2>4, <2>5
      <4> QED
        BY <4>1, ShownDepends
    <3>2. q[h] = Shown(r, h)
      BY <1>5, <2>1, <2>2, <2>3
    <3> QED
      BY <3>1, <3>2
  <2>7. q = [h \in Groups |-> q[h]]
    BY <2>3
  <2>8. Good(E, q)
    BY <2>6, <2>7
  <2>9. E \in Family
    <3>1. \A h \in E : Rendering!GroupIDs(h) \subseteq E
      BY <2>2, <2>4
    <3> HIDE DEF Good
    <3> QED
      BY <2>8, <3>1
  <2>10. Cardinality(E) = Cardinality(D) + 1 /\ Cardinality(D) \in Nat
    BY <1>1, <1>4, <2>1, <2>2, FS_Subset, FS_AddElement, FS_CardinalityType
  <2>11. Cardinality(E) <= Cardinality(D)
    <3> HIDE DEF Family
    <3> QED
      BY <1>3, <2>9
  <2> QED
    BY <2>10, <2>11
<1>7. r = F(r)
  BY <1>5, <1>6
<1>8. Rendering!Rendered = CHOOSE q : q = F(q)
  BY Zenon DEF Rendering!Rendered, Shown, Found, Rendering!GroupExit
<1>9. Rendering!Rendered = F(Rendering!Rendered)
  <2> HIDE DEF F
  <2> QED
    BY <1>7, <1>8
<1>10. \A g \in Groups : F(Rendering!Rendered)[g] = Shown(Rendering!Rendered, g)
  OBVIOUS
<1> HIDE DEF F
<1> QED
  BY <1>9, <1>10

-----------------------------------------------------------------------------
(* Candidates *)

\* k is what is kept of the first i elements of s.
KeptUpTo(s, S, i, k) ==
  /\ Rendering!ToSet(k) = {s[j] : j \in 1 .. i} \cap S
  /\ i # 0 /\ s[1] \in S => k # <<>> /\ k[1] = s[1]

\* What is kept of a sequence: its elements in S, and the first of them first.
LEMMA KeptIs ==
  ASSUME NEW A, NEW s \in Seq(A), NEW S
  PROVE  /\ Rendering!Kept(s, S) \in Seq(A)
         /\ Rendering!ToSet(Rendering!Kept(s, S)) = Rendering!ToSet(s) \cap S
         /\ s # <<>> /\ s[1] \in S => Rendering!Kept(s, S) # <<>> /\ Rendering!Kept(s, S)[1] = s[1]
<1>1. PICK N \in Nat : N = Len(s)
  OBVIOUS
<1>2. PICK B : B = Seq(A)
  OBVIOUS
<1>3. \A i \in 1 .. N : s[i] \in A
  BY <1>1
<1> DEFINE Next1(i, k) == IF s[i] \in S THEN Append(k, s[i]) ELSE k
           F(w) == [i \in 0 .. N |-> IF i = 0 THEN <<>> ELSE Next1(i, w[i - 1])]
<1>4. Rendering!Kept(s, S) = (CHOOSE w : w = F(w))[N]
  BY <1>1 DEF Rendering!Kept
<1>5. PICK t \in [Nat -> [B -> B]] : \A i \in 1 .. N : \A k \in B : t[i][k] = Next1(i, k)
  <2> DEFINE t == [i \in Nat |-> [k \in B |-> IF i \in 1 .. N THEN Next1(i, k) ELSE k]]
  <2>1. \A i \in 1 .. N : \A k \in B : Next1(i, k) \in B
    BY <1>2, <1>3
  <2>2. t \in [Nat -> [B -> B]]
    BY <2>1
  <2>3. \A i \in 1 .. N : \A k \in B : t[i][k] = Next1(i, k)
    OBVIOUS
  <2> HIDE DEF Next1, t
  <2> QED
    BY <2>2, <2>3
<1>6. PICK a \in B : a = <<>>
  <2>1. <<>> \in Seq(A)
    OBVIOUS
  <2> QED
    BY ONLY <1>2, <2>1
<1>7. PICK v \in [0 .. N -> B] : Iterates(v, a, t, N)
  BY <1>5, <1>6, Iteration
<1>8. v[0] = <<>> /\ \A i \in 1 .. N : v[i] = Next1(i, v[i - 1])
  <2>1. \A i \in 1 .. N : v[i] = t[i][v[i - 1]] /\ v[i - 1] \in B
    BY <1>7 DEF Iterates
  <2> HIDE DEF Next1
  <2> QED
    BY <1>5, <1>6, <1>7, <2>1 DEF Iterates
<1>9. v = F(v)
  <2>1. ASSUME NEW i \in 0 .. N PROVE v[i] = F(v)[i]
    <3>1. CASE i = 0
      BY <1>8, <3>1
    <3>2. CASE i # 0
      <4>1. i \in 1 .. N
        BY <3>2
      <4> HIDE DEF Next1
      <4> QED
        BY <1>8, <3>2, <4>1
    <3> QED
      BY <3>1, <3>2
  <2>2. v = [i \in 0 .. N |-> v[i]]
    OBVIOUS
  <2> QED
    BY <2>1, <2>2
<1>10. PICK w : w = F(w) /\ w[N] = Rendering!Kept(s, S)
  <2>1. (CHOOSE w : w = F(w)) = F(CHOOSE w : w = F(w))
    BY <1>9
  <2> QED
    BY <1>4, <2>1
<1>11. Agree(v, w, N)
  <2>1. v[0] = w[0]
    BY <1>8, <1>10
  <2>2. ASSUME NEW i \in 1 .. N, v[i - 1] = w[i - 1] PROVE v[i] = w[i]
    <3>1. F(v)[i] = Next1(i, v[i - 1]) /\ F(w)[i] = Next1(i, w[i - 1])
      OBVIOUS
    <3>2. v[i] = F(v)[i] /\ w[i] = F(w)[i]
      <4> HIDE DEF F
      <4> QED
        BY <1>9, <1>10
    <3> HIDE DEF F, Next1
    <3> QED
      BY <2>2, <3>1, <3>2
  <2> HIDE DEF F
  <2> QED
    BY <2>1, <2>2, Agreement
<1>12. v[N] = Rendering!Kept(s, S)
  BY <1>10, <1>11 DEF Agree
<1> DEFINE T == {i \in 0 .. N : KeptUpTo(s, S, i, v[i])}
<1>13. 0 \in T
  BY <1>8 DEF KeptUpTo, Rendering!ToSet
<1>14. ASSUME NEW i \in 1 .. N, i - 1 \in T PROVE i \in T
  <2>1. PICK k \in Seq(A) : k = v[i - 1]
    BY <1>2
  <2>2. KeptUpTo(s, S, i - 1, k)
    BY <1>14, <2>1
  <2>3. v[i] = IF s[i] \in S THEN Append(k, s[i]) ELSE k
    BY <1>8, <2>1
  <2>4. {s[j] : j \in 1 .. i} = {s[j] : j \in 1 .. i - 1} \cup {s[i]}
    <3>1. 1 .. i = (1 .. i - 1) \cup {i}
      OBVIOUS
    <3> QED
      BY <3>1
  <2>5. CASE s[i] \in S
    <3>1. PICK x \in A : x = s[i]
      BY <1>3
    <3>2. PICK q \in Seq(A) : q = Append(k, x)
      <4>1. Append(k, x) \in Seq(A)
        BY ONLY k \in Seq(A), x \in A
      <4> QED
        BY ONLY <4>1
    <3>3. Len(q) = Len(k) + 1 /\ q[Len(k) + 1] = x /\ \A j \in 1 .. Len(k) : q[j] = k[j]
      BY <3>2
    <3>4. Rendering!ToSet(q) = Rendering!ToSet(k) \cup {x}
      <4>1. DOMAIN q = 1 .. Len(k) + 1 /\ DOMAIN k = 1 .. Len(k) /\ Len(k) \in Nat
        BY <3>3
      <4> QED
        <5>1. 1 .. Len(k) + 1 = (1 .. Len(k)) \cup {Len(k) + 1}
          BY <4>1
        <5>2. Rendering!ToSet(q) = {q[j] : j \in 1 .. Len(k)} \cup {q[Len(k) + 1]}
          BY <4>1, <5>1 DEF Rendering!ToSet
        <5>3. {q[j] : j \in 1 .. Len(k)} = {k[j] : j \in 1 .. Len(k)}
          BY <3>3
        <5>4. Rendering!ToSet(k) = {k[j] : j \in 1 .. Len(k)}
          BY <4>1 DEF Rendering!ToSet
        <5> QED
          BY ONLY <3>3, <5>2, <5>3, <5>4
    <3>5. q # <<>> /\ (k # <<>> => q[1] = k[1]) /\ (k = <<>> => q[1] = x)
      <4>1. CASE k = <<>>
        BY <3>2, <4>1
      <4>2. CASE k # <<>>
        <5>1. Len(k) \in Nat \ {0}
          BY <4>2
        <5> QED
          BY <3>2, <3>3, <4>2, <5>1
      <4> QED
        BY ONLY <4>1, <4>2
    <3>6. s[1] \in S => q[1] = s[1]
      <4>1. CASE i = 1
        <5>1. Rendering!ToSet(k) = {}
          BY <2>2, <4>1 DEF KeptUpTo
        <5>2. k = <<>>
          <6>1. k # <<>> => 1 \in 1 .. Len(k)
            BY ONLY k \in Seq(A)
          <6>2. DOMAIN k = 1 .. Len(k)
            BY ONLY k \in Seq(A)
          <6>3. k # <<>> => k[1] \in Rendering!ToSet(k)
            BY <6>1, <6>2 DEF Rendering!ToSet
          <6> QED
            BY ONLY <5>1, <6>3
        <5> QED
          BY <3>1, <3>5, <4>1, <5>2
      <4>2. CASE i # 1
        BY <2>2, <3>5, <4>2 DEF KeptUpTo
      <4> QED
        BY <4>1, <4>2
    <3>7. Rendering!ToSet(q) = {s[j] : j \in 1 .. i} \cap S
      BY <2>2, <2>4, <2>5, <3>1, <3>4 DEF KeptUpTo
    <3>8. v[i] = q
      BY <2>3, <2>5, <3>1, <3>2
    <3> QED
      BY <3>5, <3>6, <3>7, <3>8 DEF KeptUpTo
  <2>6. CASE s[i] \notin S
    <3>1. {s[j] : j \in 1 .. i} \cap S = {s[j] : j \in 1 .. i - 1} \cap S
      BY <2>4, <2>6
    <3>2. s[1] \in S => i - 1 # 0
      BY <2>6
    <3> QED
      BY <2>2, <2>3, <2>6, <3>1, <3>2 DEF KeptUpTo
  <2> QED
    BY <2>5, <2>6
<1>15. N \in T
  <2>1. N \in 0 .. N
    OBVIOUS
  <2> HIDE DEF T, F
  <2> QED
    BY <1>13, <1>14, <2>1, Persistence
<1>16. KeptUpTo(s, S, N, v[N])
  BY <1>15
<1>17. Rendering!ToSet(s) = {s[j] : j \in 1 .. N}
  BY <1>1 DEF Rendering!ToSet
<1>18. v[N] \in Seq(A)
  BY <1>2
<1>19. s # <<>> => N # 0
  BY <1>1
<1> HIDE DEF T, F, Next1
<1> QED
  BY <1>12, <1>16, <1>17, <1>18, <1>19 DEF KeptUpTo

-----------------------------------------------------------------------------
(* Documents *)

\* What is rendered of a group: candidates in its order that are there, its first one first.
LEMMA GroupIs ==
  ASSUME DraftsAssumption, draft \in Drafts, Rendering!ReferencesValid, NEW g \in Groups
  PROVE  /\ Rendering!Rendered[g].candidates \in Seq(Rendering!Target)
         /\ \A x \in Rendering!ToSet(Rendering!Rendered[g].candidates) :
              x \in eligible \cup Rendering!Builtins \/ (x \in Rendering!Enabled /\ Rendering!Rendered[x].exit # "reject")
         /\ Rendering!Rendered[g].exit \in {g, "reject"}
         /\ Rendering!Rendered[g].exit # "reject" => Rendering!Rendered[g].candidates # <<>>
         /\ Rendering!Rendered[g].exit # "reject" /\ draft.groups[g].type = "select" =>
              /\ Rendering!Rendered[g].candidates[1] = Rendering!Order(g)[1]
              /\ \/ Rendering!Order(g)[1] \in eligible \cup Rendering!Builtins
                 \/ (Rendering!Order(g)[1] \in Rendering!Enabled /\ Rendering!Rendered[Rendering!Order(g)[1]].exit # "reject")
<1>1. PICK r : r = Rendering!Rendered
  OBVIOUS
<1>2. PICK s \in Seq(Rendering!Target) : s = Rendering!Order(g)
  BY DraftTypes
<1>3. PICK S : S = Found(r, g)
  OBVIOUS
<1>4. PICK k : k = Rendering!Kept(s, S)
  OBVIOUS
<1>5. PICK first \in BOOLEAN : first = (s # <<>> /\ s[1] \in S)
  OBVIOUS
<1>6. r[g] = [candidates |-> k, exit |-> Rendering!GroupExit(g, k, first)]
  BY <1>1, <1>2, <1>3, <1>4, <1>5, RenderedIs DEF Shown
<1>7. /\ k \in Seq(Rendering!Target) /\ Rendering!ToSet(k) = Rendering!ToSet(s) \cap S
      /\ first => k # <<>> /\ k[1] = s[1]
  BY <1>4, <1>5, KeptIs
<1>8. \A x \in S : x \in eligible \cup Rendering!Builtins \/ (x \in Rendering!Enabled /\ r[x].exit # "reject")
  BY <1>3 DEF Found
<1>9. r[g].candidates = k /\ r[g].exit = Rendering!GroupExit(g, k, first)
  BY <1>6
<1>10. /\ r[g].exit \in {g, "reject"} /\ (r[g].exit # "reject" => k # <<>>)
       /\ r[g].exit # "reject" /\ draft.groups[g].type = "select" => first
  BY <1>9 DEF Rendering!GroupExit
<1>11. first => s[1] \in S
  BY <1>5
<1>12. \A x \in Rendering!ToSet(k) : x \in eligible \cup Rendering!Builtins \/ (x \in Rendering!Enabled /\ r[x].exit # "reject")
  BY <1>7, <1>8
<1>13. ASSUME r[g].exit # "reject", draft.groups[g].type = "select"
       PROVE  /\ k[1] = s[1]
              /\ (s[1] \in eligible \cup Rendering!Builtins \/ (s[1] \in Rendering!Enabled /\ r[s[1]].exit # "reject"))
  BY <1>7, <1>8, <1>10, <1>11, <1>13
<1> QED
  BY <1>1, <1>2, <1>7, <1>9, <1>10, <1>12, <1>13

\* The groups that are shown.
Present == {g \in Rendering!Enabled : Rendering!Rendered[g].candidates # <<>>}

\* The names that a rule or the default exit may get.
LEMMA NameIs ==
  ASSUME DraftsAssumption, draft \in Drafts, Rendering!ReferencesValid, NEW exit \in Rendering!Exits, NEW g,
         g \in Rendering!Enabled \/ exit.kind # "group-default"
  PROVE  \/ Rendering!ExitName(exit, g, Rendering!Rendered) \in eligible \cup Rendering!Builtins
         \/ /\ Rendering!ExitName(exit, g, Rendering!Rendered) \in Present
            /\ Rendering!Rendered[Rendering!ExitName(exit, g, Rendering!Rendered)].exit # "reject"
<1>1. PICK name : name = Rendering!ExitName(exit, g, Rendering!Rendered)
  OBVIOUS
<1>2. ASSUME NEW h \in Rendering!Enabled
      PROVE  \/ Rendering!Rendered[h].exit \in Rendering!Builtins
             \/ (Rendering!Rendered[h].exit \in Present /\ Rendering!Rendered[Rendering!Rendered[h].exit].exit # "reject")
  <2>1. h \in Groups
    BY DEF Rendering!Enabled
  <2>2. /\ Rendering!Rendered[h].exit \in {h, "reject"}
        /\ (Rendering!Rendered[h].exit # "reject" => Rendering!Rendered[h].candidates # <<>>)
    BY <2>1, GroupIs
  <2>3. "reject" \in Rendering!Builtins
    BY DEF Rendering!Builtins
  <2>4. CASE Rendering!Rendered[h].exit = "reject"
    BY <2>3, <2>4
  <2>5. CASE Rendering!Rendered[h].exit # "reject"
    <3>1. Rendering!Rendered[h].exit = h /\ h \in Present
      BY <2>2, <2>5 DEF Present
    <3> QED
      BY <2>5, <3>1
  <2> QED
    BY <2>4, <2>5
<1>3. CASE exit.kind = "direct"
  <2>1. name = "direct"
    BY <1>1, <1>3 DEF Rendering!ExitName
  <2> QED
    BY <1>1, <2>1 DEF Rendering!Builtins
<1>4. CASE exit.kind = "reject"
  <2>1. name = "reject"
    BY <1>1, <1>4 DEF Rendering!ExitName
  <2> QED
    BY <1>1, <2>1 DEF Rendering!Builtins
<1>5. CASE exit.kind = "node"
  <2>1. name = IF exit.id \in eligible THEN exit.id ELSE "reject"
    BY <1>1, <1>5 DEF Rendering!ExitName
  <2> QED
    BY <1>1, <2>1 DEF Rendering!Builtins
<1>6. CASE exit.kind = "group"
  <2>1. name = IF exit.id \in Rendering!Enabled THEN Rendering!Rendered[exit.id].exit ELSE "reject"
    BY <1>1, <1>6 DEF Rendering!ExitName
  <2>2. CASE exit.id \in Rendering!Enabled
    BY <1>1, <1>2, <2>1, <2>2
  <2>3. CASE exit.id \notin Rendering!Enabled
    BY <1>1, <2>1, <2>3 DEF Rendering!Builtins
  <2> QED
    BY <2>2, <2>3
<1>7. CASE exit.kind = "group-default"
  <2>1. name = Rendering!Rendered[g].exit
    BY <1>1, <1>7 DEF Rendering!ExitName
  <2> QED
    BY <1>1, <1>2, <1>7, <2>1
<1>8. exit.kind \in {"direct", "reject", "node", "group", "group-default"}
  BY DEF Rendering!Exits, Rendering!Builtins
<1> QED
  BY <1>3, <1>4, <1>5, <1>6, <1>7, <1>8

\* The rules are those of the enabled groups.
LEMMA RuleOrderIs ==
  ASSUME DraftsAssumption, draft \in Drafts
  PROVE  /\ Cardinality(Rendering!Enabled) \in Nat
         /\ \A i \in 1 .. Cardinality(Rendering!Enabled) : Rendering!RuleOrder[i] \in Rendering!Enabled
<1>1. PICK E : E = Rendering!Enabled
  OBVIOUS
<1>2. IsFiniteSet(E)
  BY <1>1, DraftTypes, FS_Subset DEF DraftsAssumption
<1>3. PICK N \in Nat : N = Cardinality(E) /\ N = Rendering!Cardinality(E)
  BY <1>2, RenderCardinality, FS_CardinalityType
<1>4. PICK p : p = [g \in Groups |-> draft.groups[g].place]
  OBVIOUS
<1>5. \A g \in E : p[g] \in Nat /\ p[g] = draft.groups[g].place
  BY <1>1, <1>4, DraftTypes
<1>6. PICK o : Enumerates(o, E) /\ Ordered(o, p, E)
  BY <1>2, <1>5, OrderedExists
<1>7. /\ o \in [1 .. N -> E] /\ Rendering!IsInjective(o)
      /\ \A i, j \in DOMAIN o : i < j => draft.groups[o[i]].place <= draft.groups[o[j]].place
  <2>1. o \in [1 .. N -> E] /\ Rendering!IsInjective(o)
    BY <1>3, <1>6 DEF Enumerates, Rendering!IsInjective
  <2>2. \A i \in DOMAIN o : o[i] \in E
    BY <2>1
  <2>3. \A i, j \in DOMAIN o : i < j => p[o[i]] <= p[o[j]]
    BY <1>3, <1>6, <2>1 DEF Ordered
  <2> QED
    BY <1>5, <2>1, <2>2, <2>3
<1>8. Rendering!RuleOrder \in [1 .. N -> E]
  BY <1>1, <1>3, <1>7 DEF Rendering!RuleOrder
<1> QED
  BY <1>1, <1>3, <1>8

\* The groups that are shown are the present ones.
LEMMA PresentIs ==
  ASSUME DraftsAssumption, draft \in Drafts
  PROVE  /\ Present \subseteq Groups /\ Cardinality(Present) \in Nat
         /\ \A i \in 1 .. Cardinality(Present) : Rendering!SetToSeq(Present)[i] \in Present
         /\ \A g \in Present : \E i \in 1 .. Cardinality(Present) : Rendering!SetToSeq(Present)[i] = g
<1>1. Present \subseteq Groups
  BY DraftTypes DEF Present
<1>2. PICK P : P = Present
  OBVIOUS
<1>3. IsFiniteSet(P)
  BY <1>1, <1>2, FS_Subset DEF DraftsAssumption
<1>4. PICK N \in Nat : N = Cardinality(P) /\ N = Rendering!Cardinality(P)
  BY <1>3, RenderCardinality, FS_CardinalityType
<1>5. PICK o : Enumerates(o, P)
  BY <1>3, EnumerationExists
<1>6. o \in [1 .. N -> P] /\ Rendering!IsInjective(o)
  BY <1>4, <1>5 DEF Enumerates, Rendering!IsInjective
<1>7. Rendering!SetToSeq(P) \in [1 .. N -> P] /\ Rendering!IsInjective(Rendering!SetToSeq(P))
  BY <1>4, <1>6 DEF Rendering!SetToSeq
<1>8. PICK q : q = Rendering!SetToSeq(P)
  OBVIOUS
<1>9. \A g \in P : \E i \in 1 .. N : Rendering!SetToSeq(P)[i] = g
  <2>1. Enumerates(q, P)
    BY <1>4, <1>7, <1>8 DEF Enumerates, Rendering!IsInjective
  <2>2. \A g \in P : \E i \in 1 .. Cardinality(P) : q[i] = g
    BY <1>3, <2>1, EnumerationCovers
  <2> QED
    BY <1>4, <1>8, <2>2
<1>10. \A i \in 1 .. N : Rendering!SetToSeq(P)[i] \in P
  BY <1>7
<1> QED
  BY <1>1, <1>2, <1>4, <1>9, <1>10

\* What is in a document.
LEMMA DocumentIs ==
  ASSUME DraftsAssumption, draft \in Drafts, eligible \subseteq Outbounds, Rendering!PolicyValid, document = Rendering!Document
  PROVE  /\ document.nodes = eligible
         /\ document.groups \in Seq([id : Groups, candidates : Seq(Rendering!Target)])
         /\ \A i \in DOMAIN document.groups :
              document.groups[i].id \in Present /\ document.groups[i].candidates = Rendering!Rendered[document.groups[i].id].candidates
         /\ \A g \in Present : \E i \in DOMAIN document.groups : document.groups[i].id = g
         /\ document.rules \in Seq(Rendering!Target) /\ document.final \in Rendering!Target
         /\ \A x \in Rendering!ToSet(document.rules) \cup {document.final} :
              x \in eligible \cup Rendering!Builtins \/ (x \in Present /\ Rendering!Rendered[x].exit # "reject")
<1>1. Rendering!ReferencesValid
  BY DEF Rendering!PolicyValid
<1>2. PICK n \in Nat : n = Cardinality(Present) /\ n = Rendering!Cardinality(Present)
  BY RenderCardinality, PresentIs
<1>3. PICK e \in Nat : e = Cardinality(Rendering!Enabled) /\ e = Rendering!Cardinality(Rendering!Enabled)
  BY RenderCardinality, RuleOrderIs
<1>4. PICK q : q = Rendering!SetToSeq(Present)
  OBVIOUS
<1>5. PICK o : o = Rendering!RuleOrder
  OBVIOUS
<1>6. PICK r : r = Rendering!Rendered
  OBVIOUS
<1>7. /\ document.nodes = eligible
      /\ document.groups = [i \in 1 .. n |-> [id |-> q[i], candidates |-> r[q[i]].candidates]]
      /\ document.rules = [i \in 1 .. e |-> Rendering!ExitName(draft.groups[o[i]].rule, o[i], r)]
      /\ document.final = Rendering!ExitName(draft.exit, "none", r)
  BY <1>2, <1>3, <1>4, <1>5, <1>6 DEF Rendering!Document, Present
<1>8. /\ Present \subseteq Groups /\ \A i \in 1 .. n : q[i] \in Present
      /\ \A g \in Present : \E i \in 1 .. n : q[i] = g
  BY <1>2, <1>4, PresentIs
<1>9. \A i \in 1 .. e : o[i] \in Rendering!Enabled
  BY <1>3, <1>5, RuleOrderIs
<1>10. \A g \in Present : r[g].candidates \in Seq(Rendering!Target)
  BY <1>1, <1>6, <1>8, GroupIs
<1>11. document.groups \in Seq([id : Groups, candidates : Seq(Rendering!Target)])
  <2>1. \A i \in 1 .. n : [id |-> q[i], candidates |-> r[q[i]].candidates] \in [id : Groups, candidates : Seq(Rendering!Target)]
    BY <1>8, <1>10
  <2>2. PICK X : X = [id : Groups, candidates : Seq(Rendering!Target)]
    OBVIOUS
  <2>3. document.groups \in [1 .. n -> X]
    BY <1>7, <2>1, <2>2
  <2>4. document.groups \in Seq(X)
    BY ONLY n \in Nat, <2>3
  <2> QED
    BY <2>2, <2>4
<1>12. /\ DOMAIN document.groups = 1 .. n
       /\ \A i \in 1 .. n : document.groups[i].id = q[i] /\ document.groups[i].candidates = r[q[i]].candidates
  BY <1>7
<1>13. \A x \in eligible \cup Rendering!Builtins \cup Present : x \in Rendering!Target
  BY <1>8 DEF Rendering!Target
<1>14. ASSUME NEW i \in 1 .. e
       PROVE  \/ document.rules[i] \in eligible \cup Rendering!Builtins
              \/ (document.rules[i] \in Present /\ Rendering!Rendered[document.rules[i]].exit # "reject")
  <2>1. PICK g \in Rendering!Enabled : g = o[i]
    BY <1>9
  <2>2. PICK x \in Rendering!Exits : x = draft.groups[g].rule
    BY DraftTypes DEF Rendering!Enabled
  <2>3. document.rules[i] = Rendering!ExitName(x, g, Rendering!Rendered)
    BY <1>6, <1>7, <2>1, <2>2
  <2> QED
    BY <1>1, <2>3, NameIs
<1>15. \/ document.final \in eligible \cup Rendering!Builtins
       \/ (document.final \in Present /\ Rendering!Rendered[document.final].exit # "reject")
  <2>1. PICK x \in Rendering!Exits : x = draft.exit
    BY DraftTypes
  <2>2. x.kind # "group-default"
    BY <2>1 DEF Rendering!PolicyValid, Rendering!ExitValid
  <2>3. document.final = Rendering!ExitName(x, "none", Rendering!Rendered)
    BY <1>6, <1>7, <2>1
  <2> QED
    BY <1>1, <2>2, <2>3, NameIs
<1>16. DOMAIN document.rules = 1 .. e
  BY <1>7
<1>17. document.rules \in Seq(Rendering!Target)
  <2>1. \A i \in 1 .. e : document.rules[i] \in Rendering!Target
    BY <1>13, <1>14
  <2>2. document.rules = [i \in 1 .. e |-> document.rules[i]]
    BY <1>7
  <2>3. document.rules \in [1 .. e -> Rendering!Target]
    BY <2>1, <2>2
  <2> QED
    BY <2>3
<1>18. document.final \in Rendering!Target
  BY <1>13, <1>15
<1>19. \A x \in Rendering!ToSet(document.rules) \cup {document.final} :
          x \in eligible \cup Rendering!Builtins \/ (x \in Present /\ Rendering!Rendered[x].exit # "reject")
  <2>1. Rendering!ToSet(document.rules) = {document.rules[i] : i \in 1 .. e}
    BY <1>16 DEF Rendering!ToSet
  <2> QED
    BY <1>14, <1>15, <2>1
<1>20. \A i \in DOMAIN document.groups :
          document.groups[i].id \in Present /\ document.groups[i].candidates = Rendering!Rendered[document.groups[i].id].candidates
  BY <1>6, <1>8, <1>12
<1>21. \A g \in Present : \E i \in DOMAIN document.groups : document.groups[i].id = g
  BY <1>8, <1>12
<1> QED
  BY <1>7, <1>11, <1>17, <1>18, <1>19, <1>20, <1>21

\* The nodes that a document has to have.
Sound ==
  {n \in Rendering!Chosen : IF draft.format = "sing-box"
                    THEN NoDetour \in Rendering!Chain(n) /\ Rendering!Chain(n) \ {NoDetour} \subseteq Rendering!Chosen \cap draft.remote
                    ELSE n \in draft.remote /\ draft.detour[n] = NoDetour}

\* A document is closed.
LEMMA ClosedDocument ==
  ASSUME DraftsAssumption, draft \in Drafts, eligible = Sound, Rendering!PolicyValid, document = Rendering!Document
  PROVE  Rendering!DocumentIsClosed
<1>1. eligible \subseteq Outbounds
  BY DraftTypes DEF Sound
<1>2. /\ document.nodes = eligible
      /\ \A i \in DOMAIN document.groups :
           document.groups[i].id \in Present /\ document.groups[i].candidates = Rendering!Rendered[document.groups[i].id].candidates
      /\ \A g \in Present : \E i \in DOMAIN document.groups : document.groups[i].id = g
      /\ \A x \in Rendering!ToSet(document.rules) \cup {document.final} :
           x \in eligible \cup Rendering!Builtins \/ (x \in Present /\ Rendering!Rendered[x].exit # "reject")
  BY <1>1, DocumentIs
<1>3. PICK names : names = {document.groups[i].id : i \in DOMAIN document.groups}
  OBVIOUS
<1>4. names = Present
  BY <1>2, <1>3
<1>5. PICK known : known = document.nodes \cup names \cup Rendering!Builtins
  OBVIOUS
<1>6. Rendering!ToSet(document.rules) \cup {document.final} \subseteq known
  BY <1>2, <1>4, <1>5
<1>7. ASSUME NEW i \in DOMAIN document.groups PROVE Rendering!ToSet(document.groups[i].candidates) \subseteq known
  <2>1. PICK g \in Present : g = document.groups[i].id
    BY <1>2
  <2>2. g \in Groups /\ Rendering!ReferencesValid
    BY PresentIs DEF Rendering!PolicyValid
  <2>3. ASSUME NEW x \in Rendering!ToSet(Rendering!Rendered[g].candidates) PROVE x \in known
    <3>1. x \in eligible \cup Rendering!Builtins \/ (x \in Rendering!Enabled /\ Rendering!Rendered[x].exit # "reject")
      BY <2>2, GroupIs
    <3>2. ASSUME x \in Rendering!Enabled, Rendering!Rendered[x].exit # "reject" PROVE x \in Present
      <4>1. x \in Groups
        BY <3>2 DEF Rendering!Enabled
      <4> QED
        BY <2>2, <3>2, <4>1, GroupIs DEF Present
    <3> QED
      BY <1>2, <1>4, <1>5, <3>1, <3>2
  <2> QED
    BY <1>2, <2>1, <2>3
<1>8. document.nodes = Sound
  BY <1>2
<1> QED
  BY <1>3, <1>5, <1>6, <1>7, <1>8 DEF Rendering!DocumentIsClosed, Sound

\* Where the walk over selected groups may come to.
Fitting == {x \in Rendering!Target : /\ x \in Groups => x \in Rendering!Enabled /\ Rendering!Rendered[x].exit # "reject"
                                     /\ x \in Outbounds => x \in eligible}

\* From a group with a way out the groups that are selected by default lead to nothing else.
LEMMA LandsIs ==
  ASSUME DraftsAssumption, draft \in Drafts, Rendering!ReferencesValid, eligible \subseteq Outbounds, NEW g \in Fitting
  PROVE  Rendering!Lands(g) \subseteq Fitting
<1>1. PICK N \in Nat : N = Cardinality(Groups) /\ N = Rendering!Cardinality(Groups)
  BY RenderCardinality, FS_CardinalityType DEF DraftsAssumption
<1>2. PICK A : A = Fitting
  OBVIOUS
<1> DEFINE Onto(x) == IF x \in Groups THEN Rendering!Default[x] ELSE x
           F(w) == [i \in 0 .. N |-> IF i = 0 THEN g ELSE Onto(w[i - 1])]
<1>3. ASSUME NEW x \in A PROVE Onto(x) \in A
  <2>1. CASE x \in Groups /\ draft.groups[x].type = "select"
    <3>1. Onto(x) = Rendering!Order(x)[1]
      BY <2>1 DEF Rendering!Default
    <3>2. Rendering!Rendered[x].exit # "reject"
      BY <1>2, <2>1 DEF Fitting
    <3>3. PICK y : y = Rendering!Order(x)[1]
      OBVIOUS
    <3>4. y \in eligible \cup Rendering!Builtins \/ (y \in Rendering!Enabled /\ Rendering!Rendered[y].exit # "reject")
      BY <2>1, <3>2, <3>3, GroupIs
    <3>5. y \in Fitting
      BY <3>4 DEF Fitting, Rendering!Target, DraftsAssumption, Rendering!Enabled
    <3> QED
      BY <1>2, <3>1, <3>3, <3>5
  <2>2. CASE ~(x \in Groups /\ draft.groups[x].type = "select")
    <3>1. Onto(x) = x
      BY <2>2 DEF Rendering!Default
    <3> QED
      BY <3>1
  <2> QED
    BY <2>1, <2>2
<1>4. PICK t \in [Nat -> [A -> A]] : \A i \in Nat : \A x \in A : t[i][x] = Onto(x)
  <2> DEFINE t == [i \in Nat |-> [x \in A |-> Onto(x)]]
  <2>1. t \in [Nat -> [A -> A]]
    BY <1>3
  <2>2. \A i \in Nat : \A x \in A : t[i][x] = Onto(x)
    OBVIOUS
  <2> HIDE DEF t, Onto
  <2> QED
    BY <2>1, <2>2
<1>5. PICK a \in A : a = g
  BY <1>2
<1>6. PICK v \in [0 .. N -> A] : Iterates(v, a, t, N)
  BY <1>4, <1>5, Iteration
<1>7. v[0] = g /\ \A i \in 1 .. N : v[i] = Onto(v[i - 1])
  <2>1. \A i \in 1 .. N : v[i] = t[i][v[i - 1]] /\ v[i - 1] \in A /\ i \in Nat
    BY <1>6 DEF Iterates
  <2> HIDE DEF Onto
  <2> QED
    BY <1>4, <1>5, <1>6, <2>1 DEF Iterates
<1>8. v = F(v)
  <2>1. ASSUME NEW i \in 0 .. N PROVE v[i] = F(v)[i]
    <3>1. CASE i = 0
      BY <1>7, <3>1
    <3>2. CASE i # 0
      <4>1. i \in 1 .. N
        BY <3>2
      <4> HIDE DEF Onto
      <4> QED
        BY <1>7, <3>2, <4>1
    <3> QED
      BY <3>1, <3>2
  <2>2. v = [i \in 0 .. N |-> v[i]]
    OBVIOUS
  <2> QED
    BY <2>1, <2>2
<1>9. Rendering!Lands(g) = {(CHOOSE w : w = F(w))[i] : i \in DOMAIN (CHOOSE w : w = F(w))}
  BY <1>1 DEF Rendering!Lands
<1>10. PICK w : w = F(w) /\ Rendering!Lands(g) = {w[i] : i \in DOMAIN w}
  <2>1. (CHOOSE w : w = F(w)) = F(CHOOSE w : w = F(w))
    BY <1>8
  <2> HIDE DEF F
  <2> QED
    BY <1>9, <2>1
<1>11. Agree(v, w, N)
  <2>1. v[0] = w[0]
    BY <1>7, <1>10
  <2>2. ASSUME NEW i \in 1 .. N, v[i - 1] = w[i - 1] PROVE v[i] = w[i]
    <3>1. F(v)[i] = Onto(v[i - 1]) /\ F(w)[i] = Onto(w[i - 1])
      OBVIOUS
    <3>2. v[i] = F(v)[i] /\ w[i] = F(w)[i]
      <4> HIDE DEF F
      <4> QED
        BY <1>8, <1>10
    <3> HIDE DEF F, Onto
    <3> QED
      BY <2>2, <3>1, <3>2
  <2> HIDE DEF F
  <2> QED
    BY <2>1, <2>2, Agreement
<1>12. DOMAIN w = 0 .. N
  <2>1. DOMAIN F(w) = 0 .. N
    OBVIOUS
  <2> HIDE DEF F
  <2> QED
    BY <1>10, <2>1
<1>13. \A i \in DOMAIN w : w[i] \in A
  BY <1>11, <1>12 DEF Agree
<1> QED
  BY <1>2, <1>10, <1>13

\* Its exits fail closed.
LEMMA ClosedExits ==
  ASSUME DraftsAssumption, draft \in Drafts, eligible = Sound, Rendering!PolicyValid, document = Rendering!Document
  PROVE  Rendering!ExitsFailClosed
<1>1. eligible \subseteq Outbounds /\ Rendering!ReferencesValid
  BY DraftTypes DEF Sound, Rendering!PolicyValid
<1>2. /\ document.nodes = eligible
      /\ \A i \in DOMAIN document.groups :
           document.groups[i].id \in Present /\ document.groups[i].candidates = Rendering!Rendered[document.groups[i].id].candidates
      /\ \A g \in Present : \E i \in DOMAIN document.groups : document.groups[i].id = g
      /\ \A x \in Rendering!ToSet(document.rules) \cup {document.final} :
           x \in eligible \cup Rendering!Builtins \/ (x \in Present /\ Rendering!Rendered[x].exit # "reject")
  BY <1>1, DocumentIs
<1>3. PICK list : list = [i \in DOMAIN document.groups |-> document.groups[i]]
  OBVIOUS
<1>4. DOMAIN list = DOMAIN document.groups /\ \A i \in DOMAIN list : list[i] = document.groups[i]
  BY <1>3
<1>5. ASSUME NEW g \in (Rendering!ToSet(document.rules) \cup {document.final}) \cap Groups, NEW x \in Rendering!Lands(g)
      PROVE  /\ x \in Groups => \E i \in DOMAIN list : list[i].id = x
                   /\ (draft.groups[x].type = "select" => list[i].candidates[1] = Rendering!Order(x)[1])
             /\ x \in Outbounds => x \in document.nodes
  <2>1. g \in Groups /\ g \notin eligible \cup Rendering!Builtins
    BY <1>1 DEF DraftsAssumption
  <2>2. g \in Present /\ Rendering!Rendered[g].exit # "reject"
    BY <1>2, <2>1
  <2>3. g \in Fitting
    BY <2>1, <2>2 DEF Fitting, Present, Rendering!Target, DraftsAssumption
  <2>4. x \in Fitting
    BY <1>1, <2>3, LandsIs
  <2>5. ASSUME x \in Groups
        PROVE  \E i \in DOMAIN list : list[i].id = x
                 /\ (draft.groups[x].type = "select" => list[i].candidates[1] = Rendering!Order(x)[1])
    <3>1. x \in Rendering!Enabled /\ Rendering!Rendered[x].exit # "reject"
      BY <2>4, <2>5 DEF Fitting
    <3>2. /\ Rendering!Rendered[x].candidates # <<>>
          /\ draft.groups[x].type = "select" => Rendering!Rendered[x].candidates[1] = Rendering!Order(x)[1]
      BY <1>1, <2>5, <3>1, GroupIs
    <3>3. PICK i \in DOMAIN document.groups : document.groups[i].id = x
      BY <1>2, <3>1, <3>2 DEF Present
    <3>4. document.groups[i].candidates = Rendering!Rendered[x].candidates
      BY <1>2, <3>3
    <3> QED
      BY <1>4, <3>2, <3>3, <3>4
  <2>6. x \in Outbounds => x \in document.nodes
    BY <1>2, <2>4 DEF Fitting
  <2> QED
    BY <2>5, <2>6
<1> QED
  BY <1>3, <1>5 DEF Rendering!ExitsFailClosed

-----------------------------------------------------------------------------
(* The steps of a rendering *)

\* What holds at each step of a rendering.
RenderInvariant ==
  /\ draft \in Drafts /\ eligible \subseteq Outbounds /\ resolved \subseteq Outbounds
  /\ step \in {"draft", "valid", "resolving", "ready", "done", "refused"}
  /\ step \in {"valid", "resolving", "ready", "done"} => Rendering!PolicyValid
  /\ step = "resolving" => IF draft.format = "sing-box" THEN Sorted(resolved, eligible)
                           ELSE eligible = Sound /\ resolved = Rendering!Chosen
  /\ step \in {"ready", "done"} => eligible = Sound
  /\ document = IF step = "done" THEN Rendering!Document ELSE Rendering!NoDocument

\* All that is said of them depends on the draft and the nodes that are eligible.
LEMMA DraftStays ==
  ASSUME draft' = draft
  PROVE  /\ Rendering!PolicyValid' = Rendering!PolicyValid /\ Rendering!Chosen' = Rendering!Chosen
         /\ Start' = Start /\ Sound' = Sound
         /\ \A n : Whole(n)' = Whole(n)
<1>1. \A n : Rendering!Chain(n)' = Rendering!Chain(n)
  BY DEF Rendering!Chain
<1>2. Rendering!Chosen' = Rendering!Chosen
  BY DEF Rendering!Chosen, Rendering!Selectable
<1>3. Rendering!PolicyValid' = Rendering!PolicyValid
  BY DEF Rendering!PolicyValid, Rendering!OptionsValid, Rendering!NodeIDs, Rendering!Selectable,
     Rendering!ExitValid, Rendering!ReferencesValid, Rendering!Reached, Rendering!GroupIDs,
     Rendering!BuiltinNodes, Rendering!Order, Rendering!Enabled
<1>4. There' = There
  BY <1>2 DEF There
<1>5. Start' = Start
  BY <1>2, <1>4 DEF Start, Rendering!Unresolved
<1>6. Sound' = Sound
  BY <1>1, <1>2 DEF Sound
<1>7. \A n : Whole(n)' = Whole(n)
  BY <1>1, <1>4 DEF Whole
<1> QED
  BY <1>2, <1>3, <1>5, <1>6, <1>7

\* So does the document.
LEMMA DocumentStays ==
  ASSUME draft' = draft, eligible' = eligible
  PROVE  Rendering!Document' = Rendering!Document
<1>1. Rendering!Rendered' = Rendering!Rendered
  BY DEF Rendering!Rendered, Rendering!Order, Rendering!Enabled, Rendering!GroupExit
<1>2. Rendering!RuleOrder' = Rendering!RuleOrder
  BY DEF Rendering!RuleOrder, Rendering!Enabled
<1> QED
  BY <1>1, <1>2 DEF Rendering!Document, Rendering!Enabled, Rendering!ExitName

\* The invariant of a rendering holds at first,
LEMMA RenderingInit ==
  ASSUME DraftsAssumption, Rendering!Init
  PROVE  RenderInvariant
BY DEF Rendering!Init, RenderInvariant

\* is kept by every step,
LEMMA RenderingStep ==
  ASSUME DraftsAssumption, RenderInvariant, [Rendering!Next]_(Rendering!renderVars)
  PROVE  RenderInvariant'
<1>1. draft' = draft
  BY DEF Rendering!Next, Rendering!renderVars, Rendering!Validate, Rendering!Prepare,
     Rendering!Resolve, Rendering!Resolved, Rendering!Render
<1>2. /\ Rendering!PolicyValid' = Rendering!PolicyValid /\ Rendering!Chosen' = Rendering!Chosen
      /\ Start' = Start /\ Sound' = Sound
      /\ \A n : Whole(n)' = Whole(n)
  BY <1>1, DraftStays
<1>3. Rendering!Chosen \subseteq Outbounds
  BY DraftTypes DEF RenderInvariant
<1>4. CASE Rendering!Validate
  BY <1>1, <1>2, <1>4 DEF Rendering!Validate, RenderInvariant
<1>5. CASE Rendering!Prepare
  <2>1. /\ step = "valid" /\ step' = "resolving" /\ document' = document /\ Rendering!PolicyValid
        /\ draft \in Drafts /\ document = Rendering!NoDocument
    BY <1>5 DEF Rendering!Prepare, RenderInvariant
  <2>2. CASE draft.format = "sing-box"
    <3>1. eligible' = Start /\ resolved' = {}
      BY <1>5, <2>2 DEF Rendering!Prepare, Start, There
    <3>2. Start \subseteq Outbounds
      BY <1>3 DEF Start, There
    <3>3. Sorted(resolved, eligible)'
      BY <1>2, <3>1 DEF Sorted
    <3> QED
      BY <1>1, <1>2, <2>1, <2>2, <3>1, <3>2, <3>3 DEF RenderInvariant
  <2>3. CASE draft.format # "sing-box"
    <3>1. eligible' = Sound /\ resolved' = Rendering!Chosen
      BY <1>5, <2>3 DEF Rendering!Prepare, Sound
    <3>2. Sound \subseteq Outbounds
      BY <1>3 DEF Sound
    <3> QED
      BY <1>1, <1>2, <1>3, <2>1, <2>3, <3>1, <3>2 DEF RenderInvariant
  <2> QED
    BY <2>2, <2>3
<1>6. ASSUME NEW n \in Outbounds, Rendering!Resolve(n) PROVE RenderInvariant'
  <2>1. /\ step = "resolving" /\ step' = step /\ document' = document /\ Rendering!PolicyValid
        /\ draft \in Drafts /\ document = Rendering!NoDocument /\ n \notin resolved
        /\ n \in Rendering!Chosen
    BY <1>6 DEF Rendering!Resolve, RenderInvariant
  <2>2. draft.format = "sing-box" /\ Sorted(resolved, eligible)
    BY <2>1 DEF RenderInvariant
  <2>3. PICK r, e : r = resolved' /\ e = eligible'
    OBVIOUS
  <2>4. Sorted(r, e)
    BY <1>6, <2>1, <2>2, <2>3, ResolveSorts
  <2>5. Sorted(resolved, eligible)'
    BY <1>2, <2>3, <2>4 DEF Sorted
  <2>6. eligible' \subseteq Outbounds /\ resolved' \subseteq Outbounds
    BY <1>3, <2>3, <2>4 DEF Sorted, Start, There
  <2> QED
    BY <1>1, <1>2, <2>1, <2>2, <2>5, <2>6 DEF RenderInvariant
<1>7. CASE Rendering!Resolved
  <2>1. /\ step = "resolving" /\ step' \in {"ready", "refused"} /\ document' = document
        /\ Rendering!PolicyValid
        /\ draft \in Drafts /\ document = Rendering!NoDocument /\ Rendering!Chosen \subseteq resolved
        /\ eligible' = eligible /\ resolved' = resolved /\ eligible \subseteq Outbounds
        /\ resolved \subseteq Outbounds
    BY <1>7 DEF Rendering!Resolved, RenderInvariant
  <2>2. eligible = Sound
    <3>1. CASE draft.format = "sing-box"
      <4>1. Sorted(resolved, eligible)
        BY <2>1, <3>1 DEF RenderInvariant
      <4>2. Sound = {n \in Rendering!Chosen : Whole(n)}
        BY <3>1 DEF Sound, Whole, There
      <4>3. \A n \in eligible : n \in Rendering!Chosen /\ Whole(n)
        BY <2>1, <4>1 DEF Sorted, Start, There
      <4>4. \A n \in Rendering!Chosen : Whole(n) => n \in eligible
        <5>1. \A n \in Rendering!Chosen : Whole(n) => n \in Start
          BY <1>3, <2>1, WholeIs DEF Start
        <5> QED
          BY <4>1, <5>1 DEF Sorted
      <4> QED
        BY <4>2, <4>3, <4>4
    <3>2. CASE draft.format # "sing-box"
      BY <2>1, <3>2 DEF RenderInvariant
    <3> QED
      BY <3>1, <3>2
  <2> QED
    BY <1>1, <1>2, <2>1, <2>2 DEF RenderInvariant
<1>8. CASE Rendering!Render
  <2>1. /\ step = "ready" /\ step' = "done" /\ document' = Rendering!Document
        /\ Rendering!PolicyValid /\ draft \in Drafts
        /\ eligible' = eligible /\ resolved' = resolved /\ eligible = Sound
        /\ eligible \subseteq Outbounds
        /\ resolved \subseteq Outbounds
    BY <1>8 DEF Rendering!Render, RenderInvariant
  <2>2. Rendering!Document' = Rendering!Document
    BY <1>1, <2>1, DocumentStays
  <2> QED
    BY <1>1, <1>2, <2>1, <2>2 DEF RenderInvariant
<1>9. CASE UNCHANGED Rendering!renderVars
  <2>1. /\ step' = step /\ eligible' = eligible /\ resolved' = resolved /\ document' = document
    BY <1>9 DEF Rendering!renderVars
  <2>2. Rendering!Document' = Rendering!Document
    BY <1>1, <2>1, DocumentStays
  <2>3. Sorted(resolved, eligible)' = Sorted(resolved, eligible)
    BY <1>2, <2>1 DEF Sorted
  <2> QED
    BY <1>1, <1>2, <2>1, <2>2, <2>3 DEF RenderInvariant
<1> QED
  BY <1>4, <1>5, <1>6, <1>7, <1>8, <1>9 DEF Rendering!Next

\* and says what a document is.
LEMMA RenderingShows ==
  ASSUME DraftsAssumption, RenderInvariant
  PROVE  Rendering!TypeOK /\ Rendering!DocumentIsClosed /\ Rendering!ExitsFailClosed
<1>1. CASE step = "done"
  <2>1. /\ draft \in Drafts /\ eligible = Sound /\ Rendering!PolicyValid
        /\ document = Rendering!Document /\ eligible \subseteq Outbounds
    BY <1>1 DEF RenderInvariant
  <2>2. Rendering!DocumentIsClosed /\ Rendering!ExitsFailClosed
    BY <2>1, ClosedDocument, ClosedExits
  <2>3. Rendering!TypeOK
    <3>1. /\ document.nodes = eligible
          /\ document.groups \in Seq([id : Groups, candidates : Seq(Rendering!Target)])
          /\ document.rules \in Seq(Rendering!Target) /\ document.final \in Rendering!Target
      BY <2>1, DocumentIs
    <3> QED
      BY <1>1, <2>1, <3>1 DEF Rendering!TypeOK, RenderInvariant
  <2> QED
    BY <2>2, <2>3
<1>2. CASE step # "done"
  <2>1. document = Rendering!NoDocument
    BY <1>2 DEF RenderInvariant
  <2>2. /\ document.nodes = {} /\ document.groups = <<>> /\ document.rules = <<>>
        /\ document.final = "reject"
    BY <2>1 DEF Rendering!NoDocument
  <2>3. Rendering!TypeOK
    <3>1. <<>> \in Seq(Rendering!Target) /\ "reject" \in Rendering!Target
      BY DEF Rendering!Target, Rendering!Builtins
    <3>2. PICK X : X = [id : Groups, candidates : Seq(Rendering!Target)]
      OBVIOUS
    <3>3. <<>> \in Seq(X)
      OBVIOUS
    <3> QED
      BY <2>2, <3>1, <3>2, <3>3 DEF Rendering!TypeOK, RenderInvariant
  <2>4. Rendering!DocumentIsClosed /\ Rendering!ExitsFailClosed
    BY <1>2 DEF Rendering!DocumentIsClosed, Rendering!ExitsFailClosed
  <2> QED
    BY <2>3, <2>4
<1> QED
  BY <1>1, <1>2

\* MCRequests renders from a draft or leaves the rendering alone.
RequestsRender == part = "rendering" => RenderInvariant

(***************************************************************************)
(* While a channel is rendered the nodes that were walked and stay are     *)
(* those whose chain of detours is whole, in whatever order they are       *)
(* walked; a document is what the policy makes of them (renderSingBox,     *)
(* renderGroups, RenderPolicyNodes).                                       *)
(***************************************************************************)
THEOREM RenderingInvariant == Spec => []RequestsRender
<1>1. DraftsAssumption
  BY ConstantsAssumption DEF DraftsAssumption
<1>2. Init => RequestsRender
  BY <1>1, RenderingInit DEF Init, RequestsRender
<1>3. (/\ RequestsRender
       /\ [Next]_<<part, sourceVars, keyVars, nodeVars, renderVars, settingsVars, limiterVars, eventsVars, feedVars>>)
        => RequestsRender'
  <2>1. SUFFICES ASSUME RequestsRender, part' = "rendering",
                        [Next]_<<part, sourceVars, keyVars, nodeVars, renderVars, settingsVars, limiterVars, eventsVars, feedVars>>
                 PROVE  RenderInvariant'
    BY DEF RequestsRender
  <2>2. part = "rendering" /\ [Rendering!Next]_(Rendering!renderVars)
    BY <2>1 DEF Next, renderVars, Rendering!renderVars
  <2> QED
    BY <1>1, <2>1, <2>2, RenderingStep DEF RequestsRender
<1> QED
  BY <1>2, <1>3, PTL DEF Spec

(***************************************************************************)
(* A document that is rendered names only what it contains, and has        *)
(* exactly the nodes whose chain of detours is in it, for any graph of     *)
(* detours and any policy that was accepted.                               *)
(***************************************************************************)
THEOREM DocumentsAreClosed == Spec => []DocumentIsClosed
<1>1. DraftsAssumption
  BY ConstantsAssumption DEF DraftsAssumption
<1>2. RequestsRender => DocumentIsClosed
  BY <1>1, RenderingShows DEF RequestsRender, DocumentIsClosed
<1> QED
  BY <1>2, RenderingInvariant, PTL

(***************************************************************************)
(* A rule or default exit over groups ends where the policy puts it first, *)
(* or in a rejection: what is missing is not replaced by another way out.  *)
(***************************************************************************)
THEOREM ExitsAlwaysFailClosed == Spec => []ExitsFailClosed
<1>1. DraftsAssumption
  BY ConstantsAssumption DEF DraftsAssumption
<1>2. RequestsRender => ExitsFailClosed
  BY <1>1, RenderingShows DEF RequestsRender, ExitsFailClosed
<1> QED
  BY <1>2, RenderingInvariant, PTL

-----------------------------------------------------------------------------
(* Events in pages and in a stream. Identifiers are unique among the rows that are     *)
(* there, so the order places any two of them, and the last row of a page parts what   *)
(* has been shown from what has not. A row that is deleted may come back as another    *)
(* with its identifier and instant: it is then new to a list and behind a stream.      *)

Walks ==
  [listing : {"none", "logs", "transitions", "panel"}, source : LogSources \cup {AnySource},
   until : 0 .. Events!Never, cursor : Seq(Events!Rows), seen : Seq(Events!Rows),
   begun : SUBSET Events!Rows, more : BOOLEAN]
Streams ==
  [open : BOOLEAN, since : 0 .. Events!Never, after : Seq(Events!Rows), got : Seq(Events!Rows)]

EventTypes ==
  /\ eventClock \in 0 .. MaxEventTime /\ eventRows \subseteq Events!Rows /\ IsFiniteSet(eventRows)
  /\ recording \in [Recorders -> Events!Rows \cup {NoEntry}] /\ added \in 0 .. MaxRows
  /\ walk \in Walks /\ stream \in Streams

\* No two rows have the identifier of one, those under way included.
Distinct(S) == \A r, s \in S : r.table = s.table /\ r.id = s.id => r = s
RuntimeRows == {r \in eventRows : r.table = "runtime"}
IdsInv ==
  /\ Distinct(eventRows)
  /\ \A r \in RuntimeRows : r.id <= Cardinality(RuntimeRows)
  /\ \A p \in Recorders : recording[p] # NoEntry =>
       /\ recording[p].table = "log"
       /\ \A r \in eventRows : r.table = "log" => r.id # recording[p].id
       /\ \A q \in Recorders \ {p} : recording[q] # NoEntry => recording[q].id # recording[p].id

Falling(s) == \A i, j \in DOMAIN s : i < j => Events!Before(s[j], s[i])
Climbing(s) == \A i, j \in DOMAIN s : i < j => Events!Before(s[i], s[j])
Shows(s, r) == \E i \in DOMAIN s : s[i] = r
End(s) == s[Len(s)]

\* What was there from the beginning and is not before the cursor has been shown.
WalkInv ==
  /\ Falling(walk.seen)
  /\ walk.cursor = IF walk.seen = <<>> THEN <<>> ELSE <<End(walk.seen)>>
  /\ walk.begun \ gone \subseteq eventRows
  /\ \A r \in walk.begun \ gone :
       Events!Matches(r, walk) /\ walk.cursor # <<>> /\ ~Events!Before(r, walk.cursor[1])
           => Shows(walk.seen, r)
  /\ walk.listing # "none" /\ ~walk.more =>
       \A r \in walk.begun \ gone : Events!Matches(r, walk) => Shows(walk.seen, r)

\* The position of the stream is the end of what was sent, or behind it when a connection broke.
StreamInv ==
  /\ Climbing(stream.got) /\ \A i \in DOMAIN stream.got : stream.got[i].table = "log"
  /\ stream.got # <<>> =>
       /\ stream.after # <<>>
       /\ End(stream.got) = stream.after[1] \/ Events!Before(End(stream.got), stream.after[1])
       /\ \A r \in eventRows \ late :
            r.table = "log" /\ Events!Before(stream.got[1], r) /\ ~Events!Before(End(stream.got), r)
              => Shows(stream.got, r)
  /\ stream.open => stream.after = IF stream.got = <<>> THEN <<>> ELSE <<End(stream.got)>>

EventsInv == EventTypes /\ IdsInv /\ WalkInv /\ StreamInv

-----------------------------------------------------------------------------
(* The order of the rows and what a page of them has *)

\* The model counts as the library does.
LEMMA EventsCount == \A S : Events!Cardinality(S) = Cardinality(S)
BY DEF Events!Cardinality, Cardinality

\* The order is strict, and rows with identifiers of their own all have a place in it.
LEMMA BeforeOrders ==
  /\ \A r \in Events!Rows : ~Events!Before(r, r)
  /\ \A r, s, t \in Events!Rows : Events!Before(r, s) /\ Events!Before(s, t) => Events!Before(r, t)
  /\ \A r, s \in Events!Rows : Events!Before(r, s) \/ Events!Before(s, r)
      \/ (r.table = s.table /\ r.id = s.id)
<1>1. \A r \in Events!Rows : r.table \in {"log", "runtime"} /\ r.at \in Int /\ r.id \in Int
  BY DEF Events!Rows, Events!Tables
<1> QED
  BY <1>1 DEF Events!Before

\* Rows with identifiers of their own can be listed from the newest to the oldest.
LEMMA FallingExists ==
  ASSUME NEW S \in SUBSET Events!Rows, IsFiniteSet(S), Distinct(S)
  PROVE  \E s \in [1 .. Events!Cardinality(S) -> S] : \A i, j \in DOMAIN s : i < j
         => s[i] # s[j] /\ ~Events!Before(s[i], s[j])
<1> DEFINE Newer(r) == {s \in S : Events!Before(r, s)}
<1>1. PICK p : p = [r \in S |-> Cardinality(Newer(r))]
  OBVIOUS
<1>2. \A r \in S : IsFiniteSet(Newer(r)) /\ p[r] = Cardinality(Newer(r)) /\ p[r] \in Nat
  BY <1>1, FS_Subset, FS_CardinalityType
<1>3. ASSUME NEW r \in S, NEW s \in S, Events!Before(r, s) PROVE p[s] < p[r]
  <2>1. Newer(s) \subseteq Newer(r) /\ s \in Newer(r) /\ s \notin Newer(s)
    BY <1>3, BeforeOrders
  <2> HIDE DEF Newer
  <2>2. Cardinality(Newer(s)) <= Cardinality(Newer(r))
          /\ Cardinality(Newer(s)) # Cardinality(Newer(r))
    BY <1>2, <2>1, FS_Subset
  <2> QED
    BY <1>2, <2>2
<1>4. PICK n \in Nat : n = Cardinality(S)
  BY FS_CardinalityType
<1>5. PICK o : Enumerates(o, S) /\ Ordered(o, p, S)
  BY <1>2, OrderedExists
<1>6. /\ o \in [1 .. n -> S]
      /\ \A i, j \in 1 .. n : o[i] = o[j] => i = j
      /\ \A i, j \in 1 .. n : i < j => p[o[i]] <= p[o[j]]
  BY <1>4, <1>5 DEF Enumerates, Ordered
<1>7. ASSUME NEW i \in 1 .. n, NEW j \in 1 .. n, i < j
             PROVE o[i] # o[j] /\ ~Events!Before(o[i], o[j])
  <2>1. o[i] \in S /\ o[j] \in S /\ o[i] # o[j] /\ p[o[i]] <= p[o[j]]
    BY <1>6, <1>7
  <2>2. p[o[i]] \in Nat /\ p[o[j]] \in Nat
    BY <1>2, <2>1
  <2>3. Events!Before(o[i], o[j]) => p[o[j]] < p[o[i]]
    BY <1>3, <2>1
  <2> QED
    BY <2>1, <2>2, <2>3
<1> QED
  BY <1>4, <1>6, <1>7, EventsCount

LEMMA NewestFirstSorts ==
  ASSUME NEW S \in SUBSET Events!Rows, IsFiniteSet(S), Distinct(S), NEW n \in Nat,
         n = Cardinality(S)
  PROVE  /\ Events!NewestFirst(S) \in [1 .. n -> S] /\ Falling(Events!NewestFirst(S))
         /\ \A r \in S : \E i \in 1 .. n : Events!NewestFirst(S)[i] = r
<1>1. PICK s : s = Events!NewestFirst(S)
  OBVIOUS
<1>2. s \in [1 .. n -> S] /\ \A i, j \in DOMAIN s : i < j
        => s[i] # s[j] /\ ~Events!Before(s[i], s[j])
  BY <1>1, FallingExists, EventsCount DEF Events!NewestFirst
<1>3. \A i, j \in 1 .. n : i < j => s[i] # s[j] /\ ~Events!Before(s[i], s[j])
  BY <1>2
<1>4. Falling(s)
  <2>1. \A i \in 1 .. n : s[i] \in S /\ s[i] \in Events!Rows
    BY <1>2
  <2>2. ASSUME NEW i \in 1 .. n, NEW j \in 1 .. n, i < j PROVE Events!Before(s[j], s[i])
    <3>1. s[i] # s[j] /\ ~Events!Before(s[i], s[j]) /\ s[i] \in S /\ s[j] \in S
      BY <1>3, <2>1, <2>2
    <3>2. ~(s[i].table = s[j].table /\ s[i].id = s[j].id)
      BY <3>1 DEF Distinct
    <3> QED
      BY <2>1, <3>1, <3>2, BeforeOrders
  <2> QED
    BY <1>2, <2>2 DEF Falling
<1>5. Enumerates(s, S)
  <2>1. \A i, j \in 1 .. n : s[i] = s[j] => i = j
    BY <1>3
  <2> QED
    BY <1>2, <2>1 DEF Enumerates
<1>6. \A r \in S : \E i \in 1 .. n : s[i] = r
  BY <1>5, EnumerationCovers
<1> QED
  BY <1>1, <1>2, <1>4, <1>6

\* A page has the newest rows: what it leaves out is older than its last row, and it
\* leaves out nothing when they are not more than the limit.
LEMMA PageOfList ==
  ASSUME NEW S \in SUBSET Events!Rows, IsFiniteSet(S), Distinct(S), NEW n \in Nat,
         n = Cardinality(S),
         NEW page, page = Events!Limit(Events!NewestFirst(S))
  PROVE  /\ page \in Seq(S) /\ Falling(page)
         /\ \A r \in S : Shows(page, r) \/ (page # <<>> /\ Events!Before(r, End(page)))
         /\ n > PageLimit \/ \A r \in S : Shows(page, r)
<1>1. PICK s : s = Events!NewestFirst(S)
  OBVIOUS
<1>2. /\ s \in [1 .. n -> S] /\ Falling(s)
      /\ \A r \in S : \E i \in 1 .. n : s[i] = r
  BY <1>1, NewestFirstSorts
<1>3. s \in Seq(S) /\ Len(s) = n
  BY <1>2
<1>4. PICK l \in Nat \ {0} : l = PageLimit
  BY EventAssumption
<1>5. PICK m \in Nat : m = IF n < l THEN n ELSE l
  BY <1>4
<1>6. page = SubSeq(s, 1, m)
  BY <1>1, <1>3, <1>4, <1>5 DEF Events!Limit
<1>7. page \in Seq(S) /\ Len(page) = m /\ \A i \in 1 .. m : page[i] = s[i]
  BY <1>3, <1>5, <1>6
<1>8. DOMAIN page = 1 .. m /\ DOMAIN s = 1 .. n
  BY <1>3, <1>7
<1>9. Falling(page)
  <2>1. ASSUME NEW i \in 1 .. m, NEW j \in 1 .. m, i < j PROVE Events!Before(page[j], page[i])
    <3>1. i \in DOMAIN s /\ j \in DOMAIN s /\ page[i] = s[i] /\ page[j] = s[j]
      BY <1>5, <1>7, <1>8
    <3> QED
      BY <1>2, <2>1, <3>1 DEF Falling
  <2> QED
    BY <1>8, <2>1 DEF Falling
<1>10. ASSUME NEW r \in S PROVE Shows(page, r)
              \/ (m < n /\ page # <<>> /\ Events!Before(r, End(page)))
  <2>1. PICK i \in 1 .. n : s[i] = r
    BY <1>2
  <2>2. CASE i <= m
    <3>1. i \in DOMAIN page /\ page[i] = r
      BY <1>7, <1>8, <2>1, <2>2
    <3> QED
      BY <3>1 DEF Shows
  <2>3. CASE m < i
    <3>1. m < n /\ m \in 1 .. n /\ m \in 1 .. m /\ m \in DOMAIN s /\ i \in DOMAIN s
      BY <1>4, <1>5, <1>8, <2>3
    <3>2. page # <<>> /\ End(page) = s[m]
      BY <1>7, <3>1 DEF End
    <3>3. Events!Before(s[i], s[m])
      BY <1>2, <2>3, <3>1 DEF Falling
    <3> QED
      BY <2>1, <3>1, <3>2, <3>3
  <2> QED
    BY <2>2, <2>3
<1>11. n > PageLimit \/ ~(m < n)
  BY <1>4, <1>5
<1> QED
  BY <1>7, <1>9, <1>10, <1>11

\* What the stream polls begins with the oldest of them.
LEMMA PageOfStream ==
  ASSUME NEW S \in SUBSET Events!Rows, IsFiniteSet(S), Distinct(S),
         NEW batch, batch = Events!Limit(Events!Reverse(Events!NewestFirst(S)))
  PROVE  /\ batch \in Seq(S) /\ Climbing(batch)
         /\ \A r \in S : Shows(batch, r) \/ (batch # <<>> /\ Events!Before(End(batch), r))
<1>0. PICK n \in Nat : n = Cardinality(S)
  BY FS_CardinalityType
<1>1. PICK s : s = Events!NewestFirst(S)
  OBVIOUS
<1>2. /\ s \in [1 .. n -> S] /\ Falling(s)
      /\ \A r \in S : \E i \in 1 .. n : s[i] = r
  BY <1>0, <1>1, NewestFirstSorts
<1>3. s \in Seq(S) /\ Len(s) = n /\ DOMAIN s = 1 .. n
  BY <1>2
<1>4. PICK l \in Nat \ {0} : l = PageLimit
  BY EventAssumption
<1>5. PICK m \in Nat : m = IF n < l THEN n ELSE l
  BY <1>4
<1>6. PICK t : t = Events!Reverse(s)
  OBVIOUS
<1>7. t = [i \in 1 .. n |-> s[(n - i) + 1]]
  BY <1>3, <1>6 DEF Events!Reverse
<1>8. t \in Seq(S) /\ Len(t) = n
  <2>1. \A i \in 1 .. n : (n - i) + 1 \in 1 .. n
    OBVIOUS
  <2>2. t \in [1 .. n -> S]
    BY <1>2, <1>7, <2>1
  <2> QED
    BY <2>2
<1>9. batch = SubSeq(t, 1, m)
  BY <1>1, <1>4, <1>5, <1>6, <1>8 DEF Events!Limit
<1>10. batch \in Seq(S) /\ Len(batch) = m /\ \A i \in 1 .. m : batch[i] = t[i]
  BY <1>5, <1>8, <1>9
<1>11. DOMAIN batch = 1 .. m
  BY <1>10
<1>12. \A i \in 1 .. m : batch[i] = s[(n - i) + 1]
  <2>1. ASSUME NEW i \in 1 .. m PROVE batch[i] = s[(n - i) + 1]
    <3>1. i \in 1 .. n
      BY <1>5
    <3>2. t[i] = s[(n - i) + 1]
      BY <1>7, <3>1
    <3> QED
      BY <1>10, <3>2
  <2> QED
    BY <2>1
<1>13. Climbing(batch)
  <2>1. ASSUME NEW i \in 1 .. m, NEW j \in 1 .. m, i < j PROVE Events!Before(batch[i], batch[j])
    <3>1. PICK a \in 1 .. n, b \in 1 .. n : a = (n - i) + 1 /\ b = (n - j) + 1
      BY <1>5
    <3>2. b < a
      BY <2>1, <3>1
    <3>3. Events!Before(s[a], s[b])
      BY <1>2, <1>3, <3>2 DEF Falling
    <3> QED
      BY <1>12, <3>1, <3>3
  <2> QED
    BY <1>11, <2>1 DEF Climbing
<1>14. ASSUME NEW r \in S PROVE Shows(batch, r) \/ (batch # <<>> /\ Events!Before(End(batch), r))
  <2>1. PICK j \in 1 .. n : s[j] = r
    BY <1>2
  <2>2. PICK i \in 1 .. n : j = (n - i) + 1
    <3>1. (n - j) + 1 \in 1 .. n /\ j = (n - ((n - j) + 1)) + 1
      OBVIOUS
    <3> QED
      BY <3>1
  <2>3. CASE i <= m
    <3>1. i \in DOMAIN batch /\ batch[i] = r
      BY <1>11, <1>12, <2>1, <2>2, <2>3
    <3> QED
      BY <3>1 DEF Shows
  <2>4. CASE m < i
    <3>1. m \in 1 .. m /\ m \in 1 .. n
      BY <1>4, <1>5, <2>4
    <3>2. PICK k \in 1 .. n : k = (n - m) + 1
      BY <3>1
    <3>3. batch # <<>> /\ End(batch) = s[k]
      BY <1>10, <1>12, <3>1, <3>2 DEF End
    <3>4. j < k
      BY <2>2, <2>4, <3>2
    <3>5. Events!Before(s[k], s[j])
      BY <1>2, <1>3, <3>4 DEF Falling
    <3> QED
      BY <2>1, <3>3, <3>5
  <2> QED
    BY <2>3, <2>4
<1> QED
  BY <1>10, <1>13, <1>14

-----------------------------------------------------------------------------
(* What the steps keep *)

LEMMA WalkKeeps ==
  ASSUME WalkInv, UNCHANGED walk, gone \subseteq gone', walk.begun \ gone' \subseteq eventRows'
  PROVE  WalkInv'
BY DEF WalkInv

LEMMA StreamKeeps ==
  ASSUME StreamInv, UNCHANGED stream, late \subseteq late', eventRows' \subseteq eventRows
  PROVE  StreamInv'
BY DEF StreamInv

LEMMA EventsBegin == ASSUME Events!Init PROVE EventsInv
<1>1. EventTypes
  <2>1. 0 \in 0 .. MaxEventTime /\ 0 \in 0 .. MaxRows /\ Events!Never \in 0 .. Events!Never
    BY EventAssumption DEF Events!Never
  <2>2. IsFiniteSet(eventRows)
    BY FS_EmptySet DEF Events!Init
  <2>3. recording \in [Recorders -> Events!Rows \cup {NoEntry}]
    BY DEF Events!Init
  <2>4. <<>> \in Seq(Events!Rows)
    OBVIOUS
  <2> QED
    BY <2>1, <2>2, <2>3, <2>4 DEF Events!Init, EventTypes, Walks, Streams, Events!NoWalk,
       Events!NoStream
<1>2. IdsInv
  BY DEF Events!Init, IdsInv, Distinct, RuntimeRows
<1>3. WalkInv
  BY DEF Events!Init, WalkInv, Events!NoWalk, Falling
<1>4. StreamInv
  BY DEF Events!Init, StreamInv, Events!NoStream, Climbing
<1> QED
  BY <1>1, <1>2, <1>3, <1>4 DEF EventsInv

LEMMA RecordLogKeeps ==
  ASSUME EventsInv,
         NEW p \in Recorders, NEW id \in 1 .. MaxRows, NEW source \in LogSources,
             Events!RecordLog(p, id, source)
  PROVE  EventsInv'
<1>1. PICK e : e = [table |-> "log", at |-> eventClock, id |-> id, source |-> source]
  OBVIOUS
<1>2. e \in Events!Rows /\ e.table = "log" /\ e.id = id
  BY <1>1 DEF EventsInv, EventTypes, Walks, Streams, Events!Rows, Events!Tables
<1>3. /\ recording' = [recording EXCEPT ![p] = e] /\ added' = added + 1 /\ added < MaxRows
      /\ UNCHANGED <<eventClock, eventRows, walk, stream, late, gone>>
  BY <1>1 DEF Events!RecordLog
<1>4. EventTypes'
  <2>1. added' \in 0 .. MaxRows
    BY <1>3, EventAssumption DEF EventsInv, EventTypes, Walks, Streams
  <2>2. recording' \in [Recorders -> Events!Rows \cup {NoEntry}]
    BY <1>2, <1>3 DEF EventsInv, EventTypes, Walks, Streams
  <2> QED
    BY <1>3, <2>1, <2>2 DEF EventsInv, EventTypes, Walks, Streams
<1>5. IdsInv'
  <2>1. /\ \A r \in eventRows : r.table = "log" => r.id # id
        /\ \A q \in Recorders : recording[q] # NoEntry /\ recording[q].table = "log"
            => recording[q].id # id
    BY DEF Events!RecordLog, Events!Unused
  <2>2. \A q \in Recorders : recording[q] # NoEntry => recording[q].table = "log"
    BY DEF EventsInv, IdsInv
  <2>3. recording'[p] = e /\ \A q \in Recorders \ {p} : recording'[q] = recording[q]
    BY <1>3 DEF EventsInv, EventTypes, Walks, Streams
  <2>4. Distinct(eventRows)' /\ (\A r \in RuntimeRows : r.id <= Cardinality(RuntimeRows))'
    BY <1>3 DEF EventsInv, IdsInv, RuntimeRows
  <2>5. ASSUME NEW q \in Recorders, recording'[q] # NoEntry
        PROVE  /\ recording'[q].table = "log"
               /\ \A r \in eventRows : r.table = "log" => r.id # recording'[q].id
               /\ \A o \in Recorders \ {q} : recording'[o] # NoEntry
                   => recording'[o].id # recording'[q].id
    <3>1. CASE q = p
      BY <1>2, <2>1, <2>2, <2>3, <3>1
    <3>2. CASE q # p
      <4>1. recording'[q] = recording[q]
        BY <2>3, <3>2
      <4> QED
        BY <1>2, <2>1, <2>2, <2>3, <2>5, <3>2, <4>1 DEF EventsInv, IdsInv
    <3> QED
      BY <3>1, <3>2
  <2> QED
    BY <1>3, <2>4, <2>5 DEF IdsInv
<1>6. WalkInv'
  BY <1>3, WalkKeeps DEF EventsInv, WalkInv
<1>7. StreamInv'
  BY <1>3, StreamKeeps DEF EventsInv
<1> QED
  BY <1>4, <1>5, <1>6, <1>7 DEF EventsInv

LEMMA AppendLogEntryKeeps ==
  ASSUME EventsInv, NEW p \in Recorders, Events!AppendLogEntry(p)
  PROVE  EventsInv'
<1>1. PICK e : e = recording[p]
  OBVIOUS
<1>2. e \in Events!Rows /\ e # NoEntry /\ e.table = "log"
  BY <1>1 DEF EventsInv, EventTypes, Walks, Streams, IdsInv, Events!AppendLogEntry
<1>3. /\ eventRows' = eventRows \cup {e} /\ recording' = [recording EXCEPT ![p] = NoEntry]
      /\ late' = (IF stream.after # <<>> /\ ~Events!Before(stream.after[1], e) THEN late \cup {e}
          ELSE late)
      /\ UNCHANGED <<eventClock, walk, stream, added, gone>>
  BY <1>1 DEF Events!AppendLogEntry
<1>4. EventTypes'
  <2>1. IsFiniteSet(eventRows') /\ eventRows' \subseteq Events!Rows
    BY <1>2, <1>3, FS_AddElement DEF EventsInv, EventTypes, Walks, Streams
  <2>2. recording' \in [Recorders -> Events!Rows \cup {NoEntry}]
    BY <1>3 DEF EventsInv, EventTypes, Walks, Streams
  <2> QED
    BY <1>3, <2>1, <2>2 DEF EventsInv, EventTypes, Walks, Streams
<1>5. IdsInv'
  <2>1. /\ \A r \in eventRows : r.table = "log" => r.id # e.id
        /\ \A q \in Recorders \ {p} : recording[q] # NoEntry => recording[q].id # e.id
    BY <1>1, <1>2 DEF EventsInv, IdsInv
  <2>2. recording'[p] = NoEntry /\ \A q \in Recorders \ {p} : recording'[q] = recording[q]
    BY <1>3 DEF EventsInv, EventTypes, Walks, Streams
  <2>3. Distinct(eventRows')
    BY <1>2, <1>3, <2>1 DEF EventsInv, IdsInv, Distinct
  <2>4. RuntimeRows' = RuntimeRows
    BY <1>2, <1>3 DEF RuntimeRows
  <2>5. \A r \in RuntimeRows' : r.id <= Cardinality(RuntimeRows')
    BY <2>4 DEF EventsInv, IdsInv
  <2>6. ASSUME NEW q \in Recorders, recording'[q] # NoEntry
        PROVE  /\ recording'[q].table = "log"
               /\ \A r \in eventRows' : r.table = "log" => r.id # recording'[q].id
               /\ \A o \in Recorders \ {q} : recording'[o] # NoEntry
                   => recording'[o].id # recording'[q].id
    <3>1. q # p /\ recording'[q] = recording[q] /\ recording[q] # NoEntry
      BY <2>2, <2>6
    <3>2. /\ recording[q].table = "log"
          /\ \A r \in eventRows : r.table = "log" => r.id # recording[q].id
          /\ \A o \in Recorders \ {q} : recording[o] # NoEntry => recording[o].id # recording[q].id
      BY <3>1 DEF EventsInv, IdsInv
    <3> QED
      BY <1>3, <2>1, <2>2, <3>1, <3>2
  <2> QED
    BY <2>3, <2>5, <2>6 DEF IdsInv
<1>6. WalkInv'
  BY <1>3, WalkKeeps DEF EventsInv, WalkInv
<1>7. StreamInv'
  <2>1. ASSUME stream.got # <<>>, NEW r \in eventRows' \ late', r.table = "log",
               Events!Before(stream.got[1], r), ~Events!Before(End(stream.got), r)
        PROVE  Shows(stream.got, r)
    <3>1. CASE r \in eventRows
      BY <1>3, <2>1, <3>1 DEF EventsInv, StreamInv
    <3>2. CASE r \notin eventRows
      <4>1. r = e /\ stream.after # <<>> /\ Events!Before(stream.after[1], r)
        BY <1>3, <2>1, <3>2 DEF EventsInv, StreamInv
      <4>2. stream.after[1] \in Events!Rows /\ End(stream.got) \in Events!Rows /\ r \in Events!Rows
        <5>1. stream.after \in Seq(Events!Rows) /\ stream.got \in Seq(Events!Rows)
          BY DEF EventsInv, EventTypes, Walks, Streams
        <5>2. Len(stream.got) \in 1 .. Len(stream.got) /\ 1 \in 1 .. Len(stream.after)
          BY <2>1, <4>1, <5>1
        <5> QED
          BY <1>2, <4>1, <5>1, <5>2 DEF End
      <4>3. End(stream.got) = stream.after[1] \/ Events!Before(End(stream.got), stream.after[1])
        BY <2>1 DEF EventsInv, StreamInv
      <4> QED
        BY <2>1, <4>1, <4>2, <4>3, BeforeOrders
    <3> QED
      BY <3>1, <3>2
  <2> QED
    BY <1>3, <2>1 DEF EventsInv, StreamInv
<1> QED
  BY <1>4, <1>5, <1>6, <1>7 DEF EventsInv

LEMMA AppendRuntimeTransitionKeeps ==
  ASSUME EventsInv, NEW id \in 1 .. MaxRows, Events!AppendRuntimeTransition(id)
  PROVE  EventsInv'
<1>1. PICK e : e = [table |-> "runtime", at |-> eventClock, id |-> id,
           source |-> CHOOSE s \in LogSources : TRUE]
  OBVIOUS
<1>2. e \in Events!Rows /\ e.table = "runtime" /\ e.id = id
  <2>1. (CHOOSE s \in LogSources : TRUE) \in LogSources
    BY EventAssumption
  <2> QED
    BY <1>1, <2>1 DEF EventsInv, EventTypes, Walks, Streams, Events!Rows, Events!Tables
<1>3. /\ eventRows' = eventRows \cup {e} /\ added' = added + 1 /\ added < MaxRows
          /\ id = Cardinality(RuntimeRows) + 1
      /\ UNCHANGED <<eventClock, recording, walk, stream, late, gone>>
  BY <1>1, EventsCount DEF Events!AppendRuntimeTransition, RuntimeRows
<1>4. EventTypes'
  <2>1. added' \in 0 .. MaxRows
    BY <1>3, EventAssumption DEF EventsInv, EventTypes, Walks, Streams
  <2>2. IsFiniteSet(eventRows') /\ eventRows' \subseteq Events!Rows
    BY <1>2, <1>3, FS_AddElement DEF EventsInv, EventTypes, Walks, Streams
  <2> QED
    BY <1>3, <2>1, <2>2 DEF EventsInv, EventTypes, Walks, Streams
<1>5. IdsInv'
  <2>1. IsFiniteSet(RuntimeRows)
    BY FS_Subset DEF EventsInv, EventTypes, Walks, Streams, RuntimeRows
  <2>2. PICK k \in Nat : k = Cardinality(RuntimeRows)
    BY <2>1, FS_CardinalityType
  <2>3. \A r \in RuntimeRows : r.id <= k /\ r.id \in Int
    BY <2>2 DEF EventsInv, EventTypes, Walks, Streams, IdsInv, RuntimeRows, Events!Rows
  <2>4. id = k + 1 /\ e \notin RuntimeRows
    BY <1>2, <1>3, <2>2, <2>3
  <2>5. RuntimeRows' = RuntimeRows \cup {e}
    BY <1>2, <1>3 DEF RuntimeRows
  <2>6. Cardinality(RuntimeRows') = k + 1
    BY <2>1, <2>2, <2>4, <2>5, FS_AddElement
  <2>7. \A r \in RuntimeRows' : r.id <= Cardinality(RuntimeRows')
    BY <1>2, <2>3, <2>4, <2>5, <2>6
  <2>8. \A r \in eventRows : r.table = "runtime" => r.id # id
    BY <2>3, <2>4 DEF RuntimeRows
  <2>9. Distinct(eventRows')
    BY <1>2, <1>3, <2>8 DEF EventsInv, IdsInv, Distinct
  <2>10. ASSUME NEW q \in Recorders, recording[q] # NoEntry
         PROVE  /\ recording[q].table = "log"
                /\ \A r \in eventRows' : r.table = "log" => r.id # recording[q].id
                /\ \A o \in Recorders \ {q} : recording[o] # NoEntry
                    => recording[o].id # recording[q].id
    BY <1>2, <1>3, <2>10 DEF EventsInv, IdsInv
  <2> QED
    BY <1>3, <2>7, <2>9, <2>10 DEF IdsInv
<1>6. WalkInv'
  BY <1>3, WalkKeeps DEF EventsInv, WalkInv
<1>7. StreamInv'
  <2>1. \A r \in eventRows' \ late' : r.table = "log" => r \in eventRows \ late
    BY <1>2, <1>3
  <2> QED
    BY <1>3, <2>1 DEF EventsInv, StreamInv
<1> QED
  BY <1>4, <1>5, <1>6, <1>7 DEF EventsInv

\* ClearLogEntries and DeleteLogEntry leave the transitions alone.
LEMMA DeletedKeeps ==
  ASSUME EventsInv, NEW S \in SUBSET eventRows, \A r \in S : r.table = "log", Events!Delete(S)
  PROVE  EventsInv'
<1>1. eventRows' = eventRows \ S /\ gone' = gone \cup S
        /\ UNCHANGED <<eventClock, recording, walk, stream, added, late>>
  BY DEF Events!Delete
<1>2. EventTypes'
  <2>1. IsFiniteSet(eventRows')
    BY <1>1, FS_Subset DEF EventsInv, EventTypes, Walks, Streams
  <2> QED
    BY <1>1, <2>1 DEF EventsInv, EventTypes, Walks, Streams
<1>3. IdsInv'
  <2>1. RuntimeRows' = RuntimeRows
    BY <1>1 DEF RuntimeRows
  <2>2. \A r \in RuntimeRows' : r.id <= Cardinality(RuntimeRows')
    BY <2>1 DEF EventsInv, IdsInv
  <2>3. Distinct(eventRows')
    BY <1>1 DEF EventsInv, IdsInv, Distinct
  <2> QED
    BY <1>1, <2>2, <2>3 DEF EventsInv, IdsInv
<1>4. WalkInv'
  BY <1>1, WalkKeeps DEF EventsInv, WalkInv
<1>5. StreamInv'
  BY <1>1, StreamKeeps DEF EventsInv
<1> QED
  BY <1>2, <1>3, <1>4, <1>5 DEF EventsInv

LEMMA OpenKeeps ==
  ASSUME EventsInv, NEW listing \in {"logs", "transitions", "panel"},
         NEW source \in LogSources \cup {AnySource}, NEW until \in 0 .. Events!Never,
             Events!Open(listing, source, until)
  PROVE  EventsInv'
<1>1. /\ walk' = [listing |-> listing, source |-> source, until |-> until, cursor |-> <<>>,
          seen |-> <<>>,
                  begun |-> eventRows, more |-> TRUE]
      /\ gone' = {} /\ UNCHANGED <<eventClock, eventRows, recording, stream, added, late>>
  BY DEF Events!Open, Events!NoWalk
<1>2. EventTypes'
  <2>1. <<>> \in Seq(Events!Rows)
    OBVIOUS
  <2> QED
    BY <1>1, <2>1 DEF EventsInv, EventTypes, Walks, Streams
<1>3. IdsInv'
  BY <1>1 DEF EventsInv, IdsInv, RuntimeRows
<1>4. WalkInv'
  BY <1>1 DEF WalkInv, Falling
<1>5. StreamInv'
  BY <1>1, StreamKeeps DEF EventsInv
<1> QED
  BY <1>2, <1>3, <1>4, <1>5 DEF EventsInv

LEMMA DisconnectKeeps ==
  ASSUME EventsInv, Events!Disconnect
  PROVE  EventsInv'
<1>1. stream' = [stream EXCEPT !.open = FALSE]
        /\ UNCHANGED <<eventClock, eventRows, recording, walk, added, late, gone>>
  BY DEF Events!Disconnect
<1>2. /\ stream'.open = FALSE /\ stream'.since = stream.since /\ stream'.after = stream.after
          /\ stream'.got = stream.got
      /\ EventTypes'
  BY <1>1 DEF EventsInv, EventTypes, Walks, Streams
<1>3. IdsInv'
  BY <1>1 DEF EventsInv, IdsInv, RuntimeRows
<1>4. WalkInv'
  BY <1>1, WalkKeeps DEF EventsInv, WalkInv
<1>5. StreamInv'
  BY <1>1, <1>2 DEF EventsInv, StreamInv
<1> QED
  BY <1>2, <1>3, <1>4, <1>5 DEF EventsInv

LEMMA TickKeeps ==
  ASSUME EventsInv, Events!Tick
  PROVE  EventsInv'
<1>1. eventClock' = eventClock + 1 /\ eventClock < MaxEventTime
        /\ UNCHANGED <<eventRows, recording, walk, stream, added, late, gone>>
  BY DEF Events!Tick
<1>2. EventTypes'
  <2>1. eventClock' \in 0 .. MaxEventTime
    BY <1>1, EventAssumption DEF EventsInv, EventTypes, Walks, Streams
  <2> QED
    BY <1>1, <2>1 DEF EventsInv, EventTypes, Walks, Streams
<1>3. IdsInv'
  BY <1>1 DEF EventsInv, IdsInv, RuntimeRows
<1>4. WalkInv'
  BY <1>1, WalkKeeps DEF EventsInv, WalkInv
<1>5. StreamInv'
  BY <1>1, StreamKeeps DEF EventsInv
<1> QED
  BY <1>2, <1>3, <1>4, <1>5 DEF EventsInv

LEMMA ConnectKeeps ==
  ASSUME EventsInv, Events!Connect
  PROVE  EventsInv'
<1>1. /\ stream' = [stream EXCEPT !.open = TRUE, !.after = IF stream.got = <<>> THEN <<>>
          ELSE <<Events!Last(stream.got)>>,
                                  !.since = IF stream.got = <<>> THEN eventClock ELSE Events!Never]
      /\ late' = (IF stream.got = <<>> THEN {} ELSE late)
      /\ UNCHANGED <<eventClock, eventRows, recording, walk, added, gone>>
  BY DEF Events!Connect
<1>2. /\ stream'.open = TRUE /\ stream'.got = stream.got
      /\ stream'.after = (IF stream.got = <<>> THEN <<>> ELSE <<End(stream.got)>>)
      /\ stream'.since = (IF stream.got = <<>> THEN eventClock ELSE Events!Never)
  BY <1>1 DEF EventsInv, EventTypes, Walks, Streams, Events!Last, End
<1>3. EventTypes'
  <2>1. stream.got \in Seq(Events!Rows) /\ eventClock \in 0 .. Events!Never
          /\ Events!Never \in 0 .. Events!Never
    BY EventAssumption DEF EventsInv, EventTypes, Walks, Streams, Events!Never
  <2>2. stream'.after \in Seq(Events!Rows)
    <3>1. CASE stream.got = <<>>
      <4>1. <<>> \in Seq(Events!Rows)
        OBVIOUS
      <4> QED
        BY <1>2, <3>1, <4>1
    <3>2. CASE stream.got # <<>>
      <4>1. End(stream.got) \in Events!Rows
        BY <2>1, <3>2 DEF End
      <4> QED
        BY <1>2, <3>2, <4>1
    <3> QED
      BY <3>1, <3>2
  <2>3. stream' \in Streams
    BY <1>1, <1>2, <2>1, <2>2 DEF EventsInv, EventTypes, Walks, Streams
  <2> QED
    BY <1>1, <2>3 DEF EventsInv, EventTypes, Walks, Streams
<1>4. IdsInv'
  BY <1>1 DEF EventsInv, IdsInv, RuntimeRows
<1>5. WalkInv'
  BY <1>1, WalkKeeps DEF EventsInv, WalkInv
<1>6. StreamInv'
  BY <1>1, <1>2 DEF EventsInv, StreamInv
<1> QED
  BY <1>3, <1>4, <1>5, <1>6 DEF EventsInv

\* What is read after s joins it to u.
Joins(s, t, u) ==
  /\ u \in Seq(Events!Rows) /\ DOMAIN u = 1 .. (Len(s) + Len(t)) /\ DOMAIN s = 1 .. Len(s)
      /\ DOMAIN t = 1 .. Len(t)
  /\ \A i \in 1 .. Len(s) : u[i] = s[i]
  /\ \A i \in 1 .. Len(t) : u[Len(s) + i] = t[i]
  /\ \A r : Shows(s, r) \/ Shows(t, r) => Shows(u, r)
  /\ t = <<>> \/ (u # <<>> /\ End(u) = End(t))
  /\ s = <<>> \/ (u # <<>> /\ u[1] = s[1])
  /\ t # <<>> \/ u = s
  /\ s # <<>> \/ u = t

LEMMA JoinedRows ==
  ASSUME NEW s \in Seq(Events!Rows), NEW t \in Seq(Events!Rows), NEW u, u = s \o t
  PROVE  Joins(s, t, u)
<1>1. PICK m \in Nat, n \in Nat : m = Len(s) /\ n = Len(t)
  OBVIOUS
<1>2. /\ u \in Seq(Events!Rows) /\ Len(u) = m + n /\ DOMAIN u = 1 .. m + n /\ DOMAIN s = 1 .. m
          /\ DOMAIN t = 1 .. n
      /\ \A i \in 1 .. m : u[i] = s[i]
      /\ \A i \in 1 .. n : u[m + i] = t[i]
  <2>1. Len(u) = m + n /\ u \in Seq(Events!Rows)
    BY <1>1
  <2>2. \A i \in 1 .. m + n : u[i] = IF i <= m THEN s[i] ELSE t[i - m]
    BY <1>1
  <2>3. ASSUME NEW i \in 1 .. n PROVE u[m + i] = t[i]
    <3>1. PICK k \in 1 .. m + n : k = m + i
      OBVIOUS
    <3>2. ~(k <= m) /\ k - m = i
      BY <3>1
    <3> QED
      BY <2>2, <3>1, <3>2
  <2>4. \A i \in 1 .. m : u[i] = s[i]
    <3>1. \A i \in 1 .. m : i \in 1 .. m + n /\ i <= m
      OBVIOUS
    <3> QED
      BY <2>2, <3>1
  <2> QED
    BY <1>1, <2>1, <2>3, <2>4
<1>3. ASSUME NEW r, Shows(s, r) \/ Shows(t, r) PROVE Shows(u, r)
  <2>1. CASE Shows(s, r)
    <3>1. PICK i \in 1 .. m : s[i] = r
      BY <1>2, <2>1 DEF Shows
    <3>2. i \in DOMAIN u /\ u[i] = r
      BY <1>2, <3>1
    <3> QED
      BY <3>2 DEF Shows
  <2>2. CASE Shows(t, r)
    <3>1. PICK i \in 1 .. n : t[i] = r
      BY <1>2, <2>2 DEF Shows
    <3>2. m + i \in DOMAIN u /\ u[m + i] = r
      BY <1>2, <3>1
    <3> QED
      BY <3>2 DEF Shows
  <2> QED
    BY <1>3, <2>1, <2>2
<1>4. ASSUME t # <<>> PROVE u # <<>> /\ End(u) = End(t)
  <2>1. n \in 1 .. n
    BY <1>1, <1>4
  <2>2. u[m + n] = t[n]
    BY <1>2, <2>1
  <2> QED
    BY <1>1, <1>2, <2>1, <2>2 DEF End
<1>5. ASSUME s # <<>> PROVE u # <<>> /\ u[1] = s[1]
  <2>1. 1 \in 1 .. m
    BY <1>1, <1>5
  <2> QED
    BY <1>2, <2>1
<1> QED
  BY <1>1, <1>2, <1>3, <1>4, <1>5 DEF Joins

LEMMA FallingJoins ==
  ASSUME NEW s \in Seq(Events!Rows), NEW t \in Seq(Events!Rows), Falling(s), Falling(t),
         \A i \in DOMAIN t : s = <<>> \/ Events!Before(t[i], End(s))
  PROVE  Falling(s \o t)
<1>1. PICK m \in Nat, n \in Nat : m = Len(s) /\ n = Len(t)
  OBVIOUS
<1>2. PICK u : u = s \o t
  OBVIOUS
<1>3. /\ DOMAIN u = 1 .. (m + n) /\ DOMAIN s = 1 .. m /\ DOMAIN t = 1 .. n
      /\ \A i \in 1 .. m : u[i] = s[i]
      /\ \A i \in 1 .. n : u[m + i] = t[i]
  BY <1>1, <1>2, JoinedRows DEF Joins
<1>4. \A i \in 1 .. m : s[i] = End(s) \/ Events!Before(End(s), s[i])
  BY <1>1, <1>3 DEF Falling, End
<1>5. ASSUME NEW i \in 1 .. (m + n), NEW j \in 1 .. (m + n), i < j PROVE Events!Before(u[j], u[i])
  <2>1. CASE j <= m
    <3>1. i \in 1 .. m /\ j \in 1 .. m
      BY <1>5, <2>1
    <3> QED
      BY <1>3, <1>5, <3>1 DEF Falling
  <2>2. CASE m < i
    <3>1. PICK a \in 1 .. n, b \in 1 .. n : i = m + a /\ j = m + b
      <4>1. i - m \in 1 .. n /\ j - m \in 1 .. n /\ i = m + (i - m) /\ j = m + (j - m)
        BY <1>5, <2>2
      <4> QED
        BY <4>1
    <3>2. a < b
      BY <1>5, <3>1
    <3> QED
      BY <1>3, <3>1, <3>2 DEF Falling
  <2>3. CASE i <= m /\ m < j
    <3>1. i \in 1 .. m /\ s # <<>> /\ m \in 1 .. m
      BY <1>1, <2>3
    <3>2. PICK b \in 1 .. n : j = m + b
      <4>1. j - m \in 1 .. n /\ j = m + (j - m)
        BY <2>3
      <4> QED
        BY <4>1
    <3>3. u[i] = s[i] /\ u[j] = t[b] /\ Events!Before(t[b], End(s))
      BY <1>3, <3>1, <3>2
    <3>4. s[i] \in Events!Rows /\ t[b] \in Events!Rows /\ End(s) \in Events!Rows
      BY <1>1, <3>1 DEF End
    <3> QED
      BY <1>4, <3>1, <3>3, <3>4, BeforeOrders
  <2> QED
    BY <2>1, <2>2, <2>3
<1> QED
  BY <1>2, <1>3, <1>5 DEF Falling

LEMMA ClimbingJoins ==
  ASSUME NEW s \in Seq(Events!Rows), NEW t \in Seq(Events!Rows), Climbing(s), Climbing(t),
         \A i \in DOMAIN t : s = <<>> \/ Events!Before(End(s), t[i])
  PROVE  Climbing(s \o t)
<1>1. PICK m \in Nat, n \in Nat : m = Len(s) /\ n = Len(t)
  OBVIOUS
<1>2. PICK u : u = s \o t
  OBVIOUS
<1>3. /\ DOMAIN u = 1 .. (m + n) /\ DOMAIN s = 1 .. m /\ DOMAIN t = 1 .. n
      /\ \A i \in 1 .. m : u[i] = s[i]
      /\ \A i \in 1 .. n : u[m + i] = t[i]
  BY <1>1, <1>2, JoinedRows DEF Joins
<1>4. \A i \in 1 .. m : s[i] = End(s) \/ Events!Before(s[i], End(s))
  BY <1>1, <1>3 DEF Climbing, End
<1>5. ASSUME NEW i \in 1 .. (m + n), NEW j \in 1 .. (m + n), i < j PROVE Events!Before(u[i], u[j])
  <2>1. CASE j <= m
    <3>1. i \in 1 .. m /\ j \in 1 .. m
      BY <1>5, <2>1
    <3> QED
      BY <1>3, <1>5, <3>1 DEF Climbing
  <2>2. CASE m < i
    <3>1. PICK a \in 1 .. n, b \in 1 .. n : i = m + a /\ j = m + b
      <4>1. i - m \in 1 .. n /\ j - m \in 1 .. n /\ i = m + (i - m) /\ j = m + (j - m)
        BY <1>5, <2>2
      <4> QED
        BY <4>1
    <3>2. a < b
      BY <1>5, <3>1
    <3> QED
      BY <1>3, <3>1, <3>2 DEF Climbing
  <2>3. CASE i <= m /\ m < j
    <3>1. i \in 1 .. m /\ s # <<>> /\ m \in 1 .. m
      BY <1>1, <2>3
    <3>2. PICK b \in 1 .. n : j = m + b
      <4>1. j - m \in 1 .. n /\ j = m + (j - m)
        BY <2>3
      <4> QED
        BY <4>1
    <3>3. u[i] = s[i] /\ u[j] = t[b] /\ Events!Before(End(s), t[b])
      BY <1>3, <3>1, <3>2
    <3>4. s[i] \in Events!Rows /\ t[b] \in Events!Rows /\ End(s) \in Events!Rows
      BY <1>1, <3>1 DEF End
    <3> QED
      BY <1>4, <3>1, <3>3, <3>4, BeforeOrders
  <2> QED
    BY <2>1, <2>2, <2>3
<1> QED
  BY <1>2, <1>3, <1>5 DEF Climbing

\* What has not been shown is selected again, so that it is on this page or older than it.
LEMMA ReadPageKeeps ==
  ASSUME EventsInv, Events!ReadPage(Events!Limit(Events!NewestFirst(Events!Selected(walk))))
  PROVE  EventsInv'
<1>1. PICK page : page = Events!Limit(Events!NewestFirst(Events!Selected(walk)))
  OBVIOUS
<1>2. PICK S : S = Events!Selected(walk)
  OBVIOUS
<1>3. S \in SUBSET eventRows /\ S \in SUBSET Events!Rows /\ IsFiniteSet(S) /\ Distinct(S)
  BY <1>2, FS_Subset DEF EventsInv, EventTypes, Walks, Streams, IdsInv, Distinct,
     Events!Selected
<1>4. PICK n \in Nat : n = Cardinality(S)
  BY <1>3, FS_CardinalityType
<1>5. /\ page \in Seq(S) /\ Falling(page)
      /\ \A r \in S : Shows(page, r) \/ (page # <<>> /\ Events!Before(r, End(page)))
      /\ n > PageLimit \/ \A r \in S : Shows(page, r)
  BY <1>1, <1>2, <1>3, <1>4, PageOfList
<1>6. /\ walk' = [walk EXCEPT !.seen = walk.seen \o page, !.more = n > PageLimit,
                              !.cursor = IF page = <<>> THEN walk.cursor ELSE <<Events!Last(page)>>]
      /\ UNCHANGED <<eventClock, eventRows, recording, stream, added, late, gone>>
  BY <1>1, <1>2, <1>4, EventsCount DEF Events!ReadPage
<1>7. walk.seen \in Seq(Events!Rows) /\ walk.cursor \in Seq(Events!Rows)
        /\ page \in Seq(Events!Rows)
  BY <1>3, <1>5 DEF EventsInv, EventTypes, Walks, Streams
<1>8. PICK u : u = walk.seen \o page
  OBVIOUS
<1>9. /\ walk'.seen = u /\ walk'.more = (n > PageLimit)
      /\ walk'.cursor = (IF page = <<>> THEN walk.cursor ELSE <<End(page)>>)
      /\ walk'.begun = walk.begun /\ walk'.listing = walk.listing
      /\ walk'.source = walk.source /\ walk'.until = walk.until
  BY <1>6, <1>8 DEF EventsInv, EventTypes, Walks, Streams, Events!Last, End
<1>10. /\ u \in Seq(Events!Rows)
       /\ \A r : Shows(walk.seen, r) \/ Shows(page, r) => Shows(u, r)
       /\ page = <<>> \/ (u # <<>> /\ End(u) = End(page))
       /\ page # <<>> \/ u = walk.seen
  <2>1. Joins(walk.seen, page, u)
    BY <1>7, <1>8, JoinedRows
  <2> QED
    BY <2>1 DEF Joins
<1>11. EventTypes'
  <2>1. walk'.cursor \in Seq(Events!Rows)
    <3>1. CASE page = <<>>
      BY <1>7, <1>9, <3>1
    <3>2. CASE page # <<>>
      <4>1. End(page) \in Events!Rows
        BY <1>7, <3>2 DEF End
      <4> QED
        BY <1>9, <3>2, <4>1
    <3> QED
      BY <3>1, <3>2
  <2>2. walk'.more \in BOOLEAN
    BY <1>9
  <2>3. walk' \in Walks
    BY <1>6, <1>9, <1>10, <2>1, <2>2 DEF EventsInv, EventTypes, Walks, Streams
  <2> QED
    BY <1>6, <2>3 DEF EventsInv, EventTypes, Walks, Streams
<1>12. IdsInv'
  BY <1>6 DEF EventsInv, IdsInv, RuntimeRows
<1>13. WalkInv'
  <2>1. walk.cursor = IF walk.seen = <<>> THEN <<>> ELSE <<End(walk.seen)>>
    BY DEF EventsInv, WalkInv
  <2>2. Falling(u)
    <3>1. Falling(walk.seen)
      BY DEF EventsInv, WalkInv
    <3>2. ASSUME NEW i \in DOMAIN page, walk.seen # <<>>
                 PROVE Events!Before(page[i], End(walk.seen))
      <4>1. page[i] \in S
        BY <1>5
      <4>2. walk.cursor # <<>> /\ walk.cursor[1] = End(walk.seen)
        BY <2>1, <3>2
      <4> QED
        BY <1>2, <4>1, <4>2 DEF Events!Selected
    <3> QED
      BY <1>5, <1>7, <1>8, <3>1, <3>2, FallingJoins
  <2>3. walk'.cursor = IF u = <<>> THEN <<>> ELSE <<End(u)>>
    BY <1>9, <1>10, <2>1
  <2>4. \A r : Events!Matches(r, walk') <=> Events!Matches(r, walk)
    BY <1>9 DEF Events!Matches
  <2>5. ASSUME NEW r \in walk.begun \ gone, Events!Matches(r, walk)
        PROVE  Shows(walk.seen, r) \/ r \in S
    <3>1. r \in eventRows
      BY <2>5 DEF EventsInv, WalkInv
    <3>2. CASE walk.cursor # <<>> /\ ~Events!Before(r, walk.cursor[1])
      BY <2>5, <3>2 DEF EventsInv, WalkInv
    <3>3. CASE ~(walk.cursor # <<>> /\ ~Events!Before(r, walk.cursor[1]))
      BY <1>2, <2>5, <3>1, <3>3 DEF Events!Selected
    <3> QED
      BY <3>2, <3>3
  <2>6. ASSUME NEW r \in walk.begun \ gone, Events!Matches(r, walk), walk'.cursor # <<>>,
               ~Events!Before(r, walk'.cursor[1])
        PROVE  Shows(u, r)
    <3>1. CASE page = <<>>
      <4>1. walk.cursor # <<>> /\ ~Events!Before(r, walk.cursor[1])
        BY <1>9, <2>6, <3>1
      <4>2. Shows(walk.seen, r)
        BY <2>6, <4>1 DEF EventsInv, WalkInv
      <4> QED
        BY <1>10, <4>2
    <3>2. CASE page # <<>>
      <4>1. ~Events!Before(r, End(page))
        BY <1>9, <2>6, <3>2
      <4>2. Shows(walk.seen, r) \/ Shows(page, r)
        BY <1>5, <2>5, <2>6, <4>1
      <4> QED
        BY <1>10, <4>2
    <3> QED
      BY <3>1, <3>2
  <2>7. ASSUME NEW r \in walk.begun \ gone, Events!Matches(r, walk), ~walk'.more
        PROVE  Shows(u, r)
    BY <1>5, <1>9, <1>10, <2>5, <2>7
  <2>8. (walk.begun \ gone) \subseteq eventRows
    BY DEF EventsInv, WalkInv
  <2>9. \A r \in walk'.begun \ gone' :
          Events!Matches(r, walk') /\ walk'.cursor # <<>> /\ ~Events!Before(r, walk'.cursor[1])
              => Shows(walk'.seen, r)
    BY <1>6, <1>9, <2>4, <2>6
  <2>10. walk'.listing # "none" /\ ~walk'.more =>
           \A r \in walk'.begun \ gone' : Events!Matches(r, walk') => Shows(walk'.seen, r)
    BY <1>6, <1>9, <2>4, <2>7
  <2>11. (walk'.begun \ gone') \subseteq eventRows'
    BY <1>6, <1>9, <2>8
  <2>12. Falling(walk'.seen) /\ walk'.cursor = IF walk'.seen = <<>> THEN <<>>
           ELSE <<End(walk'.seen)>>
    BY <1>9, <2>2, <2>3
  <2> QED
    BY <2>9, <2>10, <2>11, <2>12 DEF WalkInv
<1>14. StreamInv'
  BY <1>6, StreamKeeps DEF EventsInv
<1> QED
  BY <1>11, <1>12, <1>13, <1>14 DEF EventsInv

\* What is sent of a batch, all of it or what comes through, goes on where the reader is.
LEMMA PollKeeps ==
  ASSUME EventsInv, NEW n \in 0 .. PageLimit, NEW broken \in BOOLEAN, Events!Poll(n, broken)
  PROVE  EventsInv'
<1>1. PICK S : S = Events!Tailed
  OBVIOUS
<1>2. PICK batch : batch = Events!Limit(Events!Reverse(Events!NewestFirst(S)))
  OBVIOUS
<1>3. PICK g : g = SubSeq(batch, 1, n)
  OBVIOUS
<1>4. S \in SUBSET eventRows /\ S \in SUBSET Events!Rows /\ IsFiniteSet(S) /\ Distinct(S)
  BY <1>1, FS_Subset DEF EventsInv, EventTypes, Walks, Streams, IdsInv, Distinct, Events!Tailed
<1>5. /\ batch \in Seq(S) /\ Climbing(batch)
      /\ \A r \in S : Shows(batch, r) \/ (batch # <<>> /\ Events!Before(End(batch), r))
  BY <1>2, <1>4, PageOfStream
<1>6. /\ stream.open /\ batch # <<>> /\ n \in 0 .. Len(batch) /\ (~broken => n = Len(batch))
      /\ stream' = [stream EXCEPT !.open = ~broken, !.got = stream.got \o g,
          !.after = <<Events!Last(batch)>>, !.since = Events!Never]
      /\ UNCHANGED <<eventClock, eventRows, recording, walk, added, late, gone>>
  BY <1>1, <1>2, <1>3 DEF Events!Poll
<1>7. PICK m \in Nat \ {0} : m = Len(batch)
  BY <1>5, <1>6
<1>8. PICK u : u = stream.got \o g
  OBVIOUS
<1>9. stream.got \in Seq(Events!Rows) /\ stream.after \in Seq(Events!Rows)
        /\ batch \in Seq(Events!Rows)
  BY <1>4, <1>5 DEF EventsInv, EventTypes, Walks, Streams
<1>10. /\ g \in Seq(Events!Rows) /\ Len(g) = n /\ DOMAIN g = 1 .. n /\ DOMAIN batch = 1 .. m
       /\ \A i \in 1 .. n : g[i] = batch[i] /\ i \in 1 .. m
  BY <1>3, <1>6, <1>7, <1>9
<1>11. /\ stream'.open = ~broken /\ stream'.got = u /\ stream'.after = <<End(batch)>>
           /\ stream'.since = Events!Never
       /\ stream' \in [open : {~broken}, since : {Events!Never}, after : {<<End(batch)>>},
           got : {u}]
  BY <1>6, <1>8 DEF EventsInv, EventTypes, Walks, Streams, Events!Last, End
<1>12. /\ u \in Seq(Events!Rows)
       /\ \A r : Shows(stream.got, r) \/ Shows(g, r) => Shows(u, r)
       /\ g = <<>> \/ (u # <<>> /\ End(u) = End(g))
       /\ stream.got = <<>> \/ (u # <<>> /\ u[1] = stream.got[1])
       /\ g # <<>> \/ u = stream.got
       /\ stream.got # <<>> \/ u = g
  <2>1. Joins(stream.got, g, u)
    BY <1>8, <1>9, <1>10, JoinedRows
  <2> QED
    BY <2>1 DEF Joins
<1>13. \A i \in 1 .. m : batch[i] \in S /\ batch[i] \in Events!Rows
  BY <1>4, <1>5, <1>7
<1>14. End(batch) \in S /\ End(batch) \in Events!Rows /\ End(batch) = batch[m]
  BY <1>7, <1>13 DEF End
<1>15. stream.after = IF stream.got = <<>> THEN <<>> ELSE <<End(stream.got)>>
  BY <1>6 DEF EventsInv, StreamInv
<1>16. \A r \in eventRows : r \in S <=> (r.table = "log" /\ IF stream.got = <<>>
         THEN r.at >= stream.since ELSE Events!Before(End(stream.got), r))
  BY <1>1, <1>15 DEF Events!Tailed
<1>17. g = <<>> \/ (n \in 1 .. n /\ n \in 1 .. m /\ End(g) = batch[n])
  BY <1>10 DEF End
<1>18. EventTypes'
  <2>1. <<End(batch)>> \in Seq(Events!Rows) /\ Events!Never \in 0 .. Events!Never
    BY <1>14, EventAssumption DEF Events!Never
  <2>2. stream' \in Streams
    BY <1>11, <1>12, <2>1 DEF Streams
  <2> QED
    BY <1>6, <2>2 DEF EventsInv, EventTypes, Walks, Streams
<1>19. IdsInv'
  BY <1>6 DEF EventsInv, IdsInv, RuntimeRows
<1>20. WalkInv'
  BY <1>6, WalkKeeps DEF EventsInv, WalkInv
<1>21. Climbing(u)
  <2>1. Climbing(stream.got)
    BY DEF EventsInv, StreamInv
  <2>2. Climbing(g)
    BY <1>5, <1>10 DEF Climbing
  <2>3. ASSUME NEW i \in DOMAIN g, stream.got # <<>> PROVE Events!Before(End(stream.got), g[i])
    <3>1. g[i] = batch[i] /\ batch[i] \in S
      BY <1>10, <1>13
    <3>2. batch[i] \in eventRows
      BY <1>4, <3>1
    <3> QED
      BY <1>16, <2>3, <3>1, <3>2
  <2> QED
    BY <1>8, <1>9, <1>10, <2>1, <2>2, <2>3, ClimbingJoins
<1>22. \A i \in DOMAIN u : u[i].table = "log"
  <2>1. \A i \in 1 .. n : g[i].table = "log"
    BY <1>4, <1>10, <1>13, <1>16
  <2>2. /\ DOMAIN u = 1 .. (Len(stream.got) + n) /\ DOMAIN stream.got = 1 .. Len(stream.got)
        /\ \A i \in 1 .. Len(stream.got) : u[i] = stream.got[i]
        /\ \A i \in 1 .. n : u[Len(stream.got) + i] = g[i]
    <3>1. Joins(stream.got, g, u) /\ n = Len(g)
      BY <1>8, <1>9, <1>10, JoinedRows
    <3> QED
      BY <3>1 DEF Joins
  <2>3. ASSUME NEW i \in DOMAIN u PROVE u[i].table = "log"
    <3>1. PICK k \in Nat : k = Len(stream.got)
      BY <1>9
    <3>2. CASE i <= k
      <4>1. i \in DOMAIN stream.got /\ u[i] = stream.got[i]
        BY <2>2, <2>3, <3>1, <3>2
      <4> QED
        BY <4>1 DEF EventsInv, StreamInv
    <3>3. CASE k < i
      <4>1. PICK a \in 1 .. n : i = k + a
        <5>1. i \in 1 .. k + n
          BY <2>2, <3>1
        <5>2. i - k \in 1 .. n /\ i = k + (i - k)
          BY <3>3, <5>1
        <5> QED
          BY <5>2
      <4> QED
        BY <2>1, <2>2, <3>1, <4>1
    <3>4. i \in Int
      BY <2>2
    <3> QED
      BY <3>1, <3>2, <3>3, <3>4
  <2> QED
    BY <2>3
<1>23. ASSUME u # <<>> PROVE End(u) = End(batch) \/ Events!Before(End(u), End(batch))
  <2>1. CASE g = <<>>
    <3>1. u = stream.got /\ stream.got # <<>>
      BY <1>12, <1>23, <2>1
    <3>2. End(batch) \in eventRows
      BY <1>4, <1>14
    <3> QED
      BY <1>14, <1>16, <3>1, <3>2
  <2>2. CASE g # <<>>
    <3>1. End(u) = batch[n] /\ n \in 1 .. m /\ m \in 1 .. m
      BY <1>12, <1>17, <2>2
    <3>2. n = m \/ n < m
      BY <3>1
    <3>3. n < m => Events!Before(batch[n], batch[m])
      BY <1>5, <1>10, <3>1 DEF Climbing
    <3> QED
      BY <1>14, <3>1, <3>2, <3>3
  <2> QED
    BY <2>1, <2>2
<1>24. ASSUME u # <<>>, NEW r \in eventRows \ late, r.table = "log", Events!Before(u[1], r),
              ~Events!Before(End(u), r)
       PROVE  Shows(u, r)
  <2>0. r \in eventRows /\ r \in Events!Rows
    BY DEF EventsInv, EventTypes, Walks, Streams
  <2>1. ASSUME r \in S PROVE Shows(u, r)
    <3>1. CASE g = <<>>
      <4>1. u = stream.got /\ stream.got # <<>>
        BY <1>12, <1>24, <3>1
      <4> QED
        BY <1>16, <1>24, <2>0, <2>1, <4>1
    <3>2. CASE g # <<>>
      <4>1. End(u) = batch[n] /\ n \in 1 .. m
        BY <1>12, <1>17, <3>2
      <4>2. ~Events!Before(End(batch), r)
        <5>1. End(u) = End(batch) \/ Events!Before(End(u), End(batch))
          BY <1>23, <1>24
        <5>2. End(u) \in Events!Rows
          BY <1>13, <4>1
        <5> QED
          BY <1>14, <1>24, <2>0, <5>1, <5>2, BeforeOrders
      <4>3. PICK k \in DOMAIN batch : batch[k] = r
        BY <1>5, <2>1, <4>2 DEF Shows
      <4>4. k \in 1 .. m /\ n \in DOMAIN batch
        BY <1>10, <4>1, <4>3
      <4>5. ~(n < k)
        BY <1>5, <1>24, <4>1, <4>3, <4>4 DEF Climbing
      <4>6. k \in 1 .. n
        BY <4>4, <4>5, <1>6
      <4>7. k \in DOMAIN g /\ g[k] = r
        BY <1>10, <4>3, <4>6
      <4> QED
        BY <1>12, <4>7 DEF Shows
    <3> QED
      BY <3>1, <3>2
  <2>2. CASE stream.got = <<>>
    <3>1. u = g /\ g # <<>>
      BY <1>12, <1>24, <2>2
    <3>2. 1 \in 1 .. n /\ u[1] = batch[1]
      BY <1>10, <1>17, <3>1
    <3>3. batch[1] \in S /\ batch[1] \in eventRows /\ batch[1] \in Events!Rows
      BY <1>4, <1>10, <1>13, <3>2
    <3>4. batch[1].at >= stream.since
      BY <1>16, <2>2, <3>3
    <3>5. batch[1].at \in Int /\ r.at \in Int /\ stream.since \in Int
      BY <2>0, <3>3 DEF EventsInv, EventTypes, Walks, Streams, Events!Rows
    <3>6. batch[1].at <= r.at
      BY <1>24, <3>2, <3>5 DEF Events!Before
    <3>7. r.at >= stream.since
      BY <3>4, <3>5, <3>6
    <3>8. r \in S
      BY <1>16, <1>24, <2>0, <2>2, <3>7
    <3> QED
      BY <2>1, <3>8
  <2>3. CASE stream.got # <<>>
    <3>1. CASE Events!Before(End(stream.got), r)
      <4>1. r \in S
        BY <1>16, <1>24, <2>0, <2>3, <3>1
      <4> QED
        BY <2>1, <4>1
    <3>2. CASE ~Events!Before(End(stream.got), r)
      <4>1. Events!Before(stream.got[1], r)
        BY <1>12, <1>24, <2>3
      <4>2. Shows(stream.got, r)
        BY <1>24, <2>3, <3>2, <4>1 DEF EventsInv, StreamInv
      <4> QED
        BY <1>12, <4>2
    <3> QED
      BY <3>1, <3>2
  <2> QED
    BY <2>2, <2>3
<1>25. stream'.open => stream'.after = IF stream'.got = <<>> THEN <<>> ELSE <<End(stream'.got)>>
  <2>1. ASSUME ~broken PROVE u # <<>> /\ End(u) = End(batch)
    <3>1. n = m /\ g # <<>>
      BY <1>6, <1>7, <1>10, <2>1
    <3> QED
      BY <1>12, <1>14, <1>17, <3>1
  <2> QED
    BY <1>11, <2>1
<1>26. StreamInv'
  <2>1. stream'.got # <<>> =>
          /\ stream'.after # <<>> /\ (End(stream'.got) = stream'.after[1]
              \/ Events!Before(End(stream'.got), stream'.after[1]))
          /\ \A r \in eventRows' \ late' :
               r.table = "log" /\ Events!Before(stream'.got[1], r)
                   /\ ~Events!Before(End(stream'.got), r) => Shows(stream'.got, r)
    BY <1>6, <1>11, <1>23, <1>24
  <2>2. Climbing(stream'.got) /\ \A i \in DOMAIN stream'.got : stream'.got[i].table = "log"
    BY <1>11, <1>21, <1>22
  <2> QED
    BY <1>25, <2>1, <2>2 DEF StreamInv
<1> QED
  BY <1>18, <1>19, <1>20, <1>26 DEF EventsInv

LEMMA EventsStep == ASSUME EventsInv, Events!Next PROVE EventsInv'
<1>1. ASSUME NEW p \in Recorders, NEW id \in 1 .. MaxRows, NEW s \in LogSources,
             Events!RecordLog(p, id, s) PROVE EventsInv'
  BY <1>1, RecordLogKeeps
<1>2. ASSUME NEW p \in Recorders, Events!AppendLogEntry(p) PROVE EventsInv'
  BY <1>2, AppendLogEntryKeeps
<1>3. ASSUME NEW id \in 1 .. MaxRows, Events!AppendRuntimeTransition(id) PROVE EventsInv'
  BY <1>3, AppendRuntimeTransitionKeeps
<1>4. ASSUME NEW s, NEW before, Events!ClearLogEntries(s, before) PROVE EventsInv'
  <2>1. PICK S : S = {r \in eventRows : r.table = "log" /\ s \in {AnySource, r.source}
             /\ r.at < before}
    OBVIOUS
  <2>2. S \in SUBSET eventRows /\ Events!Delete(S) /\ \A r \in S : r.table = "log"
    BY <1>4, <2>1 DEF Events!ClearLogEntries
  <2> QED
    BY <2>2, DeletedKeeps
<1>5. ASSUME NEW r, Events!DeleteLogEntry(r) PROVE EventsInv'
  <2>1. PICK S : S = {r}
    OBVIOUS
  <2>2. S \in SUBSET eventRows /\ Events!Delete(S) /\ \A e \in S : e.table = "log"
    BY <1>5, <2>1 DEF Events!DeleteLogEntry
  <2> QED
    BY <2>2, DeletedKeeps
<1>6. ASSUME NEW s \in LogSources \cup {AnySource}, Events!listDurableLogs(s) PROVE EventsInv'
  <2>1. Events!Never \in 0 .. Events!Never
    BY EventAssumption DEF Events!Never
  <2> QED
    BY <1>6, <2>1, OpenKeeps DEF Events!listDurableLogs
<1>7. ASSUME Events!listPanelLogs \/ Events!coreRuntimeHistory \/ Events!dashboardRuntimeHistory
             PROVE EventsInv'
  <2>1. Events!Never \in 0 .. Events!Never /\ eventClock \in 0 .. Events!Never
    BY EventAssumption DEF Events!Never, EventsInv, EventTypes, Walks, Streams
  <2> QED
    BY <1>7, <2>1, OpenKeeps DEF Events!listPanelLogs, Events!coreRuntimeHistory,
       Events!dashboardRuntimeHistory
<1>8. ASSUME Events!ListLogEntries \/ Events!ListRuntimeTransitions \/ Events!ListPanelLogs
             PROVE EventsInv'
  BY <1>8, ReadPageKeeps DEF Events!ListLogEntries, Events!ListRuntimeTransitions,
     Events!ListPanelLogs
<1>9. ASSUME Events!Connect PROVE EventsInv'
  BY <1>9, ConnectKeeps
<1>10. ASSUME NEW n \in 0 .. PageLimit, NEW broken \in BOOLEAN, Events!Poll(n, broken)
              PROVE EventsInv'
  BY <1>10, PollKeeps
<1>11. ASSUME Events!Disconnect PROVE EventsInv'
  BY <1>11, DisconnectKeeps
<1>12. ASSUME Events!Tick PROVE EventsInv'
  BY <1>12, TickKeeps
<1> QED
  BY <1>1, <1>2, <1>3, <1>4, <1>5, <1>6, <1>7, <1>8, <1>9, <1>10, <1>11, <1>12 DEF Events!Next

LEMMA EventsStutter == ASSUME EventsInv, UNCHANGED Events!eventVars PROVE EventsInv'
<1>1. UNCHANGED <<eventClock, eventRows, recording, walk, stream, added, late, gone>>
  BY DEF Events!eventVars
<1>2. EventTypes'
  BY <1>1 DEF EventsInv, EventTypes, Walks, Streams
<1>3. IdsInv'
  BY <1>1 DEF EventsInv, IdsInv, RuntimeRows
<1>4. WalkInv'
  BY <1>1 DEF EventsInv, WalkInv
<1>5. StreamInv'
  BY <1>1 DEF EventsInv, StreamInv
<1> QED
  BY <1>2, <1>3, <1>4, <1>5 DEF EventsInv

(***************************************************************************)
(* However rows are added and deleted between two pages, what was there    *)
(* when the list was opened, is not deleted and is not older than the      *)
(* cursor has been shown; a stream has sent what is not newer than its     *)
(* last entry and was not added behind it (logFilterClauses,               *)
(* streamDurableLogs).                                                     *)
(***************************************************************************)
THEOREM EventsInvariant == Events!Spec => []EventsInv
<1>1. Events!Init => EventsInv
  BY EventsBegin
<1>2. EventsInv /\ [Events!Next]_(Events!eventVars) => EventsInv'
  BY EventsStep, EventsStutter
<1> QED
  BY <1>1, <1>2, EventAssumption, PTL DEF Events!Spec

\* A row that is listed twice would be before itself.
LEMMA EventsAreRight == ASSUME EventsInv PROVE Events!TypeOK /\ Events!EventsAreReadOnce
<1>1. walk.seen \in Seq(Events!Rows) /\ stream.got \in Seq(Events!Rows) /\ Falling(walk.seen)
        /\ Climbing(stream.got)
  BY DEF EventsInv, EventTypes, Walks, Streams, WalkInv, StreamInv
<1>2. /\ \A i \in DOMAIN walk.seen : walk.seen[i] \in Events!Rows
      /\ \A i \in DOMAIN stream.got : stream.got[i] \in Events!Rows
  BY <1>1
<1>3. Events!TypeOK
  <2>1. Events!ToSet(walk.seen) \subseteq Events!Rows
          /\ Events!ToSet(stream.got) \subseteq Events!Rows
    BY <1>2 DEF Events!ToSet
  <2> QED
    BY <2>1 DEF Events!TypeOK, EventsInv, EventTypes, Walks, Streams
<1>4. Events!IsInjective(walk.seen)
  <2>1. ASSUME NEW i \in DOMAIN walk.seen, NEW j \in DOMAIN walk.seen, walk.seen[i] = walk.seen[j]
               PROVE i = j
    <3>1. i \in Int /\ j \in Int
      BY <1>1
    <3>2. ~(i < j) /\ ~(j < i)
      BY <1>1, <1>2, <2>1, BeforeOrders DEF Falling
    <3> QED
      BY <3>1, <3>2
  <2> QED
    BY <2>1 DEF Events!IsInjective
<1>5. Events!IsInjective(stream.got)
  <2>1. ASSUME NEW i \in DOMAIN stream.got, NEW j \in DOMAIN stream.got,
               stream.got[i] = stream.got[j] PROVE i = j
    <3>1. i \in Int /\ j \in Int
      BY <1>1
    <3>2. ~(i < j) /\ ~(j < i)
      BY <1>1, <1>2, <2>1, BeforeOrders DEF Climbing
    <3> QED
      BY <3>1, <3>2
  <2> QED
    BY <2>1 DEF Events!IsInjective
<1>6. walk.listing # "none" /\ ~walk.more => {r \in walk.begun \ gone :
        Events!Matches(r, walk)} \subseteq Events!ToSet(walk.seen)
  BY DEF EventsInv, WalkInv, Shows, Events!ToSet
<1>7. \A i \in 1 .. Len(stream.got) - 1 : Events!Before(stream.got[i], stream.got[i + 1])
  <2>1. PICK m \in Nat : m = Len(stream.got) /\ DOMAIN stream.got = 1 .. m
    BY <1>1
  <2>2. \A i \in 1 .. m - 1 : i \in 1 .. m /\ i + 1 \in 1 .. m /\ i < i + 1
    OBVIOUS
  <2> QED
    BY <1>1, <2>1, <2>2 DEF Climbing
<1>8. ASSUME stream.got # <<>>, NEW r \in eventRows \ late, r.table = "log",
             Events!Before(stream.got[1], r), Events!Before(r, Events!Last(stream.got))
      PROVE  r \in Events!ToSet(stream.got)
  <2>1. Events!Last(stream.got) = End(stream.got) /\ End(stream.got) \in Events!Rows
          /\ r \in Events!Rows
    BY <1>1, <1>8 DEF Events!Last, End, EventsInv, EventTypes, Walks, Streams
  <2>2. ~Events!Before(End(stream.got), r)
    BY <1>8, <2>1, BeforeOrders
  <2>3. Shows(stream.got, r)
    BY <1>8, <2>2 DEF EventsInv, StreamInv
  <2> QED
    BY <2>3 DEF Shows, Events!ToSet
<1> QED
  BY <1>3, <1>4, <1>5, <1>6, <1>7, <1>8 DEF Events!EventsAreReadOnce

\* The lists of this panel behave as EventLogs says.
LEMMA PanelHasEvents == Spec => Events!Spec
<1>1. Init => Events!Init
  BY DEF Init
<1>2. [Next]_<<part, sourceVars, keyVars, nodeVars, renderVars, settingsVars, limiterVars,
        eventsVars, feedVars>>
        => [Events!Next]_(Events!eventVars)
  BY DEF Next, eventsVars, Events!eventVars
<1> QED
  BY <1>1, <1>2, PTL DEF Spec, Events!Spec

(***************************************************************************)
(* A list that is read to its end and a stream, over all its               *)
(* reconnections, show each entry once and in order, and leave out none    *)
(* that they could show; for any size of the pages and any number of       *)
(* entries, also of one instant.                                           *)
(***************************************************************************)
THEOREM EventsAreAlwaysReadOnce == Spec => []EventsAreReadOnce
<1>1. EventsInv => EventsAreReadOnce
  BY EventsAreRight DEF EventsAreReadOnce
<1> QED
  BY <1>1, PanelHasEvents, EventsInvariant, PTL
=============================================================================
