-------------------------- MODULE SubscriptionNodes --------------------------
(***************************************************************************)
(* The catalog of nodes and what is kept about them: manual nodes, hidden  *)
(* nodes, orders of collections and grants of users, from internal/store/  *)
(* subscription_{nodes,node_dependencies,node_orders,users}.go, the        *)
(* application and the routes of the same names.                           *)
(*                                                                         *)
(* A request reads the catalog in one transaction and writes in another;   *)
(* between the two the collections may change. A write names the revision  *)
(* it was made from.                                                       *)
(***************************************************************************)
EXTENDS Integers, FiniteSets, Functions

CONSTANTS
  Nodes,          \* identifiers of manual nodes, not drawn twice
  Tags, NoTag,    \* names of manual nodes; no detour
  Remotes,        \* remote sources, not drawn twice
  RemoteTags,     \* names a source may answer; with the source the identity of a node
  Members,        \* users whose grants are edited
  Editors,        \* requests under way
  MaxManualNodes, \* MaximumNodes
  MaxRevisions,   \* bound: revisions of a manual node
  MaxMarks        \* bound: writes of the other tables

VARIABLES
  manual,         \* per manual node: tag, detour and revision
  feeds,          \* per source the names in its current version
  used,           \* identifiers drawn so far
  visibility,     \* per publication identity: hidden and revision
  orders,         \* per collection: identities and revision
  grants,         \* per user: granted nodes and number of the user's update
  views           \* per request: the catalog it has read, by collection

nodeVars == <<manual, feeds, used, visibility, orders, grants, views>>

NoView == <<>>
Empty == [x \in {} |-> x]
Collections == {"manual"} \cup Remotes
Revisions == 1 .. MaxRevisions
Marks == 1 .. MaxMarks
ManualNode == [tag : Tags, detour : Tags \cup {NoTag}, revision : Revisions]
Without(f, x) == [y \in DOMAIN f \ {x} |-> f[y]]
With(f, x, v) == [y \in DOMAIN f \cup {x} |-> IF y = x THEN v ELSE f[y]]

\* PublicationID: a manual node keeps its identity, one of a source its name.
PublicationID == Nodes \cup (Remotes \X RemoteTags)

TypeOK ==
  /\ DOMAIN manual \cup DOMAIN feeds \subseteq used /\ used \subseteq Nodes \cup Remotes
  /\ Range(manual) \subseteq ManualNode /\ Range(feeds) \subseteq SUBSET RemoteTags
  /\ Cardinality(DOMAIN manual) <= MaxManualNodes
  /\ DOMAIN visibility \subseteq PublicationID
  /\ Range(visibility) \subseteq [hidden : BOOLEAN, revision : Marks]
  /\ DOMAIN orders \subseteq Collections
  /\ Range(orders) \subseteq [ids : SUBSET PublicationID, revision : Marks]
  /\ grants \in [Members -> [keys : SUBSET PublicationID, update : {0} \cup Marks]]

Init ==
  /\ manual = Empty /\ feeds = Empty /\ used = {} /\ visibility = Empty /\ orders = Empty
  /\ grants = [u \in Members |-> [keys |-> {}, update |-> 0]]
  /\ views = [e \in Editors |-> NoView]

-----------------------------------------------------------------------------
(* The catalog *)

\* subscriptionCatalog, by collection; local nodes come with the core and are
\* like manual nodes that nobody edits.
Catalog == [c \in {"manual"} \cup DOMAIN feeds |->
             IF c = "manual" THEN DOMAIN manual ELSE {c} \X feeds[c]]

Members_(view) == UNION Range(view)

ReadCatalog(e) ==
  /\ views[e] = NoView /\ views' = [views EXCEPT ![e] = Catalog]
  /\ UNCHANGED <<manual, feeds, used, visibility, orders, grants>>

\* The request is done, or refused.
Close(e) == views' = [views EXCEPT ![e] = NoView]
GiveUp(e) ==
  /\ views[e] # NoView /\ Close(e)
  /\ UNCHANGED <<manual, feeds, used, visibility, orders, grants>>

Revision(rows, x) == IF x \in DOMAIN rows THEN rows[x].revision ELSE 0
Current(rows, x, expected) == Revision(rows, x) = expected

\* The bounds: revisions of a manual node, writes of the other three tables.
Sum(f) == FoldFunction(LAMBDA a, b : a + b, 0, f)
Marked == Sum([x \in DOMAIN visibility |-> visibility[x].revision])
            + Sum([c \in DOMAIN orders |-> orders[c].revision])
            + Sum([u \in Members |-> grants[u].update])
MayMark == Marked < MaxMarks

-----------------------------------------------------------------------------
(* Manual nodes *)

\* Mutant: a node is compared with its own detour only.
AcyclicAlone(id, tag, detour) ==
  /\ \A m \in DOMAIN manual \ {id} : manual[m].tag # tag
  /\ detour # tag
  /\ detour = NoTag \/ \E m \in DOMAIN manual \ {id} : manual[m].tag = detour

\* validateManualDependencies: no other node has the name, and the detours from
\* this node lead over existing nodes to one without a detour.
Acyclic(id, tag, detour) ==
  LET others == DOMAIN manual \ {id}
      edges == [t \in {tag} \cup {manual[m].tag : m \in others} |->
                 IF t = tag THEN detour ELSE manual[CHOOSE m \in others : manual[m].tag = t].detour]
      walk[n \in 0 .. Cardinality(Tags)] ==
        IF n = 0 THEN tag
        ELSE IF walk[n - 1] \in DOMAIN edges THEN edges[walk[n - 1]] ELSE walk[n - 1]
  IN /\ \A m \in others : manual[m].tag # tag
     /\ walk[Cardinality(Tags)] = NoTag

\* SaveManualSubscriptionNode; a new node is expected at revision 0.
SaveManualNode(id, tag, detour, expected) ==
  /\ Current(manual, id, expected) /\ expected < MaxRevisions
  /\ Cardinality(DOMAIN manual \ {id}) < MaxManualNodes
  /\ Acyclic(id, tag, detour)
  /\ manual' = With(manual, id, [tag |-> tag, detour |-> detour, revision |-> expected + 1])

CreateNode(id, tag, detour) ==
  /\ id \in Nodes \ used /\ used' = used \cup {id}
  /\ SaveManualNode(id, tag, detour, 0)
  /\ UNCHANGED <<feeds, visibility, orders, grants, views>>

\* The node of the identity in the catalog just read is a manual one.
UpdateNode(e, id, tag, detour, expected) ==
  /\ views[e] # NoView /\ id \in views[e]["manual"] /\ id \in DOMAIN manual /\ Close(e)
  /\ SaveManualNode(id, tag, detour, expected)
  /\ UNCHANGED <<feeds, used, visibility, orders, grants>>

\* Nodes that take a detour over it keep the name.
DeleteNode(e, id, expected) ==
  /\ views[e] # NoView /\ id \in views[e]["manual"] /\ id \in DOMAIN manual /\ Close(e)
  /\ Current(manual, id, expected)
  /\ manual' = Without(manual, id) /\ visibility' = Without(visibility, id)
  /\ UNCHANGED <<feeds, used, orders, grants>>

-----------------------------------------------------------------------------
(* Visibility, orders and grants *)

\* The row may be that of a node which has gone since the catalog was read.
StoreVisibility(id, hidden, expected) ==
  /\ Current(visibility, id, expected) /\ MayMark
  /\ visibility' = With(visibility, id, [hidden |-> hidden, revision |-> expected + 1])

SetVisibility(e, id, hidden, expected) ==
  /\ views[e] # NoView /\ id \in Members_(views[e]) /\ Close(e)
  /\ StoreVisibility(id, hidden, expected)
  /\ UNCHANGED <<manual, feeds, used, orders, grants>>

\* store.SetSubscriptionNodeOrder.
StoreOrder(c, ids, expected) ==
  /\ c = "manual" \/ c \in DOMAIN feeds
  /\ Current(orders, c, expected) /\ MayMark
  /\ orders' = With(orders, c, [ids |-> ids, revision |-> expected + 1])

SetOrder(e, c, ids, expected) ==
  /\ views[e] # NoView /\ Close(e)
  /\ ids \subseteq (IF c \in DOMAIN views[e] THEN views[e][c] ELSE {})
  /\ StoreOrder(c, ids, expected)
  /\ UNCHANGED <<manual, feeds, used, visibility, grants>>

StoreGrants(u, keys, expected) ==
  /\ grants[u].update = expected /\ MayMark
  /\ grants' = [grants EXCEPT ![u] = [keys |-> keys, update |-> expected + 1]]

ReplaceGrants(e, u, keys, expected) ==
  /\ views[e] # NoView /\ keys \subseteq Members_(views[e]) /\ Close(e)
  /\ StoreGrants(u, keys, expected)
  /\ UNCHANGED <<manual, feeds, used, visibility, orders>>

-----------------------------------------------------------------------------
(* The sources, as far as the catalog sees them *)

Refresh(s, tags) ==
  /\ s \in DOMAIN feeds \/ s \notin used
  /\ used' = used \cup {s} /\ feeds' = With(feeds, s, tags)
  /\ UNCHANGED <<manual, visibility, orders, grants, views>>

\* The trigger subscription_source_delete_node_order.
RemoveSource(s) ==
  /\ s \in DOMAIN feeds /\ feeds' = Without(feeds, s) /\ orders' = Without(orders, s)
  /\ UNCHANGED <<manual, used, visibility, grants, views>>

-----------------------------------------------------------------------------

PostNode(id) == \E tag \in Tags, detour \in Tags \cup {NoTag} : CreateNode(id, tag, detour)
PutNode(e) == \E id \in Nodes, tag \in Tags, detour \in Tags \cup {NoTag}, expected \in Revisions :
                UpdateNode(e, id, tag, detour, expected)
RemoveNode(e) == \E id \in Nodes, expected \in Revisions : DeleteNode(e, id, expected)
PutVisibility(e) == \E id \in PublicationID, hidden \in BOOLEAN, expected \in {0} \cup Marks :
                      SetVisibility(e, id, hidden, expected)
PutOrder(e) == \E c \in Collections, ids \in SUBSET PublicationID, expected \in {0} \cup Marks :
                 SetOrder(e, c, ids, expected)
PutGrants(e) == \E u \in Members, keys \in SUBSET PublicationID, expected \in {0} \cup Marks :
                  ReplaceGrants(e, u, keys, expected)

Next ==
  \/ \E id \in Nodes : PostNode(id)
  \/ \E e \in Editors : \/ ReadCatalog(e) \/ GiveUp(e) \/ PutNode(e) \/ RemoveNode(e)
                        \/ PutVisibility(e) \/ PutOrder(e) \/ PutGrants(e)
  \/ \E s \in Remotes : RemoveSource(s) \/ \E tags \in SUBSET RemoteTags : Refresh(s, tags)

Spec == Init /\ [][Next]_nodeVars

-----------------------------------------------------------------------------
(* Properties *)

\* However nodes are renamed, deleted and written again, also by requests that
\* were prepared together, no detours lead in a circle, even those that lead
\* over a name which was free for a while: a client would loop.
Detours(T) == {manual[m].detour : m \in {n \in DOMAIN manual : manual[n].tag \in T}} \ {NoTag}
NoDependencyCycle ==
  /\ \A m, n \in DOMAIN manual : manual[m].tag = manual[n].tag => m = n
  /\ \A T \in SUBSET Tags : T # {} => ~(T \subseteq Detours(T))
=============================================================================
