-------------------------- MODULE ChannelRendering --------------------------
(***************************************************************************)
(* What a subscriber receives: internal/subscription/channel_policy.go,    *)
(* channel_render.go, render_singbox.go and the conversions for the other  *)
(* clients, for one draft of a policy and the nodes that it is applied to. *)
(*                                                                         *)
(* The detours of nodes and the groups of a policy are graphs. A group or  *)
(* rule that names what is not there must end in a rejection, not in       *)
(* another way out.  Identities stand for the names given to them.         *)
(***************************************************************************)
EXTENDS Integers, FiniteSets, Sequences, SequencesExt

CONSTANTS
  Outbounds,       \* publication identities of nodes
  Groups,          \* identities of groups
  NoDetour,
  Drafts           \* the drafts considered, of the form below

VARIABLES
  draft,           \* the policy and the nodes of this rendering
  step,
  eligible,        \* nodes that may be rendered
  resolved,        \* nodes whose chain of detours was walked
  document         \* the result: nodes, groups, rules, final

renderVars == <<draft, step, eligible, resolved, document>>

(* A draft:                                                                *)
(*   format     the client                                                 *)
(*   present    nodes that exist, are granted and are not hidden           *)
(*   remote     those with the coordinates and fields the client supports  *)
(*   detour     per node the node it goes through, or NoDetour             *)
(*   policy     "include" or "exclude": what becomes of nodes not named    *)
(*   selected, excluded    the nodes that the policy names                 *)
(*   strict     incompatible_nodes = "error"                               *)
(*   groups     per group: enabled, type, candidates in order, rule        *)
(*   rule       the exit of its one rule, and the rule's place             *)
(*   exit       the default exit                                           *)
Formats == {"sing-box", "mihomo", "loon"}
Builtins == {"direct", "reject"}
Exits == [kind : Builtins \cup {"group-default"}] \cup [kind : {"node"}, id : Outbounds]
           \cup [kind : {"group"}, id : Groups]
Target == Outbounds \cup Groups \cup Builtins
Group == [enabled : BOOLEAN, type : {"select", "fallback", "url-test"}, order : Seq(Target),
          rule : Exits, place : Nat]
Draft == [format : Formats, present : SUBSET Outbounds, remote : SUBSET Outbounds,
          detour : [Outbounds -> Outbounds \cup {NoDetour}], policy : {"include", "exclude"},
          selected : SUBSET Outbounds, excluded : SUBSET Outbounds, strict : BOOLEAN,
          groups : [Groups -> Group], exit : Exits]
NoDocument == [nodes |-> {}, groups |-> <<>>, rules |-> <<>>, final |-> "reject"]

TypeOK ==
  /\ draft \in Drafts
  /\ step \in {"draft", "valid", "resolving", "ready", "done", "refused"}
  /\ resolved \subseteq Outbounds /\ eligible \subseteq Outbounds
  /\ document.nodes \subseteq Outbounds /\ document.rules \in Seq(Target)
  /\ document.groups \in Seq([id : Groups, candidates : Seq(Target)]) /\ document.final \in Target

Init ==
  /\ draft \in Drafts /\ step = "draft"
  /\ eligible = {} /\ resolved = {} /\ document = NoDocument

-----------------------------------------------------------------------------
(* ValidateChannelPolicy *)

Order(g) == draft.groups[g].order                      \* candidateOrder
NodeIDs(g) == ToSet(Order(g)) \cap Outbounds
GroupIDs(g) == ToSet(Order(g)) \cap Groups
BuiltinNodes(g) == ToSet(Order(g)) \cap Builtins
Enabled == {g \in Groups : draft.groups[g].enabled}

Selectable(n) == n \notin draft.excluded /\ (draft.policy = "exclude" => n \in draft.selected)

\* validateGroupOptions.
OptionsValid(g) ==
  /\ draft.format = "sing-box" => draft.groups[g].type # "fallback" /\ "reject" \notin BuiltinNodes(g)
  /\ draft.format = "loon" /\ draft.groups[g].type # "select" => BuiltinNodes(g) = {}
  /\ IsInjective(Order(g))

\* validateGroupReferences: depth first, disabled groups included; the groups
\* that can be reached in n steps.
Reached(g) ==
  LET reach[n \in 0 .. Cardinality(Groups)] ==
        IF n = 0 THEN GroupIDs(g) ELSE reach[n - 1] \cup UNION {GroupIDs(h) : h \in reach[n - 1]}
  IN reach[Cardinality(Groups)]
ReferencesValid == \A g \in Groups : GroupIDs(g) \subseteq Enabled /\ g \notin Reached(g)

\* validateExit: a node that may be chosen, a group that is rendered.
ExitValid(exit, nodes, groups, inherit) ==
  CASE exit.kind = "node" -> exit.id \in nodes
    [] exit.kind = "group" -> exit.id \in groups
    [] exit.kind = "group-default" -> inherit
    [] OTHER -> TRUE

PolicyValid ==
  /\ draft.selected \cap draft.excluded = {}
  /\ \A g \in Groups : /\ OptionsValid(g)
                       /\ \A n \in NodeIDs(g) : Selectable(n)
                       /\ ExitValid(draft.groups[g].rule, NodeIDs(g), {}, TRUE)
  /\ ReferencesValid
  /\ ExitValid(draft.exit, draft.selected, Enabled, FALSE)

Validate ==
  /\ step = "draft" /\ step' = IF PolicyValid THEN "valid" ELSE "refused"
  /\ UNCHANGED <<draft, eligible, resolved, document>>

-----------------------------------------------------------------------------
(* Nodes *)

\* prepareChannelNodes: a detour over a node that was not chosen is unresolved.
Chosen == {n \in draft.present : Selectable(n)}
Unresolved(n) == draft.detour[n] # NoDetour /\ draft.detour[n] \notin Chosen

\* The first pass of renderSingBox; convertMihomo and convertLoon know no detour.
Prepare ==
  /\ step = "valid"
  /\ eligible' = {n \in Chosen \cap draft.remote :
                   IF draft.format = "sing-box" THEN ~Unresolved(n) ELSE draft.detour[n] = NoDetour}
  /\ resolved' = IF draft.format = "sing-box" THEN {} ELSE Chosen
  /\ step' = "resolving" /\ UNCHANGED <<draft, document>>

\* The nodes on the walk from n, up to one that is resolved, ineligible, on the
\* walk already or without a detour.
Walk(n) ==
  LET ends(path) == \/ Last(path) \in resolved \/ Last(path) \notin eligible
                    \/ \E i \in 1 .. Len(path) - 1 : path[i] = Last(path)
                    \/ draft.detour[Last(path)] = NoDetour
      walk[i \in 0 .. Cardinality(Outbounds)] ==
        IF i = 0 THEN <<n>>
        ELSE IF ends(walk[i - 1]) THEN walk[i - 1]
        ELSE Append(walk[i - 1], draft.detour[Last(walk[i - 1])])
  IN walk[Cardinality(Outbounds)]

\* Mutant: a walk that comes back to itself counts as one that has ended.
ResolveAnyEnd(n) ==
  /\ step = "resolving" /\ n \in Chosen \ resolved
  /\ LET walk == Walk(n)
         last == Last(walk)
         valid == last \in eligible
         path == IF last \in resolved \/ last \notin eligible THEN ToSet(Front(walk)) ELSE ToSet(walk)
     IN /\ resolved' = resolved \cup path \cup {n}
        /\ eligible' = IF valid THEN eligible ELSE eligible \ path
  /\ UNCHANGED <<draft, step, document>>

\* One turn of the second loop of renderSingBox, in whatever order the nodes are.
Resolve(n) ==
  /\ step = "resolving" /\ n \in Chosen \ resolved
  /\ LET walk == Walk(n)
         last == Last(walk)
         known == last \in resolved \/ last \notin eligible
         valid == IF known THEN last \in eligible ELSE draft.detour[last] = NoDetour
         path == IF known THEN ToSet(Front(walk)) ELSE ToSet(walk)
     IN /\ resolved' = resolved \cup path \cup {n}
        /\ eligible' = IF valid THEN eligible ELSE eligible \ path
  /\ UNCHANGED <<draft, step, document>>

Resolved ==
  /\ step = "resolving" /\ Chosen \subseteq resolved
  /\ step' = IF draft.strict /\ eligible # Chosen THEN "refused" ELSE "ready"
  /\ UNCHANGED <<draft, eligible, resolved, document>>

-----------------------------------------------------------------------------
(* Groups and rules *)

\* Mutant: whatever candidate is left is the group's way out.
GroupExitAny(g, found, first) == IF found = <<>> THEN "reject" ELSE g

\* groupExit: nothing is left, or what a manual group has first is not there.
GroupExit(g, found, first) ==
  IF found = <<>> \/ (draft.groups[g].type = "select" /\ ~first) THEN "reject" ELSE g

\* The elements of s that are in S, in their order.
Kept(s, S) ==
  LET kept[i \in 0 .. Len(s)] ==
        IF i = 0 THEN <<>>
        ELSE IF s[i] \in S THEN Append(kept[i - 1], s[i]) ELSE kept[i - 1]
  IN kept[Len(s)]

\* renderGroups resolves children before parents: groupCandidates leaves out what
\* is not there or rejects.
Rendered ==
  LET group[g \in Groups] ==
        LET there == {x \in ToSet(Order(g)) :
                        \/ x \in eligible \cup Builtins
                        \/ x \in Enabled /\ group[x].exit # "reject"}
            found == Kept(Order(g), there)
        IN [candidates |-> found,
            exit |-> GroupExit(g, found, Order(g) # <<>> /\ Order(g)[1] \in there)]
  IN group

\* exitName.
ExitName(exit, group, rendered) ==
  CASE exit.kind = "direct" -> "direct"
    [] exit.kind = "node" -> IF exit.id \in eligible THEN exit.id ELSE "reject"
    [] exit.kind = "group" -> IF exit.id \in Enabled THEN rendered[exit.id].exit ELSE "reject"
    [] exit.kind = "group-default" -> rendered[group].exit
    [] OTHER -> "reject"

\* The enabled rules of all groups in their global order.
RuleOrder ==
  CHOOSE order \in [1 .. Cardinality(Enabled) -> Enabled] :
    /\ IsInjective(order)
    /\ \A i, j \in DOMAIN order : i < j => draft.groups[order[i]].place <= draft.groups[order[j]].place

\* addRule for each, and the two ends of RenderPolicyNodes.
Document ==
  LET rendered == Rendered
      present == {g \in Enabled : rendered[g].candidates # <<>>}
  IN [nodes |-> eligible,
      groups |-> [i \in 1 .. Cardinality(present) |->
                   [id |-> SetToSeq(present)[i], candidates |-> rendered[SetToSeq(present)[i]].candidates]],
      rules |-> [i \in 1 .. Cardinality(Enabled) |->
                  ExitName(draft.groups[RuleOrder[i]].rule, RuleOrder[i], rendered)],
      final |-> ExitName(draft.exit, "none", rendered)]

Render ==
  /\ step = "ready" /\ document' = Document
  /\ step' = "done" /\ UNCHANGED <<draft, eligible, resolved>>

Next == Validate \/ Prepare \/ (\E n \in Outbounds : Resolve(n)) \/ Resolved \/ Render

Spec == Init /\ [][Next]_renderVars

-----------------------------------------------------------------------------
(* Properties *)

\* The nodes that can be reached from n over detours, n included.
Chain(n) ==
  LET chain[i \in 0 .. Cardinality(Outbounds)] ==
        IF i = 0 THEN {n} ELSE chain[i - 1] \cup {draft.detour[m] : m \in chain[i - 1] \cap Outbounds}
  IN chain[Cardinality(Outbounds)]

\* A document is closed: it has exactly the nodes whose chain of detours ends
\* over nodes that are there as well, whatever the order of the nodes and the
\* cycles among them, and every name in its groups and rules is rendered, so that
\* a client accepts it.
DocumentIsClosed ==
  step = "done" =>
    LET ids == {document.groups[i].id : i \in DOMAIN document.groups}
        known == document.nodes \cup ids \cup Builtins
    IN /\ document.nodes =
            {n \in Chosen : IF draft.format = "sing-box"
                              THEN NoDetour \in Chain(n) /\ Chain(n) \ {NoDetour} \subseteq Chosen \cap draft.remote
                              ELSE n \in draft.remote /\ draft.detour[n] = NoDetour}
       /\ ToSet(document.rules) \cup {document.final} \subseteq known
       /\ \A i \in DOMAIN document.groups : ToSet(document.groups[i].candidates) \subseteq known

\* Nothing that is missing is replaced by another way out: a rule or the default
\* exit that leads to a group leads, over the groups it selects by default, to the
\* very candidate that the policy puts first.
Default[g \in Groups] == IF draft.groups[g].type = "select" THEN Order(g)[1] ELSE g
Lands(x) == LET lands[i \in 0 .. Cardinality(Groups)] ==
                  IF i = 0 THEN x ELSE IF lands[i - 1] \in Groups THEN Default[lands[i - 1]] ELSE lands[i - 1]
            IN {lands[i] : i \in DOMAIN lands}
ExitsFailClosed ==
  step = "done" =>
    LET shown == [i \in DOMAIN document.groups |-> document.groups[i]]
        targets == (ToSet(document.rules) \cup {document.final}) \cap Groups
    IN \A g \in targets : \A x \in Lands(g) :
         /\ x \in Groups => \E i \in DOMAIN shown : shown[i].id = x
                              /\ (draft.groups[x].type = "select" => shown[i].candidates[1] = Order(x)[1])
         /\ x \in Outbounds => x \in document.nodes
=============================================================================
