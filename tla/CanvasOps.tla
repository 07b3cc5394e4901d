------------------------------ MODULE CanvasOps ------------------------------
(***************************************************************************)
(* The write operations of a canvas document (internal/graph): for every   *)
(* kind of op, when applyOne accepts it and which document it leaves.      *)
(* A document is a value; the modules that extend this one give it a life. *)
(*                                                                         *)
(* Data that no property distinguishes is abstracted: rectangles have one  *)
(* dimension (x, w), a spec is a function from some keys to values, ports  *)
(* are names with a kind.  Control is complete: every early return of the  *)
(* apply functions is a conjunct of an Accepts operator.                   *)
(***************************************************************************)
EXTENDS Integers, FiniteSets, FiniteSetsExt, Sequences

CONSTANTS
  NodeId, EdgeId,       \* identifiers the clients may choose
  NodeType, Group,      \* the registered node types; the layout container
  PortId, Kind,         \* port names; resource kinds (text, image, ...)
  Inputs, Outputs,      \* [NodeType -> SUBSET PortId], the schema of a type
  KindOf,               \* [NodeType \X PortId -> Kind]
  Single,               \* input ports of the schema with Multiple = false
  Key, Value,           \* spec/meta keys and values
  Required,             \* [NodeType -> SUBSET Key]
  Title, NoTitle,       \* NoTitle is the empty string
  Result, Error,        \* results and errors a run writes back
  Idle, NodeState,      \* Idle is the state without a result
  None,                 \* nil, the empty id, an absent node or edge
  Rejected,             \* Apply returned an error
  CoordMin, CoordMax, SizeMin, SizeMax, Pad,
  MaxNodes, MaxEdges, MaxGroupDepth,
  OpPool                \* the ops submitted in this instance of the model

SpecData == UNION {[S -> Value] : S \in SUBSET Key}

Node == [type : NodeType, parent : NodeId \union {None},
         x : Int, w : Int, title : Title \union {NoTitle},
         spec : SpecData, meta : SpecData, state : NodeState,
         result : Result \union {None}, error : Error \union {None}]

Edge == [from : NodeId, fromPort : PortId, to : NodeId, toPort : PortId]

Doc == [node : [NodeId -> Node \union {None}],
        edge : [EdgeId -> Edge \union {None}],
        viewport : Value, settings : Value]

(***************************************************************************)
(* The op payloads.                                                        *)
(***************************************************************************)
AddNodeOp    == [kind : {"add_node"}, id : NodeId, node : Node]
RemoveNodeOp == [kind : {"remove_node"}, id : NodeId, cascade : BOOLEAN]
MoveNodeOp   == [kind : {"move_node"}, id : NodeId, x : Int, delta : BOOLEAN]
ResizeNodeOp == [kind : {"resize_node"}, id : NodeId, w : Int]
SetTitleOp   == [kind : {"set_title"}, id : NodeId, title : Title \union {NoTitle}]
SetSpecOp    == [kind : {"set_spec"}, id : NodeId, patch : SpecData, unset : SUBSET Key,
                 meta : SpecData, metaUnset : SUBSET Key]
SetStateOp   == [kind : {"set_state"}, id : NodeId, state : NodeState,
                 result : Result \union {None}, error : Error \union {None}]
AddEdgeOp    == [kind : {"add_edge"}, id : EdgeId, edge : Edge]
RemoveEdgeOp == [kind : {"remove_edge"}, id : EdgeId]
GroupOp      == [kind : {"group"}, group : NodeId, members : (SUBSET NodeId) \ {{}},
                 rect : [x : Int, w : Int] \union {None}]
UngroupOp    == [kind : {"ungroup"}, group : NodeId, keep : BOOLEAN]
ViewportOp   == [kind : {"set_viewport"}, value : Value]
SettingsOp   == [kind : {"set_settings"}, value : Value]
SetParentOp  == [kind : {"set_parent"}, id : NodeId, parent : NodeId \union {None}]

Op == AddNodeOp \union RemoveNodeOp \union MoveNodeOp \union ResizeNodeOp
        \union SetTitleOp \union SetSpecOp \union SetStateOp \union AddEdgeOp
        \union RemoveEdgeOp \union GroupOp \union UngroupOp \union ViewportOp
        \union SettingsOp \union SetParentOp

(***************************************************************************)
(* What the code guarantees of its own constants: None is no identifier,   *)
(* the decoded ops are well-formed, the tables are those of the schema.    *)
(***************************************************************************)
ASSUME NoneIsApart ==
  /\ None \notin NodeId /\ None \notin Node /\ None \notin Edge
  /\ None \notin Result /\ None \notin Error
  /\ Rejected \notin Doc

ASSUME OpsTyped == OpPool \subseteq Op

ASSUME FinitelyMany == IsFiniteSet(NodeId) /\ IsFiniteSet(EdgeId)

ASSUME LimitsTyped == MaxNodes \in Nat /\ MaxEdges \in Nat /\ MaxGroupDepth \in Nat

ASSUME SchemaTyped ==
  /\ Group \in NodeType
  /\ Inputs \in [NodeType -> SUBSET PortId]
  /\ Outputs \in [NodeType -> SUBSET PortId]

(***************************************************************************)
(* Reading a document.                                                     *)
(***************************************************************************)
Present(doc) == {n \in NodeId : doc.node[n] # None}
Edges(doc) == {e \in EdgeId : doc.edge[e] # None}
ChildrenOf(doc, g) == {n \in Present(doc) : doc.node[n].parent = g}
Touching(doc, n) ==
  {e \in Edges(doc) : doc.edge[e].from = n \/ doc.edge[e].to = n}

NodeRoom(doc) == Cardinality(Present(doc)) < MaxNodes

\* Mutation: the limit is compared with <=.
EdgeRoomOffByOne(doc) == Cardinality(Edges(doc)) <= MaxEdges

EdgeRoom(doc) == Cardinality(Edges(doc)) < MaxEdges

ValidRect(x, w) == x \in CoordMin..CoordMax /\ w \in SizeMin..SizeMax

(***************************************************************************)
(* Closures are least sets: the ids a parent chain visits, and the nodes a *)
(* walk against the edges (and up the groups) visits.                      *)
(***************************************************************************)
ParentClosed(doc, S) ==
  \A n \in S \intersect Present(doc) :
    doc.node[n].parent # None => doc.node[n].parent \in S

EdgeClosed(doc, S) ==
  \A e \in Edges(doc) : doc.edge[e].to \in S => doc.edge[e].from \in S

Ancestry(doc, p) ==
  {n \in NodeId : \A S \in SUBSET NodeId :
                    p \in S /\ ParentClosed(doc, S) => n \in S}

Upstream(doc, n) ==
  {m \in NodeId : \A S \in SUBSET NodeId :
      n \in S /\ EdgeClosed(doc, S) /\ ParentClosed(doc, S) => m \in S}

\* Mutation: only an edge straight back is seen.
SeesDirectCycle(doc, from, to) ==
  \E e \in Edges(doc) : doc.edge[e].to = from /\ doc.edge[e].from = to

\* The visited ids of the walk from `from` against the edges include `to`.
wouldCycle(doc, from, to) == to \in Upstream(doc, from)

\* Mutation: the walk up the groups does not look for the node itself.
checkParentNoCycle(doc, n, p) ==
  p = None \/ (p # n /\ p \in Present(doc) /\ doc.node[p].type = Group)

\* Only the chain above the new parent is measured, not the subtree below n.
checkParent(doc, n, p) ==
  \/ p = None
  \/ /\ p # n
     /\ p \in Present(doc)
     /\ doc.node[p].type = Group
     /\ n \notin Ancestry(doc, p)
     /\ Cardinality(Ancestry(doc, p)) <= MaxGroupDepth

(***************************************************************************)
(* add_node: the node arrives whole (also when an inverse restores it).    *)
(***************************************************************************)
AcceptsAddNode(doc, op) ==
  /\ op.id \notin Present(doc)
  /\ ValidRect(op.node.x, op.node.w)
  /\ NodeRoom(doc)
  /\ Required[op.node.type] \subseteq DOMAIN op.node.spec
  /\ checkParent(doc, op.id, op.node.parent)

AppliedAddNode(doc, op) == [doc EXCEPT !.node[op.id] = op.node]

(***************************************************************************)
(* remove_node: the edges of the node go with it, its children become      *)
(* top-level nodes.                                                        *)
(***************************************************************************)
AcceptsRemoveNode(doc, op) ==
  /\ op.id \in Present(doc)
  /\ op.cascade \/ Touching(doc, op.id) = {}

\* Mutation: the children keep the id of the removed group.
OrphanedNever(doc, g, n) == doc.node[n]

Orphaned(doc, g, n) ==
  IF n \in ChildrenOf(doc, g) THEN [doc.node[n] EXCEPT !.parent = None]
                              ELSE doc.node[n]

\* Mutation: the edges of the node stay.
AppliedRemoveNodeOnly(doc, op) ==
  [doc EXCEPT !.node = [n \in NodeId |-> IF n = op.id THEN None
                                                     ELSE Orphaned(doc, op.id, n)]]

AppliedRemoveNode(doc, op) ==
  [doc EXCEPT
     !.node = [n \in NodeId |-> IF n = op.id THEN None ELSE Orphaned(doc, op.id, n)],
     !.edge = [e \in EdgeId |-> IF e \in Touching(doc, op.id) THEN None ELSE doc.edge[e]]]

(***************************************************************************)
(* move_node, resize_node, set_title, set_spec: the content of one node.   *)
(***************************************************************************)
MovedTo(doc, op) == IF op.delta THEN doc.node[op.id].x + op.x ELSE op.x

AcceptsMoveNode(doc, op) ==
  /\ op.id \in Present(doc)
  /\ op.x \in CoordMin..CoordMax
  /\ ValidRect(MovedTo(doc, op), doc.node[op.id].w)

AppliedMoveNode(doc, op) == [doc EXCEPT !.node[op.id].x = MovedTo(doc, op)]

AcceptsResizeNode(doc, op) ==
  /\ op.id \in Present(doc)
  /\ ValidRect(doc.node[op.id].x, op.w)

AppliedResizeNode(doc, op) == [doc EXCEPT !.node[op.id].w = op.w]

AcceptsSetTitle(doc, op) == op.id \in Present(doc)

\* An empty title keeps the title there is.
AppliedSetTitle(doc, op) ==
  IF op.title = NoTitle THEN doc
                        ELSE [doc EXCEPT !.node[op.id].title = op.title]

\* Unset removes first, then the patch is written over what is left.
Patched(spec, patch, unset) ==
  [k \in (DOMAIN spec \ unset) \union DOMAIN patch |->
     IF k \in DOMAIN patch THEN patch[k] ELSE spec[k]]

HasMetaChange(op) == DOMAIN op.meta # {} \/ op.metaUnset # {}

AcceptsSetSpec(doc, op) ==
  /\ op.id \in Present(doc)
  /\ DOMAIN op.patch # {} \/ op.unset # {} \/ HasMetaChange(op)

\* An op with a meta change edits the meta alone: applySetMeta returns first.
AppliedSetSpec(doc, op) ==
  IF HasMetaChange(op)
  THEN [doc EXCEPT !.node[op.id].meta = Patched(@, op.meta, op.metaUnset)]
  ELSE [doc EXCEPT !.node[op.id].spec = Patched(@, op.patch, op.unset)]

(***************************************************************************)
(* set_state: result and error are replaced when given, cleared by idle.   *)
(***************************************************************************)
AcceptsSetState(doc, op) == op.id \in Present(doc)

Replaced(old, new) == IF new # None THEN new ELSE old

AppliedSetState(doc, op) ==
  LET n == doc.node[op.id] IN
  [doc EXCEPT !.node[op.id] =
     [n EXCEPT !.state = op.state,
               !.result = IF op.state = Idle THEN None ELSE Replaced(@, op.result),
               !.error = IF op.state = Idle THEN None ELSE Replaced(@, op.error)]]

(***************************************************************************)
(* add_edge: a new edge on a single-input port replaces the one there, and *)
(* the cycle check runs on the document without the replaced edge.         *)
(***************************************************************************)
\* Mutation: only an edge of the same source is replaced.
ReplacedBySource(doc, edge) ==
  {e \in Edges(doc) : /\ <<doc.node[edge.to].type, edge.toPort>> \in Single
                      /\ doc.edge[e].to = edge.to
                      /\ doc.edge[e].toPort = edge.toPort
                      /\ doc.edge[e].from = edge.from}

ReplacedBy(doc, edge) ==
  {e \in Edges(doc) : /\ <<doc.node[edge.to].type, edge.toPort>> \in Single
                      /\ doc.edge[e].to = edge.to
                      /\ doc.edge[e].toPort = edge.toPort}

WithoutReplaced(doc, edge) ==
  [doc EXCEPT !.edge = [e \in EdgeId |->
     IF e \in ReplacedBy(doc, edge) THEN None ELSE doc.edge[e]]]

PortsMatch(doc, edge) ==
  LET from == doc.node[edge.from].type
      to == doc.node[edge.to].type
  IN /\ from # Group /\ to # Group
     /\ edge.fromPort \in Outputs[from]
     /\ edge.toPort \in Inputs[to]
     /\ KindOf[<<from, edge.fromPort>>] = KindOf[<<to, edge.toPort>>]

AcceptsAddEdge(doc, op) ==
  /\ op.id \notin Edges(doc)
  /\ EdgeRoom(doc)
  /\ op.edge.from \in Present(doc) /\ op.edge.to \in Present(doc)
  /\ op.edge.from # op.edge.to
  /\ PortsMatch(doc, op.edge)
  /\ ~wouldCycle(WithoutReplaced(doc, op.edge), op.edge.from, op.edge.to)

AppliedAddEdge(doc, op) ==
  [WithoutReplaced(doc, op.edge) EXCEPT !.edge[op.id] = op.edge]

AcceptsRemoveEdge(doc, op) == op.id \in Edges(doc)

AppliedRemoveEdge(doc, op) == [doc EXCEPT !.edge[op.id] = None]

(***************************************************************************)
(* group: every member joins the group, whose rectangle becomes the given  *)
(* one, or else the padded bounding box of the members, if it is valid.    *)
(***************************************************************************)
AcceptsGroup(doc, op) ==
  /\ op.group \in Present(doc)
  /\ doc.node[op.group].type = Group
  /\ \A m \in op.members : /\ m \in Present(doc)
                           /\ m # op.group
                           /\ doc.node[m].type # Group
                           /\ checkParent(doc, m, op.group)

Around(doc, members) ==
  LET left == Min({doc.node[m].x : m \in members})
      right == Max({doc.node[m].x + doc.node[m].w : m \in members})
  IN [x |-> left - Pad, w |-> (right - left) + 2 * Pad]

Drawn(doc, op) == IF op.rect # None THEN op.rect ELSE Around(doc, op.members)

GroupRect(doc, op) ==
  LET r == Drawn(doc, op)
      g == doc.node[op.group]
  IN IF ValidRect(r.x, r.w) THEN r ELSE [x |-> g.x, w |-> g.w]

AppliedGroup(doc, op) ==
  LET r == GroupRect(doc, op) IN
  [doc EXCEPT !.node = [n \in NodeId |->
     IF n \in op.members THEN [doc.node[n] EXCEPT !.parent = op.group]
     ELSE IF n = op.group THEN [doc.node[n] EXCEPT !.x = r.x, !.w = r.w]
     ELSE doc.node[n]]]

(***************************************************************************)
(* ungroup: keeping the children only clears their parent; otherwise the   *)
(* children and the group go, with the edges of the group alone.           *)
(***************************************************************************)
AcceptsUngroup(doc, op) ==
  /\ op.group \in Present(doc)
  /\ doc.node[op.group].type = Group

AppliedUngroup(doc, op) ==
  IF op.keep
  THEN [doc EXCEPT !.node = [n \in NodeId |-> Orphaned(doc, op.group, n)]]
  ELSE [doc EXCEPT
          !.node = [n \in NodeId |->
                      IF n = op.group \/ n \in ChildrenOf(doc, op.group)
                      THEN None ELSE doc.node[n]],
          !.edge = [e \in EdgeId |->
                      IF e \in Touching(doc, op.group) THEN None ELSE doc.edge[e]]]

(***************************************************************************)
(* set_parent, set_viewport, set_settings.                                 *)
(***************************************************************************)
AcceptsSetParent(doc, op) ==
  /\ op.id \in Present(doc)
  /\ checkParent(doc, op.id, op.parent)

AppliedSetParent(doc, op) == [doc EXCEPT !.node[op.id].parent = op.parent]

AppliedViewport(doc, op) == [doc EXCEPT !.viewport = op.value]

AppliedSettings(doc, op) == [doc EXCEPT !.settings = op.value]

(***************************************************************************)
(* applyOne dispatches on the kind; Apply folds a batch over a copy of the *)
(* document and gives up at the first op that is not accepted.             *)
(***************************************************************************)
Accepts(doc, op) ==
  CASE op.kind = "add_node"    -> AcceptsAddNode(doc, op)
    [] op.kind = "remove_node" -> AcceptsRemoveNode(doc, op)
    [] op.kind = "move_node"   -> AcceptsMoveNode(doc, op)
    [] op.kind = "resize_node" -> AcceptsResizeNode(doc, op)
    [] op.kind = "set_title"   -> AcceptsSetTitle(doc, op)
    [] op.kind = "set_spec"    -> AcceptsSetSpec(doc, op)
    [] op.kind = "set_state"   -> AcceptsSetState(doc, op)
    [] op.kind = "add_edge"    -> AcceptsAddEdge(doc, op)
    [] op.kind = "remove_edge" -> AcceptsRemoveEdge(doc, op)
    [] op.kind = "group"       -> AcceptsGroup(doc, op)
    [] op.kind = "ungroup"     -> AcceptsUngroup(doc, op)
    [] op.kind = "set_parent"  -> AcceptsSetParent(doc, op)
    [] op.kind \in {"set_viewport", "set_settings"} -> TRUE

Applied(doc, op) ==
  CASE op.kind = "add_node"     -> AppliedAddNode(doc, op)
    [] op.kind = "remove_node"  -> AppliedRemoveNode(doc, op)
    [] op.kind = "move_node"    -> AppliedMoveNode(doc, op)
    [] op.kind = "resize_node"  -> AppliedResizeNode(doc, op)
    [] op.kind = "set_title"    -> AppliedSetTitle(doc, op)
    [] op.kind = "set_spec"     -> AppliedSetSpec(doc, op)
    [] op.kind = "set_state"    -> AppliedSetState(doc, op)
    [] op.kind = "add_edge"     -> AppliedAddEdge(doc, op)
    [] op.kind = "remove_edge"  -> AppliedRemoveEdge(doc, op)
    [] op.kind = "group"        -> AppliedGroup(doc, op)
    [] op.kind = "ungroup"      -> AppliedUngroup(doc, op)
    [] op.kind = "set_parent"   -> AppliedSetParent(doc, op)
    [] op.kind = "set_viewport" -> AppliedViewport(doc, op)
    [] op.kind = "set_settings" -> AppliedSettings(doc, op)

ApplyOne(doc, op) ==
  IF doc # Rejected /\ Accepts(doc, op) THEN Applied(doc, op) ELSE Rejected

Apply(doc, ops) ==
  LET after[i \in 0..Len(ops)] ==
        IF i = 0 THEN doc ELSE ApplyOne(after[i - 1], ops[i])
  IN after[Len(ops)]

(***************************************************************************)
(* What makes a document well-formed.                                      *)
(***************************************************************************)
WithinLimits(doc) ==
  /\ Cardinality(Present(doc)) <= MaxNodes
  /\ Cardinality(Edges(doc)) <= MaxEdges

Attached(doc) ==
  \A e \in Edges(doc) :
    /\ doc.edge[e].from \in Present(doc) /\ doc.edge[e].to \in Present(doc)
    /\ doc.edge[e].from # doc.edge[e].to
    /\ PortsMatch(doc, doc.edge[e])

SingleFed(doc) ==
  \A e, f \in Edges(doc) :
    /\ doc.edge[e].to = doc.edge[f].to
    /\ doc.edge[e].toPort = doc.edge[f].toPort
    /\ <<doc.node[doc.edge[e].to].type, doc.edge[e].toPort>> \in Single
    => e = f

\* Every non-empty set of nodes has a member that no edge enters from the set.
NoCycle(doc) ==
  \A S \in (SUBSET NodeId) \ {{}} :
    \E n \in S : \A e \in Edges(doc) :
      doc.edge[e].to = n => doc.edge[e].from \notin S

Grouped(doc) ==
  \A n \in Present(doc) :
    doc.node[n].parent # None =>
      /\ doc.node[n].parent \in Present(doc)
      /\ doc.node[doc.node[n].parent].type = Group

\* Every non-empty set of nodes has a member whose parent is not in the set.
Nested(doc) ==
  \A S \in (SUBSET Present(doc)) \ {{}} :
    \E n \in S : doc.node[n].parent \notin S

InRange(doc) ==
  \A n \in Present(doc) : ValidRect(doc.node[n].x, doc.node[n].w)

NewDocument(viewport, settings) ==
  [node |-> [n \in NodeId |-> None], edge |-> [e \in EdgeId |-> None],
   viewport |-> viewport, settings |-> settings]
==============================================================================
