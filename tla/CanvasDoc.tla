------------------------------ MODULE CanvasDoc ------------------------------
(***************************************************************************)
(* One canvas document and the ops that reach it, one at a time: every     *)
(* document a canvas can come to hold.  The structure that the ops must    *)
(* keep (no dangling edge, no cycle, groups nested within a bound) is what *)
(* the compiler of runs and the clients rely on without checking it again. *)
(***************************************************************************)
EXTENDS CanvasOps

CONSTANT BlankValue   \* the viewport and settings of a new canvas

ASSUME BlankTyped == BlankValue \in Value

VARIABLE doc

DocInit == doc = NewDocument(BlankValue, BlankValue)

Perform(op) == Accepts(doc, op) /\ doc' = Applied(doc, op)

OpsOf(kind, pool) == {op \in pool : op.kind = kind}

AddNode(pool)     == \E op \in OpsOf("add_node", pool) : Perform(op)
RemoveNode(pool)  == \E op \in OpsOf("remove_node", pool) : Perform(op)
MoveNode(pool)    == \E op \in OpsOf("move_node", pool) : Perform(op)
ResizeNode(pool)  == \E op \in OpsOf("resize_node", pool) : Perform(op)
SetTitle(pool)    == \E op \in OpsOf("set_title", pool) : Perform(op)
SetSpec(pool)     == \E op \in OpsOf("set_spec", pool) : Perform(op)
SetState(pool)    == \E op \in OpsOf("set_state", pool) : Perform(op)
AddEdge(pool)     == \E op \in OpsOf("add_edge", pool) : Perform(op)
RemoveEdge(pool)  == \E op \in OpsOf("remove_edge", pool) : Perform(op)
GroupNodes(pool)  == \E op \in OpsOf("group", pool) : Perform(op)
Ungroup(pool)     == \E op \in OpsOf("ungroup", pool) : Perform(op)
SetViewport(pool) == \E op \in OpsOf("set_viewport", pool) : Perform(op)
SetSettings(pool) == \E op \in OpsOf("set_settings", pool) : Perform(op)
SetParent(pool)   == \E op \in OpsOf("set_parent", pool) : Perform(op)

\* One op of a pool.
NextOf(pool) ==
  \/ AddNode(pool) \/ RemoveNode(pool) \/ MoveNode(pool) \/ ResizeNode(pool)
  \/ SetTitle(pool) \/ SetSpec(pool) \/ SetState(pool) \/ AddEdge(pool)
  \/ RemoveEdge(pool) \/ GroupNodes(pool) \/ Ungroup(pool) \/ SetViewport(pool)
  \/ SetSettings(pool) \/ SetParent(pool)

DocNext == NextOf(OpPool)

DocSpec == DocInit /\ [][DocNext]_doc

-----------------------------------------------------------------------------
\* Every op leaves typed nodes and edges, no more of them than the canvas
\* limits of limits.go allow.
DocTypeOK == doc \in Doc /\ WithinLimits(doc)

\* No edge dangles: both ends exist, differ, are no group, and are joined
\* through ports that the types declare, of one kind (what applyAddEdge
\* checks once, and every later op must keep).
EdgesAttached == Attached(doc)

\* A single-input port has at most one edge, however often it is rewired.
SingleInputs == SingleFed(doc)

\* The edges form no cycle (a run could otherwise never start), although
\* applyAddEdge only walks up from one end of the new edge.
Acyclic == NoCycle(doc)

\* Every parent is a group of the document, also after groups were removed,
\* ungrouped or restored.
ParentsAreGroups == Grouped(doc)

\* No group contains itself, directly or through other groups.
GroupsNest == Nested(doc)

\* No node lies under more than MaxGroupDepth groups (limits.go: the bound
\* that keeps walks over groups short).
DepthBounded ==
  \A n \in Present(doc) :
    doc.node[n].parent # None =>
      Cardinality(Ancestry(doc, doc.node[n].parent)) <= MaxGroupDepth

\* Every rectangle stays within the canvas, also after relative moves and
\* after a group was drawn around its members (limits.go, ATK-01).
RectsInRange == InRange(doc)

\* An idle node carries neither a result nor an error of an earlier run.
IdleIsClean ==
  \A n \in Present(doc) :
    doc.node[n].state = Idle =>
      doc.node[n].result = None /\ doc.node[n].error = None

\* A node in state failed does not show the result of an earlier success
\* (writeback.go: otherwise the interface shows "failed" and the old image).
FailedShowsNoResult ==
  \A n \in Present(doc) :
    doc.node[n].state = "failed" => doc.node[n].result = None
==============================================================================
