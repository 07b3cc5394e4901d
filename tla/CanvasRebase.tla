---------------------------- MODULE CanvasRebase ----------------------------
(***************************************************************************)
(* When a batch that was made for an older version of a canvas may be      *)
(* applied to the present one (rebaseable in graph/service.go).            *)
(***************************************************************************)
EXTENDS CanvasOps

(***************************************************************************)
(* rebaseable: the keys an op in flight touches, and the keys that must    *)
(* not be touched for an incoming op to be merged.                         *)
(***************************************************************************)
Global == <<"global", None>>

Touches(op) ==
  CASE op.kind \in {"add_node", "remove_node"}  -> {<<"node", op.id>>}
    [] op.kind \in {"move_node", "resize_node"} -> {<<"geom", op.id>>}
    [] op.kind = "set_spec"                     -> {<<"spec", op.id>>}
    [] op.kind = "set_title"                    -> {<<"title", op.id>>}
    [] op.kind = "set_state"                    -> {<<"state", op.id>>}
    [] op.kind \in {"add_edge", "remove_edge"}  -> {<<"edge", op.id>>}
    [] op.kind = "set_parent"                   -> {<<"parent", op.id>>}
    [] op.kind = "group"                        -> {<<"parent", m>> : m \in op.members}
    [] OTHER                                    -> {Global}

MergeKinds ==
  {"add_node", "remove_node", "move_node", "resize_node", "set_spec", "set_title",
   "set_state", "add_edge", "remove_edge", "set_parent"}

BlockedBy(op) ==
  CASE op.kind = "add_node"    -> {<<"node", op.id>>}
    [] op.kind = "remove_node" -> {<<"node", op.id>>, <<"spec", op.id>>, <<"geom", op.id>>}
    [] op.kind = "move_node"   -> {<<"node", op.id>>, <<"spec", op.id>>, <<"title", op.id>>}
    [] op.kind \in {"resize_node", "set_spec"} -> {<<"node", op.id>>, <<"spec", op.id>>}
    [] op.kind = "set_title"   -> {<<"node", op.id>>, <<"title", op.id>>}
    [] op.kind = "set_state"   -> {<<"node", op.id>>, <<"state", op.id>>}
    [] op.kind = "set_parent"  -> {<<"node", op.id>>, <<"parent", op.id>>}
    [] op.kind = "add_edge"    -> {<<"node", op.edge.to>>}
    [] OTHER                   -> {}

OpsIn(ops) == {ops[i] : i \in DOMAIN ops}

\* Mutation: a title in flight does not hold a title back.
rebaseableUntitled(ops, missing) ==
  LET touched == UNION {Touches(op) : op \in missing} IN
  /\ Global \notin touched
  /\ \A op \in OpsIn(ops) :
       /\ op.kind \in MergeKinds
       /\ BlockedBy(op) \intersect {k \in touched : k[1] # "title"} = {}

rebaseable(ops, missing) ==
  LET touched == UNION {Touches(op) : op \in missing} IN
  /\ Global \notin touched
  /\ \A op \in OpsIn(ops) :
       op.kind \in MergeKinds /\ BlockedBy(op) \intersect touched = {}
==============================================================================
