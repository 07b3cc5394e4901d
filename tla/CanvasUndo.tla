----------------------------- MODULE CanvasUndo -----------------------------
(***************************************************************************)
(* The inverses of the ops: what each apply function returns next to the   *)
(* new document, what Apply collects of a batch, and what the document is  *)
(* after UndoAgentOps (agent/turn.go) has sent the collected list back.    *)
(***************************************************************************)
EXTENDS CanvasDoc, SequencesExt

Adding(n, node) == [kind |-> "add_node", id |-> n, node |-> node]
Linking(e, edge) == [kind |-> "add_edge", id |-> e, edge |-> edge]
Parenting(n, p) == [kind |-> "set_parent", id |-> n, parent |-> p]
Sizing(n, w) == [kind |-> "resize_node", id |-> n, w |-> w]
Nothing == [k \in {} |-> k]

\* The keys that were there before the op and are gone after it.
Lost(spec, unset, patch) == DOMAIN spec \ DOMAIN Patched(spec, patch, unset)

UndoSetSpec(doc0, op) ==
  LET n == doc0.node[op.id] IN
  IF HasMetaChange(op)
  THEN [kind |-> "set_spec", id |-> op.id, patch |-> Nothing, unset |-> {},
        meta |-> n.meta, metaUnset |-> op.metaUnset \intersect DOMAIN n.meta]
  ELSE [kind |-> "set_spec", id |-> op.id, patch |-> n.spec,
        unset |-> Lost(n.spec, op.unset, op.patch), meta |-> Nothing, metaUnset |-> {}]

\* Mutation: the inverse of a move is the offset that was applied.
UndoMoveByOffset(doc0, op) ==
  [kind |-> "move_node", id |-> op.id, x |-> op.x, delta |-> op.delta]

UndoMove(doc0, op) ==
  [kind |-> "move_node", id |-> op.id, x |-> doc0.node[op.id].x, delta |-> FALSE]

\* The inverse of an op on one node or edge is one op.
UndoOne(doc0, op) ==
  CASE op.kind = "add_node"     -> [kind |-> "remove_node", id |-> op.id, cascade |-> TRUE]
    [] op.kind = "move_node"    -> UndoMove(doc0, op)
    [] op.kind = "resize_node"  -> Sizing(op.id, doc0.node[op.id].w)
    [] op.kind = "set_title"    -> [op EXCEPT !.title = doc0.node[op.id].title]
    [] op.kind = "set_spec"     -> UndoSetSpec(doc0, op)
    [] op.kind = "set_state"    -> [op EXCEPT !.state = doc0.node[op.id].state,
                                              !.result = doc0.node[op.id].result,
                                              !.error = doc0.node[op.id].error]
    [] op.kind = "add_edge"     -> [kind |-> "remove_edge", id |-> op.id]
    [] op.kind = "remove_edge"  -> Linking(op.id, doc0.edge[op.id])
    [] op.kind = "set_parent"   -> Parenting(op.id, doc0.node[op.id].parent)
    [] op.kind = "set_viewport" -> [op EXCEPT !.value = doc0.viewport]
    [] op.kind = "set_settings" -> [op EXCEPT !.value = doc0.settings]

\* The inverse of remove_node, group and ungroup is a list: in the list that
\* Apply returns it is an element that is no op.
Compound == {"remove_node", "group", "ungroup"}

\* The children of a node are given their parent again, one after the other.
Reparenting(doc0, n) ==
  LET kids == SetToSeq(ChildrenOf(doc0, n))
  IN [i \in DOMAIN kids |-> Parenting(kids[i], n)]

\* The edges of a node are drawn again.
Rewiring(doc0, n) ==
  LET wires == SetToSeq(Touching(doc0, n))
  IN [i \in DOMAIN wires |-> Linking(wires[i], doc0.edge[wires[i]])]

\* The members of a group are given the parents they had.
Returning(doc0, members) ==
  LET m == SetToSeq(members)
  IN [i \in DOMAIN m |-> Parenting(m[i], doc0.node[m[i]].parent)]

UndoList(doc0, op) ==
  CASE op.kind = "remove_node" ->
         <<Adding(op.id, doc0.node[op.id])>> \o Reparenting(doc0, op.id)
                                             \o Rewiring(doc0, op.id)
    [] op.kind = "group" ->
         LET r == Drawn(doc0, op) IN
         Returning(doc0, op.members)
           \o IF ValidRect(r.x, r.w)
              THEN <<Sizing(op.group, doc0.node[op.group].w)>> ELSE <<>>
    [] op.kind = "ungroup" -> Reparenting(doc0, op.group)

\* UndoAgentOps: the list goes through AppendOps as it was collected, first
\* op first, and DecodeOp refuses an element that is a list.
Undone(doc0, ops) ==
  LET at[i \in 0..Len(ops)] == IF i = 0 THEN doc0 ELSE ApplyOne(at[i - 1], ops[i])
  IN IF \E i \in DOMAIN ops : ops[i].kind \in Compound
     THEN Rejected
     ELSE Apply(at[Len(ops)], [i \in DOMAIN ops |-> UndoOne(at[i - 1], ops[i])])

-----------------------------------------------------------------------------
\* The old parents can be chosen again: none of them has come to lie too deep.
ParentsShallow(doc0, S) == \A n \in S : checkParent(doc0, n, doc0.node[n].parent)

\* The ops whose single inverse says all that the op changed.  It does not
\* when the node had no title, when a key was added, when a result was
\* written over none, or when another edge was replaced.
Plain(doc0, op) ==
  LET n == doc0.node[op.id]
      Grew(old, new) == old = {} \/ ~(new \subseteq old)
  IN
  /\ op.kind \notin Compound
  /\ op.kind = "set_title" => n.title # NoTitle \/ op.title = NoTitle
  /\ op.kind = "set_spec" =>
       IF HasMetaChange(op) THEN ~Grew(DOMAIN n.meta, DOMAIN op.meta)
                            ELSE ~Grew(DOMAIN n.spec, DOMAIN op.patch)
  /\ op.kind = "set_state" =>
       \/ n.state = Idle /\ n.result = None /\ n.error = None
       \/ /\ n.state # Idle
          /\ op.result # None => n.result # None
          /\ op.error # None => n.error # None
  /\ op.kind = "add_edge" => ReplacedBy(doc0, op.edge) = {}
  /\ op.kind = "set_parent" => ParentsShallow(doc0, {op.id})

\* The lists that bring everything back when they are sent op by op.
Complete(doc0, op) ==
  \/ /\ op.kind = "remove_node"
     /\ Required[doc0.node[op.id].type] \subseteq DOMAIN doc0.node[op.id].spec
     /\ ParentsShallow(doc0, {op.id} \union ChildrenOf(doc0, op.id))
  \/ /\ op.kind = "ungroup" /\ op.keep
     /\ ParentsShallow(doc0, ChildrenOf(doc0, op.group))

\* The inverse of an op restores the document exactly, edges, children and
\* parents included: as UndoAgentOps sends it where it is one op, and sent
\* op by op where it is a list.
Restored(doc0, op) ==
  /\ Plain(doc0, op) => Undone(doc0, <<op>>) = doc0
  /\ Complete(doc0, op) => Apply(Applied(doc0, op), UndoList(doc0, op)) = doc0

Restores(pool) == \A op \in {o \in pool : Accepts(doc, o)} : Restored(doc, op)

\* The inverses of the ops of the pool restore the canvas.
OpsReversible == Restores(OpPool)

\* UndoAgentOps undoes an op that an agent tool applied (07-agent-protocol.md:
\* the inverse supports undoing one batch of the agent).
AlwaysUndone(pool) ==
  \A op \in {o \in pool : Accepts(doc, o)} : Undone(doc, <<op>>) = doc
=============================================================================
