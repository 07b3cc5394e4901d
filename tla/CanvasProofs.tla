----------------------------- MODULE CanvasProofs -----------------------------
(***************************************************************************)
(* What holds of every canvas document, for every set of identifiers,      *)
(* every schema and every pool of ops: what each op does to a document,    *)
(* what a batch of ops keeps, what follows for the documents a canvas can  *)
(* come to hold, and that the inverses bring them back; and what holds of  *)
(* the write path, for every number of clients and processes and batches   *)
(* of any length.                                                          *)
(***************************************************************************)
EXTENDS CanvasLog, CanvasUndo, FiniteSetTheorems, WellFoundedInduction, TLAPS

-----------------------------------------------------------------------------
(***************************************************************************)
(* Typing.  Each kind of op leaves a document; the kinds are looked at one *)
(* by one.                                                                 *)
(***************************************************************************)
LEMMA NodeOfDoc ==
  ASSUME NEW d \in Doc, NEW n \in Present(d)
  PROVE  n \in NodeId /\ d.node[n] \in Node
BY DEF Present, Doc

LEMMA EdgeOfDoc ==
  ASSUME NEW d \in Doc, NEW e \in Edges(d)
  PROVE  e \in EdgeId /\ d.edge[e] \in Edge
BY DEF Edges, Doc

LEMMA AddNodeTyped ==
  ASSUME NEW d \in Doc, NEW op \in AddNodeOp
  PROVE  AppliedAddNode(d, op) \in Doc
BY DEF AddNodeOp, Doc, AppliedAddNode

LEMMA OrphanedTyped ==
  ASSUME NEW d \in Doc, NEW g, NEW n \in NodeId
  PROVE  Orphaned(d, g, n) \in Node \union {None}
BY NodeOfDoc DEF Doc, Orphaned, ChildrenOf, Node

LEMMA RemoveNodeTyped ==
  ASSUME NEW d \in Doc, NEW op \in RemoveNodeOp
  PROVE  AppliedRemoveNode(d, op) \in Doc
BY OrphanedTyped DEF Doc, AppliedRemoveNode

LEMMA PatchedTyped ==
  ASSUME NEW s \in SpecData, NEW p \in SpecData, NEW u \in SUBSET Key
  PROVE  Patched(s, p, u) \in SpecData
<1>1. DOMAIN s \in SUBSET Key /\ DOMAIN p \in SUBSET Key
  BY DEF SpecData
<1>2. \A k \in DOMAIN s : s[k] \in Value
  BY DEF SpecData
<1>3. \A k \in DOMAIN p : p[k] \in Value
  BY DEF SpecData
<1> DEFINE D == (DOMAIN s \ u) \union DOMAIN p
<1>4. Patched(s, p, u) \in [D -> Value]
  BY <1>1, <1>2, <1>3 DEF Patched
<1>5. D \in SUBSET Key
  BY <1>1
<1> QED BY <1>4, <1>5 DEF SpecData

LEMMA ContentTyped ==
  ASSUME NEW d \in Doc, NEW op \in Op, op.id \in Present(d)
  PROVE  /\ op \in MoveNodeOp => AppliedMoveNode(d, op) \in Doc
         /\ op \in ResizeNodeOp => AppliedResizeNode(d, op) \in Doc
         /\ op \in SetTitleOp => AppliedSetTitle(d, op) \in Doc
         /\ op \in SetSpecOp => AppliedSetSpec(d, op) \in Doc
         /\ op \in SetStateOp => AppliedSetState(d, op) \in Doc
         /\ op \in SetParentOp => AppliedSetParent(d, op) \in Doc
<1>1. op.id \in NodeId /\ d.node[op.id] \in Node
  BY NodeOfDoc
<1>2. ASSUME op \in MoveNodeOp PROVE AppliedMoveNode(d, op) \in Doc
  BY <1>1, <1>2 DEF MoveNodeOp, AppliedMoveNode, MovedTo, Doc, Node
<1>3. ASSUME op \in ResizeNodeOp PROVE AppliedResizeNode(d, op) \in Doc
  BY <1>1, <1>3 DEF ResizeNodeOp, AppliedResizeNode, Doc, Node
<1>4. ASSUME op \in SetTitleOp PROVE AppliedSetTitle(d, op) \in Doc
  BY <1>1, <1>4 DEF SetTitleOp, AppliedSetTitle, Doc, Node
<1>6. ASSUME op \in SetStateOp PROVE AppliedSetState(d, op) \in Doc
  BY <1>1, <1>6 DEF SetStateOp, AppliedSetState, Replaced, Doc, Node
<1>7. ASSUME op \in SetParentOp PROVE AppliedSetParent(d, op) \in Doc
  BY <1>1, <1>7 DEF SetParentOp, AppliedSetParent, Doc, Node
<1>5. ASSUME op \in SetSpecOp PROVE AppliedSetSpec(d, op) \in Doc
  <2>2. /\ Patched(d.node[op.id].meta, op.meta, op.metaUnset) \in SpecData
        /\ Patched(d.node[op.id].spec, op.patch, op.unset) \in SpecData
    BY <1>1, <1>5, PatchedTyped DEF SetSpecOp, Node
  <2> QED BY <1>1, <1>5, <2>2 DEF AppliedSetSpec, Doc, Node
<1> QED BY <1>2, <1>3, <1>4, <1>5, <1>6, <1>7

LEMMA EdgeOpsTyped ==
  ASSUME NEW d \in Doc, NEW op \in Op
  PROVE  /\ op \in AddEdgeOp => AppliedAddEdge(d, op) \in Doc
         /\ op \in RemoveEdgeOp => AppliedRemoveEdge(d, op) \in Doc
BY DEF Doc, AddEdgeOp, RemoveEdgeOp, AppliedAddEdge, AppliedRemoveEdge, WithoutReplaced

LEMMA GroupOpsTyped ==
  ASSUME NEW d \in Doc, NEW op \in Op
  PROVE  /\ op \in GroupOp /\ AcceptsGroup(d, op) => AppliedGroup(d, op) \in Doc
         /\ op \in UngroupOp /\ AcceptsUngroup(d, op) => AppliedUngroup(d, op) \in Doc
<1>1. ASSUME op \in GroupOp, AcceptsGroup(d, op) PROVE AppliedGroup(d, op) \in Doc
  <2> DEFINE r == GroupRect(d, op)
  <2>1. d.node[op.group] \in Node /\ op.group \in NodeId
    BY <1>1, NodeOfDoc DEF AcceptsGroup
  <2>2. r.x \in Int /\ r.w \in Int
    BY <2>1 DEF GroupRect, ValidRect, Node
  <2>3. \A n \in op.members : n \in NodeId /\ d.node[n] \in Node
    BY <1>1, NodeOfDoc DEF AcceptsGroup
  <2>4. \A n \in op.members : [d.node[n] EXCEPT !.parent = op.group] \in Node
    BY <2>1, <2>3 DEF Node
  <2>5. [d.node[op.group] EXCEPT !.x = r.x, !.w = r.w] \in Node
    BY <2>1, <2>2 DEF Node
  <2>6. \A n \in NodeId : AppliedGroup(d, op).node[n] \in Node \union {None}
    BY <2>4, <2>5 DEF AppliedGroup, Doc
  <2> QED BY <2>6 DEF AppliedGroup, Doc
<1>2. ASSUME op \in UngroupOp, AcceptsUngroup(d, op) PROVE AppliedUngroup(d, op) \in Doc
  BY <1>2, OrphanedTyped DEF AppliedUngroup, Doc
<1> QED BY <1>1, <1>2

(***************************************************************************)
(* The two tables of ops by kind: an op of the pool is of one kind, and    *)
(* the dispatch chooses the operator of that kind.                         *)
(***************************************************************************)
LEMMA AppliedTyped ==
  ASSUME NEW d \in Doc, NEW op \in Op, Accepts(d, op)
  PROVE  Applied(d, op) \in Doc
<1>1. CASE op \in AddNodeOp
  BY <1>1, AddNodeTyped DEF AddNodeOp, Applied
<1>2. CASE op \in RemoveNodeOp
  BY <1>2, RemoveNodeTyped DEF RemoveNodeOp, Applied
<1>3. CASE op \in MoveNodeOp
  BY <1>3, ContentTyped DEF MoveNodeOp, Accepts, AcceptsMoveNode, Applied
<1>4. CASE op \in ResizeNodeOp
  BY <1>4, ContentTyped DEF ResizeNodeOp, Accepts, AcceptsResizeNode, Applied
<1>5. CASE op \in SetTitleOp
  BY <1>5, ContentTyped DEF SetTitleOp, Accepts, AcceptsSetTitle, Applied
<1>6. CASE op \in SetSpecOp
  BY <1>6, ContentTyped DEF SetSpecOp, Accepts, AcceptsSetSpec, Applied
<1>7. CASE op \in SetStateOp
  BY <1>7, ContentTyped DEF SetStateOp, Accepts, AcceptsSetState, Applied
<1>8. CASE op \in AddEdgeOp
  BY <1>8, EdgeOpsTyped DEF AddEdgeOp, Applied
<1>9. CASE op \in RemoveEdgeOp
  BY <1>9, EdgeOpsTyped DEF RemoveEdgeOp, Applied
<1>10. CASE op \in GroupOp
  BY <1>10, GroupOpsTyped DEF GroupOp, Accepts, Applied
<1>11. CASE op \in UngroupOp
  BY <1>11, GroupOpsTyped DEF UngroupOp, Accepts, Applied
<1>12. CASE op \in ViewportOp
  BY <1>12 DEF ViewportOp, Applied, AppliedViewport, Doc
<1>13. CASE op \in SettingsOp
  BY <1>13 DEF SettingsOp, Applied, AppliedSettings, Doc
<1>14. CASE op \in SetParentOp
  BY <1>14, ContentTyped DEF SetParentOp, Accepts, AcceptsSetParent, Applied
<1> QED
  BY <1>1, <1>2, <1>3, <1>4, <1>5, <1>6, <1>7, <1>8, <1>9, <1>10, <1>11, <1>12,
     <1>13, <1>14 DEF Op

-----------------------------------------------------------------------------
(***************************************************************************)
(* Frames.  Most kinds leave the wiring alone, many the nesting too.       *)
(***************************************************************************)
SameNodes(d, c) ==
  /\ Present(c) = Present(d)
  /\ \A n \in Present(d) : c.node[n].type = d.node[n].type

SameParents(d, c) == \A n \in Present(d) : c.node[n].parent = d.node[n].parent

\* A new value for the node i that keeps its type and its parent.
LEMMA EditFrame ==
  ASSUME NEW d \in Doc, NEW c \in Doc, NEW i \in Present(d), NEW v \in Node,
         v.type = d.node[i].type, v.parent = d.node[i].parent,
         c.edge = d.edge, c.node = [d.node EXCEPT ![i] = v]
  PROVE  SameNodes(d, c) /\ SameParents(d, c)
<1>1. i \in NodeId /\ v # None
  BY NoneIsApart DEF Present
<1>3. \A n \in NodeId : c.node[n] = IF n = i THEN v ELSE d.node[n]
  BY <1>1 DEF Doc
<1>4. Present(c) = Present(d)
  BY <1>1, <1>3 DEF Present
<1> QED BY <1>3, <1>4 DEF SameNodes, SameParents, Present

ContentOp ==
  MoveNodeOp \union ResizeNodeOp \union SetTitleOp \union SetSpecOp
    \union SetStateOp \union ViewportOp \union SettingsOp

\* The kinds that edit the content of one node, or of the canvas.
LEMMA ContentFrame ==
  ASSUME NEW d \in Doc, NEW op \in ContentOp, Accepts(d, op)
  PROVE  /\ SameNodes(d, Applied(d, op)) /\ SameParents(d, Applied(d, op))
         /\ Applied(d, op).edge = d.edge
<1> DEFINE n == d.node[op.id]
           c == Applied(d, op)
<1>. c \in Doc
  BY AppliedTyped DEF ContentOp, Op
<1>0. ASSUME op.id \in Present(d)
      PROVE  n \in Node /\ op.id \in NodeId
  BY <1>0, NodeOfDoc
<1>1. CASE op \in MoveNodeOp
  <2>1. op.id \in Present(d) /\ c = AppliedMoveNode(d, op)
    BY <1>1 DEF MoveNodeOp, Accepts, AcceptsMoveNode, Applied
  <2> DEFINE v == [n EXCEPT !.x = MovedTo(d, op)]
  <2>2. v \in Node /\ v.type = n.type /\ v.parent = n.parent
    BY <1>0, <1>1, <2>1 DEF Node, MovedTo, MoveNodeOp
  <2>3. c.edge = d.edge /\ c.node = [d.node EXCEPT ![op.id] = v]
    BY <2>1 DEF AppliedMoveNode, Doc
  <2> HIDE DEF c, v
  <2> QED BY <2>1, <2>2, <2>3, EditFrame DEF c
<1>2. CASE op \in ResizeNodeOp
  <2>1. op.id \in Present(d) /\ c = AppliedResizeNode(d, op)
    BY <1>2 DEF ResizeNodeOp, Accepts, AcceptsResizeNode, Applied
  <2> DEFINE v == [n EXCEPT !.w = op.w]
  <2>2. v \in Node /\ v.type = n.type /\ v.parent = n.parent
    BY <1>0, <1>2, <2>1 DEF Node, ResizeNodeOp
  <2>3. c.edge = d.edge /\ c.node = [d.node EXCEPT ![op.id] = v]
    BY <2>1 DEF AppliedResizeNode, Doc
  <2> HIDE DEF c, v
  <2> QED BY <2>1, <2>2, <2>3, EditFrame DEF c
<1>3. CASE op \in SetTitleOp
  <2>1. op.id \in Present(d) /\ c = AppliedSetTitle(d, op)
    BY <1>3 DEF SetTitleOp, Accepts, AcceptsSetTitle, Applied
  <2> DEFINE v == [n EXCEPT !.title = op.title]
  <2>2. v \in Node /\ v.type = n.type /\ v.parent = n.parent
    BY <1>0, <1>3, <2>1 DEF Node, SetTitleOp
  <2>3. CASE op.title = NoTitle
    BY <2>1, <2>3 DEF AppliedSetTitle, SameNodes, SameParents
  <2>4. CASE op.title # NoTitle
    <3>1. c.edge = d.edge /\ c.node = [d.node EXCEPT ![op.id] = v]
      BY <2>1, <2>4 DEF AppliedSetTitle, Doc
    <3> HIDE DEF c, v
    <3> QED BY <2>1, <2>2, <3>1, EditFrame DEF c
  <2> QED BY <2>3, <2>4
<1>4. CASE op \in SetSpecOp
  <2>1. op.id \in Present(d) /\ c = AppliedSetSpec(d, op)
    BY <1>4 DEF SetSpecOp, Accepts, AcceptsSetSpec, Applied
  <2>2. c.node[op.id] \in Node
    <3>1. /\ Patched(n.meta, op.meta, op.metaUnset) \in SpecData
          /\ Patched(n.spec, op.patch, op.unset) \in SpecData
      BY <1>0, <1>4, <2>1, PatchedTyped DEF SetSpecOp, Node
    <3>2. c.node[op.id] = IF HasMetaChange(op)
                          THEN [n EXCEPT !.meta = Patched(n.meta, op.meta, op.metaUnset)]
                          ELSE [n EXCEPT !.spec = Patched(n.spec, op.patch, op.unset)]
      BY <1>0, <2>1 DEF AppliedSetSpec, Doc
    <3> QED BY <1>0, <2>1, <3>1, <3>2 DEF Node
  <2>3. /\ c.node[op.id].type = n.type /\ c.node[op.id].parent = n.parent
        /\ c.edge = d.edge
        /\ c.node = [d.node EXCEPT ![op.id] = c.node[op.id]]
    BY <1>0, <2>1 DEF AppliedSetSpec, Doc, Node
  <2> HIDE DEF c
  <2> QED BY <2>1, <2>2, <2>3, EditFrame DEF c
<1>5. CASE op \in SetStateOp
  <2>1. op.id \in Present(d) /\ c = AppliedSetState(d, op)
    BY <1>5 DEF SetStateOp, Accepts, AcceptsSetState, Applied
  <2> DEFINE v == [n EXCEPT !.state = op.state,
                            !.result = IF op.state = Idle THEN None
                                       ELSE Replaced(n.result, op.result),
                            !.error = IF op.state = Idle THEN None
                                      ELSE Replaced(n.error, op.error)]
  <2>2. v \in Node /\ v.type = n.type /\ v.parent = n.parent
    BY <1>0, <1>5, <2>1 DEF Node, SetStateOp, Replaced
  <2>3. c.edge = d.edge /\ c.node = [d.node EXCEPT ![op.id] = v]
    BY <1>0, <2>1 DEF AppliedSetState, Doc, Node
  <2> HIDE DEF c, v
  <2> QED BY <2>1, <2>2, <2>3, EditFrame DEF c
<1>6. CASE op \in ViewportOp \union SettingsOp
  <2>1. c.edge = d.edge /\ c.node = d.node
    BY <1>6 DEF ViewportOp, SettingsOp, Applied, AppliedViewport, AppliedSettings, Doc
  <2> HIDE DEF c
  <2> QED BY <2>1 DEF c, SameNodes, SameParents, Present
<1> QED BY <1>1, <1>2, <1>3, <1>4, <1>5, <1>6 DEF ContentOp

KeepsChildren(op) == op.kind = "ungroup" => op.keep

\* set_parent, group and the ungroup that keeps the children move nodes
\* between groups and nothing else.
LEMMA NestingFrame ==
  ASSUME NEW d \in Doc, NEW op \in SetParentOp \union GroupOp \union UngroupOp,
         Accepts(d, op), KeepsChildren(op)
  PROVE  SameNodes(d, Applied(d, op)) /\ Applied(d, op).edge = d.edge
<1> DEFINE c == Applied(d, op)
<1>. c \in Doc
  BY AppliedTyped DEF Op
<1>1. CASE op \in SetParentOp
  <2>1. op.id \in Present(d) /\ c = AppliedSetParent(d, op)
    BY <1>1 DEF SetParentOp, Accepts, AcceptsSetParent, Applied
  <2>2. \A n \in NodeId : c.node[n] = IF n = op.id THEN [d.node[n] EXCEPT !.parent = op.parent]
                                                  ELSE d.node[n]
    BY <2>1 DEF AppliedSetParent, Doc
  <2>3. c.edge = d.edge
    BY <2>1 DEF AppliedSetParent, Doc
  <2>4. \A n \in Present(d) : c.node[n] # None /\ c.node[n].type = d.node[n].type
    <3>1. TAKE n \in Present(d)
    <3>2. d.node[n] \in Node /\ n \in NodeId
      BY NodeOfDoc
    <3>3. /\ [d.node[n] EXCEPT !.parent = op.parent] \in Node
          /\ [d.node[n] EXCEPT !.parent = op.parent].type = d.node[n].type
      BY <1>1, <3>2 DEF Node, SetParentOp
    <3> QED BY <2>2, <3>2, <3>3, NoneIsApart
  <2>5. \A n \in NodeId \ Present(d) : c.node[n] = None
    BY <2>1, <2>2 DEF Present
  <2> QED BY <2>3, <2>4, <2>5 DEF SameNodes, Present
<1>2. CASE op \in GroupOp
  <2>1. AcceptsGroup(d, op) /\ c = AppliedGroup(d, op)
    BY <1>2 DEF GroupOp, Accepts, Applied
  <2> DEFINE r == GroupRect(d, op)
             joined(n) == [d.node[n] EXCEPT !.parent = op.group]
             redrawn == [d.node[op.group] EXCEPT !.x = r.x, !.w = r.w]
  <2>2. /\ \A n \in op.members : c.node[n] = joined(n)
        /\ c.node[op.group] = redrawn
        /\ \A n \in NodeId \ (op.members \union {op.group}) : c.node[n] = d.node[n]
    <3>1. c.node = [n \in NodeId |-> IF n \in op.members THEN joined(n)
                                   ELSE IF n = op.group THEN redrawn ELSE d.node[n]]
      BY <2>1 DEF AppliedGroup, Doc
    <3>2. op.members \subseteq NodeId /\ op.group \in NodeId /\ op.group \notin op.members
      BY <2>1 DEF AcceptsGroup, Present
    <3> HIDE DEF c, joined, redrawn
    <3> QED BY <3>1, <3>2
  <2>3. c.edge = d.edge
    BY <2>1 DEF AppliedGroup, Doc
  <2>4. \A n \in op.members : n \in Present(d) /\ n # op.group /\ op.group \in Present(d)
    BY <2>1 DEF AcceptsGroup
  <2>5. \A n \in Present(d) : joined(n) \in Node /\ joined(n).type = d.node[n].type
    BY <1>2, NodeOfDoc DEF Node, GroupOp
  <2>6. redrawn \in Node /\ redrawn.type = d.node[op.group].type
    <3>1. r.x \in Int /\ r.w \in Int /\ d.node[op.group] \in Node
      BY <2>1, NodeOfDoc DEF GroupRect, ValidRect, Node, AcceptsGroup
    <3> QED BY <3>1 DEF Node
  <2> HIDE DEF c, joined, redrawn
  <2>7. \A n \in Present(d) : c.node[n] # None /\ c.node[n].type = d.node[n].type
    BY <2>2, <2>4, <2>5, <2>6, NodeOfDoc, NoneIsApart
  <2>8. \A n \in NodeId \ Present(d) : c.node[n] = None
    BY <2>1, <2>2, <2>4 DEF Present, AcceptsGroup
  <2> QED BY <2>3, <2>7, <2>8 DEF c, SameNodes, Present
<1>3. CASE op \in UngroupOp
  <2>1. c = AppliedUngroup(d, op) /\ op.keep
    BY <1>3 DEF UngroupOp, Applied, KeepsChildren
  <2>2. c.edge = d.edge /\ \A n \in NodeId : c.node[n] = Orphaned(d, op.group, n)
    BY <2>1 DEF AppliedUngroup, Doc
  <2>3. \A n \in Present(d) : Orphaned(d, op.group, n) \in Node
                               /\ Orphaned(d, op.group, n).type = d.node[n].type
    BY NodeOfDoc DEF Orphaned, Node
  <2>4. \A n \in NodeId \ Present(d) : Orphaned(d, op.group, n) = None
    BY DEF Orphaned, ChildrenOf, Present
  <2> HIDE DEF c
  <2> QED BY <2>2, <2>3, <2>4, NoneIsApart DEF c, SameNodes, Present
<1> QED BY <1>1, <1>2, <1>3

\* The ungroup that discards the children removes nodes and edges, and
\* changes none that it leaves.
LEMMA DiscardFrame ==
  ASSUME NEW d \in Doc, NEW op \in Op, Accepts(d, op), ~KeepsChildren(op)
  PROVE  LET c == Applied(d, op) IN
         /\ Present(c) \subseteq Present(d) /\ Edges(c) \subseteq Edges(d)
         /\ \A n \in Present(c) : c.node[n] = d.node[n]
         /\ \A e \in Edges(c) : c.edge[e] = d.edge[e]
<1> DEFINE c == Applied(d, op)
<1>1. c = AppliedUngroup(d, op) /\ ~op.keep
  BY DEF KeepsChildren, Applied
<1>2. /\ \A n \in NodeId : c.node[n] \in {None, d.node[n]}
      /\ \A e \in EdgeId : c.edge[e] \in {None, d.edge[e]}
  BY <1>1 DEF AppliedUngroup, Doc
<1> HIDE DEF c
<1> QED BY <1>2 DEF c, Present, Edges

LEMMA AddNodeFrame ==
  ASSUME NEW d \in Doc, NEW op \in AddNodeOp, Accepts(d, op)
  PROVE  LET c == Applied(d, op) IN
         /\ op.id \in NodeId \ Present(d) /\ Present(c) = Present(d) \union {op.id}
         /\ \A n \in Present(d) : c.node[n] = d.node[n]
         /\ c.node[op.id] = op.node /\ op.node \in Node
         /\ c.edge = d.edge
<1> DEFINE c == Applied(d, op)
<1>1. AcceptsAddNode(d, op) /\ c = AppliedAddNode(d, op)
  BY DEF AddNodeOp, Accepts, Applied
<1>2. op.id \in NodeId \ Present(d) /\ op.node \in Node
  BY <1>1 DEF AddNodeOp, AcceptsAddNode
<1>3. c.node = [d.node EXCEPT ![op.id] = op.node] /\ c.edge = d.edge
  BY <1>1 DEF AppliedAddNode, Doc
<1>4. \A n \in NodeId : c.node[n] = IF n = op.id THEN op.node ELSE d.node[n]
  BY <1>3 DEF Doc
<1> HIDE DEF c
<1>5. Present(c) = Present(d) \union {op.id}
  BY <1>2, <1>4, NoneIsApart DEF Present
<1>6. \A n \in Present(d) : c.node[n] = d.node[n]
  BY <1>2, <1>4, NodeOfDoc
<1> QED BY <1>2, <1>3, <1>4, <1>5, <1>6 DEF c

LEMMA RemoveNodeFrame ==
  ASSUME NEW d \in Doc, NEW op \in RemoveNodeOp, Accepts(d, op)
  PROVE  LET c == Applied(d, op) IN
         /\ op.id \in Present(d) /\ Present(c) = Present(d) \ {op.id}
         /\ \A n \in Present(c) : c.node[n] = Orphaned(d, op.id, n)
         /\ \A n \in Present(c) : c.node[n].type = d.node[n].type
         /\ \A e \in Edges(c) : /\ e \in Edges(d) /\ c.edge[e] = d.edge[e]
                                /\ d.edge[e].from # op.id /\ d.edge[e].to # op.id
<1> DEFINE c == Applied(d, op)
<1>1. op.id \in Present(d) /\ c = AppliedRemoveNode(d, op)
  BY DEF RemoveNodeOp, Accepts, AcceptsRemoveNode, Applied
<1>2. \A n \in NodeId : c.node[n] = IF n = op.id THEN None ELSE Orphaned(d, op.id, n)
  BY <1>1 DEF AppliedRemoveNode, Doc
<1>3. \A e \in EdgeId : c.edge[e] = IF e \in Touching(d, op.id) THEN None ELSE d.edge[e]
  BY <1>1 DEF AppliedRemoveNode, Doc
<1> HIDE DEF c
<1>4. \A n \in Present(d) : Orphaned(d, op.id, n) \in Node
                             /\ Orphaned(d, op.id, n).type = d.node[n].type
  BY NodeOfDoc DEF Orphaned, Node
<1>5. \A n \in NodeId \ Present(d) : Orphaned(d, op.id, n) = None
  BY DEF Orphaned, ChildrenOf, Present
<1>6. Present(c) = Present(d) \ {op.id}
  BY <1>2, <1>4, <1>5, NoneIsApart DEF Present
<1>7. \A n \in Present(c) : /\ c.node[n] = Orphaned(d, op.id, n)
                            /\ c.node[n].type = d.node[n].type
  BY <1>2, <1>4, <1>6, NodeOfDoc
<1>8. \A e \in Edges(c) : /\ e \in Edges(d) /\ c.edge[e] = d.edge[e]
                          /\ d.edge[e].from # op.id /\ d.edge[e].to # op.id
  BY <1>3 DEF Edges, Touching
<1> QED BY <1>1, <1>6, <1>7, <1>8 DEF c

LEMMA AddEdgeFrame ==
  ASSUME NEW d \in Doc, NEW op \in AddEdgeOp, Accepts(d, op)
  PROVE  LET c == Applied(d, op) IN
         /\ AcceptsAddEdge(d, op)
         /\ c.node = d.node
         /\ op.id \in EdgeId \ Edges(d) /\ op.edge \in Edge
         /\ Edges(c) = (Edges(d) \ ReplacedBy(d, op.edge)) \union {op.id}
         /\ \A e \in Edges(d) \ ReplacedBy(d, op.edge) : c.edge[e] = d.edge[e]
         /\ c.edge[op.id] = op.edge
<1> DEFINE c == Applied(d, op)
           w == WithoutReplaced(d, op.edge)
<1>1. AcceptsAddEdge(d, op) /\ c = AppliedAddEdge(d, op)
  BY DEF AddEdgeOp, Accepts, Applied
<1>2. op.id \in EdgeId \ Edges(d) /\ op.edge \in Edge
  BY <1>1 DEF AddEdgeOp, AcceptsAddEdge
<1>3. \A e \in EdgeId : w.edge[e] = IF e \in ReplacedBy(d, op.edge) THEN None ELSE d.edge[e]
  BY DEF WithoutReplaced, Doc
<1>4. w.node = d.node /\ DOMAIN w.edge = EdgeId
  BY DEF WithoutReplaced, Doc
<1>5. c.node = d.node
  BY <1>1, <1>4 DEF AppliedAddEdge, WithoutReplaced, Doc
<1>6. \A e \in EdgeId : c.edge[e] = IF e = op.id THEN op.edge ELSE w.edge[e]
  BY <1>1, <1>2, <1>4 DEF AppliedAddEdge, WithoutReplaced, Doc
<1> HIDE DEF c, w
<1>7. Edges(c) = (Edges(d) \ ReplacedBy(d, op.edge)) \union {op.id}
  BY <1>2, <1>3, <1>6, NoneIsApart DEF Edges
<1>8. \A e \in Edges(d) \ ReplacedBy(d, op.edge) : c.edge[e] = d.edge[e]
  BY <1>2, <1>3, <1>6, EdgeOfDoc
<1> QED BY <1>1, <1>2, <1>5, <1>6, <1>7, <1>8 DEF c

LEMMA RemoveEdgeFrame ==
  ASSUME NEW d \in Doc, NEW op \in RemoveEdgeOp, Accepts(d, op)
  PROVE  LET c == Applied(d, op) IN
         /\ c.node = d.node
         /\ Edges(c) = Edges(d) \ {op.id}
         /\ \A e \in Edges(c) : c.edge[e] = d.edge[e]
<1> DEFINE c == Applied(d, op)
<1>1. c = AppliedRemoveEdge(d, op) /\ op.id \in EdgeId
  BY DEF RemoveEdgeOp, Applied
<1>2. c.node = d.node /\ \A e \in EdgeId : c.edge[e] = IF e = op.id THEN None ELSE d.edge[e]
  BY <1>1 DEF AppliedRemoveEdge, Doc
<1> HIDE DEF c
<1> QED BY <1>2 DEF c, Edges

-----------------------------------------------------------------------------
(***************************************************************************)
(* Wiring: no edge dangles, single inputs stay single, no cycle.           *)
(***************************************************************************)
\* The frames by kind, in one place: an op edits contents, or nesting, or it
\* is one of the four that change the sets of nodes and edges.
LEMMA Kinds ==
  ASSUME NEW op \in Op
  PROVE  \/ op \in ContentOp \/ op \in SetParentOp \union GroupOp \union UngroupOp
         \/ op \in AddNodeOp \/ op \in RemoveNodeOp \/ op \in AddEdgeOp
         \/ op \in RemoveEdgeOp
BY DEF Op, ContentOp

LEMMA AttachedStep ==
  ASSUME NEW d \in Doc, NEW op \in Op, KeepsChildren(op), Accepts(d, op), Attached(d)
  PROVE  Attached(Applied(d, op))
<1> DEFINE c == Applied(d, op)
<1> SUFFICES Attached(c)
  OBVIOUS
<1>1. ASSUME SameNodes(d, c), c.edge = d.edge PROVE Attached(c)
  BY <1>1 DEF SameNodes, Attached, PortsMatch, Edges
<1>2. CASE op \in ContentOp
  BY <1>1, <1>2, ContentFrame
<1>3. CASE op \in SetParentOp \union GroupOp \union UngroupOp
  BY <1>1, <1>3, NestingFrame
<1>4. CASE op \in AddNodeOp
  <2>1. /\ Present(d) \subseteq Present(c)
        /\ \A n \in Present(d) : c.node[n] = d.node[n]
        /\ Edges(c) = Edges(d) /\ c.edge = d.edge
    BY <1>4, AddNodeFrame DEF Edges
  <2> HIDE DEF c
  <2>2. ASSUME NEW e \in Edges(c)
        PROVE  /\ c.edge[e].from \in Present(c) /\ c.edge[e].to \in Present(c)
               /\ c.edge[e].from # c.edge[e].to /\ PortsMatch(c, c.edge[e])
    <3>1. /\ d.edge[e].from \in Present(d) /\ d.edge[e].to \in Present(d)
          /\ d.edge[e].from # d.edge[e].to /\ PortsMatch(d, d.edge[e])
      BY <2>1 DEF Attached
    <3> QED BY <2>1, <3>1 DEF PortsMatch
  <2> QED BY <2>2 DEF Attached
<1>5. CASE op \in RemoveNodeOp
  <2>1. /\ Present(c) = Present(d) \ {op.id}
        /\ \A n \in Present(c) : c.node[n].type = d.node[n].type
        /\ \A e \in Edges(c) : /\ e \in Edges(d) /\ c.edge[e] = d.edge[e]
                               /\ d.edge[e].from # op.id /\ d.edge[e].to # op.id
    BY <1>5, RemoveNodeFrame
  <2> HIDE DEF c
  <2>2. ASSUME NEW e \in Edges(c)
        PROVE  /\ c.edge[e].from \in Present(c) /\ c.edge[e].to \in Present(c)
               /\ c.edge[e].from # c.edge[e].to /\ PortsMatch(c, c.edge[e])
    <3>1. /\ d.edge[e].from \in Present(c) /\ d.edge[e].to \in Present(c)
          /\ d.edge[e].from # d.edge[e].to /\ PortsMatch(d, d.edge[e])
      BY <2>1 DEF Attached
    <3> QED BY <2>1, <3>1 DEF PortsMatch
  <2> QED BY <2>2 DEF Attached
<1>6. CASE op \in AddEdgeOp
  <2>1. /\ AcceptsAddEdge(d, op) /\ c.node = d.node
        /\ Edges(c) \subseteq Edges(d) \union {op.id}
        /\ \A e \in Edges(c) \ {op.id} : c.edge[e] = d.edge[e]
        /\ c.edge[op.id] = op.edge
    BY <1>6, AddEdgeFrame
  <2> HIDE DEF c
  <2>2. Present(c) = Present(d) /\ \A e : PortsMatch(c, e) <=> PortsMatch(d, e)
    BY <2>1 DEF Present, PortsMatch
  <2>3. /\ op.edge.from \in Present(d) /\ op.edge.to \in Present(d)
        /\ op.edge.from # op.edge.to /\ PortsMatch(d, op.edge)
    BY <2>1 DEF AcceptsAddEdge
  <2>4. ASSUME NEW e \in Edges(c)
        PROVE  /\ c.edge[e].from \in Present(c) /\ c.edge[e].to \in Present(c)
               /\ c.edge[e].from # c.edge[e].to /\ PortsMatch(c, c.edge[e])
    <3>1. CASE e = op.id
      BY <2>1, <2>2, <2>3, <3>1
    <3>2. CASE e # op.id
      BY <2>1, <2>2, <3>2 DEF Attached
    <3> QED BY <3>1, <3>2
  <2> QED BY <2>4 DEF Attached
<1>7. CASE op \in RemoveEdgeOp
  <2>1. /\ c.node = d.node /\ Edges(c) \subseteq Edges(d)
        /\ \A e \in Edges(c) : c.edge[e] = d.edge[e]
    BY <1>7, RemoveEdgeFrame
  <2> HIDE DEF c
  <2>2. Present(c) = Present(d) /\ \A e : PortsMatch(c, e) <=> PortsMatch(d, e)
    BY <2>1 DEF Present, PortsMatch
  <2> QED BY <2>1, <2>2 DEF Attached
<1> QED BY <1>2, <1>3, <1>4, <1>5, <1>6, <1>7, Kinds

LEMMA SingleFedStep ==
  ASSUME NEW d \in Doc, NEW op \in Op, KeepsChildren(op), Accepts(d, op),
         Attached(d), SingleFed(d)
  PROVE  SingleFed(Applied(d, op))
<1> DEFINE c == Applied(d, op)
<1> SUFFICES SingleFed(c)
  OBVIOUS
\* An edge that was there before enters the same port of a node of the same type.
<1>1. ASSUME Edges(c) \subseteq Edges(d),
             \A e \in Edges(c) : /\ c.edge[e] = d.edge[e]
                                 /\ c.node[d.edge[e].to].type = d.node[d.edge[e].to].type
      PROVE  SingleFed(c)
  BY <1>1 DEF SingleFed
<1>2. ASSUME SameNodes(d, c), c.edge = d.edge PROVE SingleFed(c)
  BY <1>1, <1>2 DEF SameNodes, Attached, Edges
<1>3. CASE op \in ContentOp
  BY <1>2, <1>3, ContentFrame
<1>4. CASE op \in SetParentOp \union GroupOp \union UngroupOp
  BY <1>2, <1>4, NestingFrame
<1>5. CASE op \in AddNodeOp
  <2>1. (\A n \in Present(d) : c.node[n] = d.node[n]) /\ c.edge = d.edge
    BY <1>5, AddNodeFrame
  <2> HIDE DEF c
  <2> QED BY <1>1, <2>1 DEF Attached, Edges
<1>6. CASE op \in RemoveNodeOp
  <2>1. /\ Present(c) = Present(d) \ {op.id}
        /\ \A n \in Present(c) : c.node[n].type = d.node[n].type
        /\ \A e \in Edges(c) : /\ e \in Edges(d) /\ c.edge[e] = d.edge[e]
                               /\ d.edge[e].from # op.id /\ d.edge[e].to # op.id
    BY <1>6, RemoveNodeFrame
  <2> HIDE DEF c
  <2> QED BY <1>1, <2>1 DEF Attached
<1>7. CASE op \in AddEdgeOp
  <2>1. /\ c.node = d.node /\ op.id \notin Edges(d)
        /\ Edges(c) = (Edges(d) \ ReplacedBy(d, op.edge)) \union {op.id}
        /\ \A e \in Edges(c) \ {op.id} : c.edge[e] = d.edge[e]
        /\ c.edge[op.id] = op.edge
    BY <1>7, AddEdgeFrame
  <2> HIDE DEF c
  <2> QED BY <2>1 DEF SingleFed, ReplacedBy
<1>8. CASE op \in RemoveEdgeOp
  <2>1. /\ c.node = d.node /\ Edges(c) \subseteq Edges(d)
        /\ \A e \in Edges(c) : c.edge[e] = d.edge[e]
    BY <1>8, RemoveEdgeFrame
  <2> HIDE DEF c
  <2> QED BY <1>1, <2>1
<1> QED BY <1>3, <1>4, <1>5, <1>6, <1>7, <1>8, Kinds

\* The walk of wouldCycle visits everything above what it visits.
LEMMA UpstreamClosed ==
  ASSUME NEW d \in Doc, NEW n \in NodeId
  PROVE  /\ n \in Upstream(d, n)
         /\ \A e \in Edges(d) : d.edge[e].to \in Upstream(d, n)
                                  => d.edge[e].from \in Upstream(d, n)
<1>1. n \in Upstream(d, n)
  BY DEF Upstream
<1>2. ASSUME NEW e \in Edges(d), d.edge[e].to \in Upstream(d, n)
      PROVE  d.edge[e].from \in Upstream(d, n)
  <2>1. d.edge[e].from \in NodeId
    BY EdgeOfDoc DEF Edge
  <2>2. ASSUME NEW S \in SUBSET NodeId, n \in S, EdgeClosed(d, S), ParentClosed(d, S)
        PROVE  d.edge[e].from \in S
    BY <1>2, <2>2 DEF Upstream, EdgeClosed
  <2> QED BY <2>1, <2>2 DEF Upstream
<1> QED BY <1>1, <1>2

LEMMA FewerEdges ==
  ASSUME NEW d, NEW c, NoCycle(d), Edges(c) \subseteq Edges(d),
         \A e \in Edges(c) : c.edge[e] = d.edge[e]
  PROVE  NoCycle(c)
<1>1. ASSUME NEW S \in (SUBSET NodeId) \ {{}}
      PROVE  \E n \in S : \A e \in Edges(c) : c.edge[e].to = n => c.edge[e].from \notin S
  <2>1. PICK n \in S : \A e \in Edges(d) : d.edge[e].to = n => d.edge[e].from \notin S
    BY DEF NoCycle
  <2> QED BY <2>1
<1> QED BY <1>1 DEF NoCycle

LEMMA NoCycleStep ==
  ASSUME NEW d \in Doc, NEW op \in Op, Accepts(d, op), NoCycle(d)
  PROVE  NoCycle(Applied(d, op))
<1> DEFINE c == Applied(d, op)
<1> SUFFICES NoCycle(c)
  OBVIOUS
<1>0. CASE ~KeepsChildren(op)
  <2>1. Edges(c) \subseteq Edges(d) /\ \A e \in Edges(c) : c.edge[e] = d.edge[e]
    BY <1>0, DiscardFrame
  <2> HIDE DEF c
  <2> QED BY <2>1, FewerEdges
<1>1. ASSUME c.edge = d.edge PROVE NoCycle(c)
  BY <1>1 DEF NoCycle, Edges
<1>2. CASE op \in ContentOp
  BY <1>1, <1>2, ContentFrame
<1>3. CASE KeepsChildren(op) /\ op \in SetParentOp \union GroupOp \union UngroupOp
  BY <1>1, <1>3, NestingFrame
<1>4. CASE op \in AddNodeOp
  BY <1>1, <1>4, AddNodeFrame
<1>5. CASE op \in RemoveNodeOp
  <2>1. \A e \in Edges(c) : e \in Edges(d) /\ c.edge[e] = d.edge[e]
    BY <1>5, RemoveNodeFrame
  <2> HIDE DEF c
  <2> QED BY <2>1, FewerEdges
<1>6. CASE op \in RemoveEdgeOp
  <2>1. Edges(c) \subseteq Edges(d) /\ \A e \in Edges(c) : c.edge[e] = d.edge[e]
    BY <1>6, RemoveEdgeFrame
  <2> HIDE DEF c
  <2> QED BY <2>1, FewerEdges
<1>7. CASE op \in AddEdgeOp
  \* w is the document the walk sees; its edges are those of d, less the replaced.
  <2> DEFINE w == WithoutReplaced(d, op.edge)
             from == op.edge.from
             to == op.edge.to
             U == Upstream(w, from)
  <2>1. /\ op.id \notin Edges(d)
        /\ Edges(c) = (Edges(d) \ ReplacedBy(d, op.edge)) \union {op.id}
        /\ \A e \in Edges(d) \ ReplacedBy(d, op.edge) : c.edge[e] = d.edge[e]
        /\ c.edge[op.id] = op.edge
        /\ AcceptsAddEdge(d, op) /\ op.edge \in Edge
    BY <1>7, AddEdgeFrame
  <2>2. \A e \in EdgeId : w.edge[e] = IF e \in ReplacedBy(d, op.edge) THEN None ELSE d.edge[e]
    BY DEF WithoutReplaced, Doc
  <2>3. Edges(w) = Edges(d) \ ReplacedBy(d, op.edge)
        /\ \A e \in Edges(w) : w.edge[e] = d.edge[e]
    BY <2>2, EdgeOfDoc, NoneIsApart DEF Edges
  <2>4. w \in Doc
    BY <2>1 DEF WithoutReplaced, Doc
  <2>5. from \in NodeId /\ to \notin U
    BY <2>1 DEF AcceptsAddEdge, wouldCycle, Edge
  <2>6. from \in U /\ \A e \in Edges(w) : w.edge[e].to \in U => w.edge[e].from \in U
    BY <2>4, <2>5, UpstreamClosed
  <2>7. \A e \in Edges(c) : \/ e = op.id /\ c.edge[e] = op.edge
                            \/ e \in Edges(w) /\ c.edge[e] = w.edge[e]
    BY <2>1, <2>3
  <2>8. NoCycle(w)
    BY <2>3, FewerEdges
  <2> HIDE DEF c, w, from, to, U
  <2>9. ASSUME NEW S \in (SUBSET NodeId) \ {{}}
        PROVE  \E n \in S : \A e \in Edges(c) : c.edge[e].to = n => c.edge[e].from \notin S
    <3>1. CASE from \in S /\ to \in S
      <4> DEFINE T == S \intersect U
      <4>1. T \in (SUBSET NodeId) \ {{}}
        BY <2>6, <3>1
      <4>2. PICK n \in T : \A e \in Edges(w) : w.edge[e].to = n => w.edge[e].from \notin T
        BY <2>8, <4>1 DEF NoCycle
      <4>3. \A e \in Edges(c) : c.edge[e].to = n => c.edge[e].from \notin S
        BY <2>5, <2>6, <2>7, <4>2 DEF to
      <4> QED BY <4>2, <4>3
    <3>2. CASE ~(from \in S /\ to \in S)
      <4>1. PICK n \in S : \A e \in Edges(w) : w.edge[e].to = n => w.edge[e].from \notin S
        BY <2>8 DEF NoCycle
      <4>2. \A e \in Edges(c) : c.edge[e].to = n => c.edge[e].from \notin S
        BY <2>7, <3>2, <4>1 DEF from, to
      <4> QED BY <4>2
    <3> QED BY <3>1, <3>2
  <2> QED BY <2>9 DEF NoCycle
<1> QED BY <1>0, <1>2, <1>3, <1>4, <1>5, <1>6, <1>7, Kinds

-----------------------------------------------------------------------------
(***************************************************************************)
(* Nesting: parents are groups, and no group is inside itself.             *)
(***************************************************************************)
LEMMA GroupedStep ==
  ASSUME NEW d \in Doc, NEW op \in Op, KeepsChildren(op), Accepts(d, op), Grouped(d)
  PROVE  Grouped(Applied(d, op))
<1> DEFINE c == Applied(d, op)
<1> SUFFICES Grouped(c)
  OBVIOUS
\* The new parent of a node, if any, is a group of d.
<1>1. ASSUME SameNodes(d, c),
             \A n \in Present(d) :
               \/ c.node[n].parent = d.node[n].parent
               \/ c.node[n].parent = None
               \/ /\ c.node[n].parent \in Present(d)
                  /\ d.node[c.node[n].parent].type = Group
      PROVE  Grouped(c)
  BY <1>1 DEF SameNodes, Grouped
<1>2. CASE op \in ContentOp
  BY <1>1, <1>2, ContentFrame DEF SameParents
<1>3. CASE op \in SetParentOp
  <2>1. SameNodes(d, c) /\ AcceptsSetParent(d, op) /\ c = AppliedSetParent(d, op)
    BY <1>3, NestingFrame DEF SetParentOp, Accepts, Applied
  <2>2. \A n \in Present(d) : c.node[n].parent = IF n = op.id THEN op.parent
                                                             ELSE d.node[n].parent
    BY <2>1, NodeOfDoc DEF AppliedSetParent, Doc, Node
  <2> HIDE DEF c
  <2> QED BY <1>1, <2>1, <2>2 DEF AcceptsSetParent, checkParent
<1>4. CASE op \in GroupOp
  <2>1. SameNodes(d, c) /\ AcceptsGroup(d, op) /\ c = AppliedGroup(d, op)
    BY <1>4, NestingFrame DEF GroupOp, Accepts, Applied
  <2>2. \A n \in Present(d) : c.node[n].parent = IF n \in op.members THEN op.group
                                                                      ELSE d.node[n].parent
    <3>1. TAKE n \in Present(d)
    <3>2. d.node[n] \in Node /\ n \in NodeId
      BY NodeOfDoc
    <3>3. c.node[n] = IF n \in op.members THEN [d.node[n] EXCEPT !.parent = op.group]
                      ELSE IF n = op.group
                           THEN [d.node[n] EXCEPT !.x = GroupRect(d, op).x,
                                                  !.w = GroupRect(d, op).w]
                           ELSE d.node[n]
      BY <2>1, <3>2 DEF AppliedGroup, Doc
    <3> HIDE DEF c
    <3> QED BY <3>2, <3>3 DEF Node
  <2> HIDE DEF c
  <2> QED BY <1>1, <2>1, <2>2 DEF AcceptsGroup
<1>5. CASE op \in UngroupOp
  <2>1. SameNodes(d, c) /\ c = AppliedUngroup(d, op) /\ op.keep
    BY <1>5, NestingFrame DEF UngroupOp, Applied, KeepsChildren
  <2>2. \A n \in Present(d) : c.node[n] = Orphaned(d, op.group, n)
    BY <2>1, NodeOfDoc DEF AppliedUngroup, Doc
  <2>3. \A n \in Present(d) : c.node[n].parent \in {d.node[n].parent, None}
    BY <2>2, NodeOfDoc DEF Orphaned, Node
  <2> HIDE DEF c
  <2> QED BY <1>1, <2>1, <2>3
<1>6. CASE op \in AddNodeOp
  <2>1. /\ op.id \notin Present(d) /\ Present(c) = Present(d) \union {op.id}
        /\ \A n \in Present(d) : c.node[n] = d.node[n]
        /\ c.node[op.id] = op.node
    BY <1>6, AddNodeFrame
  <2>2. op.node.parent = None \/ /\ op.node.parent \in Present(d)
                                 /\ d.node[op.node.parent].type = Group
    BY <1>6 DEF AddNodeOp, Accepts, AcceptsAddNode, checkParent
  <2> HIDE DEF c
  <2> QED BY <2>1, <2>2 DEF Grouped
<1>7. CASE op \in RemoveNodeOp
  <2>1. /\ Present(c) = Present(d) \ {op.id}
        /\ \A n \in Present(c) : c.node[n] = Orphaned(d, op.id, n)
        /\ \A n \in Present(c) : c.node[n].type = d.node[n].type
    BY <1>7, RemoveNodeFrame
  <2> HIDE DEF c
  <2>2. \A n \in Present(c) :
          c.node[n].parent = IF d.node[n].parent = op.id THEN None ELSE d.node[n].parent
    BY <2>1, NodeOfDoc DEF Orphaned, ChildrenOf, Node
  <2> QED BY <2>1, <2>2 DEF Grouped
<1>8. CASE op \in AddEdgeOp \union RemoveEdgeOp
  <2>1. c.node = d.node
    BY <1>8, AddEdgeFrame, RemoveEdgeFrame
  <2> HIDE DEF c
  <2> QED BY <2>1 DEF Grouped, Present
<1> QED BY <1>2, <1>3, <1>4, <1>5, <1>6, <1>7, <1>8, Kinds

\* The loop of checkParent visits the whole chain above the parent.
LEMMA AncestryClosed ==
  ASSUME NEW d \in Doc, NEW p \in NodeId
  PROVE  /\ p \in Ancestry(d, p)
         /\ \A n \in Ancestry(d, p) :
              n \in Present(d) /\ d.node[n].parent # None
                => d.node[n].parent \in Ancestry(d, p)
<1>1. p \in Ancestry(d, p)
  BY DEF Ancestry
<1>2. ASSUME NEW n \in Ancestry(d, p), n \in Present(d), d.node[n].parent # None
      PROVE  d.node[n].parent \in Ancestry(d, p)
  <2>1. d.node[n].parent \in NodeId
    BY <1>2, NodeOfDoc DEF Node
  <2>2. ASSUME NEW S \in SUBSET NodeId, p \in S, ParentClosed(d, S)
        PROVE  d.node[n].parent \in S
    BY <1>2, <2>2 DEF Ancestry, ParentClosed
  <2> QED BY <2>1, <2>2 DEF Ancestry
<1> QED BY <1>1, <1>2

\* Placing the nodes of M below p keeps the nesting well-founded when no node
\* of M lies on the chain above p.
LEMMA PlacedBelow ==
  ASSUME NEW d \in Doc, NEW c, NEW M \in SUBSET NodeId, NEW p \in NodeId \union {None},
         Nested(d),
         Present(c) \subseteq Present(d) \union M,
         \A n \in Present(c) \ M : c.node[n].parent \in {d.node[n].parent, None},
         \A n \in M : c.node[n].parent = p,
         p # None => M \intersect Ancestry(d, p) = {},
         \A n \in Present(c) : n \in NodeId
  PROVE  Nested(c)
<1>1. ASSUME NEW S \in (SUBSET Present(c)) \ {{}}
      PROVE  \E n \in S : c.node[n].parent \notin S
  <2>0. None \notin S
    BY NoneIsApart
  <2>1. CASE S \intersect M = {}
    <3>1. PICK n \in S : d.node[n].parent \notin S
      BY <2>1 DEF Nested
    <3> QED BY <2>0, <2>1, <3>1
  <2>2. CASE S \intersect M # {} /\ p \notin S
    BY <2>2
  <2>3. CASE p \in S
    <3> DEFINE A == Ancestry(d, p)
               T == S \intersect A
    <3>1. p \in NodeId /\ p # None
      BY <2>0, <2>3
    <3>2. p \in A /\ M \intersect A = {}
      BY <3>1, AncestryClosed
    <3>3. \A n \in A : n \in Present(d) /\ d.node[n].parent # None => d.node[n].parent \in A
      BY <3>1, AncestryClosed
    <3> HIDE DEF A
    <3>4. T \in (SUBSET Present(d)) \ {{}}
      BY <2>3, <3>2
    <3>5. PICK n \in T : d.node[n].parent \notin T
      BY <3>4 DEF Nested
    <3>6. n \in Present(d) /\ n \in Present(c) \ M
      BY <3>2, <3>4, <3>5
    <3>7. d.node[n].parent \notin S
      BY <2>0, <3>3, <3>5, <3>6
    <3> QED BY <2>0, <3>5, <3>6, <3>7
  <2> QED BY <2>1, <2>2, <2>3
<1> QED BY <1>1 DEF Nested

LEMMA NestedStep ==
  ASSUME NEW d \in Doc, NEW op \in Op, Accepts(d, op), Nested(d)
  PROVE  Nested(Applied(d, op))
<1> DEFINE c == Applied(d, op)
<1> SUFFICES Nested(c)
  OBVIOUS
<1>0. \A n \in Present(c) : n \in NodeId
  BY DEF Present
\* Nothing is placed anew: M is empty.
<1>1. ASSUME Present(c) \subseteq Present(d),
             \A n \in Present(c) : c.node[n].parent \in {d.node[n].parent, None}
      PROVE  Nested(c)
  <2> HIDE DEF c
  <2>1. ASSUME NEW S \in (SUBSET Present(c)) \ {{}}
        PROVE  \E n \in S : c.node[n].parent \notin S
    <3>1. PICK n \in S : d.node[n].parent \notin S
      BY <1>1 DEF Nested
    <3> QED BY <1>0, <1>1, <3>1, NoneIsApart
  <2> QED BY <2>1 DEF Nested
<1>2. CASE op \in ContentOp
  BY <1>1, <1>2, ContentFrame DEF SameParents, SameNodes
<1>3. CASE op \in SetParentOp
  <2>1. SameNodes(d, c) /\ AcceptsSetParent(d, op) /\ c = AppliedSetParent(d, op)
    BY <1>3, NestingFrame DEF SetParentOp, Accepts, Applied, KeepsChildren
  <2>2. \A n \in Present(d) : c.node[n].parent = IF n = op.id THEN op.parent
                                                             ELSE d.node[n].parent
    BY <2>1, NodeOfDoc DEF AppliedSetParent, Doc, Node
  <2> HIDE DEF c
  <2>3. op.id \in Present(d) /\ op.id \in NodeId /\ op.parent \in NodeId \union {None}
    BY <1>3, <2>1, NodeOfDoc DEF AcceptsSetParent, SetParentOp
  <2>4. op.parent # None => op.id \notin Ancestry(d, op.parent)
    BY <2>1 DEF AcceptsSetParent, checkParent
  <2>5. {op.id} \in SUBSET NodeId /\ (op.parent # None => {op.id} \intersect Ancestry(d, op.parent) = {})
    BY <2>3, <2>4
  <2>6. /\ Present(c) \subseteq Present(d) \union {op.id}
        /\ \A n \in Present(c) \ {op.id} : c.node[n].parent \in {d.node[n].parent, None}
        /\ \A n \in {op.id} : c.node[n].parent = op.parent
    BY <2>1, <2>2, <2>3 DEF SameNodes
  <2> QED BY <1>0, <2>3, <2>5, <2>6, PlacedBelow
<1>4. CASE op \in GroupOp
  <2>1. SameNodes(d, c) /\ AcceptsGroup(d, op) /\ c = AppliedGroup(d, op)
    BY <1>4, NestingFrame DEF GroupOp, Accepts, Applied, KeepsChildren
  <2>2. \A n \in Present(d) : c.node[n].parent = IF n \in op.members THEN op.group
                                                                      ELSE d.node[n].parent
    <3>1. TAKE n \in Present(d)
    <3>2. d.node[n] \in Node /\ n \in NodeId
      BY NodeOfDoc
    <3>3. c.node[n] = IF n \in op.members THEN [d.node[n] EXCEPT !.parent = op.group]
                      ELSE IF n = op.group
                           THEN [d.node[n] EXCEPT !.x = GroupRect(d, op).x,
                                                  !.w = GroupRect(d, op).w]
                           ELSE d.node[n]
      BY <2>1, <3>2 DEF AppliedGroup, Doc
    <3> HIDE DEF c
    <3> QED BY <3>2, <3>3 DEF Node
  <2> HIDE DEF c
  <2>3. /\ op.group \in NodeId \union {None} /\ op.members \in SUBSET NodeId
        /\ op.members \subseteq Present(d)
    BY <1>4, <2>1 DEF GroupOp, AcceptsGroup
  <2>4. op.group # None => op.members \intersect Ancestry(d, op.group) = {}
    BY <2>1 DEF AcceptsGroup, checkParent
  <2>5. /\ Present(c) \subseteq Present(d) \union op.members
        /\ \A n \in Present(c) \ op.members : c.node[n].parent \in {d.node[n].parent, None}
        /\ \A n \in op.members : c.node[n].parent = op.group
    BY <2>1, <2>2, <2>3 DEF SameNodes
  <2> QED BY <1>0, <2>3, <2>4, <2>5, PlacedBelow
<1>5. CASE op \in UngroupOp /\ KeepsChildren(op)
  <2>1. SameNodes(d, c) /\ c = AppliedUngroup(d, op) /\ op.keep
    BY <1>5, NestingFrame DEF UngroupOp, Applied, KeepsChildren
  <2>2. \A n \in Present(d) : c.node[n] = Orphaned(d, op.group, n)
    BY <2>1, NodeOfDoc DEF AppliedUngroup, Doc
  <2>3. \A n \in Present(d) : c.node[n].parent \in {d.node[n].parent, None}
    BY <2>2, NodeOfDoc DEF Orphaned, Node
  <2> QED BY <1>1, <2>1, <2>3 DEF SameNodes
<1>6. CASE op \in AddNodeOp
  <2>1. /\ op.id \in NodeId \ Present(d) /\ Present(c) = Present(d) \union {op.id}
        /\ \A n \in Present(d) : c.node[n] = d.node[n]
        /\ c.node[op.id] = op.node /\ op.node \in Node
    BY <1>6, AddNodeFrame
  <2> DEFINE p == op.node.parent
  <2>2. p \in NodeId \union {None} /\ (p # None => op.id \notin Ancestry(d, p))
    BY <1>6, <2>1 DEF AddNodeOp, Accepts, AcceptsAddNode, checkParent, Node
  <2> HIDE DEF c, p
  <2>3. {op.id} \in SUBSET NodeId /\ (p # None => {op.id} \intersect Ancestry(d, p) = {})
    BY <2>1, <2>2
  <2>4. /\ Present(c) \subseteq Present(d) \union {op.id}
        /\ \A n \in Present(c) \ {op.id} : c.node[n].parent \in {d.node[n].parent, None}
        /\ \A n \in {op.id} : c.node[n].parent = p
    BY <2>1 DEF p
  <2> QED BY <1>0, <2>2, <2>3, <2>4, PlacedBelow
<1>7. CASE op \in RemoveNodeOp
  <2>1. /\ Present(c) = Present(d) \ {op.id}
        /\ \A n \in Present(c) : c.node[n] = Orphaned(d, op.id, n)
    BY <1>7, RemoveNodeFrame
  <2>2. \A n \in Present(c) : c.node[n].parent \in {d.node[n].parent, None}
    BY <2>1, NodeOfDoc DEF Orphaned, Node
  <2> QED BY <1>1, <2>1, <2>2
<1>8. CASE op \in AddEdgeOp \union RemoveEdgeOp
  <2>1. c.node = d.node
    BY <1>8, AddEdgeFrame, RemoveEdgeFrame
  <2> QED BY <1>1, <2>1 DEF Present
<1>9. CASE ~KeepsChildren(op)
  <2>1. Present(c) \subseteq Present(d) /\ \A n \in Present(c) : c.node[n] = d.node[n]
    BY <1>9, DiscardFrame
  <2> QED BY <1>1, <2>1
<1> QED BY <1>2, <1>3, <1>4, <1>5, <1>6, <1>7, <1>8, <1>9, Kinds

-----------------------------------------------------------------------------
(***************************************************************************)
(* Limits: only add_node and add_edge grow a document, one step at a time. *)
(***************************************************************************)
LEMMA FiniteDoc ==
  ASSUME NEW d
  PROVE  /\ IsFiniteSet(Present(d)) /\ Cardinality(Present(d)) \in Nat
         /\ IsFiniteSet(Edges(d)) /\ Cardinality(Edges(d)) \in Nat
BY FinitelyMany, FS_Subset, FS_CardinalityType DEF Present, Edges

LEMMA Fewer ==
  ASSUME NEW S, NEW T \in SUBSET S, IsFiniteSet(S)
  PROVE  Cardinality(T) <= Cardinality(S)
BY FS_Subset

LEMMA OneMore ==
  ASSUME NEW S, NEW x, NEW T \in SUBSET (S \union {x}), IsFiniteSet(S),
         NEW m \in Nat, Cardinality(S) < m
  PROVE  Cardinality(T) <= m
<1>0. Cardinality(S) \in Nat
  BY FS_CardinalityType
<1>1. IsFiniteSet(S \union {x}) /\ Cardinality(S \union {x}) <= Cardinality(S) + 1
  <2>1. IsFiniteSet(S \union {x})
    BY FS_AddElement
  <2>2. Cardinality(S \union {x}) = IF x \in S THEN Cardinality(S) ELSE Cardinality(S) + 1
    BY FS_AddElement
  <2> QED BY <1>0, <2>1, <2>2
<1>2. Cardinality(T) <= Cardinality(S \union {x})
  BY <1>1, FS_Subset
<1>3. Cardinality(T) \in Nat /\ Cardinality(S) \in Nat /\ Cardinality(S \union {x}) \in Nat
  BY <1>1, FS_Subset, FS_CardinalityType
<1> QED BY <1>1, <1>2, <1>3

LEMMA WithinLimitsStep ==
  ASSUME NEW d \in Doc, NEW op \in Op, Accepts(d, op), WithinLimits(d)
  PROVE  WithinLimits(Applied(d, op))
<1> DEFINE c == Applied(d, op)
<1> SUFFICES WithinLimits(c)
  OBVIOUS
\* What every kind but the two that add does to the two sets.
<1>1. ASSUME Present(c) \subseteq Present(d), Edges(c) \subseteq Edges(d)
      PROVE  WithinLimits(c)
  <2>1. /\ Cardinality(Present(c)) <= Cardinality(Present(d))
        /\ Cardinality(Edges(c)) <= Cardinality(Edges(d))
    BY <1>1, FiniteDoc, Fewer
  <2>2. /\ Cardinality(Present(c)) \in Nat /\ Cardinality(Present(d)) \in Nat
        /\ Cardinality(Edges(c)) \in Nat /\ Cardinality(Edges(d)) \in Nat
    BY FiniteDoc
  <2> HIDE DEF c
  <2> QED BY <2>1, <2>2, LimitsTyped DEF WithinLimits
<1>2. CASE op \in ContentOp
  BY <1>1, <1>2, ContentFrame DEF SameNodes, Edges
<1>3. CASE KeepsChildren(op) /\ op \in SetParentOp \union GroupOp \union UngroupOp
  BY <1>1, <1>3, NestingFrame DEF SameNodes, Edges
<1>8. CASE ~KeepsChildren(op)
  BY <1>1, <1>8, DiscardFrame
<1>4. CASE op \in AddNodeOp
  <2>1. Present(c) \subseteq Present(d) \union {op.id} /\ c.edge = d.edge
    BY <1>4, AddNodeFrame
  <2>2. Cardinality(Present(d)) < MaxNodes
    BY <1>4 DEF AddNodeOp, Accepts, AcceptsAddNode, NodeRoom
  <2> HIDE DEF c
  <2>3. Cardinality(Present(c)) <= MaxNodes
    BY <2>1, <2>2, FiniteDoc, LimitsTyped, OneMore
  <2> QED BY <2>1, <2>3 DEF WithinLimits, Edges
<1>5. CASE op \in AddEdgeOp
  <2>1. /\ c.node = d.node /\ AcceptsAddEdge(d, op)
        /\ Edges(c) \subseteq Edges(d) \union {op.id}
    BY <1>5, AddEdgeFrame
  <2>2. Cardinality(Edges(d)) < MaxEdges
    BY <2>1 DEF AcceptsAddEdge, EdgeRoom
  <2> HIDE DEF c
  <2>3. Cardinality(Edges(c)) <= MaxEdges
    BY <2>1, <2>2, FiniteDoc, LimitsTyped, OneMore
  <2> QED BY <2>1, <2>3 DEF WithinLimits, Present
<1>6. CASE op \in RemoveNodeOp
  BY <1>1, <1>6, RemoveNodeFrame
<1>7. CASE op \in RemoveEdgeOp
  <2>1. c.node = d.node /\ Edges(c) \subseteq Edges(d)
    BY <1>7, RemoveEdgeFrame
  <2> QED BY <1>1, <2>1 DEF Present
<1> QED BY <1>2, <1>3, <1>4, <1>5, <1>6, <1>7, <1>8, Kinds

-----------------------------------------------------------------------------
(***************************************************************************)
(* Two sets of documents that no accepted op leaves: the sound ones, and   *)
(* the well-formed ones if no ungroup discards the children of its group.  *)
(* Attached carries SingleFed: an edge into a node that is gone could      *)
(* enter a single port of a later node of the same id.                     *)
(***************************************************************************)
SoundDoc == {d \in Doc : WithinLimits(d) /\ NoCycle(d) /\ Nested(d)}

WellFormedDoc == {d \in SoundDoc : Attached(d) /\ SingleFed(d) /\ Grouped(d)}

PoolKeepsChildren == \A op \in OpPool : KeepsChildren(op)

LEMMA NewDocumentWellFormed ==
  ASSUME NEW v \in Value, NEW s \in Value
  PROVE  NewDocument(v, s) \in WellFormedDoc
<1> DEFINE d == NewDocument(v, s)
<1>1. d \in Doc /\ Present(d) = {} /\ Edges(d) = {}
  BY DEF NewDocument, Doc, Present, Edges
<1> HIDE DEF d
<1>2. WithinLimits(d)
  BY <1>1, FS_EmptySet, LimitsTyped DEF WithinLimits
<1>3. NoCycle(d)
  <2>1. ASSUME NEW S \in (SUBSET NodeId) \ {{}}
        PROVE  \E n \in S : \A e \in Edges(d) : d.edge[e].to = n => d.edge[e].from \notin S
    BY <1>1
  <2> QED BY <2>1 DEF NoCycle
<1> QED BY <1>1, <1>2, <1>3 DEF d, WellFormedDoc, SoundDoc, Attached, SingleFed, Grouped, Nested

LEMMA SoundStep ==
  ASSUME NEW d \in SoundDoc, NEW op \in OpPool, Accepts(d, op)
  PROVE  Applied(d, op) \in SoundDoc
<1>1. op \in Op /\ d \in Doc
  BY OpsTyped DEF SoundDoc
<1>2. Applied(d, op) \in Doc
  BY <1>1, AppliedTyped
<1>3. WithinLimits(Applied(d, op))
  BY <1>1, WithinLimitsStep DEF SoundDoc
<1>4. NoCycle(Applied(d, op))
  BY <1>1, NoCycleStep DEF SoundDoc
<1>5. Nested(Applied(d, op))
  BY <1>1, NestedStep DEF SoundDoc
<1> QED BY <1>2, <1>3, <1>4, <1>5 DEF SoundDoc

LEMMA WellFormedStep ==
  ASSUME NEW d \in WellFormedDoc, NEW op \in OpPool, KeepsChildren(op), Accepts(d, op)
  PROVE  Applied(d, op) \in WellFormedDoc
<1>1. op \in Op /\ d \in Doc /\ d \in SoundDoc
  BY OpsTyped DEF SoundDoc, WellFormedDoc
<1>2. Applied(d, op) \in SoundDoc
  BY <1>1, SoundStep
<1>3. Attached(Applied(d, op))
  BY <1>1, AttachedStep DEF WellFormedDoc
<1>4. SingleFed(Applied(d, op))
  BY <1>1, SingleFedStep DEF WellFormedDoc
<1>5. Grouped(Applied(d, op))
  BY <1>1, GroupedStep DEF WellFormedDoc
<1> QED BY <1>2, <1>3, <1>4, <1>5 DEF WellFormedDoc

-----------------------------------------------------------------------------
(***************************************************************************)
(* A batch.  Apply is defined by a function that refers to itself: that    *)
(* there is such a function for every length, and that what each op keeps  *)
(* a batch keeps, follow from the least index where it would fail.         *)
(***************************************************************************)
LEMMA Smallest ==
  ASSUME NEW T \in SUBSET Nat, T # {}
  PROVE  \E i \in T : \A j \in T : i <= j
<1> DEFINE R == OpToRel(<, Nat)
<1>1. IsWellFoundedOn(R, Nat)
  BY NatLessThanWellFounded
<1>2. \A x, y \in Nat : x < y => <<x, y>> \in R
  BY DEF OpToRel
<1>3. \E x \in T : \A y \in T : ~ (<<y, x>> \in R)
  <2> HIDE DEF R
  <2> QED BY <1>1, WFMin
<1> HIDE DEF R
<1>4. PICK i \in T : \A j \in T : ~ (<<j, i>> \in R)
  BY <1>3
<1>5. \A j \in T : ~ (j < i)
  BY <1>2, <1>4
<1>6. \A j \in T : i <= j
  BY <1>5
<1> QED BY <1>6

Folds(after, first, ops, n) ==
  after = [i \in 0..n |-> IF i = 0 THEN first ELSE ApplyOne(after[i - 1], ops[i])]

LEMMA FoldExists ==
  ASSUME NEW first, NEW ops, NEW n \in Nat
  PROVE  \E f : Folds(f, first, ops, n)
<1> DEFINE Def(f, k) == Folds(f, first, ops, k)
           T == {k \in Nat : ~ \E f : Def(f, k)}
<1> SUFFICES ASSUME T # {} PROVE FALSE
  OBVIOUS
<1>1. PICK k \in T : \A j \in T : k <= j
  <2>1. T \in SUBSET Nat
    OBVIOUS
  <2> HIDE DEF T
  <2> QED BY <2>1, Smallest
<1> USE DEF Folds
<1>2. k # 0
  <2>1. Def([i \in 0..0 |-> first], 0)
    OBVIOUS
  <2> QED BY <2>1
<1>3. PICK g : Def(g, k - 1)
  <2> HIDE DEF Def
  <2> QED BY <1>1, <1>2
<1>4. Def([i \in 0..k |-> IF i = k THEN ApplyOne(g[k - 1], ops[k]) ELSE g[i]], k)
  <2> DEFINE h == [i \in 0..k |-> IF i = k THEN ApplyOne(g[k - 1], ops[k]) ELSE g[i]]
  <2>0. k \in Nat /\ k # 0
    BY <1>1, <1>2
  <2>1. \A i \in 0..k : h[i] = IF i = 0 THEN first ELSE ApplyOne(h[i - 1], ops[i])
    <3> TAKE i \in 0..k
    <3>1. CASE i = k
      BY <3>1, <2>0
    <3>2. CASE i # k
      <4>1. i \in 0..(k-1) /\ h[i] = g[i]
        BY <3>2, <2>0
      <4>2. g[i] = IF i = 0 THEN first ELSE ApplyOne(g[i - 1], ops[i])
        BY <4>1, <1>3
      <4>3. i # 0 => h[i-1] = g[i-1]
        BY <3>2, <2>0
      <4> QED BY <4>1, <4>2, <4>3
    <3> QED BY <3>1, <3>2
  <2> QED BY <2>1
<1>5. k \in T /\ \E f : Def(f, k)
  <2> HIDE DEF Def
  <2> QED BY <1>1, <1>4
<1> QED BY <1>5
LEMMA ApplyStays ==
  ASSUME NEW S, NEW first \in S, NEW ops \in Seq(OpPool),
         \A d \in S, op \in OpPool : Accepts(d, op) => Applied(d, op) \in S
  PROVE  Apply(first, ops) \in S \union {Rejected}
<1> DEFINE n == Len(ops)
           after == CHOOSE f : Folds(f, first, ops, n)
<1>0. n \in Nat /\ \A i \in 1..n : ops[i] \in OpPool
  OBVIOUS
<1>1. Apply(first, ops) = after[n]
  BY DEF Apply, Folds
<1>2. Folds(after, first, ops, n)
  <2>1. \E f : Folds(f, first, ops, n)
    BY <1>0, FoldExists
  <2> QED BY <2>1, Zenon
<1>3. \A i \in 0..n : after[i] = IF i = 0 THEN first ELSE ApplyOne(after[i - 1], ops[i])
  BY <1>2 DEF Folds
<1> HIDE DEF after, n
<1> DEFINE T == {i \in 0..n : after[i] \notin S \union {Rejected}}
<1>4. SUFFICES ASSUME T # {} PROVE FALSE
  BY <1>0, <1>1
<1>5. PICK k \in T : \A j \in T : k <= j
  <2>1. T \in SUBSET Nat
    BY <1>0
  <2> HIDE DEF T
  <2> QED BY <1>4, <2>1, Smallest
<1>6. k \in 1..n
  BY <1>0, <1>3, <1>5
<1>7. after[k - 1] \in S \union {Rejected} /\ after[k] = ApplyOne(after[k - 1], ops[k])
  BY <1>0, <1>3, <1>5, <1>6
<1>8. after[k] \in S \union {Rejected}
  BY <1>0, <1>6, <1>7 DEF ApplyOne
<1> QED BY <1>5, <1>8

LEMMA BatchSound ==
  ASSUME NEW d \in SoundDoc, NEW ops \in Seq(OpPool)
  PROVE  Apply(d, ops) \in SoundDoc \union {Rejected}
BY SoundStep, ApplyStays

LEMMA BatchWellFormed ==
  ASSUME PoolKeepsChildren, NEW d \in WellFormedDoc, NEW ops \in Seq(OpPool)
  PROVE  Apply(d, ops) \in WellFormedDoc \union {Rejected}
BY WellFormedStep, ApplyStays DEF PoolKeepsChildren
-----------------------------------------------------------------------------
(***************************************************************************)
(* One canvas.  The two inductive invariants say that the document is      *)
(* sound, and well-formed if no ungroup of the pool discards the children  *)
(* of its group.                                                           *)
(***************************************************************************)
Sound == doc \in SoundDoc

WellFormed == doc \in WellFormedDoc

LEMMA InitWellFormed == DocInit => WellFormed
BY BlankTyped, NewDocumentWellFormed DEF DocInit, WellFormed

\* Every action performs an op of the pool.
LEMMA NextPerforms == DocNext => \E op \in OpPool : Perform(op)
BY DEF DocNext, NextOf, AddNode, RemoveNode, MoveNode, ResizeNode, SetTitle, SetSpec, SetState,
   AddEdge, RemoveEdge, GroupNodes, Ungroup, SetViewport, SetSettings, SetParent, OpsOf

LEMMA PerformSound ==
  ASSUME Sound, NEW op \in OpPool, Perform(op)
  PROVE  Sound'
BY SoundStep DEF Sound, Perform

LEMMA PerformWellFormed ==
  ASSUME WellFormed, NEW op \in OpPool, KeepsChildren(op), Perform(op)
  PROVE  WellFormed'
BY WellFormedStep DEF WellFormed, Perform

LEMMA AlwaysSound == DocSpec => []Sound
<1>1. DocInit => Sound
  BY InitWellFormed DEF WellFormed, WellFormedDoc, Sound
<1>2. Sound /\ [DocNext]_doc => Sound'
  <2>1. ASSUME Sound, DocNext PROVE Sound'
    BY <2>1, NextPerforms, PerformSound
  <2>2. ASSUME Sound, UNCHANGED doc PROVE Sound'
    BY <2>2 DEF Sound
  <2> QED BY <2>1, <2>2
<1> QED BY <1>1, <1>2, PTL DEF DocSpec

\* Documents stay typed and within the limits of limits.go.
THEOREM TypeCorrect == DocSpec => []DocTypeOK
<1>1. Sound => DocTypeOK
  BY DEF Sound, SoundDoc, DocTypeOK
<1> QED BY <1>1, AlwaysSound, PTL

\* The walk of wouldCycle up from one end of a new edge, on the document that
\* lacks the replaced edges, keeps the edges acyclic.
THEOREM EdgesAcyclic == DocSpec => []Acyclic
<1>1. Sound => Acyclic
  BY DEF Sound, SoundDoc, Acyclic
<1> QED BY <1>1, AlwaysSound, PTL

\* The loop of checkParent keeps every group out of itself.
THEOREM GroupsWellFounded == DocSpec => []GroupsNest
<1>1. Sound => GroupsNest
  BY DEF Sound, SoundDoc, GroupsNest
<1> QED BY <1>1, AlwaysSound, PTL

LEMMA AlwaysWellFormed ==
  ASSUME PoolKeepsChildren
  PROVE  DocSpec => []WellFormed
<1>1. DocInit => WellFormed
  BY InitWellFormed
<1>2. WellFormed /\ [DocNext]_doc => WellFormed'
  <2>1. ASSUME WellFormed, DocNext PROVE WellFormed'
    BY <2>1, NextPerforms, PerformWellFormed DEF PoolKeepsChildren
  <2>2. ASSUME WellFormed, UNCHANGED doc PROVE WellFormed'
    BY <2>2 DEF WellFormed
  <2> QED BY <2>1, <2>2
<1> QED BY <1>1, <1>2, PTL DEF DocSpec

\* What applyAddEdge and checkParent establish once, no later op undoes,
\* unless an ungroup discards the children of its group.
THEOREM WellFormedDocument ==
  ASSUME PoolKeepsChildren
  PROVE  DocSpec => [](EdgesAttached /\ SingleInputs /\ ParentsAreGroups)
<1>1. DocSpec => []WellFormed
  BY AlwaysWellFormed
<1>2. WellFormed => EdgesAttached /\ SingleInputs /\ ParentsAreGroups
  BY DEF WellFormed, WellFormedDoc, EdgesAttached, SingleInputs, ParentsAreGroups
<1> QED BY <1>1, <1>2, PTL

-----------------------------------------------------------------------------
(***************************************************************************)
(* The inverses.  A document is its nodes, its edges and its two values.   *)
(***************************************************************************)
LEMMA SameDocument ==
  ASSUME NEW c \in Doc, NEW d \in Doc,
         \A n \in NodeId : c.node[n] = d.node[n],
         \A e \in EdgeId : c.edge[e] = d.edge[e],
         c.viewport = d.viewport, c.settings = d.settings
  PROVE  c = d
<1>1. c.node = d.node
  BY DEF Doc
<1>2. c.edge = d.edge
  BY DEF Doc
<1> QED BY <1>1, <1>2 DEF Doc

\* A document in which one node changes, and changes back.
Put(d, i, v) == [d EXCEPT !.node[i] = v]

LEMMA NodeBack ==
  ASSUME NEW d \in Doc, NEW i \in NodeId, NEW v
  PROVE  Put(Put(d, i, v), i, d.node[i]) = d
<1> DEFINE b == Put(Put(d, i, v), i, d.node[i])
<1>1. /\ b.edge = d.edge /\ b.viewport = d.viewport /\ b.settings = d.settings
      /\ \A n \in NodeId : b.node[n] = d.node[n]
  BY DEF Doc, Put
<1>2. b \in Doc
  BY DEF Doc, Put
<1> HIDE DEF b
<1> QED BY <1>1, <1>2, SameDocument DEF b

\* A batch of one op.
LEMMA ApplyOneOp ==
  ASSUME NEW d, NEW ops, Len(ops) = 1
  PROVE  Apply(d, ops) = ApplyOne(d, ops[1])
<1> DEFINE after == CHOOSE f : Folds(f, d, ops, 1)
<1>1. Apply(d, ops) = after[1]
  BY DEF Apply, Folds
<1>2. Folds(after, d, ops, 1)
  <2>1. \E f : Folds(f, d, ops, 1)
    BY FoldExists
  <2> QED BY <2>1, Zenon
<1> HIDE DEF after
<1>3. \A i \in 0..1 : after[i] = IF i = 0 THEN d ELSE ApplyOne(after[i - 1], ops[i])
  BY <1>2 DEF Folds
<1>4. after[0] = d /\ after[1] = ApplyOne(after[0], ops[1])
  BY <1>3
<1> QED BY <1>1, <1>4

\* What UndoAgentOps sends back for one op that has a single inverse.
LEMMA UndoneOne ==
  ASSUME NEW d \in Doc, NEW op \in Op, Accepts(d, op), op.kind \notin Compound
  PROVE  Undone(d, <<op>>) = ApplyOne(Applied(d, op), UndoOne(d, op))
<1> DEFINE at == CHOOSE f : Folds(f, d, <<op>>, 1)
           back == [i \in DOMAIN <<op>> |-> UndoOne(at[i - 1], <<op>>[i])]
<1>0. Len(<<op>>) = 1 /\ DOMAIN <<op>> = 1..1 /\ <<op>>[1] = op
  OBVIOUS
<1>1. Undone(d, <<op>>) = Apply(at[1], back)
  <2>1. ~ \E i \in DOMAIN <<op>> : <<op>>[i].kind \in Compound
    BY <1>0
  <2> QED BY <1>0, <2>1 DEF Undone, Folds
<1>2. Folds(at, d, <<op>>, 1)
  <2>1. \E f : Folds(f, d, <<op>>, 1)
    BY FoldExists
  <2> QED BY <2>1, Zenon
<1> HIDE DEF at
<1>3. \A i \in 0..1 : at[i] = IF i = 0 THEN d ELSE ApplyOne(at[i - 1], <<op>>[i])
  BY <1>2 DEF Folds
<1>4. at[0] = d /\ at[1] = ApplyOne(d, op)
  BY <1>0, <1>3
<1>5. at[1] = Applied(d, op)
  BY <1>4, NoneIsApart DEF ApplyOne
<1>6. Len(back) = 1 /\ back[1] = UndoOne(d, op)
  <2>1. back = [i \in 1..1 |-> UndoOne(at[i - 1], <<op>>[i])]
    BY <1>0
  <2>2. back[1] = UndoOne(at[0], op)
    BY <1>0, <2>1
  <2> QED BY <1>4, <2>1, <2>2
<1> HIDE DEF back
<1> QED BY <1>1, <1>5, <1>6, ApplyOneOp

-----------------------------------------------------------------------------
\* A node given by its record is present.
LEMMA Given ==
  ASSUME NEW d \in Doc, NEW n \in Present(d)
  PROVE  n \in NodeId /\ d.node[n] \in Node /\ d.node[n] # None /\ d # Rejected
BY NodeOfDoc, NoneIsApart DEF Present

\* An op edits one node and its inverse gives the node back as it was.
LEMMA EditRestored ==
  ASSUME NEW d \in Doc, NEW i \in Present(d), NEW v, NEW c \in Doc,
         c = Put(d, i, v), NEW u, Accepts(c, u),
         Applied(c, u) = Put(c, i, d.node[i])
  PROVE  ApplyOne(c, u) = d
<1>1. Applied(c, u) = d
  BY Given, NodeBack
<1> QED BY <1>1, NoneIsApart DEF ApplyOne

LEMMA MoveRestores ==
  ASSUME NEW d \in Doc, NEW op \in MoveNodeOp, Accepts(d, op), InRange(d)
  PROVE  ApplyOne(Applied(d, op), UndoOne(d, op)) = d
<1> DEFINE c == Applied(d, op)
           u == UndoOne(d, op)
           n == d.node[op.id]
           v == [n EXCEPT !.x = MovedTo(d, op)]
<1>1. op.id \in Present(d) /\ c = Put(d, op.id, v)
  BY Given DEF Put, MoveNodeOp, Accepts, AcceptsMoveNode, Applied, AppliedMoveNode, Doc
<1>2. c \in Doc /\ c # Rejected
  BY AppliedTyped, NoneIsApart DEF Op
<1>3. n \in Node /\ op.id \in NodeId /\ ValidRect(n.x, n.w)
  BY <1>1, Given DEF InRange
<1>4. u = [kind |-> "move_node", id |-> op.id, x |-> n.x, delta |-> FALSE]
  BY DEF MoveNodeOp, UndoOne, UndoMove
<1>5. c.node[op.id] = v
  BY <1>1, <1>3 DEF Put, Doc
<1>6. c.node[op.id].w = n.w /\ op.id \in Present(c) /\ [c.node[op.id] EXCEPT !.x = n.x] = n
  <2>1. MovedTo(d, op) \in Int
    BY <1>3 DEF MovedTo, MoveNodeOp, Node
  <2>2. c.node[op.id] \in Node
    BY <1>3, <1>5, <2>1 DEF Node
  <2> QED BY <1>3, <1>5, <2>2, NoneIsApart DEF Node, Present
<1> HIDE DEF c, u, v
<1>7. Accepts(c, u) /\ Applied(c, u) = Put(c, op.id, n)
  <2>1. MovedTo(c, u) = n.x
    BY <1>4 DEF MovedTo
  <2>2. Accepts(c, u)
    BY <1>3, <1>4, <1>6, <2>1 DEF Accepts, AcceptsMoveNode, ValidRect
  <2>3. Applied(c, u) = [c EXCEPT !.node[op.id].x = n.x]
    BY <1>4, <2>1 DEF Applied, AppliedMoveNode
  <2> QED BY <1>2, <1>6, <2>2, <2>3 DEF Put, Doc
<1>9. ApplyOne(c, u) = d
  BY <1>1, <1>2, <1>7, EditRestored
<1> QED BY <1>9 DEF c, u

LEMMA ResizeRestores ==
  ASSUME NEW d \in Doc, NEW op \in ResizeNodeOp, Accepts(d, op), InRange(d)
  PROVE  ApplyOne(Applied(d, op), UndoOne(d, op)) = d
<1> DEFINE c == Applied(d, op)
           u == UndoOne(d, op)
           n == d.node[op.id]
           v == [n EXCEPT !.w = op.w]
<1>1. op.id \in Present(d) /\ c = Put(d, op.id, v)
  BY Given DEF Put, ResizeNodeOp, Accepts, AcceptsResizeNode, Applied, AppliedResizeNode, Doc
<1>2. c \in Doc
  BY AppliedTyped DEF Op
<1>3. n \in Node /\ op.id \in NodeId /\ ValidRect(n.x, n.w)
  BY <1>1, Given DEF InRange
<1>4. u = [kind |-> "resize_node", id |-> op.id, w |-> n.w]
  BY DEF ResizeNodeOp, UndoOne, Sizing
<1>5. c.node[op.id] = v
  BY <1>1, <1>3 DEF Put, Doc
<1>6. v \in Node /\ v.x = n.x /\ [v EXCEPT !.w = n.w] = n
  BY <1>3 DEF Node, ResizeNodeOp
<1> HIDE DEF c, u, v
<1>7. op.id \in Present(c)
  BY <1>3, <1>5, <1>6, NoneIsApart DEF Present
<1>8. Accepts(c, u)
  BY <1>3, <1>4, <1>5, <1>6, <1>7 DEF Accepts, AcceptsResizeNode
<1>9. Applied(c, u) = Put(c, op.id, n)
  <2>1. Applied(c, u) = [c EXCEPT !.node[op.id].w = n.w]
    BY <1>4 DEF Applied, AppliedResizeNode
  <2> QED BY <1>2, <1>5, <1>6, <2>1 DEF Put, Doc
<1>10. ApplyOne(c, u) = d
  BY <1>1, <1>2, <1>8, <1>9, EditRestored
<1> QED BY <1>10 DEF c, u

LEMMA TitleRestores ==
  ASSUME NEW d \in Doc, NEW op \in SetTitleOp, Accepts(d, op), Plain(d, op)
  PROVE  ApplyOne(Applied(d, op), UndoOne(d, op)) = d
<1> DEFINE c == Applied(d, op)
           u == UndoOne(d, op)
           n == d.node[op.id]
           v == [n EXCEPT !.title = op.title]
<1>1. op.id \in Present(d) /\ op.id \in NodeId /\ n \in Node /\ d # Rejected
  BY Given DEF SetTitleOp, Accepts, AcceptsSetTitle
<1>2. c \in Doc /\ c = AppliedSetTitle(d, op)
  BY AppliedTyped DEF Op, SetTitleOp, Applied
<1>3. u = [kind |-> "set_title", id |-> op.id, title |-> n.title]
  BY DEF SetTitleOp, UndoOne
<1>4. n.title = NoTitle => op.title = NoTitle
  BY DEF Plain, SetTitleOp
<1>5. ASSUME NEW b, b = d \/ (b = Put(d, op.id, v) /\ n.title # NoTitle)
      PROVE  b.node[op.id] = n \/ (b.node[op.id] = v /\ n.title # NoTitle)
  BY <1>1, <1>5 DEF Put, Doc
<1>6. c = d \/ (c = Put(d, op.id, v) /\ n.title # NoTitle)
  BY <1>1, <1>2, <1>4 DEF Put, AppliedSetTitle, Doc
<1>7. v \in Node /\ [v EXCEPT !.title = n.title] = n /\ [n EXCEPT !.title = n.title] = n
  BY <1>1 DEF Node, SetTitleOp
<1> HIDE DEF c, u, v
<1>8. op.id \in Present(c)
  BY <1>1, <1>5, <1>6, <1>7, NoneIsApart DEF Present
<1>9. Accepts(c, u) /\ Applied(c, u) = AppliedSetTitle(c, u)
  BY <1>3, <1>8 DEF Accepts, AcceptsSetTitle, Applied
<1>10. n.title = NoTitle => Applied(c, u) = c
  BY <1>3, <1>9 DEF AppliedSetTitle
<1>11. n.title # NoTitle => Applied(c, u) = Put(c, op.id, n)
  <2>1. n.title # NoTitle => Applied(c, u) = [c EXCEPT !.node[op.id].title = n.title]
    BY <1>3, <1>9 DEF AppliedSetTitle
  <2> QED BY <1>2, <1>5, <1>6, <1>7, <2>1 DEF Put, Doc
<1>12. CASE c = d /\ n.title = NoTitle
  BY <1>1, <1>9, <1>10, <1>12 DEF ApplyOne, c, u
<1>13. CASE c = d /\ n.title # NoTitle
  <2>1. Put(d, op.id, n) = d
    BY <1>1 DEF Put, Doc
  <2> QED BY <1>1, <1>9, <1>11, <1>13, <2>1 DEF ApplyOne, c, u
<1>14. CASE c = Put(d, op.id, v) /\ n.title # NoTitle
  <2>1. ApplyOne(c, u) = d
    BY <1>1, <1>2, <1>9, <1>11, <1>14, EditRestored
  <2> QED BY <2>1 DEF c, u
<1> QED BY <1>6, <1>12, <1>13, <1>14

LEMMA StateRestores ==
  ASSUME NEW d \in Doc, NEW op \in SetStateOp, Accepts(d, op), Plain(d, op)
  PROVE  ApplyOne(Applied(d, op), UndoOne(d, op)) = d
<1> DEFINE c == Applied(d, op)
           u == UndoOne(d, op)
           n == d.node[op.id]
           v == [n EXCEPT !.state = op.state,
                          !.result = IF op.state = Idle THEN None
                                     ELSE Replaced(n.result, op.result),
                          !.error = IF op.state = Idle THEN None
                                    ELSE Replaced(n.error, op.error)]
           b == [v EXCEPT !.state = n.state,
                          !.result = IF n.state = Idle THEN None
                                     ELSE Replaced(v.result, n.result),
                          !.error = IF n.state = Idle THEN None
                                    ELSE Replaced(v.error, n.error)]
<1>1. op.id \in Present(d) /\ op.id \in NodeId /\ n \in Node
  BY Given DEF SetStateOp, Accepts, AcceptsSetState
<1>2. c \in Doc /\ c = Put(d, op.id, v)
  BY <1>1, AppliedTyped DEF Put, Op, SetStateOp, Applied, AppliedSetState, Node
<1>3. u = [kind |-> "set_state", id |-> op.id, state |-> n.state,
           result |-> n.result, error |-> n.error]
  BY DEF SetStateOp, UndoOne
<1>4. \/ n.state = Idle /\ n.result = None /\ n.error = None
      \/ /\ n.state # Idle
         /\ op.result # None => n.result # None
         /\ op.error # None => n.error # None
  BY DEF Plain, SetStateOp
<1>5. c.node[op.id] = v
  BY <1>1, <1>2 DEF Put, Doc
<1>6. /\ v \in Node
      /\ v.result = IF op.state = Idle THEN None ELSE Replaced(n.result, op.result)
      /\ v.error = IF op.state = Idle THEN None ELSE Replaced(n.error, op.error)
  BY <1>1 DEF Node, SetStateOp, Replaced
<1>7. b = n
  <2>1. (IF n.state = Idle THEN None ELSE Replaced(v.result, n.result)) = n.result
    BY <1>4, <1>6 DEF Replaced
  <2>2. (IF n.state = Idle THEN None ELSE Replaced(v.error, n.error)) = n.error
    BY <1>4, <1>6 DEF Replaced
  <2>3. b = [v EXCEPT !.state = n.state, !.result = n.result, !.error = n.error]
    BY <2>1, <2>2
  <2> QED BY <1>1, <2>3 DEF Node
<1> HIDE DEF c, u, v
<1>8. op.id \in Present(c)
  BY <1>1, <1>5, <1>6, NoneIsApart DEF Present
<1>9. Accepts(c, u)
  BY <1>3, <1>8 DEF Accepts, AcceptsSetState
<1>10. Applied(c, u) = Put(c, op.id, b)
  BY <1>3, <1>5, <1>6 DEF Put, Applied, AppliedSetState, Node
<1> HIDE DEF b
<1>11. ApplyOne(c, u) = d
  BY <1>1, <1>2, <1>7, <1>9, <1>10, EditRestored
<1> QED BY <1>11 DEF c, u

\* What the inverse of set_spec patches back: an old value over a new one that
\* has no key of its own.
LEMMA PatchedBack ==
  ASSUME NEW old \in SpecData, NEW new \in SpecData, NEW U, NEW W,
         DOMAIN new \subseteq DOMAIN old
  PROVE  Patched(Patched(old, new, U), old, W) = old
<1> DEFINE mid == Patched(old, new, U)
           b == Patched(mid, old, W)
<1>1. DOMAIN mid \subseteq DOMAIN old
  BY DEF Patched
<1> HIDE DEF mid
<1>2. DOMAIN b = DOMAIN old
  BY <1>1 DEF Patched
<1>3. b = [k \in DOMAIN old |-> old[k]]
  BY <1>2 DEF Patched
<1>4. old = [k \in DOMAIN old |-> old[k]]
  BY DEF SpecData
<1> QED BY <1>3, <1>4 DEF mid

LEMMA SpecRestores ==
  ASSUME NEW d \in Doc, NEW op \in SetSpecOp, Accepts(d, op), Plain(d, op)
  PROVE  ApplyOne(Applied(d, op), UndoOne(d, op)) = d
<1> DEFINE c == Applied(d, op)
           u == UndoOne(d, op)
           n == d.node[op.id]
<1>1. op.id \in Present(d) /\ op.id \in NodeId /\ n \in Node
  BY Given DEF SetSpecOp, Accepts, AcceptsSetSpec
<1>2. c \in Doc /\ c = AppliedSetSpec(d, op)
  BY AppliedTyped DEF Op, SetSpecOp, Applied
<1>3. u = UndoSetSpec(d, op)
  BY DEF SetSpecOp, UndoOne
<1>4. /\ n.meta \in SpecData /\ n.spec \in SpecData
      /\ op.meta \in SpecData /\ op.patch \in SpecData
  BY <1>1 DEF Node, SetSpecOp
<1>5. CASE HasMetaChange(op)
  <2> DEFINE m == Patched(n.meta, op.meta, op.metaUnset)
             v == [n EXCEPT !.meta = m]
             W == op.metaUnset \intersect DOMAIN n.meta
  <2>1. DOMAIN n.meta # {} /\ DOMAIN op.meta \subseteq DOMAIN n.meta
    BY <1>5 DEF Plain, SetSpecOp
  <2>2. Patched(m, n.meta, W) = n.meta
    BY <1>4, <2>1, PatchedBack
  <2>3. c = Put(d, op.id, v)
    BY <1>1, <1>2, <1>5 DEF Put, AppliedSetSpec, Doc
  <2>4. /\ u.kind = "set_spec" /\ u.id = op.id
        /\ u.meta = n.meta /\ u.metaUnset = W
    BY <1>3, <1>5 DEF UndoSetSpec
  <2>5. m \in SpecData
    BY <1>4, PatchedTyped DEF SetSpecOp
  <2> HIDE DEF m, W, c, u
  <2>6. v \in Node /\ v.meta = m /\ [v EXCEPT !.meta = n.meta] = n
    BY <1>1, <2>5 DEF Node
  <2>7. c.node[op.id] = v
    BY <1>1, <2>3 DEF Put, Doc
  <2> HIDE DEF v
  <2>8. op.id \in Present(c)
    BY <1>1, <2>6, <2>7, NoneIsApart DEF Present
  <2>9. HasMetaChange(u) /\ Accepts(c, u)
    BY <2>1, <2>4, <2>8 DEF HasMetaChange, Accepts, AcceptsSetSpec
  <2>10. Applied(c, u) = AppliedSetSpec(c, u)
    BY <2>4 DEF Applied
  <2>11. AppliedSetSpec(c, u) = Put(c, op.id, [c.node[op.id] EXCEPT !.meta = n.meta])
    BY <1>1, <1>2, <2>2, <2>4, <2>6, <2>7, <2>9 DEF Put, AppliedSetSpec, Doc
  <2>12. ApplyOne(c, u) = d
    BY <1>1, <1>2, <2>3, <2>6, <2>7, <2>9, <2>10, <2>11, EditRestored
  <2> QED BY <2>12 DEF c, u
<1>6. CASE ~HasMetaChange(op)
  <2> DEFINE m == Patched(n.spec, op.patch, op.unset)
             v == [n EXCEPT !.spec = m]
             W == Lost(n.spec, op.unset, op.patch)
  <2>1. DOMAIN n.spec # {} /\ DOMAIN op.patch \subseteq DOMAIN n.spec
    BY <1>6 DEF Plain, SetSpecOp
  <2>2. Patched(m, n.spec, W) = n.spec
    BY <1>4, <2>1, PatchedBack
  <2>3. c = Put(d, op.id, v)
    BY <1>1, <1>2, <1>6 DEF Put, AppliedSetSpec, Doc
  <2>4. /\ u.kind = "set_spec" /\ u.id = op.id
        /\ u.patch = n.spec /\ u.unset = W
        /\ u.meta = Nothing /\ u.metaUnset = {}
    BY <1>3, <1>6 DEF UndoSetSpec
  <2>5. m \in SpecData
    BY <1>4, PatchedTyped DEF SetSpecOp
  <2> HIDE DEF m, W, c, u
  <2>6. v \in Node /\ v.spec = m /\ [v EXCEPT !.spec = n.spec] = n
    BY <1>1, <2>5 DEF Node
  <2>7. c.node[op.id] = v
    BY <1>1, <2>3 DEF Put, Doc
  <2> HIDE DEF v
  <2>8. op.id \in Present(c)
    BY <1>1, <2>6, <2>7, NoneIsApart DEF Present
  <2>9. ~HasMetaChange(u) /\ Accepts(c, u)
    BY <2>1, <2>4, <2>8 DEF Nothing, HasMetaChange, Accepts, AcceptsSetSpec
  <2>10. Applied(c, u) = AppliedSetSpec(c, u)
    BY <2>4 DEF Applied
  <2>11. AppliedSetSpec(c, u) = Put(c, op.id, [c.node[op.id] EXCEPT !.spec = n.spec])
    BY <1>1, <1>2, <2>2, <2>4, <2>6, <2>7, <2>9 DEF Put, AppliedSetSpec, Doc
  <2>12. ApplyOne(c, u) = d
    BY <1>1, <1>2, <2>3, <2>6, <2>7, <2>9, <2>10, <2>11, EditRestored
  <2> QED BY <2>12 DEF c, u
<1> QED BY <1>5, <1>6

LEMMA CanvasValuesRestore ==
  ASSUME NEW d \in Doc, NEW op \in ViewportOp \union SettingsOp
  PROVE  ApplyOne(Applied(d, op), UndoOne(d, op)) = d
<1> DEFINE c == Applied(d, op)
           u == UndoOne(d, op)
<1>0. op \in Op /\ Accepts(d, op)
  BY DEF Op, ViewportOp, SettingsOp, Accepts
<1>1. c \in Doc /\ c # Rejected
  BY <1>0, AppliedTyped, NoneIsApart
<1>2. CASE op \in ViewportOp
  <2>1. c = [d EXCEPT !.viewport = op.value] /\ u = [op EXCEPT !.value = d.viewport]
    BY <1>2 DEF ViewportOp, Applied, AppliedViewport, UndoOne
  <2>2. u.kind = "set_viewport" /\ u.value = d.viewport
    BY <1>2, <2>1 DEF ViewportOp
  <2> HIDE DEF c, u
  <2>3. Accepts(c, u) /\ Applied(c, u) = [c EXCEPT !.viewport = d.viewport]
    BY <2>2 DEF Accepts, Applied, AppliedViewport
  <2>4. Applied(c, u) = d
    BY <1>1, <2>1, <2>3 DEF Doc
  <2>5. ApplyOne(c, u) = d
    BY <1>1, <2>3, <2>4 DEF ApplyOne
  <2> QED BY <2>5 DEF c, u
<1>3. CASE op \in SettingsOp
  <2>1. c = [d EXCEPT !.settings = op.value] /\ u = [op EXCEPT !.value = d.settings]
    BY <1>3 DEF SettingsOp, Applied, AppliedSettings, UndoOne
  <2>2. u.kind = "set_settings" /\ u.value = d.settings
    BY <1>3, <2>1 DEF SettingsOp
  <2> HIDE DEF c, u
  <2>3. Accepts(c, u) /\ Applied(c, u) = [c EXCEPT !.settings = d.settings]
    BY <2>2 DEF Accepts, Applied, AppliedSettings
  <2>4. Applied(c, u) = d
    BY <1>1, <2>1, <2>3 DEF Doc
  <2>5. ApplyOne(c, u) = d
    BY <1>1, <2>3, <2>4 DEF ApplyOne
  <2> QED BY <2>5 DEF c, u
<1> QED BY <1>2, <1>3

\* A node that was added is removed again: nothing hangs on it yet.
LEMMA AddNodeRestores ==
  ASSUME NEW d \in WellFormedDoc, NEW op \in AddNodeOp, Accepts(d, op)
  PROVE  ApplyOne(Applied(d, op), UndoOne(d, op)) = d
<1> DEFINE c == Applied(d, op)
           u == UndoOne(d, op)
           b == AppliedRemoveNode(c, u)
<1>0. d \in Doc /\ Attached(d) /\ Grouped(d)
  BY DEF WellFormedDoc, SoundDoc
<1>1. AcceptsAddNode(d, op) /\ c = AppliedAddNode(d, op)
  BY DEF AddNodeOp, Accepts, Applied
<1>2. c \in Doc /\ c # Rejected
  BY <1>0, AppliedTyped, NoneIsApart DEF Op
<1>3. u = [kind |-> "remove_node", id |-> op.id, cascade |-> TRUE]
  BY DEF AddNodeOp, UndoOne
<1>4. /\ op.id \in NodeId \ Present(d) /\ op.node \in Node
      /\ Present(c) = Present(d) \union {op.id}
      /\ \A n \in Present(d) : c.node[n] = d.node[n]
      /\ c.node[op.id] = op.node /\ c.edge = d.edge
  BY <1>0, AddNodeFrame
<1>5. c.viewport = d.viewport /\ c.settings = d.settings
  BY <1>1 DEF AppliedAddNode
<1>6. \A n \in NodeId : n # op.id => c.node[n] = d.node[n]
  BY <1>0, <1>1 DEF AppliedAddNode, Doc
<1> HIDE DEF c, u
<1>7. op.node.parent # op.id
  BY <1>1, <1>4, NoneIsApart DEF AcceptsAddNode, checkParent
<1>8. ChildrenOf(c, op.id) = {}
  <2>1. \A n \in Present(d) : d.node[n].parent # op.id
    BY <1>0, <1>4, NoneIsApart DEF Grouped
  <2> QED BY <1>4, <1>7, <2>1 DEF ChildrenOf
<1>9. Touching(c, op.id) = {}
  <2>1. Edges(c) = Edges(d)
    BY <1>4 DEF Edges
  <2>2. \A e \in Edges(d) : d.edge[e].from # op.id /\ d.edge[e].to # op.id
    BY <1>0, <1>4 DEF Attached
  <2> QED BY <1>4, <2>1, <2>2 DEF Touching
<1>10. Accepts(c, u) /\ Applied(c, u) = b
  BY <1>3, <1>4 DEF Accepts, AcceptsRemoveNode, Applied
<1>11. /\ \A n \in NodeId : b.node[n] = IF n = op.id THEN None ELSE c.node[n]
       /\ \A e \in EdgeId : b.edge[e] = c.edge[e]
       /\ b.viewport = c.viewport /\ b.settings = c.settings
  BY <1>2, <1>3, <1>8, <1>9 DEF AppliedRemoveNode, Orphaned, Doc
<1>12. b \in Doc
  <2>1. u \in RemoveNodeOp
    BY <1>3, <1>4 DEF RemoveNodeOp
  <2> QED BY <1>2, <2>1, RemoveNodeTyped
<1> HIDE DEF b
<1>13. \A n \in NodeId : b.node[n] = d.node[n]
  BY <1>4, <1>6, <1>11 DEF Present
<1>14. b = d
  BY <1>0, <1>4, <1>5, <1>11, <1>12, <1>13, SameDocument
<1>15. ApplyOne(c, u) = d
  BY <1>2, <1>10, <1>14 DEF ApplyOne
<1> QED BY <1>15 DEF c, u

\* An edge that replaced none is removed again.
LEMMA AddEdgeRestores ==
  ASSUME NEW d \in Doc, NEW op \in AddEdgeOp, Accepts(d, op), Plain(d, op)
  PROVE  ApplyOne(Applied(d, op), UndoOne(d, op)) = d
<1> DEFINE c == Applied(d, op)
           u == UndoOne(d, op)
           b == AppliedRemoveEdge(c, u)
<1>1. c = AppliedAddEdge(d, op) /\ ReplacedBy(d, op.edge) = {}
  BY DEF AddEdgeOp, Applied, Plain
<1>2. c \in Doc /\ c # Rejected
  BY AppliedTyped, NoneIsApart DEF Op
<1>3. u = [kind |-> "remove_edge", id |-> op.id]
  BY DEF AddEdgeOp, UndoOne
<1>4. op.id \in EdgeId \ Edges(d) /\ op.edge \in Edge /\ c.node = d.node /\ c.edge[op.id] = op.edge
  BY AddEdgeFrame
<1>5. /\ \A e \in EdgeId : e # op.id => c.edge[e] = d.edge[e]
      /\ c.viewport = d.viewport /\ c.settings = d.settings
  BY <1>1, <1>4 DEF AppliedAddEdge, WithoutReplaced, Doc
<1> HIDE DEF c, u
<1>6. Accepts(c, u) /\ Applied(c, u) = b
  BY <1>3, <1>4, NoneIsApart DEF Accepts, AcceptsRemoveEdge, Applied, Edges
<1>7. /\ b.node = c.node /\ b.viewport = c.viewport /\ b.settings = c.settings
      /\ \A e \in EdgeId : b.edge[e] = IF e = op.id THEN None ELSE c.edge[e]
      /\ b \in Doc
  BY <1>2, <1>3 DEF AppliedRemoveEdge, Doc
<1> HIDE DEF b
<1>8. \A e \in EdgeId : b.edge[e] = d.edge[e]
  BY <1>4, <1>5, <1>7 DEF Edges
<1>9. b = d
  BY <1>4, <1>5, <1>7, <1>8, SameDocument
<1>10. ApplyOne(c, u) = d
  BY <1>2, <1>6, <1>9 DEF ApplyOne
<1> QED BY <1>10 DEF c, u

-----------------------------------------------------------------------------
\* The chain above p gets no longer when the nodes on it keep their parents
\* or lose them.
LEMMA AncestryShrinks ==
  ASSUME NEW d \in Doc, NEW c \in Doc, NEW p \in NodeId,
         \A n \in Ancestry(d, p) \intersect Present(c) :
            n \in Present(d) /\ c.node[n].parent \in {d.node[n].parent, None}
  PROVE  /\ Ancestry(c, p) \subseteq Ancestry(d, p)
         /\ Cardinality(Ancestry(c, p)) <= Cardinality(Ancestry(d, p))
<1> DEFINE A == Ancestry(d, p)
<1>1. A \in SUBSET NodeId
  BY DEF Ancestry
<1>2. /\ p \in A
      /\ \A n \in A : n \in Present(d) /\ d.node[n].parent # None => d.node[n].parent \in A
  BY AncestryClosed
<1> HIDE DEF A
<1>3. ParentClosed(c, A)
  BY <1>2 DEF A, ParentClosed
<1>4. Ancestry(c, p) \subseteq A
  BY <1>1, <1>2, <1>3 DEF Ancestry
<1>5. IsFiniteSet(A)
  BY <1>1, FinitelyMany, FS_Subset
<1> QED BY <1>4, <1>5, FS_Subset DEF A

\* A parent that can be chosen in a document can be chosen in one in which
\* nodes have at most lost their parents, or the node itself has another.
LEMMA ParentStays ==
  ASSUME NEW d \in Doc, NEW c \in Doc, NEW n \in NodeId, NEW p \in NodeId \union {None},
         checkParent(d, n, p),
         Present(c) \subseteq Present(d),
         \A m \in Present(c) : m # n => /\ c.node[m].type = d.node[m].type
                                        /\ c.node[m].parent \in {d.node[m].parent, None},
         p # None => p \in Present(c)
  PROVE  checkParent(c, n, p)
<1>1. CASE p = None
  BY <1>1 DEF checkParent
<1>2. CASE p # None
  <2>1. p \in NodeId /\ n \notin Ancestry(d, p)
    BY <1>2 DEF checkParent
  <2>2. /\ Ancestry(c, p) \subseteq Ancestry(d, p)
        /\ Cardinality(Ancestry(c, p)) <= Cardinality(Ancestry(d, p))
    <3>1. \A m \in Ancestry(d, p) \intersect Present(c) :
             m \in Present(d) /\ c.node[m].parent \in {d.node[m].parent, None}
      BY <2>1
    <3> QED BY <2>1, <3>1, AncestryShrinks
  <2>3. /\ Cardinality(Ancestry(c, p)) \in Nat /\ Cardinality(Ancestry(d, p)) \in Nat
    <3>1. Ancestry(c, p) \in SUBSET NodeId /\ Ancestry(d, p) \in SUBSET NodeId
      BY DEF Ancestry
    <3> QED BY <3>1, FinitelyMany, FS_Subset, FS_CardinalityType
  <2>4. Cardinality(Ancestry(c, p)) <= MaxGroupDepth
    BY <1>2, <2>2, <2>3, LimitsTyped DEF checkParent
  <2>5. p # n /\ p \in Present(c) /\ c.node[p].type = Group
    BY <1>2 DEF checkParent
  <2> QED BY <2>1, <2>2, <2>4, <2>5 DEF checkParent
<1> QED BY <1>1, <1>2

LEMMA SetParentRestores ==
  ASSUME NEW d \in Doc, Grouped(d), NEW op \in SetParentOp, Accepts(d, op), Plain(d, op)
  PROVE  ApplyOne(Applied(d, op), UndoOne(d, op)) = d
<1> DEFINE c == Applied(d, op)
           u == UndoOne(d, op)
           n == d.node[op.id]
           v == [n EXCEPT !.parent = op.parent]
<1>1. op.id \in Present(d) /\ op.id \in NodeId /\ n \in Node
  BY Given DEF SetParentOp, Accepts, AcceptsSetParent
<1>2. c \in Doc /\ c = Put(d, op.id, v)
  BY <1>1, AppliedTyped DEF Op, SetParentOp, Applied, AppliedSetParent, Put, Doc
<1>3. u = [kind |-> "set_parent", id |-> op.id, parent |-> n.parent]
  BY DEF SetParentOp, UndoOne, Parenting
<1>4. checkParent(d, op.id, n.parent)
  BY DEF Plain, SetParentOp, ParentsShallow
<1>5. SameNodes(d, c)
  BY NestingFrame DEF KeepsChildren, SetParentOp
<1>6. \A m \in NodeId : c.node[m] = IF m = op.id THEN v ELSE d.node[m]
  BY <1>1, <1>2 DEF Put, Doc
<1>7. v \in Node /\ [v EXCEPT !.parent = n.parent] = n /\ n.parent \in NodeId \union {None}
  BY <1>1 DEF Node, SetParentOp
<1> HIDE DEF c, u, v
<1>8. n.parent # None => n.parent \in Present(c)
  BY <1>1, <1>5 DEF Grouped, SameNodes
<1>9. checkParent(c, op.id, n.parent)
  <2>1. \A m \in Present(c) : m # op.id => c.node[m] = d.node[m]
    BY <1>6 DEF Present
  <2>2. Present(c) = Present(d)
    BY <1>5 DEF SameNodes
  <2> QED BY <1>1, <1>2, <1>4, <1>7, <1>8, <2>1, <2>2, ParentStays
<1>10. Accepts(c, u)
  BY <1>1, <1>3, <1>5, <1>9 DEF Accepts, AcceptsSetParent, SameNodes
<1>11. Applied(c, u) = Put(c, op.id, n)
  <2>1. Applied(c, u) = [c EXCEPT !.node[op.id].parent = n.parent]
    BY <1>3 DEF Applied, AppliedSetParent
  <2>2. c.node[op.id] = v
    BY <1>1, <1>6
  <2> QED BY <1>2, <1>7, <2>1, <2>2 DEF Put, Doc
<1>12. ApplyOne(c, u) = d
  BY <1>1, <1>2, <1>10, <1>11, EditRestored
<1> QED BY <1>12 DEF c, u

-----------------------------------------------------------------------------
(***************************************************************************)
(* Lists.  Between the removal of a node and the end of the list that      *)
(* brings everything back, the document is the old one without the parents *)
(* of some nodes and without some edges.                                   *)
(***************************************************************************)
Partial(d, K, W) ==
  [d EXCEPT !.node = [n \in NodeId |-> IF n \in K THEN [d.node[n] EXCEPT !.parent = None]
                                                  ELSE d.node[n]],
            !.edge = [e \in EdgeId |-> IF e \in W THEN None ELSE d.edge[e]]]

LEMMA PartialDoc ==
  ASSUME NEW d \in Doc, NEW K \in SUBSET Present(d), NEW W \in SUBSET EdgeId
  PROVE  /\ Partial(d, K, W) \in Doc
         /\ Present(Partial(d, K, W)) = Present(d)
         /\ \A n \in Present(d) : /\ Partial(d, K, W).node[n].type = d.node[n].type
                                  /\ Partial(d, K, W).node[n].parent \in {d.node[n].parent, None}
<1> DEFINE c == Partial(d, K, W)
<1>1. \A n \in NodeId : c.node[n] = IF n \in K THEN [d.node[n] EXCEPT !.parent = None]
                                               ELSE d.node[n]
  BY DEF Partial, Doc
<1>3. \A n \in Present(d) : LET m == [d.node[n] EXCEPT !.parent = None] IN
         m \in Node /\ m # None /\ m.type = d.node[n].type /\ m.parent = None
  BY Given, NoneIsApart DEF Node
<1>4. c \in Doc
  BY <1>3 DEF Partial, Doc
<1> HIDE DEF c
<1>5. Present(c) = Present(d)
  BY <1>1, <1>3 DEF Present
<1>7. \A n \in Present(d) : c.node[n].type = d.node[n].type /\ c.node[n].parent \in {d.node[n].parent, None}
  BY <1>1, <1>3 DEF Present
<1> QED BY <1>4, <1>5, <1>7 DEF c

LEMMA PartialEdges ==
  ASSUME NEW d \in Doc, NEW K, NEW W
  PROVE  /\ Edges(Partial(d, K, W)) = Edges(d) \ W
         /\ \A e \in Edges(d) \ W : Partial(d, K, W).edge[e] = d.edge[e]
<1>1. \A e \in EdgeId : Partial(d, K, W).edge[e] = IF e \in W THEN None ELSE d.edge[e]
  BY DEF Partial, Doc
<1> QED BY <1>1 DEF Edges

LEMMA PartialNothing ==
  ASSUME NEW d \in Doc
  PROVE  Partial(d, {}, {}) = d
BY DEF Partial, Doc

\* A node is given its parent again.
LEMMA Reparented ==
  ASSUME NEW d \in Doc, Grouped(d), NEW K \in SUBSET Present(d), NEW W \in SUBSET EdgeId,
         NEW n \in Present(d), checkParent(d, n, d.node[n].parent)
  PROVE  ApplyOne(Partial(d, K, W), Parenting(n, d.node[n].parent)) = Partial(d, K \ {n}, W)
<1> DEFINE c == Partial(d, K, W)
           b == Partial(d, K \ {n}, W)
           u == Parenting(n, d.node[n].parent)
<1>1. n \in NodeId /\ d.node[n] \in Node /\ d.node[n].parent \in NodeId \union {None}
  BY Given DEF Node
<1>2. /\ c \in Doc /\ b \in Doc /\ c # Rejected
      /\ Present(c) = Present(d)
      /\ \A m \in Present(d) : /\ c.node[m].type = d.node[m].type
                               /\ c.node[m].parent \in {d.node[m].parent, None}
  <2>1. b \in Doc
    <3>1. K \ {n} \in SUBSET Present(d)
      OBVIOUS
    <3> QED BY <3>1, PartialDoc
  <2>2. /\ c \in Doc /\ Present(c) = Present(d)
        /\ \A m \in Present(d) : /\ c.node[m].type = d.node[m].type
                                 /\ c.node[m].parent \in {d.node[m].parent, None}
    BY PartialDoc
  <2> HIDE DEF b, c
  <2> QED BY <2>1, <2>2, NoneIsApart
<1>3. /\ \A m \in NodeId : m # n => c.node[m] = b.node[m]
      /\ b.node[n] = d.node[n]
      /\ c.node[n] \in {d.node[n], [d.node[n] EXCEPT !.parent = None]}
      /\ c.edge = b.edge /\ c.viewport = b.viewport /\ c.settings = b.settings
  BY <1>1 DEF Partial, Doc
<1> HIDE DEF c, b
<1>4. checkParent(c, n, d.node[n].parent)
  <2>1. d.node[n].parent # None => d.node[n].parent \in Present(c)
    BY <1>2 DEF Grouped
  <2> QED BY <1>1, <1>2, <2>1, ParentStays
<1>5. Accepts(c, u) /\ Applied(c, u) = [c EXCEPT !.node[n].parent = d.node[n].parent]
  BY <1>2, <1>4 DEF Parenting, Accepts, AcceptsSetParent, Applied, AppliedSetParent
<1>6. [c.node[n] EXCEPT !.parent = d.node[n].parent] = d.node[n]
  BY <1>1, <1>3 DEF Node
<1>7. Applied(c, u) = b
  <2> DEFINE a == [c EXCEPT !.node[n].parent = d.node[n].parent]
  <2>1. \A m \in NodeId : a.node[m] = IF m = n THEN d.node[n] ELSE c.node[m]
    BY <1>1, <1>2, <1>6 DEF Doc
  <2>2. a \in Doc /\ a.edge = c.edge /\ a.viewport = c.viewport /\ a.settings = c.settings
    BY <1>1, <1>2, <1>6 DEF Doc
  <2> HIDE DEF a
  <2>3. a = b
    BY <1>2, <1>3, <2>1, <2>2, SameDocument
  <2> QED BY <1>5, <2>3 DEF a
<1>8. ApplyOne(c, u) = b
  BY <1>2, <1>5, <1>7 DEF ApplyOne
<1> QED BY <1>8 DEF c, b

\* No walk from the source of an edge against the edges and up the groups
\* reaches its target: what the edges lead to from the target is closed, holds
\* no group, and without a cycle does not hold the source.
LEMMA NoWayBack ==
  ASSUME NEW d \in Doc, Attached(d), Grouped(d), NoCycle(d), NEW e \in Edges(d),
         NEW c \in Doc, Present(c) \subseteq Present(d), Edges(c) \subseteq Edges(d),
         \A f \in Edges(c) : c.edge[f] = d.edge[f],
         \A n \in Present(c) : c.node[n].parent \in {d.node[n].parent, None}
  PROVE  ~wouldCycle(c, d.edge[e].from, d.edge[e].to)
<1> DEFINE from == d.edge[e].from
           to == d.edge[e].to
           Forward(S) == to \in S /\ \A f \in Edges(d) : d.edge[f].from \in S => d.edge[f].to \in S
           D == {m \in NodeId : \A S \in SUBSET NodeId : Forward(S) => m \in S}
           Groups == {n \in Present(d) : d.node[n].type = Group}
<1>1. from \in NodeId /\ to \in NodeId
  BY EdgeOfDoc DEF Edge
<1>2. \A f \in Edges(d) : /\ d.edge[f].from \in NodeId /\ d.edge[f].to \in NodeId
                          /\ d.edge[f].to \notin Groups
  BY EdgeOfDoc DEF Edge, Attached, PortsMatch
<1> HIDE DEF from, to, Groups
<1>3. D \in SUBSET NodeId /\ Forward(D)
  <2>1. to \in D
    BY <1>1
  <2>2. ASSUME NEW f \in Edges(d), d.edge[f].from \in D PROVE d.edge[f].to \in D
    <3>1. d.edge[f].to \in NodeId
      BY <1>2
    <3>2. ASSUME NEW S \in SUBSET NodeId, Forward(S) PROVE d.edge[f].to \in S
      BY <2>2, <3>2
    <3> QED BY <3>1, <3>2
  <2> QED BY <2>1, <2>2
<1>4. ASSUME NEW S \in SUBSET D, Forward(S) PROVE S = D
  <2>1. S \in SUBSET NodeId
    OBVIOUS
  <2> QED BY <1>4, <2>1
<1>5. D \intersect Groups = {}
  <2>1. Forward(D \ Groups)
    BY <1>2, <1>3 DEF to
  <2>2. (D \ Groups) \in SUBSET D
    OBVIOUS
  <2> HIDE DEF D, Forward
  <2>3. D \ Groups = D
    BY <1>4, <2>1, <2>2
  <2> QED BY <2>3
<1>6. from \notin D
  <2> SUFFICES ASSUME from \in D PROVE FALSE
    OBVIOUS
  <2>1. D \in (SUBSET NodeId) \ {{}}
    BY <1>3
  <2> HIDE DEF D
  <2>2. PICK n \in D : \A f \in Edges(d) : d.edge[f].to = n => d.edge[f].from \notin D
    BY <2>1 DEF NoCycle
  <2>3. n # to
    BY <2>2 DEF from, to
  <2>4. Forward(D \ {n})
    BY <1>3, <2>2, <2>3
  <2>5. (D \ {n}) \in SUBSET D
    OBVIOUS
  <2> HIDE DEF Forward
  <2>6. D \ {n} = D
    BY <1>4, <2>4, <2>5
  <2> QED BY <2>6
<1> DEFINE S == NodeId \ D
<1>7. S \in SUBSET NodeId /\ from \in S /\ to \notin S
  BY <1>1, <1>3, <1>6
<1>8. EdgeClosed(c, S)
  <2>1. \A f \in Edges(c) : c.edge[f].to \in S => c.edge[f].from \in S
    <3> HIDE DEF D
    <3> QED BY <1>2, <1>3
  <2> QED BY <2>1 DEF EdgeClosed
<1>9. ParentClosed(c, S)
  <2>1. ASSUME NEW n \in S \intersect Present(c), c.node[n].parent # None
        PROVE  c.node[n].parent \in S
    <3>1. n \in Present(d) /\ d.node[n].parent # None /\ c.node[n].parent = d.node[n].parent
      BY <2>1
    <3>2. d.node[n].parent \in Groups /\ d.node[n].parent \in NodeId
      BY <3>1 DEF Grouped, Groups, Present
    <3> HIDE DEF D
    <3> QED BY <1>5, <3>1, <3>2
  <2> QED BY <2>1 DEF ParentClosed
<1> HIDE DEF S, D
<1>10. to \notin Upstream(c, from)
  BY <1>7, <1>8, <1>9 DEF Upstream
<1> QED BY <1>10 DEF wouldCycle, from, to

\* An edge is drawn again.
LEMMA Rewired ==
  ASSUME NEW d \in WellFormedDoc, NEW K \in SUBSET Present(d), NEW W \in SUBSET Edges(d),
         NEW e \in W
  PROVE  ApplyOne(Partial(d, K, W), Linking(e, d.edge[e])) = Partial(d, K, W \ {e})
<1> DEFINE c == Partial(d, K, W)
           b == Partial(d, K, W \ {e})
           edge == d.edge[e]
           u == Linking(e, edge)
<1>0. /\ d \in Doc /\ WithinLimits(d) /\ NoCycle(d) /\ Attached(d) /\ SingleFed(d) /\ Grouped(d)
      /\ W \in SUBSET EdgeId /\ e \in Edges(d) /\ e \in EdgeId
  BY DEF WellFormedDoc, SoundDoc, Edges
<1>1. /\ c \in Doc /\ Present(c) = Present(d)
      /\ \A n \in Present(d) : /\ c.node[n].type = d.node[n].type
                               /\ c.node[n].parent \in {d.node[n].parent, None}
      /\ Edges(c) = Edges(d) \ W
      /\ \A f \in Edges(d) \ W : c.edge[f] = d.edge[f]
  <2>0. d \in Doc /\ W \in SUBSET EdgeId
    BY <1>0
  <2>1. /\ c \in Doc /\ Present(c) = Present(d)
        /\ \A n \in Present(d) : /\ c.node[n].type = d.node[n].type
                                 /\ c.node[n].parent \in {d.node[n].parent, None}
    BY <2>0, PartialDoc
  <2>2. /\ Edges(c) = Edges(d) \ W
        /\ \A f \in Edges(d) \ W : c.edge[f] = d.edge[f]
    BY <2>0, PartialEdges
  <2> HIDE DEF c
  <2> QED BY <2>1, <2>2
<1>2. b \in Doc
  <2>1. W \ {e} \in SUBSET EdgeId
    BY <1>0
  <2> QED BY <1>0, <2>1, PartialDoc
<1>3. /\ b.node = c.node /\ b.viewport = c.viewport /\ b.settings = c.settings
      /\ \A f \in EdgeId : b.edge[f] = IF f = e THEN edge ELSE c.edge[f]
  BY <1>0 DEF Partial, Doc
<1> HIDE DEF c, b
<1>4. /\ edge.from \in Present(d) /\ edge.to \in Present(d) /\ edge.from # edge.to
      /\ PortsMatch(d, edge)
  BY <1>0 DEF Attached
<1>5. PortsMatch(c, edge)
  BY <1>1, <1>4 DEF PortsMatch
<1>6. EdgeRoom(c)
  <2>1. Cardinality(Edges(d) \ {e}) = Cardinality(Edges(d)) - 1 /\ IsFiniteSet(Edges(d) \ {e})
    BY <1>0, FiniteDoc, FS_RemoveElement
  <2>2. Edges(c) \in SUBSET (Edges(d) \ {e})
    BY <1>1
  <2>3. Cardinality(Edges(c)) <= Cardinality(Edges(d) \ {e})
    BY <2>1, <2>2, FS_Subset
  <2> QED BY <1>0, <2>1, <2>3, FiniteDoc, LimitsTyped DEF WithinLimits, EdgeRoom
<1>7. ReplacedBy(c, edge) = {}
  <2>1. ASSUME NEW f \in Edges(c), <<c.node[edge.to].type, edge.toPort>> \in Single,
               c.edge[f].to = edge.to, c.edge[f].toPort = edge.toPort
        PROVE  FALSE
    <3>1. f \in Edges(d) /\ f # e /\ c.edge[f] = d.edge[f] /\ c.node[edge.to].type = d.node[edge.to].type
      BY <1>1, <1>4
    <3> QED BY <1>0, <2>1, <3>1 DEF SingleFed
  <2> QED BY <2>1 DEF ReplacedBy
<1>8. WithoutReplaced(c, edge) = c
  BY <1>1, <1>7 DEF WithoutReplaced, Doc
<1>9. ~wouldCycle(c, edge.from, edge.to)
  BY <1>0, <1>1, NoWayBack
<1> HIDE DEF edge
<1>10. Accepts(c, u)
  BY <1>0, <1>1, <1>4, <1>5, <1>6, <1>8, <1>9 DEF Linking, Accepts, AcceptsAddEdge
<1>11. Applied(c, u) = [c EXCEPT !.edge[e] = edge]
  BY <1>8 DEF Linking, Applied, AppliedAddEdge
<1>12. Applied(c, u) = b
  <2> DEFINE a == [c EXCEPT !.edge[e] = edge]
  <2>1. \A f \in EdgeId : a.edge[f] = IF f = e THEN edge ELSE c.edge[f]
    BY <1>0, <1>1 DEF Doc
  <2>2. a \in Doc /\ a.node = c.node /\ a.viewport = c.viewport /\ a.settings = c.settings
    BY <1>0, <1>1 DEF Doc, edge
  <2> HIDE DEF a
  <2>3. a = b
    BY <1>2, <1>3, <2>1, <2>2, SameDocument
  <2> QED BY <1>11, <2>3 DEF a
<1>13. ApplyOne(c, u) = b
  BY <1>1, <1>10, <1>12, NoneIsApart DEF ApplyOne
<1> QED BY <1>13 DEF c, b, edge

LEMMA RemoveEdgeRestores ==
  ASSUME NEW d \in WellFormedDoc, NEW op \in RemoveEdgeOp, Accepts(d, op)
  PROVE  ApplyOne(Applied(d, op), UndoOne(d, op)) = d
<1> DEFINE c == Applied(d, op)
<1>0. d \in Doc /\ op.id \in Edges(d)
  BY DEF WellFormedDoc, SoundDoc, RemoveEdgeOp, Accepts, AcceptsRemoveEdge
<1>1. c = Partial(d, {}, {op.id})
  <2>1. c \in Doc
    BY <1>0, AppliedTyped DEF Op
  <2>2. c = AppliedRemoveEdge(d, op)
    BY DEF RemoveEdgeOp, Applied
  <2>3. /\ \A n \in NodeId : c.node[n] = Partial(d, {}, {op.id}).node[n]
        /\ \A e \in EdgeId : c.edge[e] = Partial(d, {}, {op.id}).edge[e]
        /\ c.viewport = Partial(d, {}, {op.id}).viewport
        /\ c.settings = Partial(d, {}, {op.id}).settings
    BY <1>0, <2>2 DEF AppliedRemoveEdge, Partial, Doc
  <2>4. Partial(d, {}, {op.id}) \in Doc
    BY <1>0, PartialDoc DEF Edges
  <2> QED BY <2>1, <2>3, <2>4, SameDocument
<1>2. UndoOne(d, op) = Linking(op.id, d.edge[op.id])
  BY DEF RemoveEdgeOp, UndoOne
<1> HIDE DEF c
<1>3. ApplyOne(c, UndoOne(d, op)) = Partial(d, {}, {op.id} \ {op.id})
  <2>1. {op.id} \in SUBSET Edges(d) /\ op.id \in {op.id} /\ {} \in SUBSET Present(d)
    BY <1>0
  <2> QED BY <1>1, <1>2, <2>1, Rewired
<1>4. {op.id} \ {op.id} = {}
  OBVIOUS
<1> QED BY <1>0, <1>3, <1>4, PartialNothing DEF c

-----------------------------------------------------------------------------
\* A list of ops takes a document through the documents that are told.
Leads(ops, n, want) == \A i \in 1..n : ApplyOne(want[i - 1], ops[i]) = want[i]

LEMMA ListLeads ==
  ASSUME NEW ops, NEW n \in Nat, Len(ops) = n, NEW want, Leads(ops, n, want)
  PROVE  Apply(want[0], ops) = want[n]
<1> DEFINE d == want[0]
<1> DEFINE after == CHOOSE f : Folds(f, d, ops, n)
<1>1. Apply(d, ops) = after[n]
  BY DEF Apply, Folds
<1>2. Folds(after, d, ops, n)
  <2>1. \E f : Folds(f, d, ops, n)
    BY FoldExists
  <2> QED BY <2>1, Zenon
<1> HIDE DEF after
<1>3. \A i \in 0..n : after[i] = IF i = 0 THEN d ELSE ApplyOne(after[i - 1], ops[i])
  BY <1>2 DEF Folds
<1> DEFINE T == {i \in 0..n : after[i] # want[i]}
<1>4. SUFFICES ASSUME T # {} PROVE FALSE
  BY <1>1
<1>5. PICK k \in T : \A j \in T : k <= j
  <2>1. T \in SUBSET Nat
    OBVIOUS
  <2> HIDE DEF T
  <2> QED BY <1>4, <2>1, Smallest
<1>6. k \in 1..n
  BY <1>3, <1>5
<1>7. after[k - 1] = want[k - 1] /\ after[k] = ApplyOne(after[k - 1], ops[k])
  BY <1>3, <1>5, <1>6
<1>8. ApplyOne(want[k - 1], ops[k]) = want[k]
  BY <1>6 DEF Leads
<1> QED BY <1>5, <1>7, <1>8

\* The sequence of a finite set names each of its members once.
LEMMA Listed ==
  ASSUME NEW S, IsFiniteSet(S)
  PROVE  /\ SetToSeq(S) \in Seq(S) /\ Len(SetToSeq(S)) \in Nat
         /\ \A x \in S : \E i \in 1..Len(SetToSeq(S)) : SetToSeq(S)[i] = x
         /\ \A i, j \in 1..Len(SetToSeq(S)) : SetToSeq(S)[i] = SetToSeq(S)[j] => i = j
<1> DEFINE k == Cardinality(S)
           s == SetToSeq(S)
<1>1. k \in Nat /\ ExistsBijection(1..k, S)
  BY FS_CardinalityType
<1>2. \E f \in [1..k -> S] : IsInjective(f)
  BY <1>1 DEF ExistsBijection, Bijection, Injection
<1>3. s \in [1..k -> S] /\ IsInjective(s)
  BY <1>2, Zenon DEF SetToSeq
<1> HIDE DEF s
<1>4. s \in Injection(1..k, S)
  BY <1>3 DEF Injection
<1>5. Cardinality(1..k) = k
  <2>1. Cardinality(1..k) = IF 1 > k THEN 0 ELSE k - 1 + 1
    BY <1>1, FS_Interval
  <2> QED BY <1>1, <2>1
<1>6. s \in Surjection(1..k, S)
  BY <1>4, <1>5, FS_Injection
<1> HIDE DEF k
<1>7. s \in Seq(S) /\ Len(s) = k /\ DOMAIN s = 1..k
  BY <1>1, <1>3
<1>8. \A x \in S : \E i \in 1..k : s[i] = x
  BY <1>6 DEF Surjection
<1>9. \A i, j \in 1..k : s[i] = s[j] => i = j
  BY <1>3, <1>7 DEF IsInjective
<1> QED BY <1>1, <1>7, <1>8, <1>9 DEF s

\* The children of a group get their group back, one after the other.
LEMMA UngroupRestores ==
  ASSUME NEW d \in Doc, Grouped(d), NEW op \in UngroupOp, Accepts(d, op), Complete(d, op)
  PROVE  Apply(Applied(d, op), UndoList(d, op)) = d
<1> DEFINE S == ChildrenOf(d, op.group)
           kids == SetToSeq(S)
           n == Len(kids)
           c == Applied(d, op)
           Later(i) == {kids[j] : j \in {j \in 1..n : j > i}}
           want == [i \in 0..n |-> Partial(d, Later(i), {})]
<1>1. op.keep /\ ParentsShallow(d, S) /\ op.group \in Present(d)
  BY DEF UngroupOp, Complete, Accepts, AcceptsUngroup
<1>2. UndoList(d, op) = [i \in DOMAIN kids |-> Parenting(kids[i], op.group)]
  BY DEF UngroupOp, UndoList, Reparenting
<1>3. c = Partial(d, S, {})
  <2>1. c = AppliedUngroup(d, op)
    BY DEF UngroupOp, Applied
  <2>2. c.node = [m \in NodeId |-> Orphaned(d, op.group, m)] /\ c.edge = d.edge
        /\ c.viewport = d.viewport /\ c.settings = d.settings
    BY <1>1, <2>1 DEF AppliedUngroup, Doc
  <2>3. /\ \A m \in NodeId : c.node[m] = Partial(d, S, {}).node[m]
        /\ \A e \in EdgeId : c.edge[e] = Partial(d, S, {}).edge[e]
        /\ c.viewport = Partial(d, S, {}).viewport
        /\ c.settings = Partial(d, S, {}).settings
    BY <2>2 DEF Orphaned, Partial, Doc
  <2>4. c \in Doc
    BY AppliedTyped DEF Op
  <2>5. S \in SUBSET Present(d) /\ {} \in SUBSET EdgeId
    BY DEF ChildrenOf
  <2>6. Partial(d, S, {}) \in Doc
    BY <2>5, PartialDoc
  <2> HIDE DEF c
  <2> QED BY <2>3, <2>4, <2>6, SameDocument
<1>4. IsFiniteSet(S)
  <2>1. S \in SUBSET Present(d)
    BY DEF ChildrenOf
  <2> QED BY <2>1, FiniteDoc, FS_Subset
<1>5. \A m \in S : m \in Present(d) /\ d.node[m].parent = op.group
  BY DEF ChildrenOf
<1> HIDE DEF S
<1>6. /\ kids \in Seq(S) /\ n \in Nat
      /\ \A m \in S : \E i \in 1..n : kids[i] = m
      /\ \A i, j \in 1..n : kids[i] = kids[j] => i = j
  BY <1>4, Listed
<1> HIDE DEF kids, c
<1>7. Later(0) = S /\ Later(n) = {}
  BY <1>6
<1>8. ASSUME NEW i \in 1..n PROVE Later(i) = Later(i - 1) \ {kids[i]}
  <2>1. \A j \in 1..n : j > i <=> j > i - 1 /\ j # i
    BY <1>6
  <2>2. \A j \in 1..n : j # i => kids[j] # kids[i]
    BY <1>6
  <2> HIDE DEF n
  <2> QED BY <2>1, <2>2
<1>9. \A i \in 0..n : Later(i) \in SUBSET Present(d)
  BY <1>5, <1>6
<1> HIDE DEF Later
<1>10. ASSUME NEW i \in 1..n
       PROVE  ApplyOne(want[i - 1], UndoList(d, op)[i]) = want[i]
  <2>1. i - 1 \in 0..n /\ i \in 0..n /\ i \in DOMAIN kids /\ kids[i] \in S
    BY <1>6
  <2>2. UndoList(d, op)[i] = Parenting(kids[i], d.node[kids[i]].parent)
    BY <1>2, <1>5, <2>1
  <2>3. kids[i] \in Present(d) /\ checkParent(d, kids[i], d.node[kids[i]].parent)
    BY <1>1, <1>5, <2>1 DEF ParentsShallow
  <2>4. Later(i - 1) \in SUBSET Present(d) /\ {} \in SUBSET EdgeId
    BY <1>9, <2>1
  <2>5. ApplyOne(Partial(d, Later(i - 1), {}), UndoList(d, op)[i])
          = Partial(d, Later(i - 1) \ {kids[i]}, {})
    BY <2>2, <2>3, <2>4, Reparented
  <2> QED BY <1>8, <2>1, <2>5
<1>11. Len(UndoList(d, op)) = n
  BY <1>2, <1>6
<1>12. want[0] = c
  BY <1>3, <1>6, <1>7
<1>13. want[n] = d
  <2>1. want[n] = Partial(d, Later(n), {})
    BY <1>6
  <2> QED BY <1>7, <2>1, PartialNothing
<1> HIDE DEF want, n
<1>14. Leads(UndoList(d, op), n, want)
  BY <1>10 DEF Leads
<1>15. Apply(c, UndoList(d, op)) = want[n]
  <2>1. n \in Nat
    BY <1>6
  <2> QED BY <2>1, <1>11, <1>12, <1>14, ListLeads
<1> QED BY <1>13, <1>15 DEF c

\* A removed node is added again, with its parent and without its children
\* and edges.
LEMMA Readded ==
  ASSUME NEW d \in WellFormedDoc, InRange(d), NEW op \in RemoveNodeOp, Accepts(d, op),
         Complete(d, op)
  PROVE  ApplyOne(Applied(d, op), Adding(op.id, d.node[op.id]))
           = Partial(d, ChildrenOf(d, op.id), Touching(d, op.id))
<1> DEFINE c == Applied(d, op)
           n == op.id
           S == ChildrenOf(d, n)
           T == Touching(d, n)
           b == Partial(d, S, T)
           node == d.node[n]
           u == Adding(n, node)
<1>0. d \in Doc /\ WithinLimits(d) /\ Grouped(d)
  BY DEF WellFormedDoc, SoundDoc
<1>1. Required[node.type] \subseteq DOMAIN node.spec /\ checkParent(d, n, node.parent)
  BY DEF RemoveNodeOp, Complete, ParentsShallow
<1>2. /\ n \in Present(d) /\ Present(c) = Present(d) \ {n}
      /\ \A m \in Present(c) : c.node[m] = Orphaned(d, n, m) /\ c.node[m].type = d.node[m].type
  BY <1>0, RemoveNodeFrame
<1>3. c \in Doc /\ c # Rejected
  BY <1>0, AppliedTyped, NoneIsApart DEF Op
<1>4. n \in NodeId /\ node \in Node /\ node.parent \in NodeId \union {None}
  BY <1>0, <1>2, Given DEF Node
<1>5. node.parent # n
  BY <1>1, <1>4, NoneIsApart DEF checkParent
<1>6. /\ \A m \in NodeId : c.node[m] = IF m = n THEN None ELSE Orphaned(d, n, m)
      /\ \A e \in EdgeId : c.edge[e] = IF e \in T THEN None ELSE d.edge[e]
      /\ c.viewport = d.viewport /\ c.settings = d.settings
  BY <1>0 DEF RemoveNodeOp, Applied, AppliedRemoveNode, Doc
<1>7. b \in Doc
  <2>1. S \in SUBSET Present(d) /\ T \in SUBSET EdgeId
    BY DEF ChildrenOf, Touching, Edges
  <2> QED BY <1>0, <2>1, PartialDoc
<1>8. /\ \A m \in NodeId : b.node[m] = IF m = n THEN node ELSE Orphaned(d, n, m)
      /\ \A e \in EdgeId : b.edge[e] = IF e \in T THEN None ELSE d.edge[e]
      /\ b.viewport = d.viewport /\ b.settings = d.settings
  <2>1. n \notin S
    BY <1>5 DEF ChildrenOf
  <2> QED BY <1>0, <2>1 DEF Partial, Orphaned, Doc
<1> HIDE DEF c, b, node
<1>9. checkParent(c, n, node.parent)
  <2>1. \A m \in Present(c) : c.node[m].parent \in {d.node[m].parent, None}
    <3>1. \A m \in Present(c) : m \in Present(d) /\ c.node[m] = Orphaned(d, n, m)
      BY <1>2
    <3>2. \A m \in Present(d) : Orphaned(d, n, m).parent \in {d.node[m].parent, None}
      BY <1>0, Given DEF Orphaned, Node
    <3> QED BY <3>1, <3>2
  <2>2. node.parent # None => node.parent \in Present(c)
    BY <1>0, <1>2, <1>5 DEF Grouped, node
  <2>3. Present(c) \subseteq Present(d)
    BY <1>2
  <2> QED BY <1>0, <1>1, <1>2, <1>3, <1>4, <2>1, <2>2, <2>3, ParentStays
<1>10. NodeRoom(c)
  <2>1. Cardinality(Present(d) \ {n}) = Cardinality(Present(d)) - 1
    BY <1>2, FiniteDoc, FS_RemoveElement
  <2> QED BY <1>0, <1>2, <2>1, FiniteDoc, LimitsTyped DEF WithinLimits, NodeRoom
<1>11. ValidRect(node.x, node.w)
  BY <1>2 DEF InRange, node
<1>12. Accepts(c, u) /\ Applied(c, u) = Put(c, n, node)
  <2>1. u.kind = "add_node" /\ u.id = n /\ u.node = node
    BY DEF Adding
  <2> HIDE DEF u
  <2> QED BY <1>1, <1>2, <1>9, <1>10, <1>11, <2>1
          DEF Accepts, AcceptsAddNode, Applied, AppliedAddNode, Put
<1>13. Put(c, n, node) = b
  <2>1. /\ \A m \in NodeId : Put(c, n, node).node[m] = IF m = n THEN node ELSE c.node[m]
        /\ Put(c, n, node).edge = c.edge
        /\ Put(c, n, node).viewport = c.viewport /\ Put(c, n, node).settings = c.settings
    BY <1>3 DEF Put, Doc
  <2>2. Put(c, n, node) \in Doc
    BY <1>3, <1>4 DEF Put, Doc
  <2> QED BY <1>6, <1>7, <1>8, <2>1, <2>2, SameDocument
<1>14. ApplyOne(c, u) = b
  BY <1>3, <1>12, <1>13 DEF ApplyOne
<1> QED BY <1>14 DEF c, b, node

\* A node, its children and its edges come back with the list that
\* applyRemoveNode returns.
LEMMA RemoveNodeRestores ==
  ASSUME NEW d \in WellFormedDoc, InRange(d), NEW op \in RemoveNodeOp, Accepts(d, op),
         Complete(d, op)
  PROVE  Apply(Applied(d, op), UndoList(d, op)) = d
<1> DEFINE S == ChildrenOf(d, op.id)
           T == Touching(d, op.id)
           kids == SetToSeq(S)
           wires == SetToSeq(T)
           k == Len(kids)
           m == Len(wires)
           ops == UndoList(d, op)
           c == Applied(d, op)
           K(i) == {kids[j] : j \in {j \in 1..k : j >= i}}
           W(i) == {wires[j] : j \in {j \in 1..m : j + k >= i}}
           want == [i \in 0..1 + k + m |-> IF i = 0 THEN c ELSE Partial(d, K(i), W(i))]
<1>0. d \in Doc /\ Grouped(d)
  BY DEF WellFormedDoc, SoundDoc
<1>1. ParentsShallow(d, S)
  BY DEF RemoveNodeOp, Complete, ParentsShallow
<1>2. ops = <<Adding(op.id, d.node[op.id])>> \o Reparenting(d, op.id) \o Rewiring(d, op.id)
  BY DEF RemoveNodeOp, UndoList
<1>3. /\ Reparenting(d, op.id) = [i \in DOMAIN kids |-> Parenting(kids[i], op.id)]
      /\ Rewiring(d, op.id) = [i \in DOMAIN wires |-> Linking(wires[i], d.edge[wires[i]])]
  BY DEF Reparenting, Rewiring
<1>4. /\ \A x \in S : x \in Present(d) /\ d.node[x].parent = op.id
      /\ T \in SUBSET Edges(d) /\ S \in SUBSET Present(d)
  BY DEF ChildrenOf, Touching
<1>5. ApplyOne(c, Adding(op.id, d.node[op.id])) = Partial(d, S, T)
  BY Readded
<1>6. IsFiniteSet(S) /\ IsFiniteSet(T)
  <2> HIDE DEF S, T
  <2> QED BY <1>4, FiniteDoc, FS_Subset
<1> HIDE DEF S, T, ops, c
<1>7. /\ kids \in Seq(S) /\ k \in Nat /\ DOMAIN kids = 1..k
      /\ \A x \in S : \E i \in 1..k : kids[i] = x
      /\ \A i, j \in 1..k : kids[i] = kids[j] => i = j
  BY <1>6, Listed
<1>8. /\ wires \in Seq(T) /\ m \in Nat /\ DOMAIN wires = 1..m
      /\ \A x \in T : \E i \in 1..m : wires[i] = x
      /\ \A i, j \in 1..m : wires[i] = wires[j] => i = j
  BY <1>6, Listed
<1> HIDE DEF kids, wires
<1>9. /\ Len(ops) = 1 + k + m
      /\ ops[1] = Adding(op.id, d.node[op.id])
      /\ \A i \in 1..k : ops[1 + i] = Parenting(kids[i], op.id)
      /\ \A i \in 1..m : ops[1 + k + i] = Linking(wires[i], d.edge[wires[i]])
  <2> DEFINE A == Adding(op.id, d.node[op.id])
             P(i) == Parenting(kids[i], op.id)
             L(i) == Linking(wires[i], d.edge[wires[i]])
             R == [i \in 1..k |-> P(i)]
             Q == [i \in 1..m |-> L(i)]
  <2>1. ops = <<A>> \o R \o Q
    BY <1>2, <1>3, <1>7, <1>8
  <2> HIDE DEF A, P, L, k, m
  <2> DEFINE V == {A} \union {P(i) : i \in 1..k} \union {L(i) : i \in 1..m}
  <2>2. R \in [1..k -> V] /\ Q \in [1..m -> V] /\ A \in V
    OBVIOUS
  <2>5. \A i \in 1..k : R[i] = P(i)
    OBVIOUS
  <2>6. \A i \in 1..m : Q[i] = L(i)
    OBVIOUS
  <2> HIDE DEF V, R, Q
  <2>3. R \in Seq(V) /\ Len(R) = k
    BY <1>7, <2>2
  <2>4. Q \in Seq(V) /\ Len(Q) = m
    BY <1>8, <2>2
  <2>13. <<A>> \in Seq(V)
    BY <2>2
  <2>7. Len(<<A>> \o R) = 1 + k /\ <<A>> \o R \in Seq(V)
    BY <2>3, <2>13
  <2>8. \A i \in 1..k : (<<A>> \o R)[1 + i] = P(i)
    BY <1>7, <2>3, <2>5, <2>13
  <2>9. (<<A>> \o R)[1] = A
    BY <1>7, <2>3, <2>13
  <2> DEFINE B == <<A>> \o R
  <2> HIDE DEF B
  <2>14. B \in Seq(V) /\ Len(B) = 1 + k
    BY <2>7 DEF B
  <2>10. /\ Len(B \o Q) = 1 + k + m
         /\ \A i \in 1..1 + k : (B \o Q)[i] = B[i]
         /\ \A i \in 1..m : (B \o Q)[1 + k + i] = Q[i]
    <3>1. Len(B \o Q) = 1 + k + m
      BY <2>4, <2>14
    <3>2. \A i \in 1..1 + k : (B \o Q)[i] = B[i]
      BY <1>7, <1>8, <2>4, <2>14
    <3>3. \A i \in 1..m : (B \o Q)[1 + k + i] = Q[i]
      <4>1. \A i \in 1..m : 1 + k + i \in 1..Len(B) + Len(Q) /\ 1 + k + i > Len(B) /\ 1 + k + i - Len(B) = i
        BY <1>7, <1>8, <2>4, <2>14
      <4> QED BY <1>7, <1>8, <2>4, <2>14, <4>1
    <3> QED BY <3>1, <3>2, <3>3
  <2>11. \A i \in 1..k : 1 + i \in 1..1 + k
    BY <1>7
  <2>12. 1 \in 1..1 + k
    BY <1>7
  <2> QED BY <2>1, <2>6, <2>8, <2>9, <2>10, <2>11, <2>12 DEF A, B, P, L
<1> HIDE DEF k, m
<1>10. K(1) = S /\ W(1) = T
  <2>1. \A j \in 1..k : j >= 1
    BY <1>7
  <2>2. \A j \in 1..m : j + k >= 1
    BY <1>7, <1>8
  <2>3. \A j \in 1..k : kids[j] \in S
    BY <1>7
  <2>4. \A j \in 1..m : wires[j] \in T
    BY <1>8
  <2> QED BY <1>7, <1>8, <2>1, <2>2, <2>3, <2>4
<1>11. K(1 + k + m) = {} /\ W(1 + k + m) = {}
  BY <1>7, <1>8
<1>12. ASSUME NEW i \in 1..k
       PROVE  K(1 + i) = K(i) \ {kids[i]} /\ W(1 + i) = W(i)
  <2>1. \A j \in 1..k : j >= 1 + i <=> j >= i /\ j # i
    BY <1>7
  <2>2. \A j \in 1..m : j + k >= 1 + i /\ j + k >= i
    BY <1>7, <1>8
  <2>3. \A j \in 1..k : j # i => kids[j] # kids[i]
    BY <1>7
  <2>4. K(1 + i) = K(i) \ {kids[i]}
    BY <2>1, <2>3
  <2> QED BY <2>2, <2>4
<1>13. ASSUME NEW i \in 1..m
       PROVE  K(1 + k + i) = K(k + i) /\ W(1 + k + i) = W(k + i) \ {wires[i]}
  <2>1. \A j \in 1..m : j + k >= 1 + k + i <=> j + k >= k + i /\ j # i
    BY <1>7, <1>8
  <2>2. \A j \in 1..m : j # i => wires[j] # wires[i]
    BY <1>8
  <2>3. W(1 + k + i) = W(k + i) \ {wires[i]}
    BY <2>1, <2>2
  <2>4. \A j \in 1..k : ~(j >= 1 + k + i) /\ ~(j >= k + i)
    BY <1>7, <1>8
  <2> QED BY <2>3, <2>4
<1>14. \A i \in 0..1 + k + m : K(i) \in SUBSET Present(d) /\ W(i) \in SUBSET Edges(d)
  <2>1. \A j \in 1..k : kids[j] \in Present(d)
    BY <1>4, <1>7
  <2>2. \A j \in 1..m : wires[j] \in Edges(d)
    BY <1>4, <1>8
  <2> QED BY <2>1, <2>2
<1>15. ASSUME NEW i \in 1..m PROVE wires[i] \in W(k + i) /\ wires[i] \in Edges(d)
  <2>1. i + k >= k + i
    BY <1>7, <1>8
  <2> QED BY <1>4, <1>8, <2>1
<1> HIDE DEF K, W
<1>16. \A i \in 1..1 + k + m : want[i] = Partial(d, K(i), W(i))
  <2>1. \A i \in 1..1 + k + m : i \in 0..1 + k + m /\ i # 0
    BY <1>7, <1>8
  <2> QED BY <2>1
<1>17. want[0] = c
  BY <1>7, <1>8
<1> HIDE DEF want
<1>18. ApplyOne(want[0], ops[1]) = want[1]
  <2>1. 1 \in 1..1 + k + m
    BY <1>7, <1>8
  <2> QED BY <1>5, <1>9, <1>10, <1>16, <1>17, <2>1
<1>19. ASSUME NEW i \in 1..k PROVE ApplyOne(want[i], ops[1 + i]) = want[1 + i]
  <2>1. i \in 1..1 + k + m /\ 1 + i \in 1..1 + k + m /\ i \in 0..1 + k + m
    BY <1>7, <1>8
  <2>2. kids[i] \in Present(d) /\ d.node[kids[i]].parent = op.id
        /\ checkParent(d, kids[i], d.node[kids[i]].parent)
    BY <1>1, <1>4, <1>7 DEF ParentsShallow
  <2>3. K(i) \in SUBSET Present(d) /\ W(i) \in SUBSET EdgeId
    BY <1>14, <2>1 DEF Edges
  <2>4. ApplyOne(Partial(d, K(i), W(i)), Parenting(kids[i], d.node[kids[i]].parent))
          = Partial(d, K(i) \ {kids[i]}, W(i))
    BY <1>0, <2>2, <2>3, Reparented
  <2> QED BY <1>9, <1>12, <1>16, <2>1, <2>2, <2>4
<1>20. ASSUME NEW i \in 1..m PROVE ApplyOne(want[k + i], ops[1 + k + i]) = want[1 + k + i]
  <2>1. k + i \in 1..1 + k + m /\ 1 + k + i \in 1..1 + k + m /\ k + i \in 0..1 + k + m
    BY <1>7, <1>8
  <2>2. K(k + i) \in SUBSET Present(d) /\ W(k + i) \in SUBSET Edges(d) /\ wires[i] \in W(k + i)
    BY <1>14, <1>15, <2>1
  <2>3. ApplyOne(Partial(d, K(k + i), W(k + i)), Linking(wires[i], d.edge[wires[i]]))
          = Partial(d, K(k + i), W(k + i) \ {wires[i]})
    BY <2>2, Rewired
  <2> QED BY <1>9, <1>13, <1>16, <2>1, <2>3
<1>21. Leads(ops, 1 + k + m, want)
  <2>1. ASSUME NEW i \in 1..1 + k + m PROVE ApplyOne(want[i - 1], ops[i]) = want[i]
    <3>1. CASE i = 1
      BY <1>18, <3>1
    <3>2. CASE i \in 2..1 + k
      <4>1. i - 1 \in 1..k /\ 1 + (i - 1) = i
        BY <1>7, <3>2
      <4> QED BY <1>19, <4>1
    <3>3. CASE i > 1 + k
      <4> DEFINE j == i - 1 - k
      <4>1. j \in 1..m /\ k + j = i - 1 /\ 1 + k + j = i
        BY <1>7, <1>8, <3>3
      <4> HIDE DEF j
      <4> QED BY <1>20, <4>1
    <3> QED BY <1>7, <1>8, <3>1, <3>2, <3>3
  <2> QED BY <2>1 DEF Leads
<1>22. want[1 + k + m] = d
  <2>1. 1 + k + m \in 1..1 + k + m
    BY <1>7, <1>8
  <2> QED BY <1>0, <1>11, <1>16, <2>1, PartialNothing
<1>23. Apply(c, ops) = d
  <2>1. 1 + k + m \in Nat
    BY <1>7, <1>8
  <2>2. Apply(want[0], ops) = want[1 + k + m]
    BY <1>9, <1>21, <2>1, ListLeads
  <2> QED BY <1>17, <1>22, <2>2
<1> QED BY <1>23 DEF c, ops

-----------------------------------------------------------------------------
(***************************************************************************)
(* Rectangles.  The inverse of a move or a resize is accepted because the  *)
(* old rectangle was a valid one.                                          *)
(***************************************************************************)
RectInRange(d, n) == ValidRect(d.node[n].x, d.node[n].w)

SameRect(d, c, n) == c.node[n].x = d.node[n].x /\ c.node[n].w = d.node[n].w

\* Every node of the new document has a valid rectangle or the one it had.
LEMMA RectsStay ==
  ASSUME NEW d, NEW c, InRange(d),
         \A n \in Present(c) : RectInRange(c, n) \/ (n \in Present(d) /\ SameRect(d, c, n))
  PROVE  InRange(c)
BY DEF InRange, RectInRange, SameRect

LEMMA ContentInRange ==
  ASSUME NEW d \in Doc, NEW op \in ContentOp, Accepts(d, op), InRange(d)
  PROVE  InRange(Applied(d, op))
<1> DEFINE c == Applied(d, op)
           i == op.id
<1>1. Present(c) = Present(d)
  BY ContentFrame DEF SameNodes
<1>2. CASE op \in MoveNodeOp
  <2>1. c = AppliedMoveNode(d, op) /\ ValidRect(MovedTo(d, op), d.node[i].w) /\ i \in Present(d)
    BY <1>2 DEF MoveNodeOp, Accepts, AcceptsMoveNode, Applied
  <2>2. \A n \in Present(d) : IF n = i THEN RectInRange(c, n) ELSE SameRect(d, c, n)
    BY <2>1, Given DEF AppliedMoveNode, RectInRange, SameRect, Doc, Node
  <2> HIDE DEF c
  <2>3. \A n \in Present(c) : RectInRange(c, n) \/ (n \in Present(d) /\ SameRect(d, c, n))
    BY <1>1, <2>2
  <2> QED BY <2>3, RectsStay DEF c
<1>3. CASE op \in ResizeNodeOp
  <2>1. c = AppliedResizeNode(d, op) /\ ValidRect(d.node[i].x, op.w) /\ i \in Present(d)
    BY <1>3 DEF ResizeNodeOp, Accepts, AcceptsResizeNode, Applied
  <2>2. \A n \in Present(d) : IF n = i THEN RectInRange(c, n) ELSE SameRect(d, c, n)
    BY <2>1, Given DEF AppliedResizeNode, RectInRange, SameRect, Doc, Node
  <2> HIDE DEF c
  <2>3. \A n \in Present(c) : RectInRange(c, n) \/ (n \in Present(d) /\ SameRect(d, c, n))
    BY <1>1, <2>2
  <2> QED BY <2>3, RectsStay DEF c
<1>4. CASE op \in SetTitleOp
  <2>1. c = AppliedSetTitle(d, op)
    BY <1>4 DEF SetTitleOp, Applied
  <2>2. \A n \in Present(d) : SameRect(d, c, n)
    BY <2>1, Given DEF AppliedSetTitle, SameRect, Doc, Node
  <2> HIDE DEF c
  <2> QED BY <1>1, <2>2, RectsStay DEF c
<1>5. CASE op \in SetSpecOp
  <2>1. c = AppliedSetSpec(d, op)
    BY <1>5 DEF SetSpecOp, Applied
  <2>2. \A n \in Present(d) : SameRect(d, c, n)
    BY <2>1, Given DEF AppliedSetSpec, SameRect, Doc, Node
  <2> HIDE DEF c
  <2> QED BY <1>1, <2>2, RectsStay DEF c
<1>6. CASE op \in SetStateOp
  <2>1. c = AppliedSetState(d, op)
    BY <1>6 DEF SetStateOp, Applied
  <2>2. \A n \in Present(d) : SameRect(d, c, n)
    BY <2>1, Given DEF AppliedSetState, SameRect, Doc, Node
  <2> HIDE DEF c
  <2> QED BY <1>1, <2>2, RectsStay DEF c
<1>7. CASE op \in ViewportOp \union SettingsOp
  <2>1. c.node = d.node
    BY <1>7 DEF ViewportOp, SettingsOp, Applied, AppliedViewport, AppliedSettings, Doc
  <2> HIDE DEF c
  <2> QED BY <2>1 DEF c, InRange, Present
<1> QED BY <1>2, <1>3, <1>4, <1>5, <1>6, <1>7 DEF ContentOp

\* An ill-formed rectangle leaves the group where it is.
LEMMA GroupRectValid ==
  ASSUME NEW d, NEW op, RectInRange(d, op.group)
  PROVE  ValidRect(GroupRect(d, op).x, GroupRect(d, op).w)
BY DEF GroupRect, RectInRange

LEMMA GroupInRange ==
  ASSUME NEW d \in Doc, NEW op \in GroupOp, Accepts(d, op), InRange(d)
  PROVE  InRange(Applied(d, op))
<1> DEFINE c == Applied(d, op)
           r == GroupRect(d, op)
<1>1. op.group \in Present(d) /\ op.group \notin op.members /\ c = AppliedGroup(d, op)
  BY DEF GroupOp, Accepts, AcceptsGroup, Applied
<1>2. SameNodes(d, c)
  BY NestingFrame DEF KeepsChildren, GroupOp
<1>3. ValidRect(r.x, r.w)
  BY <1>1, GroupRectValid DEF InRange, RectInRange
<1> HIDE DEF r
<1>4. \A n \in Present(d) : IF n = op.group THEN c.node[n].x = r.x /\ c.node[n].w = r.w
                                            ELSE SameRect(d, c, n)
  <2>1. \A n \in Present(d) :
           c.node[n] = IF n \in op.members THEN [d.node[n] EXCEPT !.parent = op.group]
                       ELSE IF n = op.group THEN [d.node[n] EXCEPT !.x = r.x, !.w = r.w]
                       ELSE d.node[n]
    <3>1. \A n \in Present(d) : n \in NodeId
      BY DEF Present
    <3>2. c.node = [n \in NodeId |->
                     IF n \in op.members THEN [d.node[n] EXCEPT !.parent = op.group]
                     ELSE IF n = op.group THEN [d.node[n] EXCEPT !.x = r.x, !.w = r.w]
                     ELSE d.node[n]]
      BY <1>1 DEF AppliedGroup, Doc, r
    <3> HIDE DEF c
    <3> QED BY <3>1, <3>2
  <2>2. \A n \in Present(d) : d.node[n] \in Node
    BY Given
  <2> HIDE DEF c
  <2> QED BY <1>1, <2>1, <2>2 DEF SameRect, Node
<1> HIDE DEF c
<1>5. \A n \in Present(c) : RectInRange(c, n) \/ (n \in Present(d) /\ SameRect(d, c, n))
  BY <1>2, <1>3, <1>4 DEF SameNodes, RectInRange
<1> QED BY <1>5, RectsStay DEF c

LEMMA InRangeStep ==
  ASSUME NEW d \in Doc, NEW op \in Op, Accepts(d, op), InRange(d)
  PROVE  InRange(Applied(d, op))
<1> DEFINE c == Applied(d, op)
<1>1. CASE op \in ContentOp
  BY <1>1, ContentInRange
<1>2. CASE op \in GroupOp
  BY <1>2, GroupInRange
<1>3. CASE op \in SetParentOp
  <2>1. SameNodes(d, c)
    BY <1>3, NestingFrame DEF KeepsChildren, SetParentOp
  <2>2. c = AppliedSetParent(d, op)
    BY <1>3 DEF SetParentOp, Applied
  <2>3. \A n \in Present(d) : SameRect(d, c, n)
    BY <2>2, Given DEF AppliedSetParent, SameRect, Doc, Node
  <2> HIDE DEF c
  <2> QED BY <2>1, <2>3, RectsStay DEF c, SameNodes
<1>4. CASE op \in UngroupOp /\ KeepsChildren(op)
  <2>1. SameNodes(d, c)
    BY <1>4, NestingFrame
  <2>2. c.node = [n \in NodeId |-> Orphaned(d, op.group, n)]
    BY <1>4 DEF UngroupOp, KeepsChildren, Applied, AppliedUngroup, Doc
  <2>3. \A n \in Present(d) : SameRect(d, c, n)
    BY <2>2, Given DEF Orphaned, SameRect, Node
  <2> HIDE DEF c
  <2> QED BY <2>1, <2>3, RectsStay DEF c, SameNodes
<1>5. CASE ~KeepsChildren(op)
  <2>1. Present(c) \subseteq Present(d) /\ \A n \in Present(c) : c.node[n] = d.node[n]
    BY <1>5, DiscardFrame
  <2> HIDE DEF c
  <2> QED BY <2>1, RectsStay DEF c, SameRect
<1>6. CASE op \in AddNodeOp
  <2>1. /\ Present(c) = Present(d) \union {op.id} /\ c.node[op.id] = op.node
        /\ \A n \in Present(d) : c.node[n] = d.node[n]
    BY <1>6, AddNodeFrame
  <2>2. ValidRect(op.node.x, op.node.w)
    BY <1>6 DEF AddNodeOp, Accepts, AcceptsAddNode
  <2> HIDE DEF c
  <2>3. \A n \in Present(c) : RectInRange(c, n) \/ (n \in Present(d) /\ SameRect(d, c, n))
    BY <2>1, <2>2 DEF RectInRange, SameRect
  <2> QED BY <2>3, RectsStay DEF c
<1>7. CASE op \in RemoveNodeOp
  <2>1. /\ Present(c) = Present(d) \ {op.id}
        /\ \A n \in Present(c) : c.node[n] = Orphaned(d, op.id, n)
    BY <1>7, RemoveNodeFrame
  <2>2. \A n \in Present(d) : Orphaned(d, op.id, n).x = d.node[n].x
                              /\ Orphaned(d, op.id, n).w = d.node[n].w
    BY Given DEF Orphaned, Node
  <2> HIDE DEF c
  <2> QED BY <2>1, <2>2, RectsStay DEF c, SameRect
<1>8. CASE op \in AddEdgeOp
  <2>1. c.node = d.node
    BY <1>8, AddEdgeFrame
  <2> HIDE DEF c
  <2> QED BY <2>1 DEF c, InRange, Present
<1>9. CASE op \in RemoveEdgeOp
  <2>1. c.node = d.node
    BY <1>9 DEF RemoveEdgeOp, Applied, AppliedRemoveEdge, Doc
  <2> HIDE DEF c
  <2> QED BY <2>1 DEF c, InRange, Present
<1> QED BY <1>1, <1>2, <1>3, <1>4, <1>5, <1>6, <1>7, <1>8, <1>9, Kinds

\* A relative move ends within the canvas or is refused, and an ill-formed
\* rectangle that group was given or computed is not taken.
THEOREM RectsStayInRange == DocSpec => []RectsInRange
<1>1. DocInit => RectsInRange
  <2>1. \A v, s \in Value : Present(NewDocument(v, s)) = {}
    BY DEF NewDocument, Present
  <2> QED BY <2>1, BlankTyped DEF DocInit, RectsInRange, InRange
<1>2. Sound /\ RectsInRange /\ [DocNext]_doc => RectsInRange'
  <2>1. ASSUME Sound, RectsInRange, DocNext PROVE RectsInRange'
    <3>1. PICK op \in OpPool : Perform(op)
      BY <2>1, NextPerforms
    <3>2. doc \in Doc /\ op \in Op
      BY <2>1, OpsTyped DEF Sound, SoundDoc
    <3>3. Accepts(doc, op) /\ doc' = Applied(doc, op)
      BY <3>1 DEF Perform
    <3> QED BY <2>1, <3>2, <3>3, InRangeStep DEF RectsInRange
  <2>2. ASSUME RectsInRange, UNCHANGED doc PROVE RectsInRange'
    BY <2>2 DEF RectsInRange
  <2> QED BY <2>1, <2>2
<1> QED BY <1>1, <1>2, AlwaysSound, PTL DEF DocSpec

-----------------------------------------------------------------------------
\* The inverse of an op that is accepted in a well-formed document restores it,
\* where one op says all that was changed and where the list is complete.
LEMMA SingleRestores ==
  ASSUME NEW d \in WellFormedDoc, InRange(d), NEW op \in Op, Accepts(d, op), Plain(d, op)
  PROVE  Undone(d, <<op>>) = d
<1>0. d \in Doc /\ Grouped(d) /\ op.kind \notin Compound
  BY DEF WellFormedDoc, SoundDoc, Plain
<1>1. op \notin RemoveNodeOp \union GroupOp \union UngroupOp
  BY <1>0 DEF Compound, RemoveNodeOp, GroupOp, UngroupOp
<1>2. ApplyOne(Applied(d, op), UndoOne(d, op)) = d
  <2>1. CASE op \in ContentOp
    BY <1>0, <2>1, MoveRestores, ResizeRestores, TitleRestores, SpecRestores, StateRestores,
       CanvasValuesRestore DEF ContentOp
  <2>2. CASE op \in AddNodeOp \union AddEdgeOp
    BY <1>0, <2>2, AddNodeRestores, AddEdgeRestores
  <2>3. CASE op \in RemoveEdgeOp \union SetParentOp
    BY <1>0, <2>3, RemoveEdgeRestores, SetParentRestores
  <2> QED BY <1>1, <2>1, <2>2, <2>3, Kinds
<1> QED BY <1>0, <1>2, UndoneOne

LEMMA ListRestores ==
  ASSUME NEW d \in WellFormedDoc, InRange(d), NEW op \in Op, Accepts(d, op), Complete(d, op)
  PROVE  Apply(Applied(d, op), UndoList(d, op)) = d
<1>0. d \in Doc /\ Grouped(d) /\ op.kind \in {"remove_node", "ungroup"}
  BY DEF WellFormedDoc, SoundDoc, Complete
<1>1. op \in RemoveNodeOp \union UngroupOp
  BY <1>0 DEF Op, AddNodeOp, RemoveNodeOp, MoveNodeOp, ResizeNodeOp, SetTitleOp, SetSpecOp,
     SetStateOp, AddEdgeOp, RemoveEdgeOp, GroupOp, UngroupOp, ViewportOp, SettingsOp, SetParentOp
<1> QED BY <1>0, <1>1, RemoveNodeRestores, UngroupRestores

RestorableDoc == {d \in WellFormedDoc : InRange(d)}

LEMMA NewDocumentRestorable ==
  ASSUME NEW v \in Value, NEW s \in Value
  PROVE  NewDocument(v, s) \in RestorableDoc
<1>1. Present(NewDocument(v, s)) = {}
  BY DEF NewDocument, Present
<1> QED BY <1>1, NewDocumentWellFormed DEF RestorableDoc, InRange

LEMMA RestorableStep ==
  ASSUME PoolKeepsChildren, NEW d \in RestorableDoc, NEW op \in OpPool, Accepts(d, op)
  PROVE  Applied(d, op) \in RestorableDoc
<1>1. d \in Doc /\ d \in WellFormedDoc /\ InRange(d) /\ op \in Op /\ KeepsChildren(op)
  BY OpsTyped DEF RestorableDoc, WellFormedDoc, SoundDoc, PoolKeepsChildren
<1> QED BY <1>1, WellFormedStep, InRangeStep DEF RestorableDoc

LEMMA PoolRestores ==
  ASSUME NEW d \in RestorableDoc, NEW op \in OpPool, Accepts(d, op)
  PROVE  Restored(d, op)
<1>1. d \in WellFormedDoc /\ InRange(d) /\ op \in Op
  BY OpsTyped DEF RestorableDoc
<1> QED BY <1>1, SingleRestores, ListRestores DEF Restored

\* The inverse that an op returns restores the document exactly, with its
\* edges, children and parents, whatever sequence of ops led to it.
THEOREM OpsAreReversible ==
  ASSUME PoolKeepsChildren
  PROVE  DocSpec => []OpsReversible
<1>1. WellFormed /\ RectsInRange => OpsReversible
  <2> SUFFICES ASSUME WellFormed, RectsInRange, NEW op \in OpPool, Accepts(doc, op)
               PROVE  Restored(doc, op)
    BY DEF OpsReversible, Restores
  <2>1. doc \in RestorableDoc
    BY DEF RestorableDoc, WellFormed, RectsInRange
  <2> QED BY <2>1, PoolRestores
<1>2. DocSpec => []WellFormed
  BY AlwaysWellFormed
<1> QED BY <1>1, <1>2, RectsStayInRange, PTL

-----------------------------------------------------------------------------
(***************************************************************************)
(* The write path.                                                         *)
(***************************************************************************)
CommitRow == [at : Server \union {None}, base : Nat, seq : Nat, ops : Batches]

(***************************************************************************)
(* What a request holds between its steps is what it would read again,     *)
(* except that the version may have moved on: a result that was computed   *)
(* belongs to the document of the version that was read.                   *)
(***************************************************************************)
Served(c) == call[c].phase \in {"loaded", "applied", "committed"}

Consistent(c) ==
  /\ call[c].phase # "idle" => call[c].ops \in Batches /\ call[c].server \in Server
  /\ Served(c) => call[c].cur \in 0..Version
  /\ call[c].phase = "committed" => call[c].cur < Version
  /\ call[c].phase = "applied" =>
       /\ call[c].next \in SoundDoc
       /\ call[c].next # Rejected
       /\ call[c].next = Apply(docs[call[c].cur + 1], call[c].ops)

Typed ==
  /\ docs \in Seq(SoundDoc)
  /\ commits \in Seq(CommitRow)
  /\ Len(docs) = Version + 1
  /\ call \in [Client -> Request]
  /\ mutex \in [Server -> Client \union {None}]
  /\ seen \in [Client -> 0..Version]

LogInv == Typed /\ (\A c \in Client : Consistent(c)) /\ SnapshotIsReplay

LEMMA BatchOfPool ==
  ASSUME NEW ops \in Batches
  PROVE  ops \in Seq(OpPool)
BY BatchesTyped

LEMMA QuietTyped == Quiet \in Request /\ Quiet.phase = "idle"
BY DEF Quiet, Request, Phases

LEMMA InitLogInv == Init => LogInv
<1> SUFFICES ASSUME Init PROVE LogInv
  OBVIOUS
<1>1. NewDocument(InitialValue, InitialValue) \in SoundDoc
  BY InitialTyped, NewDocumentWellFormed DEF WellFormedDoc
<1>2. Typed
  BY <1>1, QuietTyped DEF Init, Typed, Version
<1>3. \A c \in Client : Consistent(c)
  BY QuietTyped DEF Init, Consistent, Served
<1>4. SnapshotIsReplay
  BY DEF Init, SnapshotIsReplay, Version
<1> QED BY <1>2, <1>3, <1>4 DEF LogInv

(***************************************************************************)
(* A step that leaves the tables alone and puts one request in a           *)
(* consistent state keeps the invariant.                                   *)
(***************************************************************************)
LEMMA RequestStep ==
  ASSUME LogInv, NEW c \in Client, NEW r \in Request,
         call' = [call EXCEPT ![c] = r],
         UNCHANGED <<docs, commits>>,
         mutex' \in [Server -> Client \union {None}],
         seen' \in [Client -> 0..Version],
         Consistent(c)'
  PROVE  LogInv'
<1>1. Typed'
  BY DEF LogInv, Typed, Version
<1>2. ASSUME NEW b \in Client PROVE Consistent(b)'
  <2>1. CASE b = c
    BY <2>1
  <2>2. CASE b # c
    <3>1. call'[b] = call[b]
      BY <2>2 DEF LogInv, Typed
    <3> QED BY <3>1 DEF LogInv, Consistent, Served, Version
  <2> QED BY <2>1, <2>2
<1>3. SnapshotIsReplay'
  BY DEF LogInv, SnapshotIsReplay, Version
<1> QED BY <1>1, <1>2, <1>3 DEF LogInv

LEMMA RefuseStep ==
  ASSUME LogInv, NEW c \in Client, Refuse(c)
  PROVE  LogInv'
<1>1. Quiet \in Request /\ call' = [call EXCEPT ![c] = Quiet]
  BY QuietTyped DEF Refuse
<1>2. Consistent(c)'
  BY <1>1, QuietTyped DEF LogInv, Typed, Consistent, Served
<1>3. mutex' \in [Server -> Client \union {None}] /\ seen' \in [Client -> 0..Version]
  BY DEF Refuse, Free, LogInv, Typed
<1> QED BY <1>1, <1>2, <1>3, RequestStep DEF Refuse

LEMMA SubmitStep ==
  ASSUME LogInv, NEW c \in Client, Submit(c)
  PROVE  LogInv'
<1>1. PICK s \in Server, ops \in Batches :
        call' = [call EXCEPT ![c] = [Quiet EXCEPT !.phase = "waiting", !.server = s,
                                                  !.ops = ops, !.base = seen[c]]]
  BY DEF Submit
<1> DEFINE r == [Quiet EXCEPT !.phase = "waiting", !.server = s, !.ops = ops, !.base = seen[c]]
<1>2. r \in Request /\ r.phase = "waiting" /\ r.ops = ops /\ r.server = s
  <2>1. seen[c] \in Nat
    BY DEF LogInv, Typed, Version
  <2> QED BY <2>1 DEF Quiet, Request, Phases
<1>3. call' = [call EXCEPT ![c] = r] /\ UNCHANGED <<docs, commits, mutex, seen>>
  BY <1>1 DEF Submit
<1> HIDE DEF r
<1>4. Consistent(c)'
  BY <1>2, <1>3 DEF LogInv, Typed, Consistent, Served
<1> QED BY <1>2, <1>3, <1>4, RequestStep DEF LogInv, Typed

LEMMA LoadStep ==
  ASSUME LogInv, NEW c \in Client, Load(c)
  PROVE  LogInv'
<1> DEFINE r == [call[c] EXCEPT !.phase = "loaded", !.cur = Version]
<1>1. Version \in Nat /\ call[c] \in Request /\ Consistent(c) /\ call[c].phase = "waiting"
  BY DEF LogInv, Typed, Version, Load
<1>2. /\ r \in Request /\ r.phase = "loaded" /\ r.ops = call[c].ops
      /\ r.server = call[c].server /\ r.cur = Version
  BY <1>1 DEF Request, Phases
<1>3. /\ call' = [call EXCEPT ![c] = r] /\ UNCHANGED <<docs, commits, seen>>
      /\ mutex' = [mutex EXCEPT ![call[c].server] = c]
  BY DEF Load, LogInv, Typed
<1> HIDE DEF r
<1>4. Consistent(c)'
  BY <1>1, <1>2, <1>3 DEF LogInv, Typed, Consistent, Served, Version
<1>5. mutex' \in [Server -> Client \union {None}] /\ seen' \in [Client -> 0..Version]
  BY <1>3 DEF LogInv, Typed
<1> QED BY <1>2, <1>3, <1>4, <1>5, RequestStep

LEMMA CheckStep ==
  ASSUME LogInv, NEW c \in Client, Check(c)
  PROVE  LogInv'
<1> DEFINE next == Apply(docs[call[c].cur + 1], call[c].ops)
           r == [call[c] EXCEPT !.phase = "applied", !.next = next]
<1>1. CASE Refuse(c)
  BY <1>1, RefuseStep
<1>2. CASE ~ Refuse(c)
  <2>1. /\ call[c].phase = "loaded" /\ next # Rejected
        /\ call' = [call EXCEPT ![c].phase = "applied", ![c].next = next]
        /\ UNCHANGED <<docs, commits, mutex, seen>>
    BY <1>2 DEF Check
  <2>2. /\ call[c] \in Request /\ call[c].cur \in 0..Version /\ call[c].ops \in Batches
        /\ call[c].server \in Server
    BY <2>1 DEF LogInv, Typed, Consistent, Served
  <2>3. docs[call[c].cur + 1] \in SoundDoc
    BY <2>2 DEF LogInv, Typed, Version
  <2>4. next \in SoundDoc
    BY <2>1, <2>2, <2>3, BatchOfPool, BatchSound
  <2> HIDE DEF next
  <2>5. /\ r \in Request /\ r.phase = "applied" /\ r.ops = call[c].ops
        /\ r.server = call[c].server /\ r.cur = call[c].cur /\ r.next = next
    BY <2>2, <2>4 DEF Request, Phases, SoundDoc
  <2>6. call' = [call EXCEPT ![c] = r]
    BY <2>1 DEF LogInv, Typed
  <2> HIDE DEF r
  <2>7. call'[c] = r
    BY <2>6 DEF LogInv, Typed
  <2>8. Consistent(c)'
    BY <2>1, <2>2, <2>4, <2>5, <2>7 DEF Consistent, Served, next, Version
  <2> QED BY <2>1, <2>5, <2>6, <2>8, RequestStep DEF LogInv, Typed
<1> QED BY <1>1, <1>2

(***************************************************************************)
(* The commit.  The version that was read is still the last one, so that   *)
(* what the request computed is the batch applied to the last document.    *)
(***************************************************************************)
LEMMA CommitExtends ==
  ASSUME LogInv, NEW c \in Client, Commit(c), StillCurrent(c)
  PROVE  /\ call[c].ops \in Batches
         /\ call[c].next \in SoundDoc /\ call[c].next # Rejected
         /\ call[c].next = Apply(docs[Version + 1], call[c].ops)
         /\ docs' = Append(docs, call[c].next)
BY DEF Commit, StillCurrent, LogInv, Consistent, Served

LEMMA CommitStep ==
  ASSUME LogInv, NEW c \in Client, Commit(c)
  PROVE  LogInv'
<1>1. CASE ~ StillCurrent(c)
  BY <1>1, RefuseStep DEF Commit
<1>2. CASE StillCurrent(c)
  <2> DEFINE row == [at |-> call[c].server, base |-> call[c].base, seq |-> MaxSeq,
                     ops |-> call[c].ops]
  <2>1. /\ docs' = Append(docs, call[c].next) /\ commits' = Append(commits, row)
        /\ call' = [call EXCEPT ![c].phase = "committed"]
        /\ mutex' = [mutex EXCEPT ![call[c].server] = None]
        /\ seen' = seen /\ call[c].phase = "applied" /\ call[c].cur = Version
    BY <1>2 DEF Commit, StillCurrent, Free
  <2>2. /\ call[c] \in Request /\ Version \in Nat /\ call[c].server \in Server
        /\ call[c].ops \in Batches /\ call[c].next \in SoundDoc
    BY <2>1 DEF LogInv, Typed, Version, Consistent
  <2>3. MaxSeq \in Nat
    <3>1. CASE commits = <<>>
      BY <3>1 DEF MaxSeq
    <3>2. CASE commits # <<>>
      <4>1. commits[Version] \in CommitRow
        BY <3>2 DEF LogInv, Typed, Version
      <4>2. Len(commits[Version].ops) \in Nat
        BY <4>1, BatchOfPool DEF CommitRow
      <4> QED BY <3>2, <4>1, <4>2 DEF MaxSeq, CommitRow
    <3> QED BY <3>1, <3>2
  <2>4. row \in CommitRow
    BY <2>2, <2>3 DEF CommitRow, Request
  <2> HIDE DEF row
  <2>5. /\ docs' \in Seq(SoundDoc) /\ commits' \in Seq(CommitRow)
        /\ Version' = Version + 1 /\ Len(docs') = Version' + 1
        /\ \A v \in 1..Version + 1 : docs'[v] = docs[v]
        /\ docs'[Version + 2] = call[c].next
        /\ \A v \in 1..Version : commits'[v] = commits[v]
        /\ commits'[Version + 1] = row
    BY <2>1, <2>2, <2>4 DEF LogInv, Typed, Version
  <2>6. call' \in [Client -> Request] /\ call'[c] = [call[c] EXCEPT !.phase = "committed"]
    BY <2>1, <2>2 DEF LogInv, Typed, Request, Phases
  <2>7. Typed'
    BY <2>1, <2>2, <2>5, <2>6 DEF LogInv, Typed
  <2>8. ASSUME NEW b \in Client PROVE Consistent(b)'
    <3>1. CASE b = c
      <4>1. /\ call'[b].phase = "committed" /\ call'[b].cur = Version
            /\ call'[b].ops = call[c].ops /\ call'[b].server = call[c].server
        BY <2>1, <2>2, <2>6, <3>1 DEF Request
      <4> QED BY <2>2, <2>5, <4>1 DEF Consistent, Served
    <3>2. CASE b # c
      <4>1. call'[b] = call[b] /\ Consistent(b)
        BY <2>1, <3>2 DEF LogInv, Typed
      <4> QED BY <2>2, <2>5, <4>1 DEF Consistent, Served
    <3> QED BY <3>1, <3>2
  <2>9. SnapshotIsReplay'
    <3>1. ASSUME NEW v \in 1..Version'
          PROVE  docs'[v + 1] = Apply(docs'[v], commits'[v].ops)
      <4>1. CASE v \in 1..Version
        BY <2>2, <2>5, <4>1 DEF LogInv, SnapshotIsReplay
      <4>2. CASE v = Version + 1
        BY <1>2, <2>2, <2>5, <4>2, CommitExtends DEF row
      <4> QED BY <2>2, <2>5, <3>1, <4>1, <4>2
    <3> QED BY <3>1 DEF SnapshotIsReplay
  <2> QED BY <2>7, <2>8, <2>9 DEF LogInv
<1> QED BY <1>1, <1>2

LEMMA EndStep ==
  ASSUME LogInv, NEW c \in Client, Answer(c) \/ LoseAnswer(c)
  PROVE  LogInv'
<1>1. /\ call' = [call EXCEPT ![c] = Quiet] /\ UNCHANGED <<docs, commits, mutex>>
      /\ call[c].phase = "committed"
      /\ seen' = seen \/ seen' = [seen EXCEPT ![c] = call[c].cur + 1]
  BY DEF Answer, LoseAnswer
<1>2. Consistent(c)'
  BY <1>1, QuietTyped DEF LogInv, Typed, Consistent, Served
<1>3. seen' \in [Client -> 0..Version]
  BY <1>1 DEF LogInv, Typed, Consistent, Served, Version
<1> QED BY <1>1, <1>2, <1>3, QuietTyped, RequestStep DEF LogInv, Typed

LEMMA RefreshStep ==
  ASSUME LogInv, NEW c \in Client, Refresh(c)
  PROVE  LogInv'
<1>1. call' = [call EXCEPT ![c] = call[c]] /\ call[c] \in Request
  BY DEF Refresh, LogInv, Typed
<1>2. seen' \in [Client -> 0..Version]
  BY DEF Refresh, LogInv, Typed, Version
<1>3. Consistent(c)'
  BY DEF Refresh, LogInv, Consistent, Served, Version
<1> QED BY <1>1, <1>2, <1>3, RequestStep DEF Refresh, LogInv, Typed

LEMMA NextLogInv == LogInv /\ [Next]_vars => LogInv'
<1>1. ASSUME LogInv, Next PROVE LogInv'
  <2>1. PICK c \in Client :
          \/ Submit(c) \/ Load(c) \/ Check(c) \/ Commit(c) \/ Answer(c)
          \/ LoseAnswer(c) \/ Fail(c) \/ Refresh(c)
    BY <1>1 DEF Next
  <2> QED BY <1>1, <2>1, SubmitStep, LoadStep, CheckStep, CommitStep, EndStep, RefuseStep,
             RefreshStep DEF Fail
<1>2. ASSUME LogInv, UNCHANGED vars PROVE LogInv'
  BY <1>2 DEF vars, LogInv, Typed, Consistent, Served, SnapshotIsReplay, Version
<1> QED BY <1>1, <1>2

LEMMA AlwaysLogInv == Spec => []LogInv
BY InitLogInv, NextLogInv, PTL DEF Spec

\* Requests stay typed and one document is kept for every version.
THEOREM LogTypeCorrect == Spec => []TypeOK
<1>1. LogInv => TypeOK
  BY DEF LogInv, Typed, TypeOK, SoundDoc
<1> QED BY <1>1, AlwaysLogInv, PTL

\* INV-1: the stored ops of a version lead from its stored document to the
\* next, whatever requests overlap and wherever they break off.
THEOREM LogReplays == Spec => []SnapshotIsReplay
<1>1. LogInv => SnapshotIsReplay
  BY DEF LogInv
<1> QED BY <1>1, AlwaysLogInv, PTL

\* Every document that is ever stored is one that no sequence of ops could have
\* spoilt: within the limits, without a cycle and without a group in itself,
\* although clients work from stale versions and processes overlap.
THEOREM LogDocumentsSound ==
  Spec => [](\A v \in DOMAIN docs : docs[v] \in SoundDoc)
<1>1. LogInv => \A v \in DOMAIN docs : docs[v] \in SoundDoc
  BY DEF LogInv, Typed
<1> QED BY <1>1, AlwaysLogInv, PTL

\* The write path implements the history of whole batches: a commit is an
\* extension of the history and every other step leaves it alone.
THEOREM LogImplementsHistory == Spec => ImplementsHistory
<1>1. Init => History!HistoryInit
  BY DEF Init, History!HistoryInit
<1>2. LogInv /\ [Next]_vars => [History!HistoryNext]_docs
  <2>1. ASSUME LogInv, NEW c \in Client, Commit(c), StillCurrent(c)
        PROVE  History!HistoryNext
    <3>1. Len(docs) = Version + 1
      BY <2>1 DEF LogInv, Typed
    <3>2. History!Extend(call[c].ops)
      BY <2>1, <3>1, CommitExtends DEF History!Extend
    <3> QED BY <2>1, <3>2, CommitExtends DEF History!HistoryNext
  <2>2. ASSUME LogInv, NEW c \in Client, Commit(c), ~ StillCurrent(c)
        PROVE  UNCHANGED docs
    BY <2>2 DEF Commit, Refuse
  <2>3. ASSUME NEW c \in Client,
               Submit(c) \/ Load(c) \/ Check(c) \/ Answer(c) \/ LoseAnswer(c) \/ Fail(c)
               \/ Refresh(c)
        PROVE  UNCHANGED docs
    BY <2>3 DEF Submit, Load, Check, Answer, LoseAnswer, Fail, Refresh, Refuse
  <2> QED BY <2>1, <2>2, <2>3 DEF Next, vars
<1> QED BY <1>1, <1>2, AlwaysLogInv, PTL DEF Spec, ImplementsHistory, History!HistorySpec

-----------------------------------------------------------------------------
(***************************************************************************)
(* Well-formed documents, if no ungroup of the pool discards the children. *)
(***************************************************************************)
\* What every op of the pool keeps holds of the next stored document too.
LEMMA CommittedStays ==
  ASSUME NEW S, \A d \in S, op \in OpPool : Accepts(d, op) => Applied(d, op) \in S,
         LogInv, [Next]_vars, \A v \in DOMAIN docs : docs[v] \in S
  PROVE  \A v \in DOMAIN docs' : docs'[v] \in S
<1>1. ASSUME NEW c \in Client, Commit(c), StillCurrent(c)
      PROVE  \A v \in DOMAIN docs' : docs'[v] \in S
  <2>1. Len(docs) = Version + 1 /\ docs \in Seq(SoundDoc) /\ Version \in Nat
    BY DEF LogInv, Typed, Version
  <2>2. /\ call[c].ops \in Seq(OpPool) /\ call[c].next # Rejected
        /\ call[c].next = Apply(docs[Version + 1], call[c].ops)
        /\ docs' = Append(docs, call[c].next) /\ call[c].next \in SoundDoc
    BY <1>1, CommitExtends, BatchOfPool
  <2>3. docs[Version + 1] \in S
    BY <2>1
  <2>4. call[c].next \in S
    <3>1. Apply(docs[Version + 1], call[c].ops) \in S \union {Rejected}
      BY <2>2, <2>3, ApplyStays
    <3> QED BY <2>2, <3>1
  <2>5. \A v \in DOMAIN docs' : \/ v \in DOMAIN docs /\ docs'[v] = docs[v]
                               \/ docs'[v] = call[c].next
    BY <2>1, <2>2
  <2> QED BY <2>4, <2>5
<1>2. ASSUME NEW c \in Client, Commit(c), ~ StillCurrent(c)
      PROVE  UNCHANGED docs
  BY <1>2 DEF Commit, Refuse
<1>3. ASSUME NEW c \in Client,
             Submit(c) \/ Load(c) \/ Check(c) \/ Answer(c) \/ LoseAnswer(c) \/ Fail(c)
             \/ Refresh(c)
      PROVE  UNCHANGED docs
  BY <1>3 DEF Submit, Load, Check, Answer, LoseAnswer, Fail, Refresh, Refuse
<1>4. CASE UNCHANGED docs
  BY <1>4
<1> QED BY <1>1, <1>2, <1>3, <1>4 DEF Next, vars

AllWellFormed == \A v \in DOMAIN docs : docs[v] \in WellFormedDoc

\* If no ungroup discards its children: what applyAddEdge and checkParent
\* establish for one document holds of every stored one.
THEOREM LogDocumentsWellFormed ==
  ASSUME PoolKeepsChildren
  PROVE  Spec => []AllWellFormed
<1>1. Init => AllWellFormed
  BY InitialTyped, NewDocumentWellFormed DEF Init, AllWellFormed
<1>2. LogInv /\ AllWellFormed /\ [Next]_vars => AllWellFormed'
  <2>1. \A d \in WellFormedDoc, op \in OpPool : Accepts(d, op) => Applied(d, op) \in WellFormedDoc
    BY WellFormedStep DEF PoolKeepsChildren
  <2> QED BY <2>1, CommittedStays DEF AllWellFormed
<1> QED BY <1>1, <1>2, AlwaysLogInv, PTL DEF Spec

LogReversible ==
  \A v \in DOMAIN docs : \A op \in OpPool : Accepts(docs[v], op) => Restored(docs[v], op)

\* The same of every document that is ever stored: what an agent tool would
\* commit can be taken back from the version it led to, whichever clients and
\* processes wrote the versions before.
THEOREM LogOpsAreReversible ==
  ASSUME PoolKeepsChildren
  PROVE  Spec => []LogReversible
<1> DEFINE J == \A v \in DOMAIN docs : docs[v] \in RestorableDoc
<1>0. \A d \in RestorableDoc, op \in OpPool : Accepts(d, op) => Applied(d, op) \in RestorableDoc
  BY RestorableStep
<1>1. Init => J
  <2>1. NewDocument(InitialValue, InitialValue) \in RestorableDoc
    BY InitialTyped, NewDocumentRestorable
  <2> QED BY <2>1 DEF Init
<1>2. LogInv /\ J /\ [Next]_vars => J'
  BY <1>0, CommittedStays
<1>3. J => LogReversible
  BY PoolRestores DEF LogReversible
<1> HIDE DEF J
<1> QED BY <1>1, <1>2, <1>3, AlwaysLogInv, PTL DEF Spec

-----------------------------------------------------------------------------
(***************************************************************************)
(* The mutex.                                                              *)
(***************************************************************************)
Holds(c) == call[c].phase \in {"loaded", "applied"}

MutexInv ==
  /\ \A c \in Client : Holds(c) => mutex[call[c].server] = c
  /\ StaleOnlyByOthers

\* A server's mutex keeps its own requests from making each other stale: only a
\* commit of another process can come between a read and a commit.
THEOREM LogStaleOnlyByOthers == Spec => []StaleOnlyByOthers
<1>1. Init => MutexInv
  BY QuietTyped DEF Init, MutexInv, Holds, StaleOnlyByOthers
<1>2. LogInv /\ MutexInv /\ [Next]_vars => MutexInv'
  <2> SUFFICES ASSUME LogInv, MutexInv, [Next]_vars PROVE MutexInv'
    OBVIOUS
  <2>0. /\ call \in [Client -> Request] /\ mutex \in [Server -> Client \union {None}]
        /\ commits \in Seq(CommitRow) /\ Version \in Nat
        /\ \A c \in Client : call[c].cur \in Nat
        /\ \A c \in Client : Holds(c) => call[c].server \in Server
    BY DEF LogInv, Typed, Version, Request, Holds, Consistent
  <2>1. ASSUME NEW c \in Client, Holds(c), Refuse(c)
        PROVE  MutexInv'
    <3>1. /\ call'[c].phase = "idle" /\ \A b \in Client \ {c} : call'[b] = call[b]
          /\ mutex' = [mutex EXCEPT ![call[c].server] = None] /\ commits' = commits
      BY <2>0, <2>1, QuietTyped DEF Refuse, Free
    <3>2. \A b \in Client : Holds(b)' => b # c /\ Holds(b) /\ call[b].server # call[c].server
      BY <2>1, <3>1 DEF Holds, MutexInv
    <3> QED BY <2>0, <2>1, <3>1, <3>2 DEF MutexInv, StaleOnlyByOthers, Holds, Version
  <2>2. ASSUME NEW c \in Client, Load(c)
        PROVE  MutexInv'
    <3>1. /\ call'[c].cur = Version /\ call'[c].server = call[c].server
          /\ \A b \in Client \ {c} : call'[b] = call[b]
          /\ mutex' = [mutex EXCEPT ![call[c].server] = c] /\ commits' = commits
          /\ mutex[call[c].server] = None /\ call[c].server \in Server
      BY <2>0, <2>2 DEF Load, Request, LogInv, Consistent
    <3>2. \A b \in Client \ {c} : Holds(b)' => Holds(b) /\ call[b].server # call[c].server
      BY <3>1, NobodyIsNone DEF Holds, MutexInv
    <3>3. \A b \in Client : Holds(b)' => mutex'[call'[b].server] = b
      BY <2>0, <3>1, <3>2 DEF MutexInv
    <3>4. \A v \in call'[c].cur + 1..Version' : FALSE
      BY <2>0, <3>1 DEF Version
    <3> QED BY <3>1, <3>2, <3>3, <3>4 DEF MutexInv, StaleOnlyByOthers, Holds, Version
  <2>3. ASSUME NEW c \in Client, call[c].phase = "loaded", call' = [call EXCEPT ![c].phase = "applied",
                 ![c].next = Apply(docs[call[c].cur + 1], call[c].ops)],
               UNCHANGED <<docs, commits, mutex, seen>>
        PROVE  MutexInv'
    <3>1. \A b \in Client :
            /\ Holds(b)' => Holds(b)
            /\ call'[b].server = call[b].server /\ call'[b].cur = call[b].cur
      BY <2>0, <2>3 DEF Holds, Request
    <3>2. mutex' = mutex /\ commits' = commits /\ Version' = Version
      BY <2>3 DEF Version
    <3>3. \A b \in Client : Holds(b)' => mutex'[call'[b].server] = b
      BY <3>1, <3>2 DEF MutexInv
    <3>4. ASSUME NEW b \in Client, Holds(b)'
          PROVE  \A v \in call'[b].cur + 1..Version' : commits'[v].at # call'[b].server
      <4>1. \A v \in call[b].cur + 1..Version : commits[v].at # call[b].server
        BY <3>1, <3>4 DEF MutexInv, StaleOnlyByOthers, Holds
      <4>2. call'[b].cur = call[b].cur /\ call'[b].server = call[b].server
        BY <3>1, Zenon
      <4>3. call[b].cur + 1..Version = call'[b].cur + 1..Version'
        BY <3>2, <4>2
      <4> QED BY <3>2, <4>1, <4>2, <4>3
    <3> QED BY <3>3, <3>4 DEF MutexInv, StaleOnlyByOthers, Holds
  <2>4. ASSUME NEW c \in Client, Commit(c), StillCurrent(c)
        PROVE  MutexInv'
    <3> DEFINE row == [at |-> call[c].server, base |-> call[c].base, seq |-> MaxSeq,
                       ops |-> call[c].ops]
    <3>1. /\ call'[c].phase = "committed" /\ \A b \in Client \ {c} : call'[b] = call[b]
          /\ mutex' = [mutex EXCEPT ![call[c].server] = None] /\ commits' = Append(commits, row)
          /\ Holds(c)
      BY <2>0, <2>4 DEF Commit, Free, Holds, Request
    <3>2. \A b \in Client : Holds(b)' => b # c /\ Holds(b) /\ call[b].server # call[c].server
      BY <3>1 DEF Holds, MutexInv
    <3>3. row.at = call[c].server
      OBVIOUS
    <3> HIDE DEF row
    <3>4. /\ Version' = Version + 1 /\ \A v \in 1..Version : commits'[v] = commits[v]
          /\ commits'[Version + 1] = row
      BY <2>0, <3>1 DEF Version
    <3>5. ASSUME NEW b \in Client, Holds(b)', NEW v \in call'[b].cur + 1..Version'
          PROVE  commits'[v].at # call'[b].server
      <4>1. b # c /\ Holds(b) /\ call'[b] = call[b] /\ call[b].server # call[c].server
        BY <3>1, <3>2, <3>5
      <4>2. CASE v = Version + 1
        BY <3>3, <3>4, <4>1, <4>2
      <4>3. CASE v # Version + 1
        <5>1. v \in call[b].cur + 1..Version /\ v \in 1..Version
          BY <2>0, <3>4, <3>5, <4>1, <4>3
        <5> QED BY <3>4, <4>1, <5>1 DEF MutexInv, StaleOnlyByOthers, Holds
      <4> QED BY <4>2, <4>3
    <3>6. \A b \in Client : Holds(b)' => mutex'[call'[b].server] = b
      BY <2>0, <3>1, <3>2 DEF MutexInv
    <3> QED BY <3>5, <3>6 DEF MutexInv, StaleOnlyByOthers, Holds
  <2>5. ASSUME NEW c \in Client, Submit(c) \/ Answer(c) \/ LoseAnswer(c) \/ Refresh(c)
        PROVE  MutexInv'
    <3>1. /\ UNCHANGED <<mutex, commits>>
          /\ \A b \in Client \ {c} : call'[b] = call[b]
          /\ call'[c].phase \in {"idle", "waiting"}
      BY <2>0, <2>5, QuietTyped DEF Submit, Answer, LoseAnswer, Refresh, Quiet
    <3>2. \A b \in Client : Holds(b)' => Holds(b) /\ call'[b] = call[b]
      BY <3>1 DEF Holds
    <3> QED BY <3>1, <3>2 DEF MutexInv, StaleOnlyByOthers, Holds, Version
  <2>6. ASSUME UNCHANGED vars PROVE MutexInv'
    BY <2>6 DEF vars, MutexInv, StaleOnlyByOthers, Holds, Version
  <2>7. ASSUME NEW c \in Client, Check(c) PROVE MutexInv'
    BY <2>1, <2>3, <2>7 DEF Check, Holds
  <2>8. ASSUME NEW c \in Client, Commit(c) PROVE MutexInv'
    BY <2>1, <2>4, <2>8 DEF Commit, Holds
  <2>9. ASSUME NEW c \in Client, Fail(c) PROVE MutexInv'
    BY <2>1, <2>9 DEF Fail, Holds
  <2> QED BY <2>2, <2>5, <2>6, <2>7, <2>8, <2>9 DEF Next
<1>3. MutexInv => StaleOnlyByOthers
  BY DEF MutexInv
<1> QED BY <1>1, <1>2, <1>3, AlwaysLogInv, PTL DEF Spec

-----------------------------------------------------------------------------
(***************************************************************************)
(* No silent overwrite, as long as every batch is one op.  Then the table  *)
(* has one row for a version, the limit of ListOpsSinceVersion cuts        *)
(* nothing off, and rebaseable sees every op the request missed.           *)
(***************************************************************************)
OneOpEach == \A ops \in Batches : Len(ops) = 1

FieldKinds == {"spec", "title", "state", "parent"}

\* An op that may be merged is blocked by each field that it writes.
LEMMA FieldsAreBlocked ==
  ASSUME NEW op, op.kind \in MergeKinds, NEW k \in Touches(op), k[1] \in FieldKinds
  PROVE  k \in BlockedBy(op)
<1>1. CASE op.kind \in {"add_node", "remove_node"}
  BY <1>1 DEF Touches, FieldKinds
<1>2. CASE op.kind \in {"move_node", "resize_node"}
  BY <1>2 DEF Touches, FieldKinds
<1>3. CASE op.kind \in {"add_edge", "remove_edge"}
  BY <1>3 DEF Touches, FieldKinds
<1>4. CASE op.kind = "set_spec"
  BY <1>4 DEF Touches, BlockedBy
<1>5. CASE op.kind = "set_title"
  BY <1>5 DEF Touches, BlockedBy
<1>6. CASE op.kind = "set_state"
  BY <1>6 DEF Touches, BlockedBy
<1>7. CASE op.kind = "set_parent"
  BY <1>7 DEF Touches, BlockedBy
<1> QED BY <1>1, <1>2, <1>3, <1>4, <1>5, <1>6, <1>7 DEF MergeKinds

LEMMA RebasedIsApart ==
  ASSUME NEW ops, NEW missing, NEW past, rebaseable(ops, missing), OpsIn(past) \subseteq missing
  PROVE  Fields(ops) \intersect Fields(past) = {}
<1> SUFFICES ASSUME NEW k \in Fields(ops), k \in Fields(past) PROVE FALSE
  OBVIOUS
<1>1. PICK op \in OpsIn(ops) : k \in Touches(op)
  BY DEF Fields
<1>2. k[1] \in FieldKinds /\ op.kind \in MergeKinds
  BY <1>1 DEF Fields, FieldKinds, rebaseable
<1>3. k \in BlockedBy(op)
  BY <1>1, <1>2, FieldsAreBlocked
<1>4. k \in UNION {Touches(o) : o \in missing}
  BY DEF Fields
<1> QED BY <1>1, <1>3, <1>4 DEF rebaseable

Apart(ops, since, until) ==
  \A w \in since + 1..until : Fields(ops) \intersect Fields(commits[w].ops) = {}

OverwriteInv ==
  /\ \A v \in 1..Version : commits[v].seq = v - 1
  /\ \A c \in Client : call[c].phase = "applied" => Apart(call[c].ops, call[c].base, call[c].cur)
  /\ NoSilentOverwrite

LEMMA MissedAreListed ==
  ASSUME LogInv, OneOpEach, \A v \in 1..Version : commits[v].seq = v - 1,
         NEW since \in Nat, NEW w \in since + 1..Version, NEW limit \in Nat, w - since <= limit
  PROVE  OpsIn(commits[w].ops) \subseteq ListOpsSinceVersion(since, limit)
<1>1. /\ Version \in Nat /\ w \in 1..Version /\ since + 1 \in 1..Version
      /\ commits[w] \in CommitRow
  BY DEF LogInv, Typed, Version
<1>2. DOMAIN commits[w].ops = {1}
  <2>1. commits[w].ops \in Batches /\ Len(commits[w].ops) = 1
    BY <1>1 DEF CommitRow, OneOpEach
  <2>2. commits[w].ops \in Seq(OpPool)
    BY <2>1, BatchOfPool
  <2> QED BY <2>1, <2>2
<1>3. commits[w].seq = w - 1 /\ commits[since + 1].seq = since
  BY <1>1
<1>4. commits[w].seq + 1 - commits[since + 1].seq <= limit
  BY <1>1, <1>3
<1>5. OpsIn(commits[w].ops) \subseteq
        {commits[w].ops[i] : i \in {j \in DOMAIN commits[w].ops :
                                      commits[w].seq + j - commits[since + 1].seq <= limit}}
  BY <1>2, <1>4 DEF OpsIn
<1> QED BY <1>5 DEF ListOpsSinceVersion

LEMMA OverwriteCommit ==
  ASSUME LogInv, OneOpEach, OverwriteInv, NEW c \in Client, Commit(c), StillCurrent(c)
  PROVE  OverwriteInv'
<1> DEFINE row == [at |-> call[c].server, base |-> call[c].base, seq |-> MaxSeq,
                   ops |-> call[c].ops]
<1>1. /\ commits \in Seq(CommitRow) /\ Version \in Nat /\ call \in [Client -> Request]
      /\ call[c].phase = "applied" /\ call[c].cur = Version
  BY DEF LogInv, Typed, Version, Commit, StillCurrent
<1>2. commits' = Append(commits, row)
  BY DEF Commit
<1>3. row.seq = MaxSeq /\ row.base = call[c].base /\ row.ops = call[c].ops
  OBVIOUS
<1>4. MaxSeq = Version
  <2>1. CASE commits = <<>>
    BY <2>1 DEF MaxSeq, Version
  <2>2. CASE commits # <<>>
    <3>1. Version \in 1..Version /\ commits[Version] \in CommitRow
      BY <1>1, <2>2 DEF Version
    <3>2. Len(commits[Version].ops) = 1 /\ commits[Version].seq = Version - 1
      BY <3>1 DEF CommitRow, OneOpEach, OverwriteInv
    <3> QED BY <1>1, <2>2, <3>2 DEF MaxSeq
  <2> QED BY <2>1, <2>2
<1> HIDE DEF row
<1>5. /\ Version' = Version + 1 /\ \A v \in 1..Version : commits'[v] = commits[v]
      /\ commits'[Version + 1] = row
  BY <1>1, <1>2 DEF Version
<1>6. \A b \in Client : call'[b].phase = "applied" => call'[b] = call[b]
  BY <1>1 DEF Commit, Request
<1>7. \A v \in 1..Version' : commits'[v].seq = v - 1
  BY <1>1, <1>3, <1>4, <1>5 DEF OverwriteInv
<1>8. ASSUME NEW b \in Client, call'[b].phase = "applied"
      PROVE  Apart(call[b].ops, call[b].base, call[b].cur)'
  <2>1. call'[b] = call[b] /\ call[b].cur \in 0..Version /\ call[b].base \in Nat
    BY <1>1, <1>6, <1>8 DEF LogInv, Consistent, Served, Request
  <2>2. Apart(call[b].ops, call[b].base, call[b].cur)
    BY <1>8, <2>1 DEF OverwriteInv
  <2>3. \A w \in call[b].base + 1..call[b].cur : commits'[w] = commits[w]
    BY <1>1, <1>5, <2>1
  <2> QED BY <2>1, <2>2, <2>3 DEF Apart
<1>9. NoSilentOverwrite'
  <2>1. ASSUME NEW v \in 1..Version', NEW w \in commits'[v].base + 1..v - 1
        PROVE  Fields(commits'[v].ops) \intersect Fields(commits'[w].ops) = {}
    <3>1. CASE v = Version + 1
      <4>1. Apart(call[c].ops, call[c].base, Version) /\ call[c].base \in Nat
        BY <1>1 DEF OverwriteInv, Request
      <4>2. w \in call[c].base + 1..Version /\ w \in 1..Version
        BY <1>1, <1>3, <1>5, <2>1, <3>1, <4>1
      <4> QED BY <1>3, <1>5, <3>1, <4>1, <4>2 DEF Apart
    <3>2. CASE v # Version + 1
      <4>0. v \in 1..Version
        BY <1>1, <1>5, <3>2
      <4>4. commits[v] \in CommitRow
        BY <1>1, <4>0 DEF Version
      <4>1. commits'[v] = commits[v] /\ commits[v].base \in Nat
        BY <1>5, <4>0, <4>4 DEF CommitRow
      <4>2. w \in 1..Version /\ commits'[w] = commits[w]
        BY <1>1, <1>5, <2>1, <4>0, <4>1
      <4> QED BY <2>1, <4>0, <4>1, <4>2 DEF OverwriteInv, NoSilentOverwrite
    <3> QED BY <3>1, <3>2
  <2> QED BY <2>1 DEF NoSilentOverwrite
<1> QED BY <1>7, <1>8, <1>9 DEF OverwriteInv, Apart

LEMMA OverwriteCheck ==
  ASSUME LogInv, OneOpEach, OverwriteInv, NEW c \in Client, Check(c), ~ Refuse(c)
  PROVE  OverwriteInv'
<1>1. /\ Admits(c) /\ call[c].phase = "loaded" /\ commits' = commits
      /\ call' = [call EXCEPT ![c].phase = "applied",
                             ![c].next = Apply(docs[call[c].cur + 1], call[c].ops)]
  BY DEF Check
<1>2. /\ call \in [Client -> Request] /\ call[c].cur \in 0..Version /\ call[c].base \in Nat
      /\ Version \in Nat
  BY <1>1 DEF LogInv, Typed, Consistent, Served, Version, Request
<1>3. ASSUME NEW w \in call[c].base + 1..call[c].cur
      PROVE  Fields(call[c].ops) \intersect Fields(commits[w].ops) = {}
  <2> DEFINE limit == (call[c].cur - call[c].base) + Slack
             missing == ListOpsSinceVersion(call[c].base, limit)
  <2>1. /\ w \in call[c].base + 1..Version /\ limit \in Nat /\ w - call[c].base <= limit
        /\ call[c].base # call[c].cur
    BY <1>2, <1>3, SlackTyped
  <2>2. rebaseable(call[c].ops, missing)
    BY <1>1, <2>1 DEF Admits
  <2> HIDE DEF limit
  <2>3. OpsIn(commits[w].ops) \subseteq missing
    BY <1>2, <2>1, MissedAreListed DEF OverwriteInv
  <2> HIDE DEF missing
  <2> QED BY <2>2, <2>3, RebasedIsApart
<1>4. Apart(call[c].ops, call[c].base, call[c].cur)
  BY <1>3 DEF Apart
<1>5. \A b \in Client :
        /\ call'[b].ops = call[b].ops /\ call'[b].base = call[b].base
        /\ call'[b].cur = call[b].cur
        /\ b # c => call'[b].phase = call[b].phase
  BY <1>1, <1>2 DEF Request
<1>6. ASSUME NEW b \in Client, call'[b].phase = "applied"
      PROVE  Apart(call[b].ops, call[b].base, call[b].cur)
  <2>1. CASE b = c
    BY <1>4, <2>1
  <2>2. CASE b # c
    BY <1>5, <1>6, <2>2 DEF OverwriteInv
  <2> QED BY <2>1, <2>2
<1>7. Version' = Version
  BY <1>1 DEF Version
<1>8. (\A v \in 1..Version : commits[v].seq = v - 1)' /\ NoSilentOverwrite'
  BY <1>1, <1>7 DEF OverwriteInv, NoSilentOverwrite
<1>9. ASSUME NEW b \in Client, call'[b].phase = "applied"
      PROVE  Apart(call[b].ops, call[b].base, call[b].cur)'
  <2>1. /\ call'[b].ops = call[b].ops /\ call'[b].base = call[b].base
        /\ call'[b].cur = call[b].cur
    BY <1>5
  <2> QED BY <1>1, <1>6, <1>9, <2>1 DEF Apart
<1> QED BY <1>8, <1>9 DEF OverwriteInv

\* ATK-11: if every batch is one op, no commit overwrites a field that its
\* client had not seen written.  (A run shows the same of mixed batches; behind
\* batches longer than the slack it does not hold.)
THEOREM LogNoSilentOverwrite ==
  ASSUME OneOpEach
  PROVE  Spec => []NoSilentOverwrite
<1>1. Init => OverwriteInv
  BY QuietTyped DEF Init, OverwriteInv, NoSilentOverwrite, Version
<1>2. LogInv /\ OverwriteInv /\ [Next]_vars => OverwriteInv'
  <2>1. ASSUME OverwriteInv, commits' = commits,
               \A b \in Client : call'[b].phase = "applied" => call'[b] = call[b]
        PROVE  OverwriteInv'
    <3>1. Version' = Version
      BY <2>1 DEF Version
    <3>2. ASSUME NEW b \in Client, call'[b].phase = "applied"
          PROVE  Apart(call[b].ops, call[b].base, call[b].cur)'
      BY <2>1, <3>2 DEF OverwriteInv, Apart
    <3>3. (\A v \in 1..Version : commits[v].seq = v - 1)' /\ NoSilentOverwrite'
      BY <2>1, <3>1 DEF OverwriteInv, NoSilentOverwrite
    <3> QED BY <3>2, <3>3 DEF OverwriteInv, Apart
  <2>2. ASSUME LogInv, NEW c \in Client,
               \/ Refuse(c) \/ Submit(c) \/ Load(c) \/ Answer(c) \/ LoseAnswer(c) \/ Refresh(c)
        PROVE  commits' = commits /\ \A b \in Client : call'[b].phase = "applied" => call'[b] = call[b]
    <3>1. commits' = commits
      BY <2>2 DEF Refuse, Submit, Load, Answer, LoseAnswer, Refresh
    <3>2. (\A b \in Client \ {c} : call'[b] = call[b])
      BY <2>2 DEF Refuse, Submit, Load, Answer, LoseAnswer, Refresh, LogInv, Typed
    <3>3. call'[c].phase # "applied" \/ call'[c] = call[c]
      <4>1. call \in [Client -> Request] /\ Quiet.phase = "idle"
        BY <2>2, QuietTyped DEF LogInv, Typed
      <4>2. ASSUME Refuse(c) \/ Answer(c) \/ LoseAnswer(c) PROVE call'[c] = Quiet
        BY <4>1, <4>2 DEF Refuse, Answer, LoseAnswer
      <4>3. ASSUME Submit(c) PROVE call'[c].phase = "waiting"
        BY <4>1, <4>3 DEF Submit, Quiet
      <4>4. ASSUME Load(c) PROVE call'[c].phase = "loaded"
        BY <4>1, <4>4 DEF Load, Request
      <4> QED BY <2>2, <4>1, <4>2, <4>3, <4>4 DEF Refresh
    <3> QED BY <3>1, <3>2, <3>3
  <2>3. ASSUME LogInv, OverwriteInv, NEW c \in Client, Check(c) PROVE OverwriteInv'
    BY <2>1, <2>2, <2>3, OverwriteCheck
  <2>4. ASSUME LogInv, OverwriteInv, NEW c \in Client, Commit(c) PROVE OverwriteInv'
    BY <2>1, <2>2, <2>4, OverwriteCommit DEF Commit
  <2>5. ASSUME OverwriteInv, UNCHANGED vars PROVE OverwriteInv'
    BY <2>1, <2>5 DEF vars
  <2> QED BY <2>1, <2>2, <2>3, <2>4, <2>5 DEF Next, Fail
<1>3. OverwriteInv => NoSilentOverwrite
  BY DEF OverwriteInv
<1> QED BY <1>1, <1>2, <1>3, AlwaysLogInv, PTL DEF Spec
==============================================================================
