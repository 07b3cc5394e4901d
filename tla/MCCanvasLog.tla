----------------------------- MODULE MCCanvasLog -----------------------------
(***************************************************************************)
(* Small instances of CanvasLog: one node that two clients edit through    *)
(* two servers, by batches of one op or more.                              *)
(***************************************************************************)
EXTENDS CanvasLog, TLC

CONSTANTS n1, n2, e1, c1, c2, s1, s2

Ports == {"prompt"}
NoPorts == [t \in NodeType |-> {}]
NoKinds == [tp \in NodeType \X Ports |-> "text"]
NoneRequired == [t \in NodeType |-> {}]

Empty == [k \in {} |-> "a"]
Text(v) == [k \in {"text"} |-> v]

Blank(t) ==
  [type |-> t, parent |-> None, x |-> 0, w |-> 2, title |-> NoTitle, spec |-> Empty,
   meta |-> Empty, state |-> Idle, result |-> None, error |-> None]

AddNode == [kind |-> "add_node", id |-> n1, node |-> Blank("gen")]
RemoveNode == [kind |-> "remove_node", id |-> n1, cascade |-> TRUE]
Move == [kind |-> "move_node", id |-> n1, x |-> 1, delta |-> TRUE]
Place == [kind |-> "move_node", id |-> n1, x |-> 3, delta |-> FALSE]
SetTitle(t) == [kind |-> "set_title", id |-> n1, title |-> t]
SetSpec(v) ==
  [kind |-> "set_spec", id |-> n1, patch |-> Text(v), unset |-> {}, meta |-> Empty,
   metaUnset |-> {}]
Done == [kind |-> "set_state", id |-> n1, state |-> "succeeded", result |-> "R", error |-> None]
Look == [kind |-> "set_viewport", value |-> "b"]

EditPool == {AddNode, RemoveNode, Move, Place, SetTitle("t"), SetTitle("u"), SetSpec("a"),
             SetSpec("b"), Done, Look}

\* Requests of one op, as the editor sends most edits and runs write back, and of
\* two.
MixedBatches ==
  {<<AddNode>>, <<AddNode, SetTitle("t")>>, <<SetTitle("u")>>, <<Move, SetSpec("a")>>,
   <<SetSpec("b")>>, <<Done>>, <<SetTitle("t"), RemoveNode>>, <<RemoveNode>>, <<Look>>}

\* A request longer than the slack: a node is dragged along, then edited.
LongBatches ==
  {<<AddNode>>, <<SetSpec("b")>>,
   [i \in 1..18 |-> IF i = 18 THEN SetSpec("a") ELSE Place]}

\* A few requests, for liveness.
FewBatches == {<<AddNode>>, <<SetTitle("t")>>, <<Look>>}

Renaming == Permutations(Client) \union Permutations(Server)
==============================================================================
