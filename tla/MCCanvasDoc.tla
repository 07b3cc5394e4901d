----------------------------- MODULE MCCanvasDoc -----------------------------
(***************************************************************************)
(* Small instances of CanvasDoc.  Two node types besides the group: "gen"  *)
(* has a multiple and a single input port of kind text and outputs of both *)
(* kinds, so that ports can match or not and chains can close.             *)
(*                                                                         *)
(* A canvas is put to one use, chosen in the initial state: a pool of ops  *)
(* and the identifiers they name, all pairs of them where two nodes are    *)
(* enough.                                                                 *)
(***************************************************************************)
EXTENDS CanvasUndo, TLC

CONSTANTS n1, n2, n3, n4, e1, e2, e3, e4, Uses

VARIABLE use

Leftmost == -4

Types == {"gen", "group"}
Ports == {"prompt", "one", "text", "image"}
Kinds == {"text", "image"}

In  == [t \in Types |-> IF t = "gen" THEN {"prompt", "one"} ELSE {}]
Out == [t \in Types |-> IF t = "gen" THEN {"text", "image"} ELSE {}]
Kinded ==
  [tp \in Types \X Ports |-> IF tp[2] = "image" THEN "image" ELSE "text"]
Singles == {<<"gen", "one">>}
NoneRequired == [t \in Types |-> {}]

Empty == [k \in {} |-> "a"]

Blank(t, p) ==
  [type |-> t, parent |-> p, x |-> 0, w |-> 2, title |-> NoTitle, spec |-> Empty,
   meta |-> Empty, state |-> Idle, result |-> None, error |-> None]

AddOps(N, types, parents) ==
  {[kind |-> "add_node", id |-> n, node |-> Blank(t, p)] :
     n \in N, t \in types, p \in parents}
RemoveOps ==
  {[kind |-> "remove_node", id |-> n, cascade |-> c] : n \in NodeId, c \in BOOLEAN}
ParentOps ==
  {[kind |-> "set_parent", id |-> n, parent |-> p] :
     n \in NodeId, p \in NodeId \union {None}}
GroupOps(sets) ==
  {[kind |-> "group", group |-> g, members |-> M, rect |-> None] :
     g \in NodeId, M \in sets}
UngroupOps(keeps) ==
  {[kind |-> "ungroup", group |-> g, keep |-> k] : g \in NodeId, k \in keeps}
EdgeOps(ports) ==
  {[kind |-> "add_edge", id |-> e,
    edge |-> [from |-> m, fromPort |-> p[1], to |-> n, toPort |-> p[2]]] :
     e \in EdgeId, m \in NodeId, n \in NodeId, p \in ports}
  \union {[kind |-> "remove_edge", id |-> e] : e \in EdgeId}

\* Wiring: two types, edges over matching and mismatched ports, groups one deep.
WiringOps ==
  AddOps(NodeId, Types, {None}) \union RemoveOps
    \union EdgeOps({<<"text", "prompt">>, <<"text", "one">>, <<"image", "prompt">>})
    \union GroupOps({{n} : n \in NodeId})
    \union UngroupOps({TRUE})

\* Wiring with the ungroup that does not keep the children.
DiscardOps == WiringOps \union UngroupOps({FALSE})

\* Nesting: groups in groups; a gen node can be placed but not hold others.
NestingOps ==
  AddOps(NodeId, Types, NodeId \union {None}) \union RemoveOps \union ParentOps
    \union UngroupOps({TRUE}) \union GroupOps((SUBSET NodeId) \ {{}})

\* Nesting of groups alone.
GroupingOps == AddOps(NodeId, {"group"}, {None}) \union ParentOps

\* Content: moves over the edges of the coordinate range, groups drawn.
ContentOps(N) ==
  AddOps(N, Types, {None})
    \union {[kind |-> "move_node", id |-> n, x |-> x, delta |-> d] :
              n \in N, x \in {-3, 2, 4}, d \in BOOLEAN}
    \union {[kind |-> "resize_node", id |-> n, w |-> w] : n \in N, w \in {0, 1, 2}}
    \union {[kind |-> "group", group |-> g, members |-> {m}, rect |-> r] :
              g \in N, m \in N, r \in {None, [x |-> 9, w |-> 1]}}
    \union {[kind |-> "set_viewport", value |-> "b"]}
    \union {[kind |-> "set_settings", value |-> "b"]}

\* States: titles, specs and what runs write back.
StateOps(N) ==
  AddOps(N, {"gen"}, {None})
    \union {[kind |-> "set_title", id |-> n, title |-> t] : n \in N, t \in {NoTitle, "t"}}
    \union {[kind |-> "set_spec", id |-> n, patch |-> p, unset |-> u,
             meta |-> m, metaUnset |-> {}] :
              n \in N, p \in {Empty, [k \in {"text"} |-> "a"]},
              u \in {{}, {"text"}}, m \in {Empty, [k \in {"text"} |-> "b"]}}
    \union {[kind |-> "set_state", id |-> n, state |-> "failed",
             result |-> None, error |-> "E"] : n \in N}
    \union {[kind |-> "set_state", id |-> n, state |-> "succeeded",
             result |-> "R", error |-> None] : n \in N}
    \union {[kind |-> "set_state", id |-> n, state |-> Idle,
             result |-> None, error |-> None] : n \in N}

Pool(u) ==
  CASE u.ops = "wiring"   -> WiringOps
    [] u.ops = "discard"  -> DiscardOps
    [] u.ops = "nesting"  -> NestingOps
    [] u.ops = "grouping" -> GroupingOps
    [] u.ops = "content"  -> ContentOps(u.on)
    [] u.ops = "state"    -> StateOps(u.on)

\* No ungroup of these discards the children of its group (PoolKeepsChildren).
KeepingOps ==
  WiringOps \union NestingOps \union ContentOps(NodeId) \union StateOps(NodeId)

AllOps == DiscardOps \union KeepingOps

MCInit ==
  /\ DocInit
  /\ \E u \in Uses :
       use \in {[ops |-> u, on |-> N] :
                  N \in IF u \in {"content", "state"} THEN kSubset(2, NodeId) ELSE {NodeId}}

MCNext == NextOf(Pool(use)) /\ UNCHANGED use

MCSpec == MCInit /\ [][MCNext]_<<doc, use>>

\* What an agent tool applied can be undone (see AlwaysUndone).
UndoRestores == AlwaysUndone(Pool(use))

Renaming == Permutations(NodeId) \union Permutations(EdgeId)
==============================================================================
