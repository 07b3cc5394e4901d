---------------------------- MODULE MCAgentTurn ----------------------------
(***************************************************************************)
(* Small instances of AgentTurn: the builtin node types with their ports,  *)
(* a canvas that holds a prompt (1) and an image (2), ids that count up,   *)
(* and answers of the model of one or two calls.                           *)
(***************************************************************************)
EXTENDS AgentTurn

Types == {"prompt", "image", "video", "audio", "generation", "group"}
Ports == {"out", "in", "prompt", "ref", "text"}
Kinds == {"text", "image", "video", "audio"}

Order ==
  [t \in Types |-> CASE t = "generation" -> <<"prompt", "ref">>
                     [] t \in {"image", "video", "audio"} -> <<"in">>
                     [] OTHER -> <<>>]
In == [t \in Types |-> Range(Order[t])]
Out ==
  [t \in Types |-> CASE t = "generation" -> {"out", "text"}
                     [] t = "group" -> {}
                     [] OTHER -> {"out"}]
Kinded ==
  [tp \in Types \X Ports |->
     CASE tp[1] = "prompt" -> "text"
       [] tp[1] = "generation" -> IF tp[2] \in {"prompt", "text"} THEN "text" ELSE "image"
       [] tp[1] = "group" -> "text"
       [] OTHER -> tp[1]]
Needed ==
  [t \in Types |-> CASE t = "prompt" -> {"text"} [] t = "generation" -> {"capability"}
                     [] OTHER -> {}]
Widths ==
  [t \in Types |-> CASE t = "video" -> 4 [] t = "group" -> 5 [] OTHER -> 3]

NodeAt(t, x, spec) == NewNode(t, NoTitle, x, 3, spec, Empty)

Canvas ==
  [node |-> [n \in NodeId |-> IF n = 1 THEN NodeAt("prompt", 0, "text" :> "a")
                              ELSE IF n = 2 THEN NodeAt("image", 4, Empty) ELSE None],
   edge |-> [e \in EdgeId |-> None], viewport |-> "a", settings |-> "a"]
Ids == [node |-> 2, edge |-> 0]

Call(name, args) == [name |-> name, args |-> args]

Nodeless == Call("canvas.get_state", NoArguments)
Unknown == Call("canvas.explode", [text |-> "a"])
CreateText == Call("canvas_create_text_node", [text |-> "a", x |-> 9])
Generate == Call("canvas_generate_image", [prompt |-> "a", referenceNodeIds |-> <<2>>])
Configure == Call("canvas_create_config_node", [mode |-> "video", autoRun |-> FALSE])
MoveBoth == Call("canvas_move_nodes", [items |-> <<[id |-> 1, x |-> 4], [id |-> 2, dx |-> 1]>>])
Delete == Call("canvas_delete_nodes", [ids |-> <<1>>])
Attach == Call("canvas.create_attachment_nodes", [attachments |-> <<[given |-> TRUE]>>])
AttachTwo ==
  Call("canvas.create_attachment_nodes", [attachments |-> <<[given |-> TRUE], [given |-> FALSE]>>])
Connect == Call("canvas_connect_nodes", [connections |-> <<[from |-> 2, to |-> 3]>>])
Run == Call("canvas.run_generation", [nodeIds |-> {2}])
SaveSkill(name) == Call("skills.save", [name |-> name, instructions |-> "a"])
Workbench == Call("workbench_image_generate", [prompt |-> "a"])
Rewrite == Call("canvas_update_node", [id |-> 1, title |-> "t", patch |-> ("text" :> "b")])

\* One call of each shape of plan, and pairs where the loop matters.
SomeAnswers ==
  {<<>>, <<Nodeless, Unknown>>, <<Nodeless, CreateText>>, <<Generate>>, <<MoveBoth, Run>>,
   <<AttachTwo>>, <<Connect>>, <<Rewrite>>}
FewAnswers == {<<CreateText>>, <<MoveBoth, Run>>, <<SaveSkill("s")>>}
SkillAnswers == {<<SaveSkill("s")>>, <<SaveSkill("r")>>}

Resize == Call("canvas_resize_node", [id |-> 1, width |-> 9])

SomeMcp == {Configure, Attach, SaveSkill("s"), Workbench, Delete, Resize}

SomeEdits ==
  {Rename(1, "t"), [kind |-> "remove_node", id |-> 2, cascade |-> TRUE],
   [kind |-> "set_viewport", value |-> "b"]}
=============================================================================
