----------------------------- MODULE AgentTools -----------------------------
(***************************************************************************)
(* The tools of the canvas agent (internal/agent): which tools there are,  *)
(* what a permission mode lets through without asking, and what a call     *)
(* means.  The meaning of a call is a plan: attachments to store, ops to   *)
(* append to the canvas, a run to trigger, a skill to save.  AgentTurn     *)
(* carries plans out step by step.                                         *)
(*                                                                         *)
(* The arguments of a call are a record; strings, sizes and coordinates    *)
(* are those of CanvasOps.  Parameters that only travel on to a provider   *)
(* (model, size, quality, ...) are fields without a meaning here.          *)
(***************************************************************************)
EXTENDS CanvasRebase, SequencesExt, TLC

CONSTANTS
  DefaultWidth,       \* [NodeType -> Int], defaultSize of the schema
  InputOrder,         \* [NodeType -> Seq(PortId)], the inputs as the schema lists them
  PlaceGap,           \* distance kept between nodes that are placed
  MaxItems,           \* texts or attachments in one call (20 in the code)
  NoArguments         \* a call that carries no arguments at all

ASSUME OrderTyped == \A t \in NodeType : Range(InputOrder[t]) = Inputs[t]

(***************************************************************************)
(* The tables.  A tool has a scope, the approval its definition declares,  *)
(* whether it costs money, and the fields its schema declares.             *)
(***************************************************************************)
Tool(scope, approval, costs, fields) ==
  [scope |-> scope, approval |-> approval, costs |-> costs, fields |-> fields]
Reader(fields) == Tool("read", "auto", FALSE, fields)
Writer(fields) == Tool("write", "confirm", FALSE, fields)
Spender(fields) == Tool("write", "confirm", TRUE, fields)

canvasTools ==
     "canvas.get_state"               :> Reader({"limit"})
  @@ "canvas.get_selection"           :> Reader({})
  @@ "canvas.export_snapshot"         :> Reader({})
  @@ "canvas.apply_ops"               :> Writer({"ops"})
  @@ "canvas.create_text_node"        :> Tool("write", "auto", FALSE, {"text", "x", "y", "title"})
  @@ "canvas.create_generation_flow"  :> Spender({"prompt", "capability", "model"})
  @@ "canvas.run_generation"          :> Spender({"nodeIds"})

libraryTools ==
     "assets.search"                  :> Reader({"query", "kind", "limit"})
  @@ "prompts.search"                 :> Reader({"query", "tags", "limit"})
  @@ "runs.list"                      :> Reader({"limit"})
  @@ "runs.get"                       :> Reader({"runId"})
  @@ "canvas.create_attachment_nodes" :> Writer({"attachments", "originX", "originY"})
  @@ "skills.list"                    :> Reader({})
  @@ "skills.save" :> Writer({"name", "description", "instructions", "enabled", "tags"})

ToolSet == canvasTools @@ libraryTools

upstreamAliases ==
     "canvas_get_state"               :> "canvas.get_state"
  @@ "canvas_get_selection"           :> "canvas.get_selection"
  @@ "canvas_export_snapshot"         :> "canvas.export_snapshot"
  @@ "canvas_apply_ops"               :> "canvas.apply_ops"
  @@ "canvas_create_text_node"        :> "canvas.create_text_node"
  @@ "canvas_create_generation_flow"  :> "canvas.create_generation_flow"
  @@ "canvas_create_attachment_nodes" :> "canvas.create_attachment_nodes"
  @@ "canvas_run_generation"          :> "canvas.run_generation"
  @@ "prompts_search"                 :> "prompts.search"
  @@ "assets_list"                    :> "assets.search"

generationOptionProps ==
  {"model", "size", "quality", "count", "seconds", "vquality", "generateAudio",
   "watermark", "videoMode", "audioVoice", "audioFormat", "audioSpeed",
   "audioInstructions"}

genFlowSchema(extra) ==
  Spender(extra \union generationOptionProps \union {"referenceNodeIds"})

Generators ==
  {"canvas_generate_text", "canvas_generate_image", "canvas_generate_video",
   "canvas_generate_audio"}

FlowTools == Generators \union {"canvas_create_config_node", "canvas_create_image_prompt_flow"}

creatingTools ==
     "site_navigate"              :> Reader({"path"})
  @@ "canvas_list_projects"       :> Reader({"keyword", "page", "pageSize"})
  @@ "canvas_create_node"         :> Writer({"nodeType", "title", "x", "y", "width", "height",
                                             "metadata"})
  @@ "canvas_create_text_nodes"   :> Writer({"items", "x", "y", "gap", "direction"})
  @@ "canvas_create_config_node"  :> genFlowSchema({"prompt", "mode", "title", "x", "y",
                                                    "autoRun", "promptId"})
  @@ "canvas_create_image_prompt_flow" :> genFlowSchema({"prompt", "x", "y", "autoRun"})
  @@ [t \in Generators |-> genFlowSchema({"prompt"})]

editingTools ==
     "canvas_update_node"         :> Writer({"id", "title", "patch", "metadata"})
  @@ "canvas_update_node_text"    :> Writer({"id", "text", "title"})
  @@ "canvas_move_nodes"          :> Writer({"items"})
  @@ "canvas_resize_node"         :> Writer({"id", "width", "height"})
  @@ "canvas_delete_nodes"        :> Writer({"ids"})
  @@ "canvas_connect_nodes"       :> Writer({"connections"})
  @@ "canvas_select_nodes"        :> Writer({"ids"})
  @@ "canvas_set_viewport"        :> Writer({"viewport"})

workbenchTools ==
     "generation_get_status"      :> Reader({"scope", "taskId", "nodeIds", "limit"})
  @@ "workbench_image_get_config" :> Reader({})
  @@ "workbench_video_get_config" :> Reader({})
  @@ "workbench_image_generate"   :> Spender({"prompt", "model", "quality", "size", "count",
                                              "run"})
  @@ "workbench_video_generate"   :> Spender({"prompt", "model", "size", "seconds",
                                              "resolution", "generateAudio", "watermark",
                                              "mode", "run"})
  @@ "assets_add"                 :> Writer({"kind", "title", "content", "imageUrl", "tags",
                                             "source", "note"})

upstreamToolDefs == creatingTools @@ editingTools @@ workbenchTools

\* What the proofs need to know of the tables: TLC evaluates it, as @@ and :>
\* have no definition that the provers could use.
ASSUME FlowsAreUpstream ==
  /\ FlowTools \subseteq DOMAIN upstreamToolDefs
  /\ "canvas.run_generation" \notin DOMAIN upstreamToolDefs

\* An alias has the definition of the tool it stands for.
UpstreamToolSet ==
  [name \in DOMAIN upstreamAliases |-> ToolSet[upstreamAliases[name]]] @@ upstreamToolDefs

ToolByName == ToolSet @@ UpstreamToolSet

\* Mutation: the approval that the tool declares decides.
ApprovalForDeclared(tool, mode) == IF mode = "full" THEN "auto" ELSE tool.approval

\* The mode decides, not the approval the tool declares; what costs money asks.
ApprovalFor(tool, mode) ==
  IF mode = "full" \/ (tool.scope = "read" /\ ~tool.costs) THEN "auto" ELSE "confirm"

(***************************************************************************)
(* Calls and plans.                                                        *)
(***************************************************************************)
Has(call, field) == call.args # NoArguments /\ field \in DOMAIN call.args
Arg(call, field, default) == IF Has(call, field) THEN call.args[field] ELSE default

\* Unknown fields are refused, and so is the absence of arguments.
strictDecode(call, fields) == call.args # NoArguments /\ DOMAIN call.args \subseteq fields

Answer == [refused |-> FALSE, stores |-> 0, ops |-> <<>>, run |-> {}, adhoc |-> FALSE,
           skill |-> None]
Refused == [Answer EXCEPT !.refused = TRUE]
RefusedAfter(stores) == [Refused EXCEPT !.stores = stores]
If(guard, plan) == IF guard THEN plan ELSE Refused
Edit(ops) == [Answer EXCEPT !.ops = ops]

Empty == [k \in {} |-> k]

NewNode(type, title, x, w, spec, meta) ==
  [type |-> type, parent |-> None, x |-> x, w |-> w, title |-> title, spec |-> spec,
   meta |-> meta, state |-> Idle, result |-> None, error |-> None]

Add(n, node) == [kind |-> "add_node", id |-> n, node |-> node]
Link(e, from, fromPort, to, toPort) ==
  [kind |-> "add_edge", id |-> e,
   edge |-> [from |-> from, fromPort |-> fromPort, to |-> to, toPort |-> toPort]]
Rename(n, title) == [kind |-> "set_title", id |-> n, title |-> title]
Specify(n, patch, meta) ==
  [kind |-> "set_spec", id |-> n, patch |-> patch, unset |-> {}, meta |-> meta,
   metaUnset |-> {}]

\* The ids a call takes follow those handed out before; ids count up from 1.
NodesOf(plan) == Cardinality({i \in DOMAIN plan.ops : plan.ops[i].kind = "add_node"})
EdgesOf(plan) == Cardinality({i \in DOMAIN plan.ops : plan.ops[i].kind = "add_edge"})

(***************************************************************************)
(* The tools that translate to ops.                                        *)
(***************************************************************************)
kindFromNodeType ==
  "text" :> "prompt" @@ "config" :> "generation" @@ "image" :> "image"
    @@ "video" :> "video" @@ "audio" :> "audio" @@ "group" :> "group"

defaultSpecFor(type) ==
  CASE type = "prompt"     -> "text" :> "a"
    [] type = "generation" -> "capability" :> "image.generate"
    [] OTHER               -> Empty

validateSize(w) == w \in SizeMin..SizeMax

translateCreateNode(call, ids) ==
  LET type == kindFromNodeType[call.args.nodeType]
      w == Arg(call, "width", DefaultWidth[type])
  IN If(/\ strictDecode(call, upstreamToolDefs["canvas_create_node"].fields)
        /\ Arg(call, "nodeType", NoTitle) \in DOMAIN kindFromNodeType
        /\ validateSize(w),
        Edit(<<Add(ids.node + 1,
                   NewNode(type, Arg(call, "title", NoTitle), Arg(call, "x", 0), w,
                           defaultSpecFor(type), Arg(call, "metadata", Empty)))>>))

\* The texts are laid out one after the other unless they bring coordinates.
translateCreateTextNodes(call, ids) ==
  LET items == Arg(call, "items", <<>>)
      step == DefaultWidth["prompt"] + PlaceGap
      At(i) == Arg(call, "x", 0)
                 + IF Arg(call, "direction", "column") = "row" THEN (i - 1) * step ELSE 0
  IN If(/\ strictDecode(call, upstreamToolDefs["canvas_create_text_nodes"].fields)
        /\ Len(items) \in 1..MaxItems
        /\ Arg(call, "direction", "column") \in {"row", "column"}
        /\ \A i \in DOMAIN items : items[i].text # NoTitle,
        Edit([i \in DOMAIN items |->
                Add(ids.node + i, NewNode("prompt", NoTitle, At(i), DefaultWidth["prompt"],
                                          "text" :> items[i].text, Empty))]))

\* Title, spec and metadata are three ops; at least one must be asked for.
translateUpdateNode(call) ==
  LET n == call.args.id
      patch == Arg(call, "patch", Empty)
      meta == Arg(call, "metadata", Empty)
      ops == (IF Has(call, "title") THEN <<Rename(n, call.args.title)>> ELSE <<>>)
               \o (IF DOMAIN patch # {} THEN <<Specify(n, patch, Empty)>> ELSE <<>>)
               \o (IF DOMAIN meta # {} THEN <<Specify(n, Empty, meta)>> ELSE <<>>)
  IN If(/\ strictDecode(call, upstreamToolDefs["canvas_update_node"].fields)
        /\ Has(call, "id")
        /\ ops # <<>>,
        Edit(ops))

translateUpdateNodeText(call) ==
  LET n == call.args.id IN
  If(/\ strictDecode(call, upstreamToolDefs["canvas_update_node_text"].fields)
     /\ Has(call, "id") /\ Has(call, "text"),
     Edit(<<Specify(n, "text" :> call.args.text, Empty)>>
            \o IF Has(call, "title") THEN <<Rename(n, call.args.title)>> ELSE <<>>))

\* Coordinates and offsets exclude each other; an offset stays an offset.
translateMoveNodes(call) ==
  LET items == Arg(call, "items", <<>>)
      Given(i, f) == f \in DOMAIN items[i]
  IN If(/\ strictDecode(call, upstreamToolDefs["canvas_move_nodes"].fields)
        /\ items # <<>>
        /\ \A i \in DOMAIN items : ~(Given(i, "x") /\ Given(i, "dx")),
        Edit([i \in DOMAIN items |->
                [kind |-> "move_node", id |-> items[i].id, delta |-> Given(i, "dx"),
                 x |-> IF Given(i, "dx") THEN items[i].dx
                       ELSE IF Given(i, "x") THEN items[i].x ELSE 0]]))

translateResizeNode(call) ==
  If(/\ strictDecode(call, upstreamToolDefs["canvas_resize_node"].fields)
     /\ Has(call, "id")
     /\ validateSize(Arg(call, "width", 0)),
     Edit(<<[kind |-> "resize_node", id |-> call.args.id, w |-> call.args.width]>>))

translateDeleteNodes(call) ==
  LET ids == Arg(call, "ids", <<>>) IN
  If(/\ strictDecode(call, upstreamToolDefs["canvas_delete_nodes"].fields)
     /\ ids # <<>>,
     Edit([i \in DOMAIN ids |->
             [kind |-> "remove_node", id |-> ids[i], cascade |-> TRUE]]))

translateConnectNodes(call) ==
  LET wanted == Arg(call, "connections", <<>>) IN
  /\ strictDecode(call, upstreamToolDefs["canvas_connect_nodes"].fields)
  /\ wanted # <<>>
  /\ \A i \in DOMAIN wanted : wanted[i].from # wanted[i].to

(***************************************************************************)
(* The tools that read the document first.                                 *)
(***************************************************************************)
\* The pairs of ports that could be joined, first input of the schema first.
PortPairs(from, to) ==
  FlattenSeq([i \in DOMAIN InputOrder[to] |->
    SetToSeq({<<out, InputOrder[to][i]>> :
       out \in {o \in Outputs[from] :
                  KindOf[<<from, o>>] = KindOf[<<to, InputOrder[to][i]>>]}})])

matchPorts(from, to) == PortPairs(from, to)

toolConnectNodes(doc, call, ids) ==
  LET wanted == Arg(call, "connections", <<>>)
      ports(i) == matchPorts(doc.node[wanted[i].from].type, doc.node[wanted[i].to].type)
  IN If(/\ translateConnectNodes(call)
        /\ \A i \in DOMAIN wanted : /\ wanted[i].from \in Present(doc)
                                    /\ wanted[i].to \in Present(doc)
                                    /\ ports(i) # <<>>,
        Edit([i \in DOMAIN wanted |->
                Link(ids.edge + i, wanted[i].from, Head(ports(i))[1],
                     wanted[i].to, Head(ports(i))[2])]))

capabilityForTool(name, mode) ==
  CASE name = "canvas_generate_text"  -> "text.generate"
    [] name = "canvas_generate_video" -> "video.generate"
    [] name = "canvas_generate_audio" -> "audio.generate"
    [] name \in {"canvas_generate_image", "canvas_create_image_prompt_flow"} -> "image.generate"
    [] OTHER -> ("text" :> "text.generate" @@ "image" :> "image.generate"
                   @@ "video" :> "video.generate" @@ "audio" :> "audio.generate"
                   @@ mode :> None)[mode]

\* A prompt (unless it is empty), a generation node, and the edges between
\* the prompt, the references and the generation node.
Flow(ids, prompt, capability, x, refs) ==
  LET p == IF prompt = NoTitle THEN 0 ELSE 1
      gen == ids.node + p + 1
      first == ids.node + 1
      promptOps ==
        IF p = 0 THEN <<>>
        ELSE <<Add(first, NewNode("prompt", NoTitle, x, DefaultWidth["prompt"],
                                  "text" :> prompt, Empty))>>
      genOps == <<Add(gen, NewNode("generation", NoTitle,
                                   x + DefaultWidth["prompt"] + PlaceGap,
                                   DefaultWidth["generation"],
                                   "capability" :> capability, Empty))>>
      edgeOps == IF p = 0 THEN <<>> ELSE <<Link(ids.edge + 1, first, "out", gen, "prompt")>>
      refOps == [i \in DOMAIN refs |-> Link(ids.edge + p + i, refs[i], "out", gen, "ref")]
  IN [Answer EXCEPT !.ops = promptOps \o genOps \o edgeOps \o refOps, !.run = {gen}]

FlowFields ==
  {"prompt", "mode", "title", "x", "y", "autoRun", "referenceNodeIds", "model", "count",
   "size", "quality"}

Running(call) == call.name \in Generators \/ Arg(call, "autoRun", FALSE)

\* Mutation: only autoRun triggers the run.
RunsIfAsked(call) == Arg(call, "autoRun", FALSE)

RunsAtOnce(call) == Running(call)

toolCreateGenerationFlow(doc, call, ids) ==
  LET prompt == Arg(call, "prompt", NoTitle)
      capability == capabilityForTool(call.name, Arg(call, "mode", "image"))
      refs == Arg(call, "referenceNodeIds", <<>>)
      flow == Flow(ids, prompt, capability, Arg(call, "x", 0), refs)
  IN If(/\ strictDecode(call, FlowFields)
        /\ capability # None
        /\ call.name \in Generators => prompt # NoTitle
        /\ Range(refs) \subseteq Present(doc),
        IF RunsAtOnce(call) THEN flow ELSE [flow EXCEPT !.run = {}])

runGeneration(doc, call) ==
  If(/\ strictDecode(call, {"nodeIds"})
     /\ Arg(call, "nodeIds", {}) # {}
     /\ call.args.nodeIds \subseteq Present(doc),
     [Answer EXCEPT !.run = call.args.nodeIds])

toolSetViewport(call) ==
  If(strictDecode(call, {"viewport"}) /\ Has(call, "viewport"),
     Edit(<<[kind |-> "set_viewport", value |-> call.args.viewport]>>))

(***************************************************************************)
(* The attachments are stored before the nodes that show them are added, to*)
(* the right of what is there; one that brings nothing ends the call, and  *)
(* those before it stay stored.                                            *)
(***************************************************************************)
RightOf(doc) ==
  IF Present(doc) = {} THEN 0
  ELSE Max({doc.node[n].x + doc.node[n].w : n \in Present(doc)})

createAttachmentNodes(doc, call, ids) ==
  LET items == Arg(call, "attachments", <<>>)
      missing == {i \in DOMAIN items : ~items[i].given}
      At(i) == RightOf(doc) + PlaceGap + (i - 1) * (DefaultWidth["image"] + PlaceGap)
  IN CASE ~strictDecode(call, {"attachments", "originX", "originY"}) -> Refused
       [] Len(items) \notin 1..MaxItems -> Refused
       [] missing # {} -> RefusedAfter(Min(missing) - 1)
       [] OTHER ->
            [Answer EXCEPT
               !.stores = Len(items),
               !.ops = [i \in DOMAIN items |->
                          Add(ids.node + i, NewNode("image", NoTitle, At(i),
                                                    DefaultWidth["image"],
                                                    "assetId" :> "a", Empty))]]

toolAssetsAdd(call) ==
  If(/\ strictDecode(call, upstreamToolDefs["assets_add"].fields)
     /\ Has(call, "title")
     /\ \/ Arg(call, "kind", NoTitle) = "text" /\ Has(call, "content")
        \/ Arg(call, "kind", NoTitle) = "image" /\ Has(call, "imageUrl"),
     [Answer EXCEPT !.stores = 1])

(***************************************************************************)
(* The tools without ops.                                                  *)
(***************************************************************************)
\* What only reads answers if its arguments can be read.
Query(call) == If(strictDecode(call, ToolByName[call.name].fields), Answer)

toolWorkbenchGenerate(call) ==
  If(/\ strictDecode(call, {"prompt", "model", "size", "quality", "count", "seconds",
                            "resolution", "generateAudio", "watermark", "mode", "run",
                            "references"})
     /\ Arg(call, "prompt", NoTitle) # NoTitle
     /\ Arg(call, "run", TRUE),
     [Answer EXCEPT !.adhoc = TRUE])

saveSkill(call) ==
  If(/\ call.args # NoArguments
     /\ Has(call, "name") /\ Has(call, "instructions"),
     [Answer EXCEPT !.skill = call.args.name])

toolGenerationStatus(call) ==
  If(/\ strictDecode(call, upstreamToolDefs["generation_get_status"].fields)
     /\ Arg(call, "scope", "canvas") \in {"all", "canvas", "image", "video"},
     Answer)

createTextNode(call, ids) ==
  If(/\ strictDecode(call, {"text", "title", "x", "y"})
     /\ Arg(call, "text", NoTitle) # NoTitle,
     Edit(<<Add(ids.node + 1,
                NewNode("prompt", Arg(call, "title", NoTitle), Arg(call, "x", 0),
                        DefaultWidth["prompt"], "text" :> call.args.text, Empty))>>))

createGenerationFlow(call, ids) ==
  If(/\ strictDecode(call, {"prompt", "capability", "model", "x", "y"})
     /\ Arg(call, "prompt", NoTitle) # NoTitle,
     [Flow(ids, call.args.prompt, Arg(call, "capability", "image.generate"),
           Arg(call, "x", 0), <<>>) EXCEPT !.run = {}])

applyOps(call) ==
  If(strictDecode(call, {"ops"}) /\ Arg(call, "ops", <<>>) # <<>>, Edit(call.args.ops))

(***************************************************************************)
(* ExecuteTool: an alias is the tool it stands for; navigation and the     *)
(* selection are refused (they belong to the browser); the tools that are  *)
(* not named here read, without looking at their arguments.                *)
(***************************************************************************)
Canonical(call) ==
  IF call.name \in DOMAIN upstreamAliases
  THEN [call EXCEPT !.name = upstreamAliases[call.name]] ELSE call

executeUpstream(doc, call, ids) ==
  CASE call.name = "canvas_create_node"                -> translateCreateNode(call, ids)
    [] call.name = "canvas_create_text_nodes"          -> translateCreateTextNodes(call, ids)
    [] call.name \in FlowTools                         -> toolCreateGenerationFlow(doc, call, ids)
    [] call.name = "canvas_update_node"                -> translateUpdateNode(call)
    [] call.name = "canvas_update_node_text"           -> translateUpdateNodeText(call)
    [] call.name = "canvas_move_nodes"                 -> translateMoveNodes(call)
    [] call.name = "canvas_resize_node"                -> translateResizeNode(call)
    [] call.name = "canvas_delete_nodes"               -> translateDeleteNodes(call)
    [] call.name = "canvas_connect_nodes"              -> toolConnectNodes(doc, call, ids)
    [] call.name = "canvas_set_viewport"               -> toolSetViewport(call)
    [] call.name = "canvas_list_projects"              -> Query(call)
    [] call.name = "generation_get_status"             -> toolGenerationStatus(call)
    [] call.name \in {"workbench_image_generate", "workbench_video_generate"} ->
         toolWorkbenchGenerate(call)
    [] call.name = "assets_add"                        -> toolAssetsAdd(call)
    [] call.name \in {"site_navigate", "canvas_select_nodes"} -> Refused
    [] OTHER                                           -> Answer

\* The tools of the library and the canvas.
executeOwn(doc, call, ids) ==
  CASE call.name \in {"assets.search", "prompts.search"} -> Query(call)
    [] call.name = "runs.get"                          -> If(Has(call, "runId"), Query(call))
    [] call.name = "canvas.create_attachment_nodes"    -> createAttachmentNodes(doc, call, ids)
    [] call.name = "skills.save"                       -> saveSkill(call)
    [] call.name = "canvas.apply_ops"                  -> applyOps(call)
    [] call.name = "canvas.create_text_node"           -> createTextNode(call, ids)
    [] call.name = "canvas.create_generation_flow"     -> createGenerationFlow(call, ids)
    [] call.name = "canvas.run_generation"             -> runGeneration(doc, call)
    [] OTHER                                           -> Answer

ExecuteTool(doc, given, ids) ==
  LET call == Canonical(given) IN
  IF call.name \notin DOMAIN ToolByName THEN Refused
  ELSE IF call.name \in DOMAIN upstreamToolDefs THEN executeUpstream(doc, call, ids)
  ELSE executeOwn(doc, call, ids)
=============================================================================
