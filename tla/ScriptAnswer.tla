---------------------------- MODULE ScriptAnswer ----------------------------
(***************************************************************************)
(* The pure part of the script adapter                                     *)
(* (src/internal/provider/adapter/script/script.go): which request plans   *)
(* of a user's script are sent, and what the adapter makes of the JSON     *)
(* object the upstream answers with.                                       *)
(*                                                                         *)
(* A JSON value is one of                                                  *)
(*   [kind |-> "null"], [kind |-> "number"],                               *)
(*   [kind |-> "string", content |-> c],                                   *)
(*   [kind |-> "list", items |-> sequence of values],                      *)
(*   [kind |-> "object", fields |-> function from names to values].        *)
(* Of a string only what the adapter tells apart is kept, its content:     *)
(* "" (empty), "link" (begins with http:// or https://), "inline" (a data  *)
(* URI that decodes), "damaged" (one that does not), "coded" (base64 that  *)
(* decodes) and "words" (anything else).                                   *)
(***************************************************************************)
EXTENDS Integers, Sequences, SequencesExt

Contents == {"", "link", "inline", "damaged", "coded", "words"}

-----------------------------------------------------------------------------
(* Plans. *)

Methods == {"GET", "POST", "PUT", "PATCH", "DELETE"}

(* Headers the platform sets itself. *)
ReservedHeaders ==
    {"host", "content-length", "connection", "transfer-encoding", "te",
     "upgrade", "expect", "authorization", "proxy-authorization", "cookie"}

(* parsePlan accepts what the script returned. *)
PlanAccepted(p) ==
    /\ p.method \in Methods
    /\ p.path # ""
    /\ p.headers \cap ReservedHeaders = {}
    /\ p.mode \in {"sync", "async"}
    /\ p.mode = "sync" => p.responsePath # <<>>

(* resolveURL: the base address is set, and the path is relative to it or  *)
(* names the same origin.                                                  *)
Resolves(p) == p.base /\ p.path \in {"relative", "underBase"}

-----------------------------------------------------------------------------
(* Responses: how many assets, whether there is text, whether there is a   *)
(* remote task, or a refusal.                                              *)

Refusal == [refused |-> TRUE, assets |-> 0, text |-> FALSE, task |-> FALSE]
Nothing == [Refusal EXCEPT !.refused = FALSE]
AnAsset == [Nothing EXCEPT !.assets = 1]
AText   == [Nothing EXCEPT !.text = TRUE]
ATask   == [Nothing EXCEPT !.task = TRUE]

ResourceFields == <<"base64", "b64_json", "image_base64", "data">>
TextFields     == <<"text", "content", "prompt", "caption", "message">>

(* The content of a value as a string. A number is printed with a decimal  *)
(* point, so it is never base64.                                           *)
Stringified(v) == CASE v.kind = "string" -> v.content
                    [] v.kind = "number" -> "words"
                    [] OTHER -> ""

FieldText(o, name) ==
    IF name \in DOMAIN o.fields THEN Stringified(o.fields[name]) ELSE ""

FirstFilled(o, names) == SelectInSeq(names, LAMBDA n : FieldText(o, n) # "")

(* A string is read by the name of its field first, by its content next.   *)
StringInto(content, field) ==
    CASE content = "" -> Refusal
      [] content # "" /\ field \in ToSet(ResourceFields) ->
           IF content = "coded" THEN AnAsset ELSE Refusal
      [] OTHER -> CASE content \in {"link", "inline"} -> AnAsset
                    [] content = "damaged"            -> Refusal
                    [] OTHER                          -> AText

ObjectInto(o) ==
    LET coded == FirstFilled(o, ResourceFields)
    IN  CASE FieldText(o, "url") # "" ->
               StringInto(FieldText(o, "url"), "url")
          [] FieldText(o, "url") = "" /\ coded # 0 ->
               StringInto(FieldText(o, ResourceFields[coded]),
                          ResourceFields[coded])
          [] OTHER ->
               IF FirstFilled(o, TextFields) # 0 THEN AText ELSE Refusal

(* valueToResponseAt for a value that is not a list. *)
ScalarInto(v, field) ==
    CASE v.kind = "string" -> StringInto(v.content, field)
      [] v.kind = "object" -> ObjectInto(v)
      [] OTHER -> Refusal

(* valueToResponseAt for a list: its entries lose the field's name, and    *)
(* those that mean nothing are passed over. Lists within lists are bounded *)
(* at one level.                                                           *)
ListInto(items) ==
    LET read(i)  == ScalarInto(items[i], "")
        usable   == {i \in DOMAIN items : ~read(i).refused}
        assets   == Cardinality({i \in usable : read(i).assets > 0})
    IN  IF usable = {} THEN Refusal
        ELSE [Nothing EXCEPT !.assets = assets,
                             !.text = \E i \in usable : read(i).text]

ValueInto(v, field) ==
    IF v.kind = "list" THEN ListInto(v.items) ELSE ScalarInto(v, field)

-----------------------------------------------------------------------------
(* lookupPath. A path is a sequence of steps, [name |-> n] for a field and *)
(* [index |-> i] for a position counted from 0, with [0] and .name already *)
(* split.                                                                  *)

PathStep == [name : STRING] \cup [index : Nat]

NotFound == [found |-> FALSE, value |-> [kind |-> "null"], field |-> ""]

StepInto(at, step) ==
    CASE ~at.found -> NotFound
      [] at.found /\ "name" \in DOMAIN step ->
           IF at.value.kind = "object" /\ step.name \in DOMAIN at.value.fields
           THEN [found |-> TRUE, value |-> at.value.fields[step.name],
                 field |-> step.name]
           ELSE NotFound
      [] OTHER ->
           IF at.value.kind = "list" /\ step.index < Len(at.value.items)
           THEN [found |-> TRUE, value |-> at.value.items[step.index + 1],
                 field |-> ""]
           ELSE NotFound

LookupPath(root, path) ==
    LET at[i \in 0..Len(path)] ==
          IF i = 0 THEN [found |-> TRUE, value |-> root, field |-> ""]
                   ELSE StepInto(at[i - 1], path[i])
    IN  at[Len(path)]

\* Mutation: an empty task id is taken for a task.
BuildResponseUnchecked(p, out) ==
    LET at == LookupPath(out, p.responsePath)
    IN  CASE p.mode = "async" -> [ATask EXCEPT !.task = FieldText(out, "id") # ""
                                     \/ FieldText(out, "taskId") # ""]
          [] p.mode = "sync" /\ at.found -> ValueInto(at.value, at.field)
          [] OTHER -> Refusal

(* buildResponse. *)
BuildResponse(p, out) ==
    IF p.mode = "async"
    THEN IF FieldText(out, "taskId") # "" \/ FieldText(out, "id") # ""
         THEN ATask
         ELSE Refusal
    ELSE LET at == LookupPath(out, p.responsePath)
         IN  IF at.found THEN ValueInto(at.value, at.field) ELSE Refusal

=============================================================================
