----------------------------- MODULE MCUpstream -----------------------------
(* An instance of Upstream for TLC: a request of each kind an adapter      *)
(* treats in its own way, and answers of each shape the script adapter     *)
(* tells apart.                                                            *)
EXTENDS Upstream

Str(c)  == [kind |-> "string", content |-> c]
Obj(f)  == [kind |-> "object", fields |-> f]
List(s) == [kind |-> "list", items |-> s]
Null    == [kind |-> "null"]

MCObjects ==
    {Obj([taskId |-> Str("words")]),
     Obj([taskId |-> Str(""), data |-> List(<<>>)]),
     Obj([id |-> [kind |-> "number"], data |-> Str("coded")]),
     Obj([data |-> List(<<Null, Str("link"), Obj([text |-> Str("words")])>>)]),
     Obj([data |-> List(<<Obj([url |-> Str("inline")])>>)]),
     Obj([data |-> Obj([b64_json |-> Str("words"), text |-> Str("words")])]),
     Obj([data |-> Obj([url |-> Str("damaged")])]),
     Obj([data |-> Null])}

GoodPlan == [method |-> "POST", path |-> "relative", headers |-> {"accept"},
             mode |-> "sync", responsePath |-> <<[name |-> "data"]>>,
             base |-> TRUE]

Of(adapter, capability, images, plan) ==
    [adapter |-> adapter, capability |-> capability, images |-> images,
     plan |-> plan]

MCRequests ==
    {Of("openai", "image.edit", i, None) : i \in {"none", "damaged", "inline"}}
    \cup {Of("openai", c, "none", None) :
            c \in {"text.tools", "text.generate", "video.generate",
                   "audio.generate"}}
    \cup {Of("gemini", c, "none", None) : c \in {"image.edit", "video.generate"}}
    \cup {Of("script", "image.generate", "none", p) :
            p \in {None, GoodPlan,
                   [GoodPlan EXCEPT !.responsePath =
                       <<[name |-> "data"], [index |-> 0]>>],
                   [GoodPlan EXCEPT !.mode = "async", !.responsePath = <<>>],
                   [GoodPlan EXCEPT !.headers = {"host"}],
                   [GoodPlan EXCEPT !.path = "elsewhere"]}}

=============================================================================
