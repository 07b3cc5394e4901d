------------------------------ MODULE AgentTurn ------------------------------
(***************************************************************************)
(* The turns of an agent session (agent/turn.go): a user's input becomes a *)
(* turn, the model answers with tool calls, what the session lets through  *)
(* is executed, and the first call that needs a confirmation suspends the  *)
(* turn until someone approves or denies it.  Workers are the HTTP         *)
(* requests being served (a turn, an approval, an MCP call); they share    *)
(* the canvas, and users edit it meanwhile.                                *)
(*                                                                         *)
(* A tool runs in steps: it reads the canvas and makes its plan, stores    *)
(* attachments, appends its ops against the version it read, triggers a    *)
(* run, saves a skill, and its result is recorded.  Each step may fail,    *)
(* and the process may crash between two of them.                          *)
(***************************************************************************)
EXTENDS AgentTools

CONSTANTS
  Worker,
  MaxTurns,           \* bound of the model
  Answers,            \* the sequences of calls the model may answer with
  McpCalls,           \* the calls of MCP clients
  UserOps,            \* the ops that users submit themselves
  Granting,           \* the answers a person gives: a set of booleans
  OneApprover,        \* TRUE: a turn is not approved twice at a time
  InitialDoc,         \* the canvas of the session, and the ids it has used
  InitialIds,
  MaxSkills,          \* skills per workspace (50 in the code)
  MaxEdits, MaxFaults \* bounds of the model

ASSUME BoundsTyped == MaxTurns \in Nat /\ MaxEdits \in Nat /\ MaxFaults \in Nat

ASSUME InitialTyped == InitialDoc \in Doc

ASSUME AnswersTyped == Answers \subseteq Seq(UNION {Range(a) : a \in Answers})

VARIABLES
  doc,                \* the canvas
  fresh,              \* the node and edge ids handed out
  store,              \* assets, runs and skills of the workspace
  turns,              \* table agent_turns with its items, in order of insertion
  work,               \* what each worker is doing
  applied,            \* history: the calls <<turn, index>> whose ops are in the log
  ran,                \* history: how often a call was executed
  grants,             \* history: the calls a person approved
  edits, faults       \* counters of the bounds

vars == <<doc, fresh, store, turns, work, applied, ran, grants, edits, faults>>

Free == [phase |-> "idle"]

Turns == DOMAIN turns

Permission == "request"

CallOf(f) == IF f.turn = 0 THEN f.call ELSE turns[f.turn].answer[f.at]

\* A frame is the local state of a request.
Frame(phase, for, turn, at, call) ==
  [phase |-> phase, for |-> for, turn |-> turn, at |-> at, call |-> call,
   plan |-> Answer, missed |-> {}, result |-> "ok", seq |-> 0]

Init ==
  /\ doc = InitialDoc /\ fresh = InitialIds
  /\ store = [assets |-> 0, runs |-> {}, adhocs |-> 0, skills |-> {}]
  /\ turns = <<>>
  /\ work = [w \in Worker |-> Free]
  /\ applied = {} /\ ran = [k \in {} |-> 0] /\ grants = {}
  /\ edits = 0 /\ faults = 0

history == <<applied, ran, grants>>
bounds == <<edits, faults>>
database == <<doc, fresh, store>>

At(w, phase) == work[w].phase = phase
Become(w, frame) == work' = [work EXCEPT ![w] = frame]
Fault == faults < MaxFaults /\ faults' = faults + 1

(***************************************************************************)
(* SubmitTurn: the sequence number is read, then the turn is inserted.     *)
(***************************************************************************)
MaxSeq == Max({0} \union {turns[t].seq : t \in Turns})

SubmitTurn(w) ==
  /\ At(w, "idle")
  /\ Len(turns) + Cardinality({v \in Worker : At(v, "insert")}) < MaxTurns
  /\ Become(w, [Frame("insert", "submit", 0, 0, None) EXCEPT !.seq = MaxSeq + 1])
  /\ UNCHANGED <<database, turns, history, bounds>>

InsertTurn(w) ==
  /\ At(w, "insert")
  /\ turns' = Append(turns, [status |-> "running", seq |-> work[w].seq, answer |-> <<>>,
                             pending |-> 0, results |-> <<>>])
  /\ Become(w, Frame("ask", "submit", Len(turns) + 1, 1, None))
  /\ UNCHANGED <<database, history, bounds>>

\* The turn was inserted, its first item was not: the request ends with an
\* error and the turn stays as it is.
LoseUserItem(w) ==
  /\ At(w, "ask") /\ Fault
  /\ Become(w, Free)
  /\ UNCHANGED <<database, turns, history, edits>>

\* The model answers; text and calls become items of the turn.
Complete(w) ==
  /\ At(w, "ask")
  /\ \E a \in Answers :
       turns' = [turns EXCEPT ![work[w].turn].answer = a,
                              ![work[w].turn].results = [i \in DOMAIN a |-> "none"]]
  /\ Become(w, [work[w] EXCEPT !.phase = "next"])
  /\ UNCHANGED <<database, history, bounds>>

\* No backend, no snapshot, or no answer of the model.
failTurn(w) ==
  /\ At(w, "ask") /\ Fault
  /\ turns' = [turns EXCEPT ![work[w].turn].status = "failed"]
  /\ Become(w, Free)
  /\ UNCHANGED <<database, history, edits>>

(***************************************************************************)
(* The loop over the calls: unknown tools are skipped, the first call that *)
(* needs a confirmation ends it.                                           *)
(***************************************************************************)
Confirmed(call) == ApprovalFor(ToolByName[call.name], Permission) = "confirm"

\* Mutation: an unknown tool is looked at again and again.
SkippedNever(f) == f

Skipped(f) == [f EXCEPT !.at = @ + 1]

Save(f, pending) == [f EXCEPT !.phase = "save", !.seq = pending]

NextCall(w) ==
  /\ At(w, "next")
  /\ LET f == work[w] IN
     Become(w,
       IF f.at > Len(turns[f.turn].answer) THEN Save(f, 0)
       ELSE IF CallOf(f).name \notin DOMAIN ToolByName THEN Skipped(f)
       ELSE IF Confirmed(CallOf(f)) THEN Save(f, f.at)
       ELSE [f EXCEPT !.phase = "read"])
  /\ UNCHANGED <<database, turns, history, bounds>>

(***************************************************************************)
(* The steps of a tool.                                                    *)
(***************************************************************************)
Phases == <<"store", "append", "run", "skill", "record">>

Needs(plan, phase) ==
  CASE phase = "store"  -> plan.stores > 0
    [] phase = "append" -> plan.ops # <<>>
    [] phase = "run"    -> plan.run # {} \/ plan.adhoc
    [] phase = "skill"  -> plan.skill # None
    [] phase = "record" -> TRUE

\* What is left of the plan after a phase; a plan that was refused after some
\* attachments has nothing left but to be answered.
Following(f, phase) ==
  LET at == CHOOSE i \in DOMAIN Phases : Phases[i] = phase
      left == {i \in DOMAIN Phases : i > at /\ Needs(f.plan, Phases[i])}
  IN [f EXCEPT !.phase = Phases[Min(left)],
               !.result = IF f.plan.refused THEN "error" ELSE @]

Started(f, plan) ==
  LET g == [f EXCEPT !.plan = plan]
  IN IF Needs(plan, "store") THEN [g EXCEPT !.phase = "store"] ELSE Following(g, "store")

Failing(f) == [f EXCEPT !.phase = "record", !.result = "error"]

Key2(f) == <<f.turn, f.at>>

Counted(f) ==
  IF f.turn = 0 THEN ran
  ELSE [k \in DOMAIN ran \union {Key2(f)} |->
          (IF k \in DOMAIN ran THEN ran[k] ELSE 0) + IF k = Key2(f) THEN 1 ELSE 0]

\* The model's pool of identifiers is finite: a plan must still find ids.
IdsLeft(plan) ==
  /\ fresh.node + NodesOf(plan) \in NodeId \union {0}
  /\ fresh.edge + EdgesOf(plan) \in EdgeId \union {0}

Read(w) ==
  /\ At(w, "read")
  /\ \E plan \in {ExecuteTool(doc, CallOf(work[w]), fresh)} :
       /\ IdsLeft(plan)
       /\ fresh' = [node |-> fresh.node + NodesOf(plan), edge |-> fresh.edge + EdgesOf(plan)]
       /\ Become(w, Started(work[w], plan))
       /\ ran' = Counted(work[w])
  /\ UNCHANGED <<doc, store, turns, applied, grants, bounds>>

StoreAttachments(w) ==
  /\ At(w, "store")
  /\ store' = [store EXCEPT !.assets = @ + work[w].plan.stores]
  /\ Become(w, Following(work[w], "store"))
  /\ UNCHANGED <<doc, fresh, turns, history, bounds>>

\* The canvas changed by these ops while other requests held an older copy.
Missed(frames, ops) ==
  [v \in Worker |->
     IF frames[v].phase \in {"store", "append"}
     THEN [frames[v] EXCEPT !.missed = @ \union OpsIn(ops)] ELSE frames[v]]

\* Mutation: the ops before the first that is refused are kept.
AppendedUpTo(ops) ==
  LET good == {i \in 0..Len(ops) : Apply(doc, SubSeq(ops, 1, i)) # Rejected}
  IN Apply(doc, SubSeq(ops, 1, Max(good)))

Appended(ops) == Apply(doc, ops)

\* AppendOps accepts what was planned for the present version, or what may be
\* rebased over the ops that came in between, and applies all of it or nothing.
AppendOps(w) ==
  /\ At(w, "append")
  /\ LET f == work[w]
         current == f.missed = {} \/ rebaseable(f.plan.ops, f.missed)
     IN \E accepted \in {current /\ Apply(doc, f.plan.ops) # Rejected},
           next \in {IF current THEN Appended(f.plan.ops) ELSE Rejected} :
          /\ doc' = IF next # Rejected THEN next ELSE doc
          /\ applied' = IF next \notin {Rejected, doc} /\ f.turn # 0
                        THEN applied \union {Key2(f)} ELSE applied
          /\ work' = [(IF next # Rejected THEN Missed(work, f.plan.ops) ELSE work) EXCEPT
                        ![w] = IF accepted THEN Following(f, "append") ELSE Failing(f)]
  /\ UNCHANGED <<fresh, store, turns, ran, grants, bounds>>

\* TriggerRun and SubmitAdHoc create a run, and answer with it even when the
\* canvas does not compile.
TriggerRun(w) ==
  /\ At(w, "run")
  /\ LET f == work[w] IN
     /\ store' = [store EXCEPT
          !.runs = IF f.plan.run = {} THEN @
                   ELSE @ \union {[by |-> Key2(f), targets |-> f.plan.run]},
          !.adhocs = IF f.plan.adhoc THEN @ + 1 ELSE @]
     /\ Become(w, Following(f, "run"))
  /\ UNCHANGED <<doc, fresh, turns, history, bounds>>

\* UpsertSkill counts the skills there are, then inserts or replaces one.
CountSkills(w) ==
  /\ At(w, "skill")
  /\ LET f == work[w]
         room == f.plan.skill \in store.skills \/ Cardinality(store.skills) < MaxSkills
     IN Become(w, IF room THEN [f EXCEPT !.phase = "upsert"] ELSE Failing(f))
  /\ UNCHANGED <<database, turns, history, bounds>>

UpsertSkill(w) ==
  /\ At(w, "upsert")
  /\ store' = [store EXCEPT !.skills = @ \union {work[w].plan.skill}]
  /\ Become(w, Following(work[w], "skill"))
  /\ UNCHANGED <<doc, fresh, turns, history, bounds>>

\* The step fails: of several attachments some may have been stored.
StepFails(w) ==
  /\ work[w].phase \in {"store", "append", "run", "skill", "upsert"} /\ Fault
  /\ \E k \in 0..work[w].plan.stores :
       /\ ~At(w, "store") => k = 0
       /\ At(w, "store") => k < work[w].plan.stores
       /\ store' = [store EXCEPT !.assets = @ + k]
  /\ Become(w, Failing(work[w]))
  /\ UNCHANGED <<doc, fresh, turns, history, edits>>

(***************************************************************************)
(* The result becomes an item of the turn; that this fails is ignored.     *)
(***************************************************************************)
Recorded(w, kept) ==
  LET f == work[w] IN
  /\ At(w, "record")
  /\ turns' = IF kept /\ f.turn # 0
              THEN [turns EXCEPT ![f.turn].results[f.at] = f.result] ELSE turns
  /\ Become(w, CASE f.for = "submit"  -> [Frame("next", "submit", f.turn, f.at + 1, None)
                                            EXCEPT !.seq = 0]
                 [] f.for = "approve" -> Save(f, 0)
                 [] f.for = "mcp"     -> Free)

Record(w) == Recorded(w, TRUE) /\ UNCHANGED <<database, history, bounds>>

LoseResult(w) ==
  At(w, "record") /\ work[w].turn # 0 /\ Recorded(w, FALSE) /\ Fault /\ UNCHANGED <<database, history, edits>>

SaveTurn(w) ==
  /\ At(w, "save")
  /\ LET f == work[w] IN
     turns' = [turns EXCEPT ![f.turn].status = IF f.seq = 0 THEN "done" ELSE "awaiting",
                            ![f.turn].pending = f.seq]
  /\ Become(w, Free)
  /\ UNCHANGED <<database, history, bounds>>

SaveFails(w) ==
  /\ At(w, "save") /\ Fault
  /\ Become(w, Free)
  /\ UNCHANGED <<database, turns, history, edits>>

(***************************************************************************)
(* Approve looks at the turn once, at its start.  An MCP call is executed  *)
(* for whoever holds the token.                                            *)
(***************************************************************************)
\* Mutation: the turn only has to wait for something.
AwaitsAny(t, i) == i \in DOMAIN turns[t].answer /\ turns[t].status \in {"awaiting", "done"}

Awaits(t, i) == turns[t].status = "awaiting" /\ turns[t].pending = i

Approve(w, t, i) ==
  /\ At(w, "idle")
  /\ Awaits(t, i)
  /\ OneApprover => ~\E v \in Worker : work[v].phase # "idle" /\ work[v].turn = t
  /\ \E yes \in Granting :
       /\ Become(w, IF yes THEN Frame("read", "approve", t, i, None)
                    ELSE [Frame("record", "approve", t, i, None) EXCEPT !.result = "denied"])
       /\ grants' = IF yes THEN grants \union {<<t, i>>} ELSE grants
  /\ UNCHANGED <<database, turns, applied, ran, bounds>>

McpCall(w) ==
  /\ At(w, "idle") /\ edits < MaxEdits
  /\ \E call \in McpCalls : Become(w, Frame("read", "mcp", 0, 0, call))
  /\ edits' = edits + 1
  /\ UNCHANGED <<database, turns, history, faults>>

UserEdit ==
  /\ edits < MaxEdits
  /\ \E op \in UserOps :
       /\ Accepts(doc, op)
       /\ doc' = Applied(doc, op)
       /\ work' = Missed(work, <<op>>)
  /\ edits' = edits + 1
  /\ UNCHANGED <<fresh, store, turns, history, faults>>

\* Nothing looks for turns left running when the process starts again.
Crash ==
  /\ \E w \in Worker : ~At(w, "idle")
  /\ Fault
  /\ work' = [w \in Worker |-> Free]
  /\ UNCHANGED <<database, turns, history, edits>>

Step(w) ==
  \/ InsertTurn(w) \/ Complete(w) \/ NextCall(w) \/ Read(w) \/ StoreAttachments(w)
  \/ TriggerRun(w) \/ CountSkills(w) \/ UpsertSkill(w) \/ Record(w) \/ SaveTurn(w)

Trouble(w) ==
  LoseUserItem(w) \/ failTurn(w) \/ StepFails(w) \/ LoseResult(w) \/ SaveFails(w)

Next ==
  \/ \E w \in Worker : \/ SubmitTurn(w) \/ McpCall(w) \/ Step(w) \/ AppendOps(w) \/ Trouble(w)
                       \/ \E t \in Turns : \E i \in DOMAIN turns[t].answer : Approve(w, t, i)
  \/ UserEdit
  \/ Crash

\* A request that is being served goes on.  AppendOps is possible whenever a
\* request wants to append and nothing but its own step or a failure ends that,
\* so its fairness is that no request wants to append for ever.
Fairness == \A w \in Worker : WF_vars(Step(w)) /\ []<>~At(w, "append")

Spec == Init /\ [][Next]_vars /\ Fairness

-----------------------------------------------------------------------------
TurnRow ==
  [status : {"running", "awaiting", "done", "failed"}, seq : Nat \ {0}, answer : Answers \union {<<>>},
   pending : Nat, results : Seq({"none", "ok", "error", "denied"})]

\* The rows are typed, the canvas is a document, and the ops of every plan are
\* well-formed: what the tools translate to can be decoded.
TypeOK ==
  /\ doc \in Doc
  /\ fresh.node \in NodeId \union {0} /\ fresh.edge \in EdgeId \union {0}
  /\ \A t \in Turns : turns[t] \in TurnRow
  /\ \A w \in Worker : ~At(w, "idle") => OpsIn(work[w].plan.ops) \subseteq Op
  /\ edits \in 0..MaxEdits /\ faults \in 0..MaxFaults

Name(t, i) == turns[t].answer[i].name

\* A tool that writes or costs money is executed in a turn only after a person
\* approved that very call (turn.go: write tools wait for the approval).
OnlyApproved ==
  \A k \in DOMAIN ran :
    LET tool == ToolByName[Name(k[1], k[2])]
    IN tool.scope = "write" \/ tool.costs => k \in grants

\* A call of a turn is executed at most once: the first approval settles it,
\* unless the process crashed or a write failed before the turn was saved.
ExecutedOnce == \A k \in DOMAIN ran : ran[k] > 1 => faults > 0

\* The call creates a generation flow that is to run at once.
Generating(given) == LET call == Canonical(given) IN call.name \in FlowTools /\ Running(call)

Triggers(call) == Generating(call) \/ Canonical(call).name = "canvas.run_generation"

\* An answer "ok" to a tool that generates at once means that its run exists
\* (dispatch_upstream.go: created but not run is not reported as success).
OkMeansRun ==
  \A t \in Turns : \A i \in DOMAIN turns[t].results :
    turns[t].results[i] = "ok" /\ Triggers(turns[t].answer[i])
    => \E r \in store.runs : r.by = <<t, i>>

\* A call that was executed once and answered with an error left the canvas as
\* it was, unless it was the run after its ops that failed.
ErrorsLeaveCanvas ==
  \A t \in Turns : \A i \in DOMAIN turns[t].results :
    turns[t].results[i] = "error" /\ <<t, i>> \in applied /\ ran[<<t, i>>] = 1
    => Generating(turns[t].answer[i])

\* canvas_connect_nodes never proposes an edge between ports of different
\* kinds: what it found for the canvas it read, the canvas accepts.
EdgesResolved ==
  \A w \in Worker :
    At(w, "append") /\ CallOf(work[w]).name = "canvas_connect_nodes" =>
      \A op \in OpsIn(work[w].plan.ops) :
        {op.edge.from, op.edge.to} \subseteq Present(doc) => PortsMatch(doc, op.edge)

\* A turn that was submitted comes to rest, unless a write failed or the
\* process crashed; the wait for an approval is rest.
Settles ==
  \A t \in 1..MaxTurns :
    (t \in Turns /\ turns[t].status = "running" /\ faults = 0)
      ~> (faults > 0 \/ (t \in Turns /\ turns[t].status # "running"))

-----------------------------------------------------------------------------
(***************************************************************************)
(* What the code does not keep.                                            *)
(***************************************************************************)
\* A call is never executed twice, whatever fails.
NeverTwice == \A k \in DOMAIN ran : ran[k] <= 1

\* Every turn has a sequence number of its own in the session.
SeqsDiffer == \A t, u \in Turns : turns[t].seq = turns[u].seq => t = u

\* turn.go: the calls after the one that waits go on after the approval.
RestContinues ==
  \A t \in Turns :
    turns[t].status = "done" =>
      \A i \in DOMAIN turns[t].answer :
        Name(t, i) \in DOMAIN ToolByName => turns[t].results[i] # "none"

\* skills.go: a workspace has no more skills than the limit.
SkillsWithinLimit == Cardinality(store.skills) <= MaxSkills

\* No turn is left running when no request works on it.
NoneAbandoned ==
  \A t \in Turns :
    turns[t].status = "running" => \E w \in Worker : ~At(w, "idle") /\ work[w].turn = t
=============================================================================
