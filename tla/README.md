# Formal models of IC (infinite canvas)

IC is a Go server and a React client for an infinite canvas: users and language-model
agents edit a graph of nodes, and a run engine executes parts of the graph against paid
model providers. This directory holds TLA+ models of the parts whose correctness depends on
order, concurrency or failure, the TLC configurations that check small instances of them,
and proofs, checked by TLAPS, of what holds of every instance. Paths below are relative to
`src/` or, where that is clear, to `src/internal/`; `docs/design` holds the design, with the
invariants INV-1 to INV-12 (`11-boundary-and-adversarial.md:16-29`) and the adversarial cases
ATK-01 onwards (same file, 186-208). The code is the reference: a definition follows the code
where a document differs.

    tlc -config canvas_ops.cfg MCCanvasDoc.tla      # one run; section 3 lists them
    tlapm CanvasProofs.tla                          # the proofs of one component

`PROJECT.json` lists, in a form for tools, the components, the runs, for every definition the
source lines it stands for, for every checked property a mutation of the model that breaks it,
the hazards with the properties that watch them, and the theorems.

## 1. The system

### How the parts interact

    pages, agents, runs --ops--> graph.Service.AppendOps --rows--> canvases, canvas_docs, canvas_ops
                                        | publish
                                        v
                          MemoryBus --> SSE handler --> pages
    agent tools, workbench --submit--> exec.Engine --resolve--> provider.Service
                                        |    \--calls--> adapters --> transport --> upstream
                                        | blobs, set_state ops
                                        v
                             asset store, AppendOps

Every change of a canvas goes through one function, `AppendOps`, under a mutex per canvas and
process and in one database transaction; the ops then go out on an in-process bus to the event
streams of the pages. A run is a row, a goroutine and a series of calls; what it produced is
written back as an op like any client's. After a start, a background goroutine settles the runs
of the last process (1.5 s later), and another collects unreferenced assets.

### Inventory

| component | state | operations | hard behaviour | what makes it correct |
|---|---|---|---|---|
| canvas document and ops (`graph/op*.go`, `doc.go`, `limits.go`) | nodes, edges, parents, rectangles, states, viewport | 14 kinds of op, each validated, applied and inverted; batches all or nothing | long sequences of legal ops; each check looks at one op only | edges attached and acyclic, single ports single, groups nested, inverse ops invert |
| op log and write path (`graph/service.go`, `sqlstore.go`, `replay.go`) | tables canvases, canvas_docs, canvas_ops; mutexes | AppendOps with rebase, list, replay | several processes, stale bases, errors and lost answers | INV-1 (replay = snapshot), no silent overwrite, no half batch, every request ends |
| canvas events (`graph/membus.go`, SSE in `api/handlers_graph.go`) | subscriptions with bounded channels | publish, subscribe, stream, 30 min end | a full channel drops; a reconnect starts at the present | what a page does not hear it finds out otherwise |
| web client synchronisation (`web/src/features/canvas/store/useCanvasSync.ts`, `kernel/kernel.ts`, `CanvasPage.tsx`, `shared/api/sse.ts`) | the local document, its version, the pending queue, the request under way | edit, flush, success, merge, conflict, failure, remote op, re-read | everything overlaps everything | edits arrive once and in order; a base covers only what was shown; a settled page shows the canvas |
| run engine (`exec`) | tables runs, run_steps, run_attempts; goroutines; cancel registry | create, execute, ad-hoc execution, cancel, retry, replay, resume | crash between any two writes, cancel at any point, contexts that end before the last write, repeated requests | INV-2 and INV-3 (paid once), rows that end and agree with each other |
| provider transport and adapters (`provider/transport.go`, `errors.go`, `adapter/*`) | none but the call under way | invoke, poll, stream, test | two retry loops inside each other, answers lost after execution, errors inside good answers, user-written adapters | charged once under a key, nothing sent after a cancel, a success has a result |
| providers and credentials (`provider/service.go`, `compose.go`, `secrets.go`) | providers, credentials, models, the main key, the connection pool | create, resolve, save models, probe, rotate | a cursor held open while other queries run; configuration changes between three resolutions of one generation | a usable credential is found, and the accepted one is used |
| agent turns (`agent/turn.go`, `service.go`) | sessions, turns, items, pending tool call | submit, complete, approve, deny, execute tool, MCP call | approvals race each other; a crash or a failed write leaves a turn half done | what writes or costs waits for a person; a call is executed once per approval; a turn comes to rest |
| agent tools (`agent/tools*.go`, `translate.go`, `dispatch_upstream.go`, `skills.go`) | canvas, assets, runs, skills | about 60 tools, each a plan of attachments, ops and a run | several writes per tool, each may fail; the canvas changes between plan and append | "ok" means done, an error leaves the canvas alone |
| assets and their collector (`asset`) | blobs by hash, asset rows, references | upload, read, delete, reference, collect | rows of several workspaces share a blob; an upload crosses a collection | what is shown is readable; nothing referenced is collected; blobs are not lost or orphaned |
| workspace settings (`workspace/prefs.go`) | one JSON document per workspace: preferences, sealed secrets, an operator's quota | update, put secrets, import, export, delete, rotate keys | read-change-write of a shared document in several requests and by an operator | a change of one cell loses no other |
| quota (`exec/quota.go`) | sums over finished runs | check | nobody calls the check | |
| identity, workspaces (`identity`) | users, sessions, members | sign in, invite, delete | cascading deletion | no row survives its owner |
| http api (`api`) | none of its own | decode, check the role, delegate | | roles checked before effects |
| plugins, script sandbox, prompts, legacy import, platform, contracts, command line | registries and libraries | | mostly sequential | |
| web document and view (`web/src/features/canvas/kernel`) | scene, selection, undo stack | commands, undo, redo | undo across remote edits | undo restores |
| agent bridge, plugin host, other pages | views and protocols | | | |

Every component, with its files and whether it is modelled, is in `PROJECT.json`.

## 2. Modules

| module | models | built on |
|---|---|---|
| `CanvasOps` | the document as a value; `Accepts` and `Applied` of each kind of op; `Apply` of a batch | |
| `CanvasDoc` | one document and the ops that reach it; the structural invariants | `CanvasOps` |
| `CanvasUndo` | the inverse each op returns, and those of a batch | `CanvasDoc` |
| `CanvasRebase` | what an op touches, and when missed ops let a batch through | `CanvasOps` |
| `CanvasHistory` | abstract: a history of documents, each one whole batch after the one before | |
| `CanvasLog` | `AppendOps` of several processes; implements `CanvasHistory` | `CanvasRebase`, instantiates `CanvasHistory` |
| `CanvasSync` | pages, requests, events | |
| `RunEngine` | runs, their goroutines, rows, crash and resumption | |
| `Upstream` | one step: engine attempts, adapter, transport tries, the upstream | `ScriptAnswer` |
| `ScriptAnswer` | pure: which plans of a script are sent, what its answer means | |
| `Providers` | providers, credentials, models; the three resolutions of a generation | |
| `AgentTools` | pure: the tool tables, the permission modes, the plan of a call | `CanvasRebase` |
| `AgentTurn` | turns, approvals, the steps of a tool on a shared canvas | `AgentTools` |
| `AssetStore` | uploads, references, deletions and the collector on one blob store | |
| `Settings` | abstract: preferences, secrets and quota as separate cells | |
| `SettingsStore` | the one JSON document they really are; implements `Settings` | instantiates `Settings` |
| `MCCanvasDoc`, `MCCanvasLog`, `MCCanvasSync`, `MCRunEngine`, `MCUpstream`, `MCProviders`, `MCAgentTurn`, `MCSettingsStore` | the instances TLC checks: pools, requests, answers, symmetry | |
| `CanvasProofs`, `CanvasSyncProofs`, `ProvidersProofs`, `AssetStoreProofs`, `UpstreamProofs`, `SettingsStoreProofs`, `AgentTurnProofs`, `RunEngineProofs` | the theorems of section 4 | |

Three compositions cross components: `CanvasLog` and `AgentTurn` use the operators of
`CanvasOps` and `CanvasRebase` on the shared canvas, so a tool's ops and a client's ops meet the
same checks; and the two refinements show a detailed module to keep the promise of a small one.

**CanvasOps, CanvasUndo, CanvasDoc.** A document is a record of functions from identifiers to
nodes and edges or `None`. Rectangles have one dimension, a spec is a function from keys to
values, a port is a name with a kind. Each early return of an apply function is a conjunct of an
`Accepts` operator, what follows it is the `Applied` operator; cascades, orphaned children and
replaced edges are part of the op, as in the code. A batch is a fold: the first refusal refuses
it all (the code works on a clone). `wouldCycle` and `checkParent` keep their walks from one end.
`CanvasUndo` has what each `apply*` returns as inverse, built as the code builds it (before or
after the change, flattened or nested) and `Undone` of a batch as `op.go:268` collects it. Left
out: the text rules of titles and ids.

**CanvasLog, CanvasRebase, CanvasHistory.** A request is the steps between which others can act:
get the mutex and read; read the missed ops, decide on the rebase, apply; commit in a transaction
that compares the version; answer. The mutex belongs to a server process, and the processes share
the database. An error is possible at each step, and a process that ends before its commit is the
same as an error. `commits` is the table of ops grouped by version, with the process and base of
the request as ghosts. The documents of all versions are kept (`canvas_docs` does); the last is
the row of the canvas. `ListOpsSinceVersion` keeps its limit and the fact that it counts rows.
`CanvasHistory` knows nothing of requests, only documents and an `Apply` it is given.

**CanvasSync.** An edit sets a field to a new value; undo and redo are edits. A page has the
kernel (`page`: version and view), its `pending` queue, the frame that was requested (`due`),
`flushing`, `failed`, and its event stream. `left` is the queue of a kernel that was replaced
while a frame was requested: the callback still holds the old kernel and sends it. The server
is one process and a request to it is atomic here; `CanvasLog` is the model of that half. A
request that the client gave up does not commit later: its handler runs in the context of the
connection. Left out: the coalescing of a frame's moves (`coalesceOps`) and relative moves.

**RunEngine.** One action per stretch between two writes or calls. `threads` are the goroutines
with their local plan, `server` is the process, `resume` the goroutine of `ResumeAll`. A write
through a context that is done has no effect, since the engine drops its error; this decides
many outcomes. Ids are numbers because the engine executes in the order of ids. The answers of
upstreams are a product, the handle of a task, a product that cannot be stored, a transient and
a permanent error. `asked` is chosen at the start: what users will ask for, and whether they
cancel, repeat or outlast a run; it takes the place of free users and keeps the instances
small. Merged into one action: the attempt and the step of a failed call, the two saves at the
start of an ad-hoc run, the reads of one `LoadRun`. A graceful stop is a crash. `paid` is a
ghost that counts accepted calls up to two. Left out: input resolution, usage sums, events,
write-back. A manual run of canvas nodes is only created: nobody executes it
(`wiring/app.go:354`). A replay's plan names no capability and always fails when its
credential is resolved (`Unresolved`).

**Upstream, ScriptAnswer.** `RunEngine` takes a call for one atomic answer; `Upstream` opens it.
`phase` walks from `Adapter.Invoke` (which may refuse before anything is sent) through the
transport's loop (`send`, `wait`, `pause`) back to the engine's (`failed`, `backoff`). A call
that was given up stays in `sent`, and the upstream may still execute it and charge (`bills`);
its answer is lost. An upstream that honours keys keeps one answer per key (`kept`). Bodies
are the cases the adapters tell apart, an error inside a good answer among them. `ScriptAnswer`
is the part of the script adapter that users reach with their own plans: `parsePlan`,
`resolveURL`, `lookupPath`, `stringInto`, `objectInto`, `valueToResponseAt`, over JSON values.

**Providers.** `providers`, `credentials` and `models` are the tables. A generation resolves
three times: before it is accepted (`preflightGenerate`), to check a script's plan, and at its
execution. A resolution is as many actions as it has database reads, since it holds a connection
for its cursor while it asks for another (`Free` counts the pool); the ghost `fit` is the set of
credentials that were usable all the time. `StartWithOtherKey` is a restart under another main
key, `Rotate` the rotation command.

**AgentTools, AgentTurn.** `ExecuteTool(doc, call, fresh)` is the plan of a call against the
canvas that was read: refused, or attachments to store, ops, a run, a skill. It looks among the
upstream names first (`executeUpstream`), then among its own (`executeOwn`). The tables keep
scope, declared approval, cost and the fields a schema declares, aliases included; tools that
only read are one case. `AgentTurn` carries plans out one write at a time; a worker is an HTTP
request (a turn, an approval, an MCP call), and `missed` are the ops that others appended since
it read the canvas. Each step may fail and the process may crash (`faults`). `applied`, `ran`
and `grants` are ghosts. The permission mode is `request`, in which all that writes or costs has
to be confirmed; the mode `full` confirms nothing.

**AssetStore.** Contents stand for their hashes. An upload looks for the row, puts the blob,
inserts, and on a unique violation reads again; the collector scans a batch of old rows, counts
each a second time, deletes the row, and the blob if no other row has it. Each is an action, any
may fail. `late`, `lapsed` and `crossed` are ghosts that remember who crossed whom. Time is
reduced to whether a deleted row is within its grace period. The functions that add and remove
references and the collector itself are driven as their tests drive them.

**Settings, SettingsStore.** `Settings` is what people expect: cells, changed one part of a
request at a time. `SettingsStore` is the column of JSON with plain preferences, secrets sealed
with the main key, an operator's quota, and an old layout without the wrapper. `Part` is a change
of `Update` or `PutSecrets`; a request is a sequence of them, of which a later one may be
refused; `Apart` keeps operators out of a request under way and out of old documents.

## 3. Runs

Passing runs; the state counts are those of TLC with the symmetry given.

| run | question | instance | states |
|---|---|---|---|
| `canvas_ops` | can a sequence of ops leave a document that no single op would? does each op's inverse undo it? | 4 nodes, 4 edge ids, at most 3 edges, coordinates -4..4; four uses: wiring, nesting, content, state | 7 200 |
| `log_writes` | do concurrent requests keep log, snapshots and unseen edits? does the log implement `CanvasHistory`? | 2 clients, 2 processes, 1 node, 9 batches of one or two ops, 3 versions | 570 000 |
| `log_progress` | does every request end? | 2 clients, 1 process, 3 batches, 2 versions, fair | 900 |
| `run_rows` | do the rows of runs agree with each other and with what happened? | 2 runs, 4 nodes in two chains, 2 attempts, one crash | 48 000 |
| `run_progress` | does every execution and every running row end? | the same, with cancel, time limit, replay, tasks, two crashes, fair | 55 000 |
| `sync_edits` | do pages and server stay together? | 2 pages, 2 fields, 3 edits, subscriptions of 2 events, one trouble | 680 000 |
| `upstream` | what is sent, charged and made of the answer of one step? | 15 requests over three adapters, 8 shapes of scripted answer, 2 attempts of 2 tries, keys honoured, fair | 23 000 |
| `providers` | which credential does a generation get? | 2 workspaces with a provider each, 2 generations, 2 connections, 2 credentials, 1 change, 2 priorities | 2 050 000 |
| `agent_turns` | what does a turn do to the canvas, and who allowed it? | 2 workers, 1 turn of 8 possible answers, an MCP call or a user's edit, one fault, fair | 29 000 |
| `assets` | do rows and blobs stay together while the collector runs? | 2 uploads of one content into 2 workspaces, 3 rows, 1 referrer, one failure | 2 200 000 |
| `settings` | does the shared document behave like cells? | 1 client, 6 requests and the import of an export, 2 layouts, 2 operator's quotas, deletion | 6 300 |

What they show:

* `canvas_ops`: `DocTypeOK`, `EdgesAttached`, `SingleInputs`, `Acyclic`, `ParentsAreGroups`,
  `GroupsNest`, `OpsReversible` (each op, then what it returned as inverse, gives
  the document again: as `UndoAgentOps` sends it where the inverse is one op, op by op where it is
  a list). `Plain` and `Complete` name the ops whose inverse says enough; the others are a title
  set on an untitled node, a key or a result added where none was, a replaced edge, a parent that
  has come to lie too deep (section 5), a node without its required keys, a group (its list does
  not say where it was). The pools are complete for their use (every id, every pair, every member set), and a
  document has so few parts that TLC exhausts what they reach. Four nodes hold chains of three
  edges, a diamond, a group of groups with a member; three of four edge ids make the limit bite.
  The discarding ungroup is left to `canvas_discard`, which it breaks (`KeepingOps`). Content and state use each
  pair of nodes: their ops touch at most two.
* `log_writes`: `SnapshotIsReplay` (INV-1), `NoSilentOverwrite` (ATK-11) and the refinement
  `ImplementsHistory`. Two processes are what makes the mutex insufficient; three versions give a
  request two versions to miss, of two clients.
* `log_progress`: `Answered`, with strong fairness of the mutex (Go's `sync.Mutex` hands over to
  a waiter of more than 1 ms) and weak fairness of the steps of a handler that holds it.
* `run_rows`: `SettledSteps`, `PaidOnce` (INV-3), `StartsAfterInputs`, `SkippedOnlyForFailure`,
  `TerminalStays`, `FinishedStepsStay`. The runs are over different nodes, submitted when the
  resumption is over, and their nodes are numbered along the edges: outside these conditions
  several of the properties fail, see section 5. Two attempts give a retry and its exhaustion.
* `run_progress`: `ExecutionEnds`, `RunningEnds`. Fairness is weak fairness of each
  goroutine (a call ends by its timeout or context, a backoff by its timer), of the restart of a
  server that is down (supervised deployment) and of the resumption. Nothing is assumed of users
  or of what an upstream answers. Two crashes: one may hit the resumption of the other.
* `sync_edits`: `AtMostOnce`, `CommitsInOrder`, `VersionIsSeen`, `ShowsCanvas`. `VersionIsSeen`
  is what the rebase of the server rests on: it looks for conflicts behind the base only.
  `ShowsCanvas` holds although own echoes are applied again, and would not hold without them
  (an event queued before a re-read is applied over a newer edit; the echo repairs it). The
  ghost `astray` exempts pages that lost events or edits since they last got the document: the
  code has no means to notice. Three edits give two of one page against one of the other, two
  in one batch, and a conflict or a merge between two pages; a subscription of two fills; a
  trouble is one failing request, broken connection or re-read.
* `upstream`: `KeyedPaidOnce`, `ScriptedHasResult`, `CanceledSendsNothing`, `StepEnds`. Code and
  instance differ in numbers only: three attempts of three tries against two of two, which have
  a first, a later and a last of each. Fairness is weak fairness of the engine's and transport's
  own steps, and of "an answer is read or the client gives up" (its limit is 120 s); the upstream
  owes nothing. The requests are one of each kind an adapter treats in its own way, the answers
  one of each shape `ScriptAnswer` tells apart.
* `providers`: `ResolveFinds`, `SameCredential`, `ModelsAreOwn`. Two connections and two
  generations are the smallest pool that can starve. Workspaces choose ids of their own
  (`OwnIds`); with ids in common `ModelsAreOwn` fails, see section 5.
* `agent_turns`: `OnlyApproved`, `ExecutedOnce`, `OkMeansRun`, `ErrorsLeaveCanvas`, `Settles`.
  The answers are the plans that differ in their steps: ops only, attachments before ops, ops
  before a run, an unknown tool among known ones, two calls that confirm, one that reads.
  One approver at a time is what makes `ExecutedOnce` hold: `agent_twice` drops it. Fairness: a
  request that is being served goes on; of the append it is stated as "no request wants to append
  for ever", which is the same and cheaper to check.
* `assets`: `LiveHasBlob`, `OrphansOnlyByFailure`, `CollectsUnreferenced`. Two workspaces with
  one content are the case in which a blob has two owners. Three rows allow an upload after a
  collection of an earlier one.
* `settings`: `ImplementsSettings`, `DeletedStays`. The requests have one and two parts, refused
  first and second parts, a removal, and the import of the text an export gives.

Deadlock is checked in `canvas_ops` and `settings`; elsewhere the instances end by their bounds.

## 4. Theorems

All are proved for every value of the constants under the named assumptions of the modules
(typing of the parameters, `None` apart from everything else).

| module | theorem | says |
|---|---|---|
| `CanvasProofs` | `TypeCorrect` | documents stay typed and within the node and edge limits |
| | `EdgesAcyclic` | no sequence of ops closes a cycle |
| | `GroupsWellFounded` | no group comes to contain itself |
| | `WellFormedDocument` | if no ungroup of the pool discards its children: edges stay attached, single ports single, parents groups of the document |
| | `RectsStayInRange` | `RectsInRange`: rectangles stay within the canvas |
| | `OpsAreReversible` | `OpsReversible`, if no ungroup of the pool discards its children |
| | `LogTypeCorrect` | rows and requests stay typed |
| | `LogReplays` | `SnapshotIsReplay` |
| | `LogImplementsHistory` | the refinement `ImplementsHistory` |
| | `LogDocumentsSound` | every stored version is typed, acyclic and its groups are well-founded |
| | `LogDocumentsWellFormed` | ... and well-formed, if no batch has a discarding ungroup |
| | `LogOpsAreReversible` | ... and each op it accepts is undone by its inverse, under the same |
| | `LogStaleOnlyByOthers` | a request finds its base stale only by another process |
| | `LogNoSilentOverwrite` | `NoSilentOverwrite`, if requests carry one op each |
| `CanvasSyncProofs` | `EditsCommitInOrder` | `CommitsInOrder` |
| | `EditsCommitOnce` | `AtMostOnce` |
| | `VersionsAreSeen` | `VersionIsSeen` |
| | `PagesShowCanvas` | `ShowsCanvas` |
| `AssetStoreProofs` | `ShownHaveBlobs` | `LiveHasBlob` |
| | `TakesUnreferenced` | `CollectsUnreferenced` |
| | `NoOrphans` | `OrphansOnlyByFailure` |
| `UpstreamProofs` | `KeyPaidOnce` | `KeyedPaidOnce` |
| | `CancelSilences` | `CanceledSendsNothing` |
| | `ScriptedShows` | `ScriptedHasResult`, for all JSON values |
| | `CostIsBounded` | without keys, at most one charge per try of each attempt |
| `SettingsStoreProofs` | `OneClientIsSafe` | the refinement `ImplementsSettings`, with one client and `Apart` |
| | `DeletedSettingsStay` | `DeletedStays`, with any number of clients |
| `RunEngineProofs` | `BaseHolds` | goroutines hold what fits their phase, one per run, and have not paid for what they may still pay for |
| | `RunsPayOnce` | `PaidOnce` |
| | `SkipsHaveACause` | `SkippedOnlyForFailure`, if `FeedsRunUp` |
| | `TypesHold` | rows, attempts and resumption stay typed, attempts keep their unique keys |
| | `EndedRunsStay` | `TerminalStays`, if `QuietStart` |
| | `EndedRowsStay` | `FinishedStepsStay`, if `QuietStart` and `PlansApart` |
| | `InputsAreStored` | `StartsAfterInputs`, under the same |
| | `EndedRunsSettle` | `SettledSteps`, under the same, `Undisturbing` and without answers that are tasks |
| `ProvidersProofs` | `AcceptedIsExecuted` | `SameCredential` |
| | `ResolvedIsBest` | `ResolveFinds`, if `IdsApart` and `AllLookedAt` |
| | `OwnModelsListed` | `ModelsAreOwn`, if `IdsApart` |
| | `ProvidersTyped` | tables and generations stay typed; cursors hold no more connections than there are |
| `AgentTurnProofs` | `ApprovedFirst` | `OnlyApproved`, whatever fails |
| | `OnceOnly` | `ExecutedOnce`, if a turn is not approved twice at a time |
| | `Settling` | what a request owes to its call is kept (`Settled`), whatever fails |
| | `OkHasRun`, `ErrorsLeaveNothing` | `OkMeansRun`, `ErrorsLeaveCanvas`, whatever fails |

**Canvas.** `CanvasProofs` has what is true of documents as values, and lifts it to `DocSpec` and
to the batches of the log. The invariant of the first three theorems is `Sound` (the three
together): none of them is inductive alone, since the walks of `wouldCycle` and `checkParent` end only in a finite document without a loop. Acyclicity is stated
as "every set of nodes has one that nothing of the set feeds". This needs no recursion: the new
edge of `add_edge` could only spoil sets that hold both its ends, and for those the set of nodes
upstream of the source, which `wouldCycle` computed and which does not hold the target, supplies
the node. Groups are treated the same way upwards. `WellFormedDocument` needs `WellFormed`, which
adds the three properties: that edges stay attached depends on the type of a node never changing,
that single ports stay single on `Attached`. The assumption `PoolKeepsChildren` is needed:
`canvas_discard` is the counterexample. Each kind of op has a frame lemma (what it leaves alone),
each property a step lemma that uses the frames. For batches, `Folds` states what a fold of any
length gives, and the induction over the ops of a batch goes by the least prefix that fails
(`Smallest`), since the library's induction theorems cannot be instantiated here.

**Inverses.** `OpsAreReversible` needs a `RestorableDoc`: well-formed, and with every rectangle in
range, since the inverse of a move is refused where the old rectangle was not a valid one (without the
check in `GroupRect` TLC finds `OpsReversible` violated). There is
a lemma per kind of op (`MoveRestores`, ... `RemoveNodeRestores`). An inverse that is one op must
be accepted by the new document and put the old value back (`EditRestored`); `PatchedBack` is why a
spec comes back when no key was added. A list is followed through the documents between its ops:
`Partial(d, K, W)` is the document `d` in which the nodes of `K` have no parent and the edges of
`W` are missing. Adding the node again gives `Partial` with all its children and edges (`Readded`),
each `set_parent` takes a node out of `K` (`Reparented`), each `add_edge` an edge out of `W`
(`Rewired`), and `Partial(d, {}, {})` is `d`. What has to be shown is that none of these is
refused: the limits leave room, chains of parents are no longer than in `d` (`AncestryShrinks`),
and `wouldCycle` sees no walk back from the source of a drawn edge (`NoWayBack`: the nodes that the
target leads to hold no group and, without a cycle, not the source, so the rest is closed under
the walk). `ListLeads` goes from the steps to the whole list. `PoolKeepsChildren` is needed here
too: an edge that dangles cannot be drawn again. `LogOpsAreReversible` says the same of every
version the write path stores (`CommittedStays`).

**Log.** The invariant `LogInv` says that what a request computed belongs to the version it read:
between read and commit `next` is `Apply` of document `cur`, however many versions were committed
meanwhile. With the comparison in the transaction this gives replay and refinement.
`LogStaleOnlyByOthers` needs `MutexInv` (a request past its read holds the mutex of its process).
`LogNoSilentOverwrite` adds that a request in its transaction has looked at every op between its
base and its version and found no key in common. This is where `OneOpEach` is needed: the window
of missed ops is limited by a count of versions, and rows are as many as versions only if batches
have one op; `log_truncated` is the counterexample for longer ones.

**Pages.** The four theorems have no hypothesis beyond the typing of the bounds; any number of
pages, requests and connections may break. Again the invariant grows in layers. `Base`: the shape
of the state, one request per page at a time (`Alone`), and an answer that names the version its
batch became, one after its base unless it was merged (`Answered`). `Ordered`: what a page
has told the server, what is under way, what a replaced kernel left behind and what is pending are
each younger than the one before (`InLine`); with one request at a time that gives
`CommitsInOrder`, and since the numbers of a page differ, `AtMostOnce`. The mutant that sends
beside a request under way breaks just this. `Shown`: a request of the present kernel was sent
over the version the page names and its edits are on the page, so an answer that was not merged
adds nothing unseen. `Tracks`: what a page shows, followed by the events on their way to it, ends
for every field with the edit the canvas has last, except for fields of edits that the page still
owes (`Owes`: pending, or sent and not committed). An own edit that is committed under a page that
shows later ones of others is put right by its echo; an authoritative document is put right by the
stream if that is `Complete`: the document and the queue are then a beginning and an end of the
log that overlap, and an event that comes twice comes in its order. A settled page owes nothing
and has an empty queue, which is `ShowsCanvas`. Concatenations over the log (`Prefix`) are
recursive functions; what the proofs need of them goes by least counterexamples (`Smallest`).

**Assets.** The invariant ties each upload and the collector to the rows: a blob whose row is
about to be inserted was stored or belongs to a row (`InsertsStored`, `BlobsOwned`), what the
collector is about to delete is shown to nobody (`DoomedIsUnseen`), and a row counted a second
time with no reference had none (`CountedAgain`). Without `DoomedIsUnseen` a revived row could
lose its blob.

**Upstream.** `Charged`: under a key either nothing was executed and nothing is kept, or exactly
one execution was and its answer is kept under that key. `CostIsBounded` counts: bills are at
most the calls served, which are among the pairs of attempt and try; the typing of the two
counters (`Counts`) is what bounds those. `ScriptedShows` follows an answer through the readings
of `ScriptAnswer`: each of them (`StringRead`, `ScalarRead`, `ListRead`, `ResponseRead`) fails or
has something to show. `lookupPath` walks step by step, so what it finds is again a JSON value; the
set `J` of the values that can come up is a parameter of the theorem that contains the answers and
is `Closed` under taking a field or an element. Such a set exists for any answers: all that is
reached from them.

**Settings.** `Fresh` is the key: with one client and operators apart, the copy a request works
on is what `load` makes of the row, and an old document has no quota beside its preferences.
Then each save maps to one `Change` of `Settings`, by computing the overlay of preferences and of
what the present key opens. Two clients break `Fresh`, see section 5.

**Runs.** The invariant grows in layers, each inductive with those before it. `Base`: each phase
of a goroutine fixes what it may hold of its steps (`Fits`), a run that is not sent again has one
goroutine (`OneThread`), and nothing it still owes has been paid for (`Unpaid`; `Owed` shrinks
with every step). That alone gives `PaidOnce`, through crashes, since a resumption pays for
nothing. `SkipsFit` needs that steps are executed in an order that agrees with the edges
(`FeedsRunUp`); `First` is the least id, so this is a fact about well-founded sets. `Quiet`:
while a resumption is to come or under way nothing is executed, and what it has listed has not
ended. `Stocked`: the types of rows, attempts and what the resumption read. `Rows`: a row belongs
to the one run that plans its step (`Owned`), tells what the goroutine holds of it except while
an answer is being stored (`Tells`, `Shown`), and a resumption holds rows of its run only. `Ended`:
a goroutine that leaves a run that has not ended has not begun it, so the failure it stores
meets no open step. Each action of a goroutine has a lemma (`...Kind`) that says
what kind of change it makes; the layers use these and not the actions.

Each hypothesis has its counterexample: for `FeedsRunUp` `run_order`, for `QuietStart`
`run_early`, for `PlansApart` `run_shared_steps` and, for replays, `AgentThenReplay` in section 5,
for `Undisturbing` and the tasks the two `SettledSteps` rows there. `Undisturbing` excludes the
30 minutes too, of which TLC finds no counterexample on a small instance; only cancels are known
to need it. The code guarantees none of the hypotheses: they say where its promises end. Under
`Undisturbing` crashes, retries, refused plans, outputs that cannot be stored and runs sent again
remain.

**Agent turns.** `Inv` says what the frame of a request owes to the turn it works on: a call
that is about to be executed is one that the mode lets through, or its approval is among the
grants (`Fits`). That needs `Asking`: while a request waits for the model nobody else is at its
turn, so the answer cannot change under a frame. `Once` adds, while nothing failed, that a turn
belongs to one request, that the request executes calls in ascending order (`Owes`), and that the
call a turn waits for was not executed (`Waiting`). Only `ApproveOnce` uses `OneApprover`;
`agent_twice` is the counterexample without it.

`Settled` says what a request owes to its call, and needs neither `OneApprover` nor the absence
of failures. `Due`: until the run of a call that generates is started its plan has one, and after
that the run is there, or the call is answered with an error; who executes a call for the first
time and has not come past `AppendOps` has appended nothing. `Sole`: who executes a call for the
first time is alone with it and has not answered; a second execution raises the count, which is
what the guard "executed once" of `ErrorsLeaveCanvas` looks at. `Outcome` are the two properties.
That a plan is what `Due` needs is a lemma per kind of tool (`ToolsPlan`): the plan of a flow that
runs at once has a run, and only such a plan has both ops and a run. The tables of tools are
written with `@@`, which the provers know nothing of, so `FlowsAreUpstream` states the one fact of
them the proof uses; it has no constants, and TLC evaluates it as a whole.

**Providers.** `Typed` and `Begun` say which rows a generation may name; rows are never removed.
`Pinned`: from the acceptance on the filter of a resolution has one credential, so its cursor has
no other and what it finds is that one. `Looks`: what could have been used all the time is usable
now and still ahead of the cursor; `PassedOver` is the step that matters, that a row which is left
out was not usable. It needs `IdsApart`, since the capabilities are read by the id of the provider
alone, and the first query needs `AllLookedAt`, that there are no more credentials than it looks at
(20). `Saved`: a model is of a workspace that may create its provider; with ids apart that is the
one that lists it. Neither hypothesis is kept up by the code: with `SharedIds` TLC finds
`ModelsAreOwn` and `ResolveFinds` violated, with a limit of one for two credentials `ResolveFinds`.

Only model-checked: the properties that are expected to fail, and all liveness (TLAPS proves none
under fairness). Every invariant and every safety property over steps that a passing run checks is
a theorem.

## 5. Where code and documents differ

The run `agent_twice` ends with a counterexample, against a sentence of the repository (quoted
under `findings` in `PROJECT.json`): two approvals of one tool call that overlap execute it twice
(`NeverTwice`; `agent/turn.go:150` looks at the turn once and saves it without a condition).

Further configurations of the same modules, each with the shortest behaviour that shows one more
difference:

| configuration | property | what happens |
|---|---|---|
| `canvas_depth` | `DepthBounded` | moving a group with groups in it exceeds the depth that `op_graph.go:49` promises: only the groups above are counted (76) |
| `canvas_discard` | `EdgesAttached` | ungroup without its children leaves their edges dangling (`op_apply.go:576`, against the comment one line above) |
| `canvas_undo` | `UndoRestores` | the inverses of a batch are collected first op first, so sending them back does not restore the document (`op.go:268`) |
| `log_merge` | `MergesAreDisjoint` | a move or state and another aspect of one node are merged, against the comment at `service.go:181` |
| `log_truncated` | `NoSilentOverwrite` | the missed ops are limited by versions + 16, counted in rows: behind a longer batch a conflicting edit is not seen (`service.go:139`, against ATK-11) |
| `run_cancel` | `CanceledIsExecuted` | a cancel after the last answer loses the summary: the row is running until the next start (`engine.go:257`) |
| `run_canceled_failed` | `FailedForCause` | a canceled agent run is stored as failed (`engine.go:211`, against `05-execution-engine.md:97`) |
| `run_early` | `TerminalStays` | a run submitted in the first 1.5 s is settled by `ResumeAll` while it executes (`exec/sqlstore.go:268`) |
| `run_order` | `SkippedOnlyForFailure` | `topoSort` sees no dependencies: with ids against the edges steps are skipped (`compiler.go:101`) |
| `run_resubmit` | `KeyPaidOnce` | an ad-hoc request sent again with its key is executed again (`wiring/app.go:376`, against INV-2) |
| `run_shared_steps` | `RunHasItsSteps` | step ids are per node: the second run of a node has no steps (`compiler.go:126`) |
| `run_task` | `SucceededHasProduct` | a video step succeeds with a task handle and nothing polls it (`engine.go:366`, against `05-execution-engine.md:93`) |
| `sync_lost` | `FailedAreKept` | edits of a failed request are never sent again (`useCanvasSync.ts:58`, against the comment at 75) |
| `sync_unsent` | `PendingIsScheduled` | an edit whose frame comes while a request is under way is sent only with a later edit (`useCanvasSync.ts:41`) |

Definitions that a variation of a listed instance refutes; the cfg is the run's with the given
change:

| module, property | instance | what happens |
|---|---|---|
| `CanvasDoc` `FailedShowsNoResult` | `canvas_ops`, use "state" | a failed node keeps the result of its earlier success (`op_apply.go:401`), against `writeback.go:28` |
| `CanvasLog` `OpenReplayAgrees` | `log_writes` | replay counts a version per row, the store per batch: `OpenReplay` reports a difference after any longer batch (`replay.go:14`) |
| `RunEngine` `PendingIsExecuted` | `run_rows`, `Chains`, one crash | a run pending at a crash stays pending (`resume.go:21`, against `app.go:300`) |
| `RunEngine` `AdHocSettlesSteps` | `run_rows`, `Apart`, no crash | a failed ad-hoc run keeps its step as running (`adhoc.go:128`) |
| `RunEngine` `FinishedStepsStay` | `run_rows`, `AgentThenReplay`, no crash | a replay rewrites the steps of the run it replays (`engine.go:638`) |
| `RunEngine` `SettledSteps` | `run_cancel` | a cancel between the storing of the plan and the first step: the run ends as failed, its steps stay pending (`engine.go:191`: no `markCanceled`) |
| `RunEngine` `SettledSteps` | `run_task`, one crash | a crash between the attempt and its step, then a task that is still open after ten minutes: the run is succeeded, its step running (`resume.go`) |
| `RunEngine` `ResumedSummaryAgrees` | `run_rows` | a run that crashed before its steps were stored becomes succeeded (`resume.go:22`) |
| `CanvasSync` `PendingIsSent` | `sync_edits`, one trouble | a re-read of the canvas, or a merge, drops pending edits without a word (`CanvasPage.tsx:42`, `kernel.ts:126`) |
| `Upstream` `ChargedOnce` | `upstream` | the gemini and script adapters send no key, so a retry after a lost answer is charged again, although `transport.go:198` says every adapter carries it |
| `Upstream` `TimeoutsAreRetried` | `upstream` | the client's own 120 s limit is classed as canceled and not retried (`errors.go:77`, against `05-execution-engine.md:80`) |
| `Upstream` `SucceedsWithResult`, `SucceedsExecuted` | `upstream` | an answer without a result, or a refusal inside a good answer, succeeds with the openai and gemini adapters |
| `Providers` `NeverStarved` | `providers` | as many resolutions as connections wait for each other for 5 s (`platform/db.go:34-42`) |
| `Providers` `ReasonIsOwn` | `providers` | a refused generation reports the reason of another (`provider/service.go:620-630`) |
| `Providers` `CheckedIsExecuted` | `providers` | the script that is checked may not be the one that executes (`wiring/app.go:569`) |
| `Providers` `RotationPossible` | `providers` | credentials are sealed as an envelope that the rotation command does not open (`platform/secrets.go:61`) |
| `Providers` `ModelsAreOwn` | `providers`, `SharedIds` | two workspaces that choose one provider id overwrite each other's models (`provider/service.go:649`) |
| `AgentTurn` `SeqsDiffer` | `agent_turns`, two turns | two turns submitted at once get one sequence number (`turn.go`: read, then insert) |
| `AgentTurn` `RestContinues` | `agent_turns` | the calls after the one that waited are never executed (`turn.go:120`) |
| `AgentTurn` `SkillsWithinLimit` | `agent_turns`, `SkillAnswers` | two saves at the limit both pass the count (`skills.go`) |
| `AgentTurn` `NoneAbandoned` | `agent_turns` | after a crash a turn stays running: nothing looks for it at the next start (`turn.go:34`) |
| `AssetStore` `RetainedAfterRemoval` | `assets` | a reference removed late lets an asset go at once: the grace period counts from the deletion, not from the last reference (`gc.go:49`, against INV-4) |
| `AssetStore` `ReferencedIsReadable` | `assets` | a deleted asset that is referenced stays readable by itself, but its content goes with the row of another workspace: only shown rows count as sharers (`gc.go:79`, against `service.go:112`) |
| `AssetStore` `ReferenceSaves` | `assets` | a reference added after the second count does not save the asset (`gc.go:35` says it does) |
| `AssetStore` `UploadedIsShown` | `assets` | uploading a content that the workspace deleted before answers with the deleted row, which nobody is shown (`service.go:98`) |
| `SettingsStore` `ImplementsSettings` | two clients | of two overlapping updates the later removes the earlier (`prefs.go:188-189` promises several devices the contrary) |
| `SettingsStore` `ImplementsSettings` | `Apart = FALSE` | a quota set while a request is under way, or in an old document, is lost or hidden |
| `SettingsStore` `ImplementsSettings` | `RotatingSpec` | the rotation command seals nothing of this column anew, so the secrets cannot be opened afterwards (`platform/secrets.go:60`) |
| `SettingsStore` `SecretsWereGiven` | `settings` | importing an export without secrets stores the text that explains their absence as a secret |

Read in the code, not modelled: own echoes are applied twice since the kernel has no
`localActor`, which doubles relative moves (`useCanvasSync.ts:105`); `coalesceOps` drops absolute
moves (`kernel/commands.ts:150`); the server never reads `lastEventId`; the stream is opened anew
whenever the page renders (`CanvasPage.tsx:63`); events of another server process do not arrive.
New nodes of a tool are placed in rows 300 apart although some are 320 high (`graph/place.go`).
A task is polled after a restart with whichever credential resolves then (`resume.go:46`).
`SaveModels` keeps the rows before the one it refuses. The streams of the adapters have no
caller, and their `Recv` calls `Scanner.Buffer` before each scan, which panics from the second
on. The openai adapter declares `text.tools` (`openai.go:34`) but `Invoke` does not have it; a
name that does not resolve is a permanent error; an inline image that does not decode is a
transient one; a number is printed as `12.00000` where a string is wanted; the script adapter's
`Poll` always answers "pending".

Without a caller outside tests: `CheckQuota`, `AddRef`, `RemoveRef`, `Derive`, the collector's
thumbnails, `SaveModelsRaw`, `AESSecretStore.Rotate`, `MemoryQueue`. They are modelled where the
property is about what they would do (the references of assets, the rotation), otherwise not.

## 6. Plan

Done: `CanvasOps`, `CanvasUndo`, `CanvasDoc`; `CanvasHistory`, `CanvasRebase`, `CanvasLog`;
`CanvasSync`; `RunEngine`; `Upstream`, `ScriptAnswer`; `Providers`; `AgentTools`, `AgentTurn`;
`AssetStore`; `Settings`, `SettingsStore`; the theorems above.

Next, in order:

1. When the code comes to guarantee a hypothesis of section 4 (one approver, ids apart, requests
   that wait for the resumption, no discarding ungroup), drop it from its theorem.
2. Candidates for modules: deletion of users and workspaces (`identity/delete.go`), the plugin
   host of the web client, the agent bridge, the undo stack of the web kernel.

## 7. Not modelled

* *Quota*: `CheckQuota` has no caller, so no run is ever refused for it; where the limit is kept
  is in `SettingsStore`.
* *Script sandbox*: an interpreter; its states are those of the scripts it runs.
* *Prompts, legacy import, plugin registry, http handlers*: parsing, conversion, input checks and
  delegation, without state that two actors share. What a handler does to state is in the module
  of the service it calls.
* *Identity*: sign-in and membership are single statements; deletion is one transaction.
* *Wire formats, streams, model lists, downloads of the adapters*: data, or without a caller.
* *Assets*: listing and its cursor, thumbnails, metadata, derived assets, the collector's dry
  run: they change no row that the others look at.
* *Agent sessions, model protocol, MCP framing*: rows without interplay and encodings.
* *Web rendering and geometry, command line, deployment, contract generation*.
