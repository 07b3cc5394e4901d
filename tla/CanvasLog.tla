------------------------------ MODULE CanvasLog ------------------------------
(***************************************************************************)
(* The write path of a canvas (graph.Service.AppendOps over graph.Store):  *)
(* concurrent requests of clients that last read the canvas at different   *)
(* versions, served by processes that share a database and each serialise  *)
(* their own requests with a mutex.                                        *)
(*                                                                         *)
(* A request is four steps, in the order of the code: it gets the mutex    *)
(* and reads the document; it reads the ops it missed, decides whether it  *)
(* may be rebased over them and applies its batch to what it read; it      *)
(* commits in one transaction, if the version is still the one it read;    *)
(* and it is answered, unless the answer is lost.                          *)
(***************************************************************************)
EXTENDS CanvasRebase

CONSTANTS
  Client, Server,
  InitialValue,        \* the viewport and settings of a new canvas
  Batches,             \* the sequences of ops a request may carry
  Slack,               \* ops read beyond one per missed version (16 in the code)
  MaxVersion           \* bound of the model: no request starts beyond it

ASSUME InitialTyped == InitialValue \in Value

ASSUME BatchesTyped == Batches \subseteq Seq(OpPool) /\ \A ops \in Batches : ops # <<>>

ASSUME SlackTyped == Slack \in Nat /\ MaxVersion \in Nat

ASSUME NobodyIsNone == None \notin Client /\ None \notin Server

VARIABLES
  docs,      \* table canvas_docs: the document of version v is docs[v + 1];
             \* the last one is the row of the canvas in table canvases
  commits,   \* table canvas_ops, its rows grouped by version, with the server
             \* and the base version of the request (which it does not keep)
  mutex,     \* the client whose request holds the mutex of a server, or None
  call,      \* the request of a client
  seen       \* the version a client last read

vars == <<docs, commits, mutex, call, seen>>

Version == Len(commits)

Quiet == [phase |-> "idle", server |-> None, ops |-> <<>>, base |-> 0,
          cur |-> 0, next |-> None]

Init ==
  /\ docs = <<NewDocument(InitialValue, InitialValue)>>
  /\ commits = <<>>
  /\ mutex = [s \in Server |-> None]
  /\ call = [c \in Client |-> Quiet]
  /\ seen = [c \in Client |-> 0]

\* The rows of canvas_ops with a version above `since`, the first `limit` of
\* them in the order of their seq.
ListOpsSinceVersion(since, limit) ==
  UNION {{commits[v].ops[i] :
            i \in {j \in DOMAIN commits[v].ops :
                     commits[v].seq + j - commits[since + 1].seq <= limit}} :
         v \in since + 1..Version}

(***************************************************************************)
(* The steps of a request.                                                 *)
(***************************************************************************)
Free(c) == mutex' = [mutex EXCEPT ![call[c].server] = None]

\* Mutation: the mutex is not given back on an error path.
RefuseKeepsMutex(c) ==
  /\ call' = [call EXCEPT ![c] = Quiet]
  /\ UNCHANGED <<docs, commits, mutex, seen>>

\* The request ends with an error (or its process with it) before it commits.
Refuse(c) ==
  /\ call' = [call EXCEPT ![c] = Quiet]
  /\ Free(c)
  /\ UNCHANGED <<docs, commits, seen>>

Submit(c) ==
  /\ call[c].phase = "idle"
  /\ Version < MaxVersion
  /\ \E s \in Server, ops \in Batches :
       call' = [call EXCEPT ![c] =
                  [Quiet EXCEPT !.phase = "waiting", !.server = s, !.ops = ops,
                                !.base = seen[c]]]
  /\ UNCHANGED <<docs, commits, mutex, seen>>

\* lock, GetDocument
Load(c) ==
  /\ call[c].phase = "waiting"
  /\ mutex[call[c].server] = None
  /\ mutex' = [mutex EXCEPT ![call[c].server] = c]
  /\ call' = [call EXCEPT ![c].phase = "loaded", ![c].cur = Version]
  /\ UNCHANGED <<docs, commits, seen>>

\* The base is not ahead, and the request can be rebased over what it missed.
Admits(c) ==
  LET r == call[c] IN
  /\ r.base <= r.cur
  /\ \/ r.base = r.cur
     \/ rebaseable(r.ops, ListOpsSinceVersion(r.base, (r.cur - r.base) + Slack))

\* ListOpsSinceVersion, rebaseable, Apply to the document that was loaded
Check(c) ==
  LET next == Apply(docs[call[c].cur + 1], call[c].ops) IN
  /\ call[c].phase = "loaded"
  /\ IF Admits(c) /\ next # Rejected
     THEN /\ call' = [call EXCEPT ![c].phase = "applied", ![c].next = next]
          /\ UNCHANGED <<docs, commits, mutex, seen>>
     ELSE Refuse(c)

\* The seq of the first row a commit adds is one more than this.
MaxSeq ==
  IF commits = <<>> THEN 0
                    ELSE commits[Version].seq + Len(commits[Version].ops)

\* Mutation: the version is not compared again inside the transaction.
StillCurrentAlways(c) == TRUE

StillCurrent(c) == call[c].cur = Version

\* Store.AppendOps: one transaction for the ops, the document and the version;
\* it publishes the ops to the subscribers and gives the mutex back.
Commit(c) ==
  /\ call[c].phase = "applied"
  /\ IF StillCurrent(c)
     THEN /\ docs' = Append(docs, call[c].next)
          /\ commits' = Append(commits, [at |-> call[c].server, base |-> call[c].base,
                                         seq |-> MaxSeq, ops |-> call[c].ops])
          /\ call' = [call EXCEPT ![c].phase = "committed"]
          /\ Free(c)
          /\ UNCHANGED seen
     ELSE Refuse(c)

\* The client learns the version of its commit,
Answer(c) ==
  /\ call[c].phase = "committed"
  /\ seen' = [seen EXCEPT ![c] = call[c].cur + 1]
  /\ call' = [call EXCEPT ![c] = Quiet]
  /\ UNCHANGED <<docs, commits, mutex>>

\* or never does: the connection broke, or the process ended after the commit.
\* It may send the same batch again, as a new request.
LoseAnswer(c) ==
  /\ call[c].phase = "committed"
  /\ call' = [call EXCEPT ![c] = Quiet]
  /\ UNCHANGED <<docs, commits, mutex, seen>>

\* An error of the database, or the end of the process, before the commit.
Fail(c) == call[c].phase \in {"loaded", "applied"} /\ Refuse(c)

\* The client reads the document (after a conflict, or at any other time).
Refresh(c) ==
  /\ call[c].phase = "idle"
  /\ seen[c] # Version
  /\ seen' = [seen EXCEPT ![c] = Version]
  /\ UNCHANGED <<docs, commits, mutex, call>>

Step(c) == Load(c) \/ Check(c) \/ Commit(c) \/ Answer(c)

Next ==
  \E c \in Client :
    \/ Submit(c) \/ Load(c) \/ Check(c) \/ Commit(c) \/ Answer(c)
    \/ LoseAnswer(c) \/ Fail(c) \/ Refresh(c)

Spec == Init /\ [][Next]_vars

\* The handlers of one server run on; a sync.Mutex that is given back again and
\* again does not starve the goroutine that waits for it longest.
Fairness ==
  \A c \in Client : SF_vars(Load(c)) /\ WF_vars(Check(c) \/ Commit(c) \/ Answer(c))

FairSpec == Spec /\ Fairness

-----------------------------------------------------------------------------
Phases == {"idle", "waiting", "loaded", "applied", "committed"}

Request ==
  [phase : Phases, server : Server \union {None}, ops : Batches \union {<<>>},
   base : Nat, cur : Nat, next : Doc \union {None}]

\* Requests are typed, a mutex is held by the request it let in, and one
\* document is kept for every version.
TypeOK ==
  /\ Len(docs) = Version + 1
  /\ \A v \in DOMAIN docs : docs[v] \in Doc
  /\ call \in [Client -> Request]
  /\ mutex \in [Server -> Client \union {None}]
  /\ seen \in [Client -> 0..Version]

\* The mutex does what it is for: once a request has read the document, nothing
\* its own server commits makes what it read stale.  Only the requests of
\* another process do, and for those there is the check in the transaction.
StaleOnlyByOthers ==
  \A c \in Client :
    call[c].phase \in {"loaded", "applied"} =>
      \A v \in call[c].cur + 1..Version : commits[v].at # call[c].server

\* INV-1: the ops stored for a version, applied to the document of the version
\* before it, give the document stored for the version.
SnapshotIsReplay ==
  \A v \in 1..Version : docs[v + 1] = Apply(docs[v], commits[v].ops)

\* The fields whose loss a user would notice: a batch writes them, and
\* nobody else's batch that it did not see may have written them.
Fields(ops) ==
  {k \in UNION {Touches(op) : op \in OpsIn(ops)} :
     k[1] \in {"spec", "title", "state", "parent"}}

\* No commit overwrites a field that was written after the version its client
\* had read (ATK-11; 03-backend: the same node's spec changed by two at the
\* same time gives a conflict, not a winner).
NoSilentOverwrite ==
  \A v \in 1..Version :
    \A w \in commits[v].base + 1..v - 1 :
      Fields(commits[v].ops) \intersect Fields(commits[w].ops) = {}

\* A rebased batch is disjoint in its target nodes and edges from what it
\* missed, or both only move (the comment above rebaseable).
Targets(ops) ==
  UNION {IF op.kind = "group" THEN op.members \union {op.group}
         ELSE IF op.kind = "ungroup" THEN {op.group}
         ELSE IF op.kind \in {"set_viewport", "set_settings"} THEN {}
         ELSE {op.id} : op \in OpsIn(ops)}

OnlyMoves(ops) == \A op \in OpsIn(ops) : op.kind = "move_node"

MergesAreDisjoint ==
  \A v \in 1..Version :
    \A w \in commits[v].base + 1..v - 1 :
      \/ Targets(commits[v].ops) \intersect Targets(commits[w].ops) = {}
      \/ OnlyMoves(commits[v].ops) /\ OnlyMoves(commits[w].ops)

\* OpenReplay finds the document it compares with equal: it replays each row as
\* a batch of its own, and compares the version as well.
RowCount == MaxSeq

OpenReplayAgrees == RowCount = Version

\* Every request is answered, refused or given up, although the mutex is
\* contended and any step may fail.
Answered ==
  \A c \in Client : call[c].phase = "waiting" ~> call[c].phase = "idle"

History ==
  INSTANCE CanvasHistory WITH First <- NewDocument(InitialValue, InitialValue)

\* The write path implements the history of whole batches.
ImplementsHistory == History!HistorySpec
==============================================================================
