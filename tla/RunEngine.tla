------------------------------ MODULE RunEngine ------------------------------
(***************************************************************************)
(* Runs (internal/exec, with its callers in internal/wiring): the goroutine*)
(* that executes a run and the rows it leaves in runs, run_steps and       *)
(* run_attempts; cancellation, the 30 minute limit, a crash of the server  *)
(* and the resumption 1.5 s after it is back.                              *)
(*                                                                         *)
(* A run id and a node id are numbers, because the engine executes steps in*)
(* the order of their ids.  A write through a context that is done has no  *)
(* effect: database/sql returns its error, which the engine ignores.       *)
(***************************************************************************)
EXTENDS Integers, FiniteSets

CONSTANTS
  Run, Node,      \* identifiers; Node holds the generation and run nodes
  Feeds,          \* the edges between executable nodes of the canvas
  Requests,       \* what users may ask for: a set of functions [Run -> Request]
  Slot,           \* goroutines; bounds the executions under way at once
  MaxAttempts,    \* the retry policy
  MaxCrashes,     \* bound: crashes of the server
  Answer,         \* the answers upstreams give in this instance
  QuietStart,     \* whether users wait for the resumption after a restart
  None

Entry == {"agent", "adhoc", "manual", "replay"}
Terminal == {"succeeded", "partial", "failed", "canceled"}
RunStatus == {"pending", "running"} \union Terminal
Settled == {"succeeded", "failed", "skipped", "canceled"}
StepStatus == {"pending", "running", "retrying"} \union Settled

\* A canvas run has the step st_<node> for a node, whichever run it is; an
\* ad-hoc run has one step, named after the run.
StepId == Node \union Run

ASSUME IdsTyped ==
  /\ Run \subseteq Nat /\ Node \subseteq Nat /\ Run \intersect Node = {}
  /\ None \notin Nat /\ IsFiniteSet(Run) /\ IsFiniteSet(Node)

\* How a run is submitted, and what may happen to it: that it is canceled, that
\* it reaches its 30 minutes, that it is submitted again with its key.
Request ==
  [entry : Entry, targets : SUBSET Node, hurt : SUBSET {"cancel", "expire", "again"}]

ASSUME RequestsTyped ==
  /\ Feeds \subseteq Node \X Node
  /\ Requests \subseteq [Run -> Request]
  /\ \A q \in Requests, r \in Run :
       /\ q[r].entry = "agent" => q[r].targets # {}
       /\ "again" \in q[r].hurt => q[r].entry = "adhoc"

ASSUME BoundsTyped ==
  /\ MaxAttempts \in Nat \ {0} /\ MaxCrashes \in Nat
  /\ Answer \subseteq {"product", "task", "unstored", "transient", "permanent"}
  /\ QuietStart \in BOOLEAN

VARIABLES
  asked,     \* what users ask for, from the start: a member of Requests
  runs,      \* table runs: the status of a row
  steps,     \* table run_steps
  attempts,  \* table run_attempts
  threads,   \* the goroutines that execute runs
  server,    \* the process: down, early, resuming or up; crashes so far
  resume,    \* ResumeAll: the runs listed, the one in hand and what was read
  paid       \* ghost: calls per run and step that an upstream accepted (up to 2)

vars == <<runs, steps, attempts, threads, server, resume, paid>>

Local == [status : StepStatus, product : BOOLEAN, tried : 0..MaxAttempts]

Row == [owner : Run, status : StepStatus, product : BOOLEAN]

\* What a resumption holds of a step.
Told == [status : StepStatus, product : BOOLEAN]

ASSUME NoneIsApart == None \notin RunStatus \union Local \union Row \union Told

Thread == [run : Run, phase : {"submitted", "planning", "stepping", "calling",
                               "backoff", "answered", "leaving"},
           plan : SUBSET StepId, todo : SUBSET StepId, at : StepId \union {None},
           task : BOOLEAN, local : [StepId -> Local \union {None}],
           ctx : {"live", "canceled", "expired"}]

Attempt == [step : StepId, idx : 1..MaxAttempts, run : Run,
            status : {"failed", "succeeded"}, task : BOOLEAN]

TypeOK ==
  /\ runs \in [Run -> RunStatus \union {None}]
  /\ \A s \in StepId :
       steps[s] = None \/ steps[s] \in Row
  /\ attempts \subseteq Attempt
  /\ \A a, b \in attempts :   \* the unique constraints of the table
       (a.step = b.step /\ (a.idx = b.idx \/ a.run = b.run)) => a = b
  /\ \A w \in Slot : threads[w] = None \/ threads[w] \in Thread
  /\ server.phase \in {"down", "early", "resuming", "up"}
  /\ server.crashes \in 0..MaxCrashes
  /\ resume.todo \subseteq Run /\ resume.run \in Run \union {None}
  /\ paid \in [Run \X StepId -> 0..2]

-----------------------------------------------------------------------------
(***************************************************************************)
(* Rows.  SaveStep and SaveRun are upserts on the id: a step row keeps the *)
(* run it was inserted with.  SaveAttempt upserts on the request id        *)
(* (run:step, the same for every try) and fails on the primary key         *)
(* (step, index) when another run holds it.                                *)
(***************************************************************************)
SaveStep(table, r, s, l) ==
  [table EXCEPT ![s] = [owner |-> IF @ = None THEN r ELSE @.owner,
                        status |-> l.status, product |-> l.product]]

Taken(r, s, idx) ==
  \E a \in attempts : a.step = s /\ a.idx = idx /\ a.run # r

\* Mutation: every try is a row of its own.
SaveAttemptEach(r, s, idx, status, task) ==
  attempts \union
    {[step |-> s, idx |-> idx, run |-> r, status |-> status, task |-> task]}

SaveAttempt(r, s, idx, status, task) ==
  IF Taken(r, s, idx) THEN attempts
  ELSE IF \E a \in attempts : a.step = s /\ a.run = r
  THEN {IF a.step = s /\ a.run = r THEN [a EXCEPT !.status = status, !.task = task]
                                   ELSE a : a \in attempts}
  ELSE attempts \union
         {[step |-> s, idx |-> idx, run |-> r, status |-> status, task |-> task]}

\* SaveRun stores the steps in order and stops behind the first whose attempts
\* cannot be stored.
Stored(t) ==
  {s \in t.plan : /\ t.local[s] # None
                  /\ \A o \in t.plan :
                       o < s /\ t.local[o] # None /\ t.local[o].tried > 0
                         => ~Taken(t.run, o, 1)}

SaveSteps(t) ==
  [s \in StepId |->
     IF s \in Stored(t) THEN SaveStep(steps, t.run, s, t.local[s])[s] ELSE steps[s]]

Live(t) == t.ctx = "live"

\* What a thread stores of its step at hand, and what it goes on with.
StoreStep(t, l) ==
  steps' = IF Live(t) THEN SaveStep(steps, t.run, t.at, l) ELSE steps

FinishRun(t, status) ==
  IF Live(t)
  THEN runs' = [runs EXCEPT ![t.run] = status] /\ steps' = SaveSteps(t)
  ELSE UNCHANGED <<runs, steps>>

Become(w, t) == threads' = [threads EXCEPT ![w] = t]
End(w) == threads' = [threads EXCEPT ![w] = None]

Fresh(status) == [status |-> status, product |-> FALSE, tried |-> 0]

EntryOf(r) == asked[r].entry
AdHoc(t) == EntryOf(t.run) = "adhoc"

-----------------------------------------------------------------------------
(***************************************************************************)
(* Submission.  Create stores a pending row.  A manual canvas run ends     *)
(* there; an agent's run and an ad-hoc run get a goroutine.                *)
(***************************************************************************)
\* Mutation: every executable node is planned.
CollectedAll(targets) == Node

Collected(targets) ==
  {n \in Node : \A S \in SUBSET Node :
      targets \subseteq S /\ (\A e \in Feeds : e[2] \in S => e[1] \in S) => n \in S}

PlanOf(r) == IF EntryOf(r) = "adhoc" THEN {r} ELSE Collected(asked[r].targets)

NewThread(r, plan) ==
  [run |-> r, phase |-> "submitted", plan |-> plan, todo |-> plan, at |-> None,
   task |-> FALSE, local |-> [s \in StepId |-> None], ctx |-> "live"]

Serving == server.phase \in IF QuietStart THEN {"up"} ELSE {"early", "resuming", "up"}

Submit(r, w) ==
  /\ Serving /\ runs[r] = None
  /\ EntryOf(r) \in {"agent", "adhoc"} /\ threads[w] = None
  /\ runs' = [runs EXCEPT ![r] = "pending"]
  /\ Become(w, NewThread(r, PlanOf(r)))
  /\ UNCHANGED <<steps, attempts, server, resume, paid>>

SubmitManual(r) ==
  /\ Serving /\ runs[r] = None /\ EntryOf(r) = "manual"
  /\ runs' = [runs EXCEPT ![r] = "pending"]
  /\ UNCHANGED <<steps, attempts, threads, server, resume, paid>>

\* Create finds the key and returns the run there is; Submit executes it.
Resubmit(r, w) ==
  /\ Serving /\ "again" \in asked[r].hurt /\ runs[r] # None /\ threads[w] = None
  /\ Become(w, NewThread(r, PlanOf(r)))
  /\ UNCHANGED <<runs, steps, attempts, server, resume, paid>>

\* Replay plans the steps a finished run has in the table, without capability.
Replay(r, prev, w) ==
  /\ Serving /\ runs[r] = None /\ EntryOf(r) = "replay"
  /\ runs[prev] \in Terminal /\ EntryOf(prev) # "adhoc" /\ threads[w] = None
  /\ runs' = [runs EXCEPT ![r] = "pending"]
  /\ LET own == {s \in StepId : steps[s] # None /\ steps[s].owner = prev}
     IN Become(w, NewThread(r, own))
  /\ UNCHANGED <<steps, attempts, server, resume, paid>>

\* Compile refuses a canvas run: MarkFailed.  CompileAdHoc refuses an ad-hoc
\* run: the request fails and the row stays as it is.
CompileFails(w) ==
  LET t == threads[w] IN
  /\ t # None /\ t.phase = "submitted" /\ EntryOf(t.run) # "replay"
  /\ IF AdHoc(t) THEN End(w) ELSE Become(w, [t EXCEPT !.phase = "leaving"])
  /\ UNCHANGED <<runs, steps, attempts, server, resume, paid>>

-----------------------------------------------------------------------------
(***************************************************************************)
(* Execute: the run is registered and stored as running, its steps are     *)
(* stored one by one, then executed in the order of their ids.             *)
(***************************************************************************)
\* A replayed run carries its steps into the first SaveRun; an ad-hoc run is
\* stored a second time with its step, already running.
Begin(w) ==
  LET t == threads[w]
      b == [t EXCEPT !.phase = IF AdHoc(t) THEN "stepping" ELSE "planning",
                     !.local = [s \in StepId |->
                        IF s \notin t.plan \/ EntryOf(t.run) = "agent" THEN None
                        ELSE Fresh(IF AdHoc(t) THEN "running" ELSE "pending")]]
  IN /\ t # None /\ t.phase = "submitted"
     /\ FinishRun(b, "running")
     /\ IF Live(t) \/ AdHoc(t) THEN Become(w, b)
                               ELSE Become(w, [t EXCEPT !.phase = "leaving"])
     /\ UNCHANGED <<attempts, server, resume, paid>>

\* Mutation: the last id comes first.
LastOf(S) == CHOOSE s \in S : \A o \in S : o <= s

First(S) == CHOOSE s \in S : \A o \in S : s <= o

StorePlan(w) ==
  LET t == threads[w]
      s == First(t.todo)
      l == Fresh("pending")
  IN /\ t # None /\ t.phase = "planning" /\ t.todo # {}
     /\ steps' = IF Live(t) THEN SaveStep(steps, t.run, s, l) ELSE steps
     /\ Become(w, [t EXCEPT !.todo = @ \ {s}, !.local[s] = l])
     /\ UNCHANGED <<runs, attempts, server, resume, paid>>

Planned(w) ==
  LET t == threads[w] IN
  /\ t # None /\ t.phase = "planning" /\ t.todo = {}
  /\ Become(w, [t EXCEPT !.phase = IF Live(t) THEN "stepping" ELSE "leaving",
                         !.todo = t.plan])
  /\ UNCHANGED <<runs, steps, attempts, server, resume, paid>>

\* Mutation: a step starts although its inputs are not there.
depsSatisfiedAlways(t, s) == TRUE

\* Steps outside the plan count as done, steps of the plan must have succeeded.
depsSatisfied(t, s) ==
  \A d \in t.plan : <<d, s>> \in Feeds => t.local[d].status = "succeeded"

SkipStep(w) ==
  LET t == threads[w]
      s == First(t.todo)
      l == [t.local[s] EXCEPT !.status = "skipped"]
  IN /\ t # None /\ t.phase = "stepping" /\ t.todo # {} /\ ~AdHoc(t)
     /\ ~depsSatisfied(t, s)
     /\ steps' = IF Live(t) THEN SaveStep(steps, t.run, s, l) ELSE steps
     /\ Become(w, [t EXCEPT !.todo = @ \ {s}, !.local[s] = l])
     /\ UNCHANGED <<runs, attempts, server, resume, paid>>

StartStep(w) ==
  LET t == threads[w]
      s == First(t.todo)
      l == [t.local[s] EXCEPT !.status = "running"]
  IN /\ t # None /\ t.phase = "stepping" /\ t.todo # {}
     /\ AdHoc(t) \/ depsSatisfied(t, s)
     /\ steps' = IF Live(t) THEN SaveStep(steps, t.run, s, l) ELSE steps
     /\ Become(w, [t EXCEPT !.todo = @ \ {s}, !.at = s, !.local[s] = l,
                            !.phase = "calling"])
     /\ UNCHANGED <<runs, attempts, server, resume, paid>>

\* runStep returned an error.  Execute marks the step failed and goes on, unless
\* the context is done; ExecuteAdHoc finishes the run with the step as it is.
StepFails(w, t) ==
  LET l == [t.local[t.at] EXCEPT !.status = "failed"] IN
  IF AdHoc(t)
  THEN FinishRun(t, "failed") /\ Become(w, [t EXCEPT !.phase = "leaving"])
  ELSE IF Live(t)
  THEN /\ StoreStep(t, l)
       /\ Become(w, [t EXCEPT !.phase = "stepping", !.at = None, !.local[t.at] = l])
       /\ UNCHANGED runs
  ELSE /\ Become(w, [t EXCEPT !.phase = "leaving",   \* markCanceled
                       !.local = [s \in StepId |->
                          IF @[s] = None \/ @[s].status \in {"succeeded", "failed"}
                          THEN @[s] ELSE [@[s] EXCEPT !.status = "canceled"]]])
       /\ UNCHANGED <<runs, steps>>

\* No credential (the step is failed at once), or an input that cannot be read:
\* no call is made.  The plan of a replay names no capability: it ends here.
Unresolved(w) ==
  LET t == threads[w] IN
  /\ t # None /\ t.phase = "calling" /\ t.local[t.at].tried = 0
  /\ \E status \in {"failed", t.local[t.at].status} :
       StepFails(w, [t EXCEPT !.local[t.at].status = status])
  /\ UNCHANGED <<attempts, server, resume, paid>>

Pay(t) == paid' = [paid EXCEPT ![<<t.run, t.at>>] = IF @ < 2 THEN @ + 1 ELSE @]

Calls(w) ==
  /\ threads[w] # None /\ threads[w].phase = "calling"
  /\ EntryOf(threads[w].run) # "replay"

\* Mutation: outputs that cannot be stored are asked for again.
StoreFailsRetried(w) ==
  /\ Calls(w) /\ "unstored" \in Answer
  /\ Pay(threads[w])
  /\ UNCHANGED <<runs, steps, attempts, threads, server, resume>>

\* The call succeeds but its outputs cannot be stored: the step fails without
\* an attempt.
StoreFails(w) ==
  /\ Calls(w) /\ "unstored" \in Answer
  /\ Pay(threads[w])
  /\ StepFails(w, threads[w])
  /\ UNCHANGED <<attempts, server, resume>>

\* An answer: outputs, or only the handle of a task that goes on upstream.
CallSucceeds(w, answer) ==
  LET t == threads[w]
      tried == t.local[t.at].tried + 1
  IN /\ Calls(w) /\ answer \in Answer \intersect {"product", "task"}
     /\ Live(t)
     /\ Pay(t)
     /\ attempts' = SaveAttempt(t.run, t.at, tried, "succeeded", answer = "task")
     /\ Become(w, [t EXCEPT !.phase = "answered",
                            !.local[t.at].tried = tried,
                            !.local[t.at].product = (answer = "product")])
     /\ UNCHANGED <<runs, steps, server, resume>>

\* The answer came just before the context was done: nothing of it is stored.
CallSucceedsLate(w) ==
  LET t == threads[w] IN
  /\ Calls(w) /\ "product" \in Answer /\ ~Live(t)
  /\ Pay(t)
  /\ Become(w, [t EXCEPT !.phase = "answered", !.local[t.at].tried = @ + 1,
                         !.local[t.at].product = TRUE])
  /\ UNCHANGED <<runs, steps, attempts, server, resume>>

StoreResult(w) ==
  LET t == threads[w]
      l == [t.local[t.at] EXCEPT !.status = "succeeded"]
  IN /\ t # None /\ t.phase = "answered"
     /\ StoreStep(t, l)
     /\ Become(w, [t EXCEPT !.phase = "stepping", !.at = None, !.local[t.at] = l])
     /\ UNCHANGED <<runs, attempts, server, resume, paid>>

\* A call fails; a context that is done fails it at once.
CallFails(w, answer) ==
  LET t == threads[w]
      tried == t.local[t.at].tried + 1
      f == [t EXCEPT !.local[t.at].tried = tried]
      retry == answer = "transient" /\ Live(t) /\ tried < MaxAttempts
  IN /\ Calls(w)
     /\ IF Live(t) THEN answer \in Answer \intersect {"transient", "permanent"}
                   ELSE answer = "permanent"
     /\ attempts' = IF Live(t) THEN SaveAttempt(t.run, t.at, tried, "failed", FALSE)
                               ELSE attempts
     /\ IF retry
        THEN LET l == [f.local[t.at] EXCEPT !.status = "retrying"]
             IN /\ StoreStep(t, l)
                /\ Become(w, [f EXCEPT !.phase = "backoff", !.local[t.at] = l])
                /\ UNCHANGED runs
        ELSE StepFails(w, f)
     /\ UNCHANGED <<server, resume, paid>>

\* Mutation: a done context ends neither the backoff nor the run.
BackoffEndsByTimer(w) ==
  LET t == threads[w] IN
  /\ t # None /\ t.phase = "backoff" /\ Live(t)
  /\ Become(w, [t EXCEPT !.phase = "calling"])
  /\ UNCHANGED <<runs, steps, attempts, server, resume, paid>>

\* The timer ends the backoff, or the context does: ErrCanceled.
BackoffEnds(w) ==
  LET t == threads[w] IN
  /\ t # None /\ t.phase = "backoff"
  /\ IF Live(t)
     THEN Become(w, [t EXCEPT !.phase = "calling"]) /\ UNCHANGED <<runs, steps>>
     ELSE StepFails(w, t)
  /\ UNCHANGED <<attempts, server, resume, paid>>

-----------------------------------------------------------------------------
(***************************************************************************)
(* The end of Execute: the summary of the steps is stored and the caller   *)
(* stores a failed run once more; a replay has no such caller.             *)
(***************************************************************************)
Summary(locals) ==
  IF \A l \in locals : l.status # "failed" THEN "succeeded"
  ELSE IF \E l \in locals : l.status = "succeeded" THEN "partial" ELSE "failed"

Locals(t) == {t.local[s] : s \in t.plan}

\* Mutation: the caller marks the run failed without looking at the error.
SummariseMarks(w) ==
  LET t == threads[w] IN
  /\ t # None /\ t.phase = "stepping" /\ t.todo = {}
  /\ FinishRun(t, Summary(Locals(t)))
  /\ Become(w, [t EXCEPT !.phase = "leaving"])
  /\ UNCHANGED <<attempts, server, resume, paid>>

Summarise(w) ==
  LET t == threads[w]
      status == Summary(Locals(t))
  IN /\ t # None /\ t.phase = "stepping" /\ t.todo = {}
     /\ FinishRun(t, status)
     /\ IF status = "failed" THEN Become(w, [t EXCEPT !.phase = "leaving"]) ELSE End(w)
     /\ UNCHANGED <<attempts, server, resume, paid>>

\* MarkFailed runs in the context of the caller, which a cancel leaves alone.
Leave(w) ==
  LET t == threads[w] IN
  /\ t # None /\ t.phase = "leaving"
  /\ IF EntryOf(t.run) = "replay" \/ t.ctx = "expired"
     THEN UNCHANGED <<runs, steps>>
     ELSE FinishRun([t EXCEPT !.ctx = "live"], "failed")
  /\ End(w)
  /\ UNCHANGED <<attempts, server, resume, paid>>

\* Cancel reaches a run that Execute has registered: no ad-hoc run.
Cancel(w) ==
  LET t == threads[w] IN
  /\ Serving /\ t # None /\ "cancel" \in asked[t.run].hurt /\ ~AdHoc(t)
  /\ t.phase \notin {"submitted", "leaving"} /\ Live(t)
  /\ Become(w, [t EXCEPT !.ctx = "canceled"])
  /\ UNCHANGED <<runs, steps, attempts, server, resume, paid>>

Expire(w) ==
  LET t == threads[w] IN
  /\ t # None /\ "expire" \in asked[t.run].hurt /\ t.ctx # "expired"
  /\ Become(w, [t EXCEPT !.ctx = "expired"])
  /\ UNCHANGED <<runs, steps, attempts, server, resume, paid>>

-----------------------------------------------------------------------------
(***************************************************************************)
(* The server.  A crash takes every goroutine; ResumeAll lists the runs    *)
(* that are not finished 1.5 s after the start, reads one after the other  *)
(* and stores what it makes of it.                                         *)
(***************************************************************************)
NoRun == [todo |-> {}, run |-> None, status |-> None,
          local |-> [s \in StepId |-> None], polls |-> {}]

Crash ==
  /\ server.phase # "down" /\ server.crashes < MaxCrashes
  /\ server' = [phase |-> "down", crashes |-> server.crashes + 1]
  /\ threads' = [w \in Slot |-> None]
  /\ resume' = NoRun
  /\ UNCHANGED <<runs, steps, attempts, paid>>

Restart ==
  /\ server.phase = "down"
  /\ server' = [server EXCEPT !.phase = "early"]
  /\ UNCHANGED <<runs, steps, attempts, threads, resume, paid>>

ListResumable == {r \in Run : runs[r] \in {"pending", "running"}}

StartResume ==
  /\ server.phase = "early"
  /\ server' = [server EXCEPT !.phase = "resuming"]
  /\ resume' = [NoRun EXCEPT !.todo = ListResumable]
  /\ UNCHANGED <<runs, steps, attempts, threads, paid>>

OwnSteps(r) == {s \in StepId : steps[s] # None /\ steps[s].owner = r}

\* findPendingAsync: steps that are not settled and have the handle of a task.
PendingAsync(r) ==
  {s \in OwnSteps(r) : /\ steps[s].status \notin Settled
                       /\ \E a \in attempts : a.step = s /\ a.task}

\* A run that is pending, or was settled meanwhile, is left as it is.
LoadRun(r) ==
  LET polls == PendingAsync(r)
      left == polls = {} /\ runs[r] # "running"
  IN /\ server.phase = "resuming" /\ resume.run = None /\ r \in resume.todo
     /\ resume' = [todo |-> resume.todo \ {r},
                    run |-> IF left THEN None ELSE r,
                    status |-> IF left THEN None ELSE IF polls = {} THEN "running" ELSE "async",
                    local |-> [s \in StepId |->
                       IF left \/ s \notin OwnSteps(r) THEN None
                       ELSE [status |-> steps[s].status, product |-> steps[s].product]],
                    polls |-> polls]
     /\ UNCHANGED <<runs, steps, attempts, threads, server, paid>>

Resumed(local, status) ==
  /\ runs' = [runs EXCEPT ![resume.run] = status]
  /\ steps' = [s \in StepId |->
       IF local[s] = None THEN steps[s]
       ELSE SaveStep(steps, resume.run, s, local[s])[s]]
  /\ resume' = [NoRun EXCEPT !.todo = resume.todo]
  /\ UNCHANGED <<attempts, threads, server, paid>>

\* Mutation: the run is left as it is.
InterruptIgnored ==
  /\ resume.run # None /\ resume.status = "running"
  /\ resume' = [NoRun EXCEPT !.todo = resume.todo]
  /\ UNCHANGED <<runs, steps, attempts, threads, server, paid>>

\* Mutation: the run is settled, its open steps are not.
InterruptRunOnly ==
  /\ resume.run # None /\ resume.status = "running"
  /\ Resumed(resume.local, "partial")

\* Nothing to poll: open steps fail and the run is partial, or else succeeded.
Interrupt ==
  LET open == {s \in StepId : resume.local[s] # None /\ resume.local[s].status \notin Settled}
  IN /\ resume.run # None /\ resume.status = "running"
     /\ Resumed([s \in StepId |-> IF s \in open
                                   THEN [resume.local[s] EXCEPT !.status = "failed"]
                                   ELSE resume.local[s]],
                 IF open = {} THEN "succeeded" ELSE "partial")

\* A task is found done or failed (or its credential is gone); or the ten
\* minutes pass and the step stays as it is.
Poll(s, outcome) ==
  /\ s \in resume.polls
  /\ resume' = [resume EXCEPT
       !.polls = @ \ {s},
       !.local[s].status = IF outcome = "open" THEN @ ELSE outcome]
  /\ steps' = IF outcome = "open" THEN steps
              ELSE SaveStep(steps, resume.run, s, resume'.local[s])
  /\ UNCHANGED <<runs, attempts, threads, server, paid>>

FinishAsync ==
  /\ resume.run # None /\ resume.status = "async" /\ resume.polls = {}
  /\ Resumed(resume.local, Summary({resume.local[s] : s \in StepId} \ {None}))

EndResume ==
  /\ server.phase = "resuming" /\ resume.run = None /\ resume.todo = {}
  /\ server' = [server EXCEPT !.phase = "up"]
  /\ UNCHANGED <<runs, steps, attempts, threads, resume, paid>>

-----------------------------------------------------------------------------
Init ==
  /\ asked \in Requests
  /\ runs = [r \in Run |-> None]
  /\ steps = [s \in StepId |-> None]
  /\ attempts = {}
  /\ threads = [w \in Slot |-> None]
  /\ server = [phase |-> "up", crashes |-> 0]
  /\ resume = NoRun
  /\ paid = [k \in Run \X StepId |-> 0]

Proceed(w) ==
  \/ CompileFails(w) \/ Begin(w) \/ StorePlan(w) \/ Planned(w)
  \/ SkipStep(w) \/ StartStep(w) \/ Unresolved(w) \/ StoreFails(w)
  \/ \E answer \in Answer : CallSucceeds(w, answer)
  \/ CallSucceedsLate(w) \/ StoreResult(w)
  \/ \E answer \in {"transient", "permanent"} : CallFails(w, answer)
  \/ BackoffEnds(w) \/ Summarise(w) \/ Leave(w)

ResumeStep ==
  \/ StartResume
  \/ \E r \in Run : LoadRun(r)
  \/ Interrupt
  \/ \E s \in StepId, outcome \in {"succeeded", "failed", "open"} : Poll(s, outcome)
  \/ FinishAsync \/ EndResume

Step ==
  \/ \E r \in Run, w \in Slot : Submit(r, w) \/ Resubmit(r, w)
  \/ \E r \in Run : SubmitManual(r)
  \/ \E r, prev \in Run, w \in Slot : Replay(r, prev, w)
  \/ \E w \in Slot : Proceed(w) \/ Cancel(w) \/ Expire(w)
  \/ Crash \/ Restart \/ ResumeStep

Next == Step /\ UNCHANGED asked

Spec == Init /\ [][Next]_<<vars, asked>>

\* A goroutine runs until it blocks and every block ends (a call by the
\* client's timeout or its context, a backoff by its timer); a server that is
\* down is started again, and then resumes.
FairSpec ==
  /\ Spec
  /\ \A w \in Slot : WF_vars(Proceed(w))
  /\ WF_vars(Restart) /\ WF_vars(ResumeStep)

-----------------------------------------------------------------------------
Executing(r) == \E w \in Slot : threads[w] # None /\ threads[w].run = r

ToBeResumed(r) ==
  server.phase \in {"down", "early"} \/ r \in resume.todo \/ resume.run = r

\* Its user leaves the run alone: nothing is canceled or sent twice, and it
\* ends within its 30 minutes.
Undisturbed(r) == asked[r].hurt = {}

\* A run stored as running is executed by a goroutine, or a resumption is still
\* to come that settles it: none is left running for ever (app.go
\* startBackground, resume.go Resume, adhoc.go MarkFailed).
RunningIsExecuted ==
  \A r \in Run : Undisturbed(r) /\ runs[r] = "running" => Executing(r) \/ ToBeResumed(r)

\* The same of a run that is canceled (engine.go Cancel, markCanceled, finishRun).
CanceledIsExecuted ==
  \A r \in Run :
    "cancel" \in asked[r].hurt /\ runs[r] = "running" => Executing(r) \/ ToBeResumed(r)

\* A run that has ended keeps its status: no late goroutine and no resumption
\* changes it (engine.go finishRun, resume.go Resume).
TerminalStays ==
  [][\A r \in Run : Undisturbed(r) /\ runs[r] \in Terminal => runs'[r] = runs[r]]_vars

\* No step of a run is paid for twice (INV-3), whatever fails, is canceled or is
\* resumed.
PaidOnce ==
  \A k \in DOMAIN paid : "again" \notin asked[k[1]].hurt => paid[k] < 2

\* A run that is submitted again with its Idempotency-Key is paid for once (INV-2).
KeyPaidOnce ==
  \A k \in DOMAIN paid : "again" \in asked[k[1]].hurt => paid[k] < 2

\* A step that an upstream is called for, or was, has the executable steps of
\* the plan that feed it behind it (compiler.go, depsSatisfied).
StartsAfterInputs ==
  \A w \in Slot : threads[w] # None /\ threads[w].phase = "calling" /\ Live(threads[w]) =>
    \A d \in threads[w].plan : <<d, threads[w].at>> \in Feeds =>
      steps[d] # None /\ steps[d].status = "succeeded"

SummaryFits(r) ==
  LET own == {steps[s].status : s \in OwnSteps(r)} IN
  /\ runs[r] = "succeeded" => own # {} /\ "failed" \notin own
  /\ runs[r] = "partial" => "failed" \in own
  /\ runs[r] = "failed" => "succeeded" \notin own

\* Unless the server crashed, the stored summary of a run tells what its stored
\* steps tell (engine.go Execute, MarkFailed).
SummaryAgrees ==
  server.crashes = 0 => \A r \in Run : Undisturbed(r) => SummaryFits(r)

\* A canvas run that has ended, also by a resumption, has no step that is still
\* pending or running.
SettledSteps ==
  \A r \in Run : runs[r] \in Terminal /\ EntryOf(r) # "adhoc" =>
    \A s \in OwnSteps(r) : steps[s].status \in Settled

\* A run whose steps are all stored finds them again under its id.
RunHasItsSteps ==
  \A w \in Slot : threads[w] # None /\ threads[w].phase = "stepping" /\ Live(threads[w]) =>
    threads[w].plan \subseteq OwnSteps(threads[w].run)

\* Every call that succeeded is a succeeded attempt of its run in the table,
\* whatever was tried before (sqlstore.go SaveAttempt: all tries of a step share
\* a request id).
SuccessIsRecorded ==
  \A w \in Slot : threads[w] # None /\ Undisturbed(threads[w].run) =>
    \A s \in threads[w].plan :
      threads[w].local[s] # None /\ threads[w].local[s].status = "succeeded" =>
        \E a \in attempts : a.run = threads[w].run /\ a.step = s /\ a.status = "succeeded"

\* A step is skipped only behind a step that failed or was skipped itself.
SkippedOnlyForFailure ==
  \A w \in Slot : threads[w] # None =>
    \A s \in threads[w].plan :
      threads[w].local[s] # None /\ threads[w].local[s].status = "skipped" =>
        \E d \in threads[w].plan : /\ <<d, s>> \in Feeds
                                   /\ threads[w].local[d].status \in {"failed", "skipped"}

\* The steps of a run that has ended stay as they are while other runs execute:
\* what it did can still be read, and replayed.
FinishedStepsStay ==
  [][\A r \in Run : Undisturbed(r) /\ runs[r] \in Terminal /\ runs'[r] = runs[r] =>
       \A s \in OwnSteps(r) : steps'[s] = steps[s]]_vars

\* Every execution comes to its end, whatever is canceled, expires or crashes.
ExecutionEnds == \A w \in Slot : (threads[w] # None) ~> (threads[w] = None)

\* A run that is stored as running ends, through crashes and restarts.
RunningEnds ==
  \A r \in Run : Undisturbed(r) /\ runs[r] = "running" ~> runs[r] \in Terminal

(***************************************************************************)
(* What comments and documents say and the code does not keep, beyond the  *)
(* runs of the project: the README names a configuration for each.         *)
(***************************************************************************)
\* A run that is pending is executed, or a resumption is still to come.
PendingIsExecuted ==
  \A r \in Run : runs[r] = "pending" => Executing(r) \/ ToBeResumed(r)

\* SummaryAgrees, also of runs that a resumption settled.
ResumedSummaryAgrees == \A r \in Run : SummaryFits(r)

\* SettledSteps of ad-hoc runs.
AdHocSettlesSteps ==
  \A r \in Run : runs[r] \in Terminal /\ EntryOf(r) = "adhoc" =>
    \A s \in OwnSteps(r) : steps[s].status \in Settled

\* A step that is stored as succeeded has something to show.
SucceededHasProduct ==
  \A s \in StepId : steps[s] # None /\ steps[s].status = "succeeded" => steps[s].product

\* A run that is stored as failed, and has steps, has a step that failed.
FailedForCause ==
  \A r \in Run : runs[r] = "failed" /\ OwnSteps(r) # {} =>
    \E s \in OwnSteps(r) : steps[s].status = "failed"
==============================================================================
