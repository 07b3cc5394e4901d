--------------------------- MODULE RunEngineProofs ---------------------------
(***************************************************************************)
(* Theorems about RunEngine, for all numbers of runs, nodes, goroutines,   *)
(* attempts and crashes.                                                   *)
(*                                                                         *)
(* The invariants are layers, each inductive with those before it: Base    *)
(* (goroutines and payments), Quiet (a resumption has the server to        *)
(* itself), Stocked (the types of the rows), Rows (what rows have to do    *)
(* with goroutines) and Ended (what a run that has ended leaves behind).   *)
(* Each action has a lemma that says what kind of change it makes to its   *)
(* goroutine (...Kind); the layers are proved from those.                  *)
(***************************************************************************)
EXTENDS RunEngine, WellFoundedInduction, TLAPS

\* The run is not sent again with its key.
Once(r) == "again" \notin asked[r].hurt

AtStep(t) == t.phase \in {"calling", "backoff", "answered"}

Executes(t) == t.phase = "stepping" \/ AtStep(t)

\* What a goroutine may hold of a step that it has still to execute, that it
\* executes, and that it has executed.
Waiting(l) == l \in Local /\ l.status \in {"pending", "running"} /\ l.tried = 0
InHand(l)  == l \in Local /\ l.status \in {"running", "retrying"}
Done(l)    == l \in Local /\ l.status \in {"succeeded", "failed", "skipped"}

\* What a goroutine holds fits the phase it is in.
Fits(t) ==
  /\ t \in Thread /\ t.todo \subseteq t.plan
  /\ ~AtStep(t) /\ t.phase # "leaving" => t.at = None
  /\ t.phase = "submitted" => t.todo = t.plan /\ \A s \in t.plan : t.local[s] = None
  /\ t.phase = "planning" =>
       \A s \in t.plan : (s \in t.todo /\ t.local[s] = None) \/ Waiting(t.local[s])
  /\ Executes(t) =>
       \A s \in t.plan : IF s \in t.todo THEN Waiting(t.local[s])
                         ELSE s = t.at \/ Done(t.local[s])
  /\ AtStep(t) => t.at \in t.plan \ t.todo /\ InHand(t.local[t.at])
  /\ t.phase \in {"calling", "backoff"} => t.local[t.at].tried < MaxAttempts

\* A step is executed behind the steps that feed it.
InputsDone(t) ==
  AtStep(t) /\ ~AdHoc(t) =>
    \A d \in t.plan : <<d, t.at>> \in Feeds => t.local[d].status = "succeeded"

\* A step is skipped behind one that failed or was skipped.
SkipsFit(t) ==
  \A s \in t.plan : t.local[s] # None /\ t.local[s].status = "skipped" =>
    \E d \in t.plan : <<d, s>> \in Feeds /\ t.local[d].status \in {"failed", "skipped"}

\* The steps that a goroutine may still pay for.
Owed(t) ==
  CASE t.phase \in {"submitted", "planning"} -> t.plan
    [] t.phase \in {"calling", "backoff"}    -> t.todo \union {t.at}
    [] OTHER                                 -> t.todo

Tables ==
  /\ asked \in Requests
  /\ runs \in [Run -> RunStatus \union {None}]
  /\ threads = [w \in Slot |-> threads[w]]
  /\ paid \in [Run \X StepId -> 0..2]

\* A run that is not sent again is executed by one goroutine.
OneThread ==
  \A v, w \in Slot :
    threads[v] # None /\ threads[w] # None /\ threads[v].run = threads[w].run
      /\ Once(threads[w].run) => v = w

\* A goroutine executes a run that has a row.
Registered ==
  \A w \in Slot : threads[w] # None => runs[threads[w].run] # None

\* What a goroutine may still pay for has not been paid for.
Unpaid ==
  /\ \A r \in Run, s \in StepId : runs[r] = None => paid[<<r, s>>] = 0
  /\ \A w \in Slot : threads[w] # None /\ Once(threads[w].run) =>
       \A s \in Owed(threads[w]) : paid[<<threads[w].run, s>>] = 0

ThreadsFit == \A w \in Slot : threads[w] # None => Fits(threads[w])
InputsAreDone == \A w \in Slot : threads[w] # None => InputsDone(threads[w])
SkipsAreFit == \A w \in Slot : threads[w] # None => SkipsFit(threads[w])

Base == Tables /\ ThreadsFit /\ OneThread /\ Registered /\ Unpaid /\ PaidOnce

\* While a run that has ended is executed, nothing but its failure is still to be stored.
EndsOnce ==
  \A w \in Slot : LET t == threads[w] IN
    t # None /\ Undisturbed(t.run) =>
      /\ Live(t)
      /\ runs[t.run] \in Terminal => t.phase = "leaving" /\ runs[t.run] = "failed"

\* Nothing is executed while a resumption is to come or under way, and what it has
\* listed has not ended.
ResumesAlone ==
  /\ server = [phase |-> server.phase, crashes |-> server.crashes]
  /\ server.phase # "up" => \A w \in Slot : threads[w] = None
  /\ server.phase # "resuming" => resume.run = None /\ resume.todo = {}
  /\ resume.todo \subseteq Run /\ resume.run \notin resume.todo
  /\ \A r \in Run : r \in resume.todo \union {resume.run} => runs[r] \in {"pending", "running"}

-----------------------------------------------------------------------------
(***************************************************************************)
(* The kinds of changes the actions make to a goroutine t, which becomes u.*)
(***************************************************************************)
\* Edges run up in the order in which steps are executed.
FeedsRunUp == \A e \in Feeds : e[1] < e[2]

Keeps(t, u) == u \in Thread /\ u.run = t.run /\ u.plan = t.plan

\* What all kinds of changes have in common.
Moves(t, u) ==
  /\ Keeps(t, u) /\ Fits(u) /\ Owed(u) \subseteq Owed(t)
  /\ InputsDone(t) => InputsDone(u)
  /\ FeedsRunUp /\ SkipsFit(t) => SkipsFit(u)

\* It goes on with the step at hand; it is through with it; it leaves the run; it begins
\* with it; it plans a step; it goes over to the steps; it skips a step; it starts one;
\* its context is done.
Holds(t, u, l) ==
  /\ Keeps(t, u) /\ u.ctx = t.ctx /\ u.todo = t.todo /\ u.at = t.at /\ AtStep(u)
  /\ u.local = [t.local EXCEPT ![t.at] = l] /\ InHand(l)
  /\ u.phase \in {"calling", "backoff"} => l.tried < MaxAttempts /\ t.phase # "answered"

Settles(t, u, l) ==
  /\ Keeps(t, u) /\ u.ctx = t.ctx /\ u.todo = t.todo /\ u.at = None /\ u.phase = "stepping"
  /\ u.local = [t.local EXCEPT ![t.at] = l] /\ l \in Local /\ l.status \in {"succeeded", "failed"}

Leaves(t, u) ==
  /\ Keeps(t, u) /\ u.ctx = t.ctx /\ u.phase = "leaving" /\ t.phase # "leaving"
  /\ u.todo = t.todo \/ (t.phase = "planning" /\ u.todo = t.plan)
  /\ \/ \A s \in t.plan : u.local[s] = None \/ u.local[s].status # "skipped"
     \/ \A s \in t.plan : IF s = t.at THEN u.local[s].status # "skipped"
                                       ELSE u.local[s] = t.local[s]

Begins(t, u) ==
  /\ Keeps(t, u) /\ u.ctx = t.ctx /\ u.todo = t.todo /\ u.at = t.at
  /\ t.phase = "submitted" /\ u.phase = IF AdHoc(t) THEN "stepping" ELSE "planning"
  /\ \A s \in t.plan : Waiting(u.local[s]) \/ (u.local[s] = None /\ ~AdHoc(t))

Plans(t, u, s) ==
  /\ Keeps(t, u) /\ u.ctx = t.ctx /\ u.todo = t.todo \ {s} /\ u.at = t.at
  /\ t.phase = "planning" /\ u.phase = "planning" /\ s \in t.todo
  /\ u.local = [t.local EXCEPT ![s] = Fresh("pending")]

Goes(t, u) ==
  /\ Keeps(t, u) /\ u.ctx = t.ctx /\ u.todo = t.plan /\ u.at = t.at
  /\ t.phase = "planning" /\ t.todo = {} /\ u.phase = "stepping" /\ u.local = t.local

Skips(t, u, s) ==
  /\ Keeps(t, u) /\ u.ctx = t.ctx /\ u.todo = t.todo \ {s} /\ u.at = t.at
  /\ t.phase = "stepping" /\ u.phase = "stepping" /\ t.todo # {} /\ s = First(t.todo)
  /\ ~depsSatisfied(t, s)
  /\ u.local = [t.local EXCEPT ![s].status = "skipped"]

Starts(t, u, s) ==
  /\ Keeps(t, u) /\ u.ctx = t.ctx /\ u.todo = t.todo \ {s} /\ u.at = s
  /\ t.phase = "stepping" /\ u.phase = "calling" /\ s \in t.todo
  /\ AdHoc(t) \/ depsSatisfied(t, s)
  /\ u.local = [t.local EXCEPT ![s].status = "running"]

Warned(t, u) ==
  /\ Keeps(t, u) /\ u.phase = t.phase /\ u.todo = t.todo /\ u.at = t.at
  /\ u.local = t.local /\ ~Live(u)

LEMMA LeastFirst ==
  ASSUME NEW S \in SUBSET StepId, S # {}
  PROVE  /\ First(S) \in S
         /\ \A o \in S : First(S) <= o
<1> DEFINE Less == {p \in Nat \X Nat : p[1] < p[2]}
<1>1. S \subseteq Nat
  BY IdsTyped DEF StepId
<1>2. IsWellFoundedOn(Less, Nat)
  BY NatLessThanWellFounded DEF OpToRel
<1>3. \A m, n \in Nat : m < n => <<m, n>> \in Less
  OBVIOUS
<1> HIDE DEF Less
<1>4. PICK s \in S : \A o \in S : <<o, s>> \notin Less
  BY <1>1, <1>2, WFMin
<1>5. ASSUME NEW o \in S PROVE s <= o
  <2>1. o \in Nat /\ s \in Nat /\ <<o, s>> \notin Less
    BY <1>1, <1>4
  <2>2. ~(o < s)
    BY <2>1, <1>3
  <2> QED BY <2>1, <2>2
<1> QED BY <1>4, <1>5 DEF First

LEMMA NoneIsNoStep == None \notin StepId
BY IdsTyped DEF StepId

LEMMA HoldsMoves ==
  ASSUME NEW t, NEW u, NEW l, Fits(t), AtStep(t), Holds(t, u, l)
  PROVE  Moves(t, u)
<1>1. t \in Thread /\ u \in Thread /\ u.run = t.run /\ u.plan = t.plan
  BY DEF Fits, Holds, Keeps
<1>2. t.at \in t.plan \ t.todo /\ t.at \in StepId /\ InHand(t.local[t.at])
  BY <1>1 DEF Fits, Thread
<1>3. /\ u.local[t.at] = l
      /\ \A s \in t.plan : s # t.at => u.local[s] = t.local[s]
  BY <1>1, <1>2 DEF Holds, Thread
<1>4. Fits(u)
  <2>1. \A s \in t.plan : s # t.at =>
          IF s \in u.todo THEN Waiting(u.local[s]) ELSE s = u.at \/ Done(u.local[s])
    BY <1>2, <1>3 DEF Fits, Executes, Holds
  <2> QED
    BY <1>1, <1>2, <1>3, <2>1 DEF Fits, AtStep, Executes, Holds
<1>5. Owed(u) \subseteq Owed(t)
  BY <1>1 DEF Holds, Owed, AtStep
<1>6. ASSUME InputsDone(t) PROVE InputsDone(u)
  <2> SUFFICES ASSUME ~AdHoc(t), NEW d \in t.plan, <<d, t.at>> \in Feeds
               PROVE  u.local[d].status = "succeeded"
    BY <1>1 DEF InputsDone, AdHoc, Holds
  <2> QED
    BY <1>2, <1>3, <1>6 DEF InputsDone, InHand
<1>7. ASSUME SkipsFit(t) PROVE SkipsFit(u)
  BY <1>1, <1>2, <1>3, <1>7 DEF SkipsFit, InHand, Holds
<1> QED
  BY <1>1, <1>4, <1>5, <1>6, <1>7 DEF Moves, Keeps

LEMMA SettlesMoves ==
  ASSUME NEW t, NEW u, NEW l, Fits(t), AtStep(t), Settles(t, u, l)
  PROVE  Moves(t, u)
<1>1. t \in Thread /\ u \in Thread /\ u.run = t.run /\ u.plan = t.plan
  BY DEF Fits, Settles, Keeps
<1>2. t.at \in t.plan \ t.todo /\ t.at \in StepId /\ InHand(t.local[t.at])
  BY <1>1 DEF Fits, Thread
<1>3. /\ u.local[t.at] = l
      /\ \A s \in t.plan : s # t.at => u.local[s] = t.local[s]
  BY <1>1, <1>2 DEF Settles, Thread
<1>4. Fits(u)
  <2>1. \A s \in t.plan : s # t.at =>
          IF s \in u.todo THEN Waiting(u.local[s]) ELSE s = u.at \/ Done(u.local[s])
    BY <1>2, <1>3 DEF Fits, Executes, Settles
  <2>2. Done(u.local[t.at])
    BY <1>3 DEF Settles, Done
  <2> QED
    BY <1>1, <1>2, <2>1, <2>2 DEF Fits, AtStep, Executes, Settles
<1>5. Owed(u) \subseteq Owed(t)
  BY <1>1 DEF Settles, Owed, AtStep
<1>6. InputsDone(u)
  BY DEF InputsDone, AtStep, Settles
<1>7. ASSUME SkipsFit(t) PROVE SkipsFit(u)
  BY <1>1, <1>2, <1>3, <1>7 DEF SkipsFit, InHand, Settles
<1> QED
  BY <1>1, <1>4, <1>5, <1>6, <1>7 DEF Moves, Keeps

LEMMA LeavesMoves ==
  ASSUME NEW t, NEW u, Fits(t), Leaves(t, u)
  PROVE  Moves(t, u)
<1>1. t \in Thread /\ u \in Thread /\ u.run = t.run /\ u.plan = t.plan
  BY DEF Fits, Leaves, Keeps
<1>2. Fits(u)
  BY <1>1 DEF Fits, Leaves, AtStep, Executes
<1>3. Owed(u) \subseteq Owed(t)
  BY <1>1 DEF Leaves, Owed, Fits
<1>4. InputsDone(u)
  BY DEF InputsDone, AtStep, Leaves
<1>5. ASSUME SkipsFit(t) PROVE SkipsFit(u)
  <2> SUFFICES ASSUME NEW s \in t.plan, u.local[s] # None, u.local[s].status = "skipped"
               PROVE  \E d \in t.plan : /\ <<d, s>> \in Feeds
                                        /\ u.local[d].status \in {"failed", "skipped"}
    BY <1>1 DEF SkipsFit
  <2>1. /\ s # t.at
        /\ \A o \in t.plan : o # t.at => u.local[o] = t.local[o]
    BY DEF Leaves
  <2>2. PICK d \in t.plan : /\ <<d, s>> \in Feeds
                            /\ t.local[d].status \in {"failed", "skipped"}
    BY <1>5, <2>1 DEF SkipsFit
  <2>3. d # t.at
    <3>1. t.at = None \/ InHand(t.local[t.at])
      BY DEF Fits, Leaves
    <3> QED
      BY <1>1, <2>2, <3>1, NoneIsNoStep DEF InHand, Thread
  <2> QED
    BY <2>1, <2>2, <2>3
<1> QED
  BY <1>1, <1>2, <1>3, <1>4, <1>5 DEF Moves, Keeps

LEMMA WarnedMoves ==
  ASSUME NEW t, NEW u, Fits(t), Warned(t, u)
  PROVE  Moves(t, u)
<1>1. Fits(u)
  BY DEF Fits, Warned, Keeps, AtStep, Executes
<1>2. Owed(u) \subseteq Owed(t)
  BY DEF Warned, Keeps, Owed
<1> QED
  BY <1>1, <1>2 DEF Moves, Keeps, Warned, InputsDone, SkipsFit, AtStep, AdHoc

LEMMA BeginsMoves ==
  ASSUME NEW t, NEW u, Fits(t), Begins(t, u)
  PROVE  Moves(t, u)
<1>1. t \in Thread /\ u \in Thread /\ u.run = t.run /\ u.plan = t.plan /\ t.todo = t.plan
  BY DEF Fits, Begins, Keeps
<1>2. Fits(u)
  BY <1>1 DEF Fits, Begins, AtStep, Executes
<1>3. Owed(u) \subseteq Owed(t)
  BY <1>1 DEF Begins, Owed
<1>4. SkipsFit(u)
  BY <1>1 DEF SkipsFit, Begins, Waiting
<1> QED
  BY <1>1, <1>2, <1>3, <1>4 DEF Moves, Keeps, InputsDone, AtStep, Begins

LEMMA FreshWaits ==
  /\ Waiting(Fresh("pending")) /\ Waiting(Fresh("running"))
  /\ Fresh("pending").status = "pending"
BY BoundsTyped DEF Waiting, Fresh, Local, StepStatus

LEMMA PlansMoves ==
  ASSUME NEW t, NEW u, NEW s, Fits(t), Plans(t, u, s)
  PROVE  Moves(t, u)
<1>1. t \in Thread /\ u \in Thread /\ u.run = t.run /\ u.plan = t.plan /\ s \in t.plan
  BY DEF Fits, Plans, Keeps
<1>2. /\ u.local[s] = Fresh("pending")
      /\ \A o \in t.plan : o # s => u.local[o] = t.local[o]
  BY <1>1 DEF Plans, Thread
<1>3. Fits(u)
  BY <1>1, <1>2, FreshWaits DEF Fits, Plans, AtStep, Executes
<1>4. Owed(u) \subseteq Owed(t)
  BY <1>1 DEF Plans, Owed
<1>5. SkipsFit(u)
  <2>1. \A o \in t.plan : u.local[o] = None \/ Waiting(u.local[o])
    BY <1>2, FreshWaits DEF Fits, Plans
  <2> QED
    BY <1>1, <2>1 DEF SkipsFit, Waiting
<1> QED
  BY <1>1, <1>3, <1>4, <1>5 DEF Moves, Keeps, InputsDone, AtStep, Plans

LEMMA GoesMoves ==
  ASSUME NEW t, NEW u, Fits(t), Goes(t, u)
  PROVE  Moves(t, u)
<1>1. Fits(u)
  BY DEF Fits, Goes, Keeps, AtStep, Executes
<1>2. Owed(u) \subseteq Owed(t)
  BY DEF Goes, Keeps, Owed
<1> QED
  BY <1>1, <1>2 DEF Moves, Keeps, Goes, InputsDone, SkipsFit, AtStep

\* A step is skipped for an input that has failed or was skipped, provided that
\* inputs have smaller ids: the other inputs of the plan are done.
LEMMA SkipsMoves ==
  ASSUME NEW t, NEW u, NEW s, Fits(t), Skips(t, u, s)
  PROVE  Moves(t, u)
<1>1. /\ t \in Thread /\ u \in Thread /\ u.run = t.run /\ u.plan = t.plan
      /\ s \in t.todo /\ s \in t.plan /\ s \in StepId /\ t.todo \in SUBSET StepId /\ t.at = None
      /\ \A o \in t.todo : s <= o
  BY LeastFirst DEF Fits, Skips, Keeps, Thread, AtStep
<1>2. /\ u.local[s] = [t.local[s] EXCEPT !.status = "skipped"]
      /\ \A o \in t.plan : o # s => u.local[o] = t.local[o]
  BY <1>1 DEF Skips, Thread
<1>3. Waiting(t.local[s])
  BY <1>1 DEF Fits, Skips, Executes
<1>4. Done(u.local[s]) /\ u.local[s].status = "skipped"
  <2>1. t.local[s] \in Local
    BY <1>3 DEF Waiting
  <2>2. u.local[s] \in Local /\ u.local[s].status = "skipped"
    BY <1>2, <2>1 DEF Local, StepStatus, Settled
  <2> QED
    BY <2>2 DEF Done
<1>5. Fits(u)
  <2>1. \A o \in t.plan : o # s =>
          IF o \in u.todo THEN Waiting(u.local[o]) ELSE o = u.at \/ Done(u.local[o])
    BY <1>1, <1>2, NoneIsNoStep DEF Fits, Executes, Skips
  <2> QED
    BY <1>1, <1>4, <2>1 DEF Fits, Skips, AtStep, Executes
<1>6. Owed(u) \subseteq Owed(t)
  BY <1>1 DEF Skips, Owed
<1>7. ASSUME FeedsRunUp, SkipsFit(t) PROVE SkipsFit(u)
  <2> SUFFICES ASSUME NEW o \in t.plan, u.local[o] # None, u.local[o].status = "skipped"
               PROVE  \E d \in t.plan : /\ <<d, o>> \in Feeds
                                        /\ u.local[d].status \in {"failed", "skipped"}
    BY <1>1 DEF SkipsFit
  <2>1. CASE o = s
    <3>1. PICK d \in t.plan : <<d, s>> \in Feeds /\ t.local[d].status # "succeeded"
      BY DEF Skips, depsSatisfied
    <3>2. d \in StepId /\ d < s
      BY <1>1, <1>7, <3>1 DEF FeedsRunUp, Thread
    <3>3. d # s /\ d \notin t.todo
      <4>1. d \in Nat /\ s \in Nat
        BY <1>1, <3>2, IdsTyped DEF StepId
      <4> QED
        BY <4>1, <3>2, <1>1
    <3>4. Done(t.local[d])
      BY <1>1, <3>2, <3>3, NoneIsNoStep DEF Fits, Executes, Skips
    <3> QED
      BY <1>2, <2>1, <3>1, <3>3, <3>4 DEF Done
  <2>2. CASE o # s
    <3>1. PICK d \in t.plan : <<d, o>> \in Feeds /\ t.local[d].status \in {"failed", "skipped"}
      BY <1>2, <1>7, <2>2 DEF SkipsFit
    <3> QED
      BY <1>2, <1>3, <3>1 DEF Waiting
  <2> QED
    BY <2>1, <2>2
<1> QED
  BY <1>1, <1>5, <1>6, <1>7 DEF Moves, Keeps, InputsDone, AtStep, Skips

LEMMA StartsMoves ==
  ASSUME NEW t, NEW u, NEW s, Fits(t), Starts(t, u, s)
  PROVE  Moves(t, u)
<1>1. /\ t \in Thread /\ u \in Thread /\ u.run = t.run /\ u.plan = t.plan
      /\ s \in t.todo /\ s \in t.plan /\ s \in StepId /\ t.at = None
  BY DEF Fits, Starts, Keeps, Thread, AtStep
<1>2. /\ u.local[s] = [t.local[s] EXCEPT !.status = "running"]
      /\ \A o \in t.plan : o # s => u.local[o] = t.local[o]
  BY <1>1 DEF Starts, Thread
<1>3. Waiting(t.local[s])
  BY <1>1 DEF Fits, Starts, Executes
<1>4. InHand(u.local[s]) /\ u.local[s].tried < MaxAttempts
  BY <1>2, <1>3, BoundsTyped DEF Waiting, InHand, Local, StepStatus
<1>5. Fits(u)
  <2>1. \A o \in t.plan : o # s =>
          IF o \in u.todo THEN Waiting(u.local[o]) ELSE o = u.at \/ Done(u.local[o])
    BY <1>1, <1>2, NoneIsNoStep DEF Fits, Executes, Starts, Thread
  <2> QED
    BY <1>1, <1>4, <2>1 DEF Fits, Starts, AtStep, Executes
<1>6. Owed(u) \subseteq Owed(t)
  BY <1>1 DEF Starts, Owed
<1>7. InputsDone(u)
  <2> SUFFICES ASSUME ~AdHoc(t), NEW d \in t.plan, <<d, s>> \in Feeds
               PROVE  u.local[d].status = "succeeded"
    BY <1>1 DEF InputsDone, AdHoc, Starts
  <2>1. t.local[d].status = "succeeded"
    BY DEF Starts, depsSatisfied
  <2> QED
    BY <1>2, <1>3, <2>1 DEF Waiting
<1>8. ASSUME SkipsFit(t) PROVE SkipsFit(u)
  BY <1>1, <1>2, <1>3, <1>4, <1>8 DEF SkipsFit, InHand, Waiting
<1> QED
  BY <1>1, <1>5, <1>6, <1>7, <1>8 DEF Moves, Keeps

-----------------------------------------------------------------------------
\* f is t with what it holds of the step at hand replaced by l.
Revised(t, f, l) ==
  /\ Keeps(t, f) /\ f.ctx = t.ctx /\ f.todo = t.todo /\ f.at = t.at /\ f.phase = t.phase
  /\ f.local = [t.local EXCEPT ![t.at] = l] /\ l \in Local /\ l.status # "skipped"

\* What StepFails makes of it.
Fails(t, u) ==
  \/ /\ AdHoc(t) /\ Leaves(t, u) /\ u.at = t.at /\ FinishRun(u, "failed")
     /\ \E l \in Local : u.local = [t.local EXCEPT ![t.at] = l]
  \/ /\ ~AdHoc(t) /\ Live(t) /\ runs' = runs
     /\ \E l : Settles(t, u, l) /\ steps' = SaveStep(steps, t.run, t.at, l)
  \/ ~AdHoc(t) /\ ~Live(t) /\ Leaves(t, u) /\ UNCHANGED <<runs, steps>>

LEMMA StepFailsKind ==
  ASSUME NEW w, NEW t, NEW f, NEW l, Fits(t), AtStep(t), Revised(t, f, l), StepFails(w, f)
  PROVE  \E u : Become(w, u) /\ Fails(t, u)
<1>1. /\ t \in Thread /\ f \in Thread /\ f.run = t.run /\ f.plan = t.plan
      /\ t.at \in t.plan /\ t.at \in StepId /\ t.plan \subseteq StepId
      /\ f.local[t.at] = l /\ f.at = t.at /\ f.ctx = t.ctx /\ l \in Local
      /\ AdHoc(f) = AdHoc(t) /\ Live(f) = Live(t)
  BY DEF Revised, Keeps, Fits, Thread, AdHoc, Live
<1>2. CASE AdHoc(t)
  <2> DEFINE u == [f EXCEPT !.phase = "leaving"]
  <2>1. Become(w, u) /\ FinishRun(f, "failed")
    BY <1>1, <1>2 DEF StepFails
  <2>2. /\ u \in Thread /\ u.run = t.run /\ u.plan = t.plan /\ u.ctx = t.ctx /\ u.at = t.at
        /\ u.todo = t.todo /\ u.phase = "leaving" /\ u.local = f.local
    BY <1>1 DEF Thread, Revised
  <2> HIDE DEF u
  <2>3. FinishRun(u, "failed")
    BY <2>1, <2>2, <1>1 DEF FinishRun, Live, SaveSteps, Stored
  <2>4. Leaves(t, u)
    <3>1. \A s \in t.plan : IF s = t.at THEN u.local[s].status # "skipped"
                                        ELSE u.local[s] = t.local[s]
      BY <1>1, <2>2 DEF Revised, Thread
    <3> QED
      BY <2>2, <3>1 DEF Leaves, Keeps, AtStep
  <2> QED
    BY <1>1, <1>2, <2>1, <2>2, <2>3, <2>4 DEF Fails, Revised
<1>3. CASE ~AdHoc(t) /\ Live(t)
  <2> DEFINE m == [f.local[t.at] EXCEPT !.status = "failed"]
             u == [f EXCEPT !.phase = "stepping", !.at = None, !.local[t.at] = m]
  <2>1. Become(w, u) /\ runs' = runs /\ steps' = SaveStep(steps, t.run, t.at, m)
    BY <1>1, <1>3 DEF StepFails, StoreStep
  <2>2. m \in Local /\ m.status = "failed"
    BY <1>1 DEF Local, StepStatus, Settled
  <2> HIDE DEF m
  <2>3. /\ u \in Thread /\ u.run = t.run /\ u.plan = t.plan /\ u.ctx = t.ctx /\ u.at = None
        /\ u.todo = t.todo /\ u.phase = "stepping" /\ u.local = [f.local EXCEPT ![t.at] = m]
    BY <1>1, <2>2 DEF Thread, Revised
  <2>4. u.local = [t.local EXCEPT ![t.at] = m]
    BY <1>1, <2>3 DEF Revised, Thread
  <2> HIDE DEF u
  <2>5. Settles(t, u, m)
    BY <2>2, <2>3, <2>4 DEF Settles, Keeps
  <2> QED
    BY <1>3, <2>1, <2>5 DEF Fails
<1>4. CASE ~AdHoc(t) /\ ~Live(t)
  <2> DEFINE Mark(x) == IF x = None \/ x.status \in {"succeeded", "failed"}
                        THEN x ELSE [x EXCEPT !.status = "canceled"]
             u == [f EXCEPT !.phase = "leaving", !.local = [s \in StepId |-> Mark(f.local[s])]]
  <2>1. Become(w, u) /\ UNCHANGED <<runs, steps>>
    BY <1>1, <1>4 DEF StepFails
  <2>2. ASSUME NEW x \in Local PROVE Mark(x) \in Local /\ Mark(x).status # "skipped"
    <3>1. [x EXCEPT !.status = "canceled"] \in Local
      BY DEF Local, StepStatus, Settled
    <3>2. [x EXCEPT !.status = "canceled"].status = "canceled"
      BY DEF Local
    <3>3. x # None
      BY NoneIsApart
    <3> QED
      BY <3>1, <3>2, <3>3
  <2>3. Mark(None) = None
    OBVIOUS
  <2> HIDE DEF Mark
  <2>4. /\ u \in Thread /\ u.run = t.run /\ u.plan = t.plan /\ u.ctx = t.ctx
        /\ u.todo = t.todo /\ u.phase = "leaving"
        /\ \A s \in StepId : u.local[s] = Mark(f.local[s])
    BY <1>1, <2>2, <2>3 DEF Thread, Revised
  <2> HIDE DEF u
  <2>5. \A s \in t.plan : u.local[s] = None \/ u.local[s].status # "skipped"
    BY <1>1, <2>2, <2>3, <2>4 DEF Thread
  <2> QED
    BY <1>4, <2>1, <2>4, <2>5 DEF Fails, Leaves, Keeps, AtStep
<1> QED
  BY <1>2, <1>3, <1>4

-----------------------------------------------------------------------------
LEMMA CompileFailsKind ==
  ASSUME NEW w, Fits(threads[w]), CompileFails(w)
  PROVE  \/ AdHoc(threads[w]) /\ End(w)
         \/ \E u : Become(w, u) /\ Leaves(threads[w], u) /\ ~AdHoc(threads[w])
                   /\ u.local = threads[w].local
<1> DEFINE t == threads[w]
           u == [t EXCEPT !.phase = "leaving"]
<1>1. t \in Thread /\ t.phase = "submitted"
  BY DEF Fits, CompileFails
<1>2. CASE AdHoc(t)
  BY <1>2 DEF CompileFails
<1>3. CASE ~AdHoc(t)
  <2>1. Become(w, u)
    BY <1>3 DEF CompileFails
  <2>2. /\ u \in Thread /\ u.run = t.run /\ u.plan = t.plan /\ u.ctx = t.ctx
        /\ u.todo = t.todo /\ u.phase = "leaving" /\ u.local = t.local /\ u.at = t.at
    BY <1>1 DEF Thread
  <2>3. t.at = None /\ t.plan \subseteq StepId
    BY <1>1 DEF Fits, AtStep, Thread
  <2> HIDE DEF u
  <2>4. Leaves(t, u)
    BY <1>1, <2>2, <2>3, NoneIsNoStep DEF Leaves, Keeps
  <2> QED
    BY <1>3, <2>1, <2>2, <2>4
<1> QED
  BY <1>2, <1>3

LEMMA BeginKind ==
  ASSUME NEW w, Fits(threads[w]), Begin(w)
  PROVE  \E u : /\ Become(w, u)
                /\ \/ Begins(threads[w], u) /\ FinishRun(u, "running")
                   \/ Leaves(threads[w], u) /\ ~Live(u) /\ UNCHANGED <<runs, steps>>
<1> DEFINE t == threads[w]
           L == [s \in StepId |-> IF s \notin t.plan \/ EntryOf(t.run) = "agent" THEN None
                                  ELSE Fresh(IF AdHoc(t) THEN "running" ELSE "pending")]
           b == [t EXCEPT !.phase = IF AdHoc(t) THEN "stepping" ELSE "planning", !.local = L]
           e == [t EXCEPT !.phase = "leaving"]
<1>1. t \in Thread /\ t.phase = "submitted"
  BY DEF Fits, Begin
<1>2. t.plan \subseteq StepId /\ t.at = None
  BY <1>1 DEF Thread, Fits, AtStep
<1>3. L \in [StepId -> Local \union {None}]
  BY FreshWaits DEF Waiting
<1>4. \A s \in t.plan : Waiting(L[s]) \/ (L[s] = None /\ ~AdHoc(t))
  BY <1>2, FreshWaits DEF AdHoc
<1>5. CASE Live(t) \/ AdHoc(t)
  <2>1. Become(w, b) /\ FinishRun(b, "running")
    BY <1>5 DEF Begin
  <2> HIDE DEF L
  <2>2. /\ b \in Thread /\ b.run = t.run /\ b.plan = t.plan /\ b.ctx = t.ctx
        /\ b.todo = t.todo /\ b.at = t.at /\ b.local = L
        /\ b.phase = IF AdHoc(t) THEN "stepping" ELSE "planning"
    BY <1>1, <1>3 DEF Thread
  <2> HIDE DEF b
  <2>3. Begins(t, b)
    BY <1>1, <1>4, <2>2 DEF Begins, Keeps
  <2> QED
    BY <2>1, <2>3
<1>6. CASE ~(Live(t) \/ AdHoc(t))
  <2>1. Become(w, e)
    BY <1>6 DEF Begin
  <2>2. UNCHANGED <<runs, steps>>
    <3>1. ~Live(b)
      BY <1>1, <1>6 DEF Live, Thread
    <3>2. FinishRun(b, "running")
      BY DEF Begin
    <3> HIDE DEF b
    <3> QED
      BY <3>1, <3>2 DEF FinishRun
  <2>3. /\ e \in Thread /\ e.run = t.run /\ e.plan = t.plan /\ e.ctx = t.ctx
        /\ e.todo = t.todo /\ e.phase = "leaving" /\ e.local = t.local
    BY <1>1 DEF Thread
  <2> HIDE DEF e
  <2>4. Leaves(t, e) /\ ~Live(e)
    BY <1>1, <1>2, <1>6, <2>3, NoneIsNoStep DEF Leaves, Keeps, Live
  <2> QED
    BY <2>1, <2>2, <2>4
<1> QED
  BY <1>5, <1>6

LEMMA StorePlanKind ==
  ASSUME NEW w, Fits(threads[w]), StorePlan(w)
  PROVE  \E u, s : /\ Become(w, u) /\ Plans(threads[w], u, s) /\ UNCHANGED runs
                   /\ steps' = IF Live(threads[w])
                               THEN SaveStep(steps, threads[w].run, s, Fresh("pending"))
                               ELSE steps
<1> DEFINE t == threads[w]
           s == First(t.todo)
           u == [t EXCEPT !.todo = @ \ {s}, !.local[s] = Fresh("pending")]
<1>1. t \in Thread /\ t.phase = "planning" /\ t.todo # {} /\ t.todo \subseteq t.plan
  BY DEF Fits, StorePlan
<1>2. s \in t.todo /\ s \in StepId
  BY <1>1, LeastFirst DEF Thread
<1>3. /\ Become(w, u) /\ UNCHANGED runs
      /\ steps' = IF Live(t) THEN SaveStep(steps, t.run, s, Fresh("pending")) ELSE steps
  BY DEF StorePlan
<1>4. Fresh("pending") \in Local
  BY FreshWaits DEF Waiting
<1>5. /\ u \in Thread /\ u.run = t.run /\ u.plan = t.plan /\ u.ctx = t.ctx /\ u.at = t.at
      /\ u.todo = t.todo \ {s} /\ u.phase = "planning"
      /\ u.local = [t.local EXCEPT ![s] = Fresh("pending")]
  BY <1>1, <1>2, <1>4 DEF Thread
<1> HIDE DEF u
<1>6. Plans(t, u, s)
  BY <1>1, <1>2, <1>5 DEF Plans, Keeps
<1> QED
  BY <1>3, <1>6

LEMMA PlannedKind ==
  ASSUME NEW w, Fits(threads[w]), Planned(w)
  PROVE  \E u : /\ Become(w, u)
                /\ \/ Goes(threads[w], u) /\ Live(u)
                   \/ Leaves(threads[w], u) /\ ~Live(u)
<1> DEFINE t == threads[w]
           u == [t EXCEPT !.phase = IF Live(t) THEN "stepping" ELSE "leaving", !.todo = t.plan]
<1>1. t \in Thread /\ t.phase = "planning" /\ t.todo = {} /\ Become(w, u)
  BY DEF Fits, Planned
<1>2. /\ u \in Thread /\ u.run = t.run /\ u.plan = t.plan /\ u.ctx = t.ctx /\ u.at = t.at
      /\ u.todo = t.plan /\ u.local = t.local
      /\ u.phase = IF Live(t) THEN "stepping" ELSE "leaving"
  BY <1>1 DEF Thread
<1>3. t.plan \subseteq StepId /\ t.at = None
  BY <1>1 DEF Fits, Thread, AtStep
<1> HIDE DEF u
<1>4. CASE Live(t)
  BY <1>1, <1>2, <1>4 DEF Goes, Keeps, Live
<1>5. CASE ~Live(t)
  BY <1>1, <1>2, <1>3, <1>5, NoneIsNoStep DEF Leaves, Keeps, Live
<1> QED
  BY <1>4, <1>5

LEMMA SkipStepKind ==
  ASSUME NEW w, Fits(threads[w]), SkipStep(w)
  PROVE  \E u, s : /\ Become(w, u) /\ Skips(threads[w], u, s) /\ UNCHANGED runs
                   /\ steps' = IF Live(threads[w])
                               THEN SaveStep(steps, threads[w].run, s, u.local[s]) ELSE steps
<1> DEFINE t == threads[w]
           s == First(t.todo)
           l == [t.local[s] EXCEPT !.status = "skipped"]
           u == [t EXCEPT !.todo = @ \ {s}, !.local[s] = l]
<1>1. /\ t \in Thread /\ t.phase = "stepping" /\ t.todo # {} /\ t.todo \subseteq t.plan
      /\ ~depsSatisfied(t, s)
  BY DEF Fits, SkipStep
<1>2. s \in t.todo /\ s \in StepId
  BY <1>1, LeastFirst DEF Thread
<1>3. /\ Become(w, u) /\ UNCHANGED runs
      /\ steps' = IF Live(t) THEN SaveStep(steps, t.run, s, l) ELSE steps
  BY DEF SkipStep
<1>4. t.local[s] \in Local
  BY <1>1, <1>2 DEF Fits, Executes, Waiting
<1>5. l \in Local
  BY <1>4 DEF Local, StepStatus, Settled
<1>6. /\ u \in Thread /\ u.run = t.run /\ u.plan = t.plan /\ u.ctx = t.ctx /\ u.at = t.at
      /\ u.todo = t.todo \ {s} /\ u.phase = "stepping"
      /\ u.local = [t.local EXCEPT ![s].status = "skipped"] /\ u.local[s] = l
  BY <1>1, <1>2, <1>5 DEF Thread
<1> HIDE DEF u, l
<1>7. Skips(t, u, s)
  BY <1>1, <1>2, <1>6 DEF Skips, Keeps
<1> QED
  BY <1>3, <1>6, <1>7

LEMMA StartStepKind ==
  ASSUME NEW w, Fits(threads[w]), StartStep(w)
  PROVE  \E u, s : /\ Become(w, u) /\ Starts(threads[w], u, s) /\ UNCHANGED runs
                   /\ steps' = IF Live(threads[w])
                               THEN SaveStep(steps, threads[w].run, s, u.local[s]) ELSE steps
<1> DEFINE t == threads[w]
           s == First(t.todo)
           l == [t.local[s] EXCEPT !.status = "running"]
           u == [t EXCEPT !.todo = @ \ {s}, !.at = s, !.local[s] = l, !.phase = "calling"]
<1>1. /\ t \in Thread /\ t.phase = "stepping" /\ t.todo # {} /\ t.todo \subseteq t.plan
      /\ AdHoc(t) \/ depsSatisfied(t, s)
  BY DEF Fits, StartStep
<1>2. s \in t.todo /\ s \in StepId
  BY <1>1, LeastFirst DEF Thread
<1>3. /\ Become(w, u) /\ UNCHANGED runs
      /\ steps' = IF Live(t) THEN SaveStep(steps, t.run, s, l) ELSE steps
  BY DEF StartStep
<1>4. t.local[s] \in Local
  BY <1>1, <1>2 DEF Fits, Executes, Waiting
<1>5. l \in Local
  BY <1>4 DEF Local, StepStatus
<1>6. /\ u \in Thread /\ u.run = t.run /\ u.plan = t.plan /\ u.ctx = t.ctx /\ u.at = s
      /\ u.todo = t.todo \ {s} /\ u.phase = "calling"
      /\ u.local = [t.local EXCEPT ![s].status = "running"] /\ u.local[s] = l
  BY <1>1, <1>2, <1>5 DEF Thread
<1> HIDE DEF u, l
<1>7. Starts(t, u, s)
  BY <1>1, <1>2, <1>6 DEF Starts, Keeps
<1> QED
  BY <1>3, <1>6, <1>7

\* The facts that a goroutine with a step at hand goes by.
LEMMA AtHand ==
  ASSUME NEW t, Fits(t), AtStep(t)
  PROVE  /\ t \in Thread /\ t.at \in t.plan /\ t.at \notin t.todo /\ t.at \in StepId
         /\ t.local[t.at] \in Local /\ t.local[t.at].status \in {"running", "retrying"}
         /\ t.phase \in {"calling", "backoff"} => t.local[t.at].tried + 1 \in 1..MaxAttempts
<1>1. t \in Thread /\ t.at \in t.plan \ t.todo /\ InHand(t.local[t.at])
  BY DEF Fits
<1>2. t.at \in StepId
  BY <1>1 DEF Thread
<1>3. ASSUME t.phase \in {"calling", "backoff"}
      PROVE  t.local[t.at].tried + 1 \in 1..MaxAttempts
  <2>1. t.local[t.at].tried \in 0..MaxAttempts /\ t.local[t.at].tried < MaxAttempts
    BY <1>1, <1>3 DEF Fits, InHand, Local
  <2> QED
    BY <2>1, BoundsTyped
<1> QED
  BY <1>1, <1>2, <1>3 DEF InHand

LEMMA UnresolvedKind ==
  ASSUME NEW w, Fits(threads[w]), Unresolved(w)
  PROVE  AtStep(threads[w]) /\ \E u : Become(w, u) /\ Fails(threads[w], u)
<1> DEFINE t == threads[w]
<1>1. AtStep(t)
  BY DEF Unresolved, AtStep
<1>2. PICK status \in {"failed", t.local[t.at].status} :
        StepFails(w, [t EXCEPT !.local[t.at].status = status])
  BY DEF Unresolved
<1> DEFINE l == [t.local[t.at] EXCEPT !.status = status]
           f == [t EXCEPT !.local[t.at].status = status]
<1>3. l \in Local /\ l.status # "skipped"
  BY <1>1, AtHand DEF Local, StepStatus, Settled
<1>4. /\ f \in Thread /\ f.run = t.run /\ f.plan = t.plan /\ f.ctx = t.ctx /\ f.at = t.at
      /\ f.todo = t.todo /\ f.phase = t.phase /\ f.local = [t.local EXCEPT ![t.at] = l]
  BY <1>1, <1>3, AtHand DEF Thread
<1>5. StepFails(w, f)
  BY <1>2
<1> HIDE DEF l, f
<1>6. Revised(t, f, l)
  BY <1>3, <1>4 DEF Revised, Keeps
<1> QED
  BY <1>1, <1>5, <1>6, StepFailsKind

LEMMA StoreFailsKind ==
  ASSUME NEW w, Fits(threads[w]), StoreFails(w)
  PROVE  AtStep(threads[w]) /\ \E u : Become(w, u) /\ Fails(threads[w], u)
<1> DEFINE t == threads[w]
<1>1. AtStep(t) /\ StepFails(w, t)
  BY DEF StoreFails, Calls, AtStep
<1>2. Revised(t, t, t.local[t.at])
  BY <1>1, AtHand DEF Revised, Keeps, Thread
<1> QED
  BY <1>1, <1>2, StepFailsKind

LEMMA RevisedLocal ==
  ASSUME NEW l \in Local, NEW n \in 1..MaxAttempts, NEW p \in BOOLEAN
  PROVE  /\ [l EXCEPT !.tried = n, !.product = p] \in Local
         /\ [l EXCEPT !.tried = n, !.product = p].status = l.status
<1>1. n \in 0..MaxAttempts
  BY BoundsTyped
<1>2. [l EXCEPT !.tried = n] \in Local /\ [l EXCEPT !.tried = n].status = l.status
  BY <1>1 DEF Local
<1>3. [l EXCEPT !.tried = n, !.product = p] = [[l EXCEPT !.tried = n] EXCEPT !.product = p]
  BY DEF Local
<1> QED
  BY <1>2, <1>3 DEF Local

LEMMA CallSucceedsKind ==
  ASSUME NEW w, NEW answer, Fits(threads[w]), CallSucceeds(w, answer)
  PROVE  \E u, l : /\ Become(w, u) /\ Holds(threads[w], u, l)
                   /\ threads[w].phase = "calling" /\ u.phase = "answered"
<1> DEFINE t == threads[w]
           n == t.local[t.at].tried + 1
<1>0. PICK p \in BOOLEAN : p = (answer = "product")
  OBVIOUS
<1> DEFINE l == [t.local[t.at] EXCEPT !.tried = n, !.product = p]
           u == [t EXCEPT !.phase = "answered", !.local[t.at].tried = n,
                          !.local[t.at].product = p]
<1>1. t.phase = "calling" /\ AtStep(t) /\ Become(w, u)
  BY <1>0 DEF CallSucceeds, Calls, AtStep
<1>2. /\ t \in Thread /\ t.at \in StepId /\ t.local[t.at] \in Local /\ n \in 1..MaxAttempts
      /\ t.local[t.at].status \in {"running", "retrying"}
  BY <1>1, AtHand
<1> HIDE DEF n
<1>3. l \in Local /\ InHand(l)
  BY <1>2, RevisedLocal DEF InHand
<1>4. u = [t EXCEPT !.phase = "answered", !.local = [t.local EXCEPT ![t.at] = l]]
  BY <1>2 DEF Thread
<1> HIDE DEF l, u
<1>5. /\ u \in Thread /\ u.run = t.run /\ u.plan = t.plan /\ u.ctx = t.ctx /\ u.at = t.at
      /\ u.todo = t.todo /\ u.phase = "answered" /\ u.local = [t.local EXCEPT ![t.at] = l]
  BY <1>2, <1>3, <1>4 DEF Thread
<1>6. Holds(t, u, l)
  BY <1>3, <1>5 DEF Holds, Keeps, AtStep
<1> QED
  BY <1>1, <1>5, <1>6

LEMMA CallSucceedsLateKind ==
  ASSUME NEW w, Fits(threads[w]), CallSucceedsLate(w)
  PROVE  \E u, l : /\ Become(w, u) /\ Holds(threads[w], u, l)
                   /\ threads[w].phase = "calling" /\ u.phase = "answered"
<1> DEFINE t == threads[w]
           n == t.local[t.at].tried + 1
           l == [t.local[t.at] EXCEPT !.tried = n, !.product = TRUE]
           u == [t EXCEPT !.phase = "answered", !.local[t.at].tried = n,
                          !.local[t.at].product = TRUE]
<1>1. t.phase = "calling" /\ AtStep(t) /\ Become(w, u)
  BY DEF CallSucceedsLate, Calls, AtStep
<1>2. /\ t \in Thread /\ t.at \in StepId /\ t.local[t.at] \in Local /\ n \in 1..MaxAttempts
      /\ t.local[t.at].status \in {"running", "retrying"}
  BY <1>1, AtHand
<1> HIDE DEF n
<1>3. l \in Local /\ InHand(l)
  BY <1>2, RevisedLocal DEF InHand
<1>4. u = [t EXCEPT !.phase = "answered", !.local = [t.local EXCEPT ![t.at] = l]]
  BY <1>2 DEF Thread
<1> HIDE DEF l, u
<1>5. /\ u \in Thread /\ u.run = t.run /\ u.plan = t.plan /\ u.ctx = t.ctx /\ u.at = t.at
      /\ u.todo = t.todo /\ u.phase = "answered" /\ u.local = [t.local EXCEPT ![t.at] = l]
  BY <1>2, <1>3, <1>4 DEF Thread
<1>6. Holds(t, u, l)
  BY <1>3, <1>5 DEF Holds, Keeps, AtStep
<1> QED
  BY <1>1, <1>5, <1>6

LEMMA StoreResultKind ==
  ASSUME NEW w, Fits(threads[w]), StoreResult(w)
  PROVE  \E u, l : /\ Become(w, u) /\ AtStep(threads[w]) /\ Settles(threads[w], u, l)
                   /\ steps' = IF Live(threads[w])
                               THEN SaveStep(steps, threads[w].run, threads[w].at, l) ELSE steps
<1> DEFINE t == threads[w]
           l == [t.local[t.at] EXCEPT !.status = "succeeded"]
           u == [t EXCEPT !.phase = "stepping", !.at = None, !.local[t.at] = l]
<1>1. AtStep(t) /\ Become(w, u)
  BY DEF StoreResult, AtStep
<1>2. steps' = IF Live(t) THEN SaveStep(steps, t.run, t.at, l) ELSE steps
  BY DEF StoreResult, StoreStep
<1>0. t \in Thread /\ t.at \in StepId /\ t.local[t.at] \in Local
  BY <1>1, AtHand
<1>3. l \in Local /\ l.status = "succeeded"
  BY <1>0 DEF Local, StepStatus, Settled
<1> HIDE DEF l
<1>4. /\ u \in Thread /\ u.run = t.run /\ u.plan = t.plan /\ u.ctx = t.ctx /\ u.at = None
      /\ u.todo = t.todo /\ u.phase = "stepping" /\ u.local = [t.local EXCEPT ![t.at] = l]
  BY <1>0, <1>3 DEF Thread
<1> HIDE DEF u
<1>5. Settles(t, u, l)
  BY <1>3, <1>4 DEF Settles, Keeps
<1> QED
  BY <1>1, <1>2, <1>5

\* A failed call is tried again or fails the step.
LEMMA CallFailsKind ==
  ASSUME NEW w, NEW answer, Fits(threads[w]), CallFails(w, answer)
  PROVE  /\ threads[w].phase = "calling"
         /\ \E u : /\ Become(w, u)
                   /\ \/ Fails(threads[w], u)
                      \/ \E l : /\ Live(threads[w]) /\ Holds(threads[w], u, l) /\ runs' = runs
                                /\ u.phase = "backoff"
                                /\ steps' = SaveStep(steps, threads[w].run, threads[w].at, l)
<1> DEFINE t == threads[w]
           tried == t.local[t.at].tried + 1
           k == [t.local[t.at] EXCEPT !.tried = tried]
           f == [t EXCEPT !.local[t.at].tried = tried]
           retry == answer = "transient" /\ Live(t) /\ tried < MaxAttempts
<1>1. t.phase = "calling" /\ AtStep(t)
  BY DEF CallFails, Calls, AtStep
<1>2. k \in Local /\ k.status \in {"running", "retrying"} /\ k.tried = tried
  BY <1>1, AtHand DEF Local, StepStatus
<1>3. /\ f \in Thread /\ f.run = t.run /\ f.plan = t.plan /\ f.ctx = t.ctx /\ f.at = t.at
      /\ f.todo = t.todo /\ f.phase = t.phase /\ f.local = [t.local EXCEPT ![t.at] = k]
      /\ f.local[t.at] = k
  BY <1>1, <1>2, AtHand DEF Thread
<1>4. CASE retry
  <2> DEFINE l == [f.local[t.at] EXCEPT !.status = "retrying"]
             u == [f EXCEPT !.phase = "backoff", !.local[t.at] = l]
  <2>1. StoreStep(t, l) /\ Become(w, u) /\ runs' = runs
    BY <1>4 DEF CallFails
  <2> HIDE DEF k, f
  <2>2. l \in Local /\ l.status = "retrying" /\ l.tried = tried
    BY <1>2, <1>3 DEF Local, StepStatus
  <2> HIDE DEF l
  <2>3. /\ u \in Thread /\ u.run = t.run /\ u.plan = t.plan /\ u.ctx = t.ctx /\ u.at = t.at
        /\ u.todo = t.todo /\ u.phase = "backoff" /\ u.local = [f.local EXCEPT ![t.at] = l]
    BY <1>1, <1>3, <2>2, AtHand DEF Thread
  <2>4. u.local = [t.local EXCEPT ![t.at] = l]
    BY <1>1, <1>3, <2>3, AtHand DEF Thread
  <2> HIDE DEF u
  <2>5. Holds(t, u, l)
    BY <1>1, <1>4, <2>2, <2>3, <2>4 DEF Holds, Keeps, AtStep, InHand
  <2> QED
    BY <1>1, <1>4, <2>1, <2>3, <2>5 DEF StoreStep
<1>5. CASE ~retry
  <2>1. StepFails(w, f)
    BY <1>5 DEF CallFails
  <2> HIDE DEF k, f, tried
  <2>2. Revised(t, f, k)
    BY <1>2, <1>3 DEF Revised, Keeps
  <2> QED
    BY <1>1, <2>1, <2>2, StepFailsKind
<1> QED
  BY <1>4, <1>5

LEMMA BackoffEndsKind ==
  ASSUME NEW w, Fits(threads[w]), BackoffEnds(w)
  PROVE  /\ threads[w].phase = "backoff"
         /\ \E u : /\ Become(w, u)
                   /\ \/ Fails(threads[w], u)
                      \/ /\ Holds(threads[w], u, threads[w].local[threads[w].at])
                         /\ u.phase = "calling" /\ UNCHANGED <<runs, steps>>
<1> DEFINE t == threads[w]
           u == [t EXCEPT !.phase = "calling"]
<1>1. t.phase = "backoff" /\ AtStep(t)
  BY DEF BackoffEnds, AtStep
<1>2. CASE Live(t)
  <2>1. Become(w, u) /\ UNCHANGED <<runs, steps>>
    BY <1>2 DEF BackoffEnds
  <2>2. /\ u \in Thread /\ u.run = t.run /\ u.plan = t.plan /\ u.ctx = t.ctx /\ u.at = t.at
        /\ u.todo = t.todo /\ u.phase = "calling" /\ u.local = t.local
    BY <1>1, AtHand DEF Thread
  <2> HIDE DEF u
  <2>3. t.local = [t.local EXCEPT ![t.at] = t.local[t.at]]
    BY <1>1, AtHand DEF Thread
  <2>4. InHand(t.local[t.at]) /\ t.local[t.at].tried < MaxAttempts
    BY <1>1 DEF Fits
  <2>5. Holds(t, u, t.local[t.at])
    BY <1>1, <2>2, <2>3, <2>4 DEF Holds, Keeps, AtStep
  <2> QED
    BY <1>1, <2>1, <2>2, <2>5
<1>3. CASE ~Live(t)
  <2>1. StepFails(w, t)
    BY <1>3 DEF BackoffEnds
  <2>2. Revised(t, t, t.local[t.at])
    BY <1>1, AtHand DEF Revised, Keeps, Thread
  <2> QED
    BY <1>1, <2>1, <2>2, StepFailsKind
<1> QED
  BY <1>2, <1>3

LEMMA SummariseKind ==
  ASSUME NEW w, Fits(threads[w]), Summarise(w)
  PROVE  LET t == threads[w]
             status == Summary(Locals(t))
         IN /\ t.phase = "stepping" /\ t.todo = {} /\ FinishRun(t, status)
            /\ IF status = "failed"
               THEN \E u : Become(w, u) /\ Leaves(t, u) /\ u.local = t.local
               ELSE End(w)
<1> DEFINE t == threads[w]
           u == [t EXCEPT !.phase = "leaving"]
<1>1. t \in Thread /\ t.phase = "stepping"
  BY DEF Fits, Summarise
<1>2. /\ u \in Thread /\ u.run = t.run /\ u.plan = t.plan /\ u.ctx = t.ctx /\ u.todo = t.todo
      /\ u.phase = "leaving" /\ u.local = t.local
  BY <1>1 DEF Thread
<1>3. t.at = None /\ t.plan \subseteq StepId
  BY <1>1 DEF Fits, AtStep, Thread
<1>4. Leaves(t, u)
  BY <1>1, <1>2, <1>3, NoneIsNoStep DEF Leaves, Keeps
<1> HIDE DEF u
<1>5. Become(w, u) \/ Summary(Locals(t)) # "failed"
  BY DEF Summarise, u
<1> QED
  BY <1>2, <1>4, <1>5 DEF Summarise

LEMMA WarnedKind ==
  ASSUME NEW w, Fits(threads[w]), Cancel(w) \/ Expire(w)
  PROVE  \E u : Become(w, u) /\ Warned(threads[w], u)
<1> DEFINE t == threads[w]
<1>1. PICK c \in {"canceled", "expired"} : Become(w, [t EXCEPT !.ctx = c])
  BY DEF Cancel, Expire
<1> DEFINE u == [t EXCEPT !.ctx = c]
<1>2. t \in Thread
  BY DEF Fits
<1>3. Warned(t, u)
  BY <1>2 DEF Warned, Keeps, Live, Thread
<1> QED
  BY <1>1, <1>3

-----------------------------------------------------------------------------
(***************************************************************************)
(* One goroutine for a run, and one payment for a step: the invariant Base.*)
(***************************************************************************)
RunsGrow ==
  /\ runs' \in [Run -> RunStatus \union {None}]
  /\ \A r \in Run : runs[r] # None => runs'[r] # None

LEMMA RunTyped ==
  ASSUME asked \in Requests, NEW r \in Run
  PROVE  /\ asked[r] \in Request /\ asked \in [Run -> Request]
         /\ EntryOf(r) \in Entry
         /\ ~Once(r) => EntryOf(r) = "adhoc"
BY RequestsTyped DEF EntryOf, Request, Once

\* A goroutine goes on, or ends; what it pays for was owed and is not any more.
LEMMA TurnKeepsBase ==
  ASSUME Base, NEW w \in Slot, NEW u, threads[w] # None, asked' = asked,
         Become(w, u), u = None \/ Moves(threads[w], u), RunsGrow,
         \/ paid' = paid
         \/ /\ u # None => threads[w].at \notin Owed(u)
            /\ threads[w].phase = "calling" /\ Pay(threads[w])
  PROVE  Base'
<1> DEFINE t == threads[w]
<1>1. Fits(t) /\ t \in Thread /\ t.run \in Run
  BY DEF Base, ThreadsFit, Fits, Thread
<1>2. threads' = [v \in Slot |-> IF v = w THEN u ELSE threads[v]]
  BY DEF Become, Base, Tables
<1>3. u # None => u.run = t.run /\ u.plan = t.plan /\ Fits(u) /\ Owed(u) \subseteq Owed(t)
  BY DEF Moves, Keeps
<1>4. paid' \in [Run \X StepId -> 0..2]
  <2>1. CASE paid' = paid
    BY <2>1 DEF Base, Tables
  <2>2. CASE t.phase = "calling" /\ Pay(t)
    <3>1. t.at \in StepId
      BY <1>1, <2>2, AtHand DEF AtStep
    <3> DEFINE k == <<t.run, t.at>>
               n == IF paid[k] < 2 THEN paid[k] + 1 ELSE paid[k]
    <3>2. paid \in [Run \X StepId -> 0..2] /\ k \in Run \X StepId
      BY <1>1, <3>1 DEF Base, Tables
    <3>3. n \in 0..2
      BY <3>2
    <3>4. paid' = [paid EXCEPT ![k] = n]
      BY <2>2 DEF Pay
    <3> HIDE DEF k, n
    <3> QED
      BY <3>2, <3>3, <3>4
  <2> QED
    BY <2>1, <2>2
<1>5. Tables'
  BY <1>2, <1>4 DEF Base, Tables, RunsGrow
<1>6. ThreadsFit'
  BY <1>2, <1>3 DEF Base, ThreadsFit
<1>7. OneThread'
  BY <1>2, <1>3 DEF Base, OneThread, Once
<1>8. Registered'
  BY <1>1, <1>2, <1>3 DEF Base, Registered, RunsGrow, ThreadsFit, Fits, Thread
<1>9. CASE paid' = paid
  <2>1. Unpaid'
    BY <1>2, <1>3, <1>9 DEF Base, Unpaid, RunsGrow, Once
  <2>2. PaidOnce'
    BY <1>9 DEF Base, PaidOnce
  <2> QED
    BY <1>5, <1>6, <1>7, <1>8, <2>1, <2>2 DEF Base
<1>10. CASE /\ u # None => t.at \notin Owed(u)
            /\ t.phase = "calling" /\ Pay(t)
  <2>1. AtStep(t) /\ t.at \in StepId
    BY <1>1, <1>10, AtHand DEF AtStep
  <2>2. \A k \in Run \X StepId : k # <<t.run, t.at>> => paid'[k] = paid[k]
    BY <1>10 DEF Pay, Base, Tables
  <2>3. runs[t.run] # None /\ runs'[t.run] # None
    BY <1>1 DEF Base, Registered, RunsGrow
  <2>4. ASSUME Once(t.run) PROVE paid'[<<t.run, t.at>>] = 1
    <3>1. paid[<<t.run, t.at>>] = 0
      BY <1>10, <2>4 DEF Base, Unpaid, Owed
    <3> QED
      BY <1>1, <1>10, <2>1, <3>1 DEF Pay, Base, Tables
  <2>5. \A v \in Slot : threads[v] # None /\ Once(threads[v].run) /\ threads[v].run = t.run => v = w
    BY DEF Base, OneThread
  <2>6. Unpaid'
    <3>1. ASSUME NEW r \in Run, NEW s \in StepId, runs'[r] = None PROVE paid'[<<r, s>>] = 0
      BY <2>2, <2>3, <3>1 DEF Base, Unpaid, RunsGrow
    <3>2. ASSUME NEW v \in Slot, threads'[v] # None, Once(threads'[v].run),
                 NEW s \in Owed(threads'[v])
          PROVE  paid'[<<threads'[v].run, s>>] = 0
      <4>1. CASE v = w
        <5>1. u # None /\ threads'[v] = u /\ s # t.at /\ s \in Owed(t) /\ u.run = t.run
          BY <1>2, <1>3, <1>10, <3>2, <4>1
        <5>2. s \in StepId
          BY <1>1, <5>1, <2>1 DEF Owed, Thread
        <5>3. paid[<<t.run, s>>] = 0
          BY <3>2, <5>1 DEF Base, Unpaid
        <5> QED
          BY <1>1, <2>2, <5>1, <5>2, <5>3
      <4>2. CASE v # w
        <5>1. threads'[v] = threads[v]
          BY <1>2, <4>2
        <5>2. threads[v].run # t.run
          BY <2>5, <3>2, <4>2, <5>1
        <5>3. Fits(threads[v]) /\ threads[v].run \in Run /\ s \in StepId \union {threads[v].at}
          BY <3>2, <5>1 DEF Base, ThreadsFit, Fits, Thread, Owed
        <5>4. s \in StepId
          BY <3>2, <5>1, <5>3, AtHand DEF Owed, AtStep, Fits, Thread
        <5>5. paid[<<threads[v].run, s>>] = 0
          BY <3>2, <5>1 DEF Base, Unpaid
        <5> QED
          BY <2>2, <5>1, <5>2, <5>3, <5>4, <5>5
      <4> QED
        BY <4>1, <4>2
    <3> QED
      BY <3>1, <3>2 DEF Unpaid, Once
  <2>7. PaidOnce'
    <3> SUFFICES ASSUME NEW k \in Run \X StepId, Once(k[1]) PROVE paid'[k] < 2
      BY <1>4 DEF PaidOnce, Once
    <3>1. CASE k = <<t.run, t.at>>
      BY <2>4, <3>1
    <3>2. CASE k # <<t.run, t.at>>
      BY <2>2, <3>2 DEF Base, PaidOnce, Once, Tables
    <3> QED
      BY <3>1, <3>2
  <2> QED
    BY <1>5, <1>6, <1>7, <1>8, <2>6, <2>7 DEF Base
<1> QED
  BY <1>9, <1>10

LEMMA PlanTyped ==
  ASSUME NEW r \in Run
  PROVE  PlanOf(r) \subseteq StepId
BY DEF PlanOf, Collected, StepId

LEMMA NewThreadFits ==
  ASSUME NEW r \in Run, NEW plan \in SUBSET StepId
  PROVE  /\ Fits(NewThread(r, plan)) /\ InputsDone(NewThread(r, plan))
         /\ SkipsFit(NewThread(r, plan)) /\ Owed(NewThread(r, plan)) = plan
BY NoneIsApart DEF Fits, NewThread, Thread, AtStep, Executes, InputsDone, SkipsFit, Owed

\* A goroutine is started for a run that is new, or that may have several.
Started(w) ==
  /\ threads[w] = None /\ UNCHANGED <<steps, attempts, server, resume, paid>>
  /\ \E r \in Run, plan \in SUBSET StepId :
       /\ Become(w, NewThread(r, plan))
       /\ \/ runs[r] = None /\ runs' = [runs EXCEPT ![r] = "pending"]
          \/ runs[r] # None /\ runs' = runs /\ ~Once(r)

LEMMA StartedKeepsBase ==
  ASSUME Base, NEW w \in Slot, Started(w), asked' = asked
  PROVE  Base'
<1>1. PICK r \in Run, plan \in SUBSET StepId :
        /\ Become(w, NewThread(r, plan))
        /\ \/ runs[r] = None /\ runs' = [runs EXCEPT ![r] = "pending"]
           \/ runs[r] # None /\ runs' = runs /\ ~Once(r)
  BY DEF Started
<1>2. PICK u : u = NewThread(r, plan)
  OBVIOUS
<1>3. u.run = r /\ Fits(u) /\ Owed(u) = plan
  BY <1>2, NewThreadFits DEF NewThread
<1>4. threads' = [v \in Slot |-> IF v = w THEN u ELSE threads[v]]
  BY <1>1, <1>2 DEF Become, Base, Tables
<1>5. /\ runs' \in [Run -> RunStatus \union {None}] /\ runs'[r] # None
      /\ \A o \in Run : o # r => runs'[o] = runs[o]
  BY <1>1, NoneIsApart DEF Base, Tables, RunStatus
<1>6. Tables'
  BY <1>4, <1>5 DEF Base, Tables, Started
<1>7. ThreadsFit'
  BY <1>3, <1>4 DEF Base, ThreadsFit
<1>8. OneThread'
  BY <1>1, <1>3, <1>4 DEF Base, OneThread, Registered, Once
<1>9. Registered'
  BY <1>3, <1>4, <1>5 DEF Base, Registered, ThreadsFit, Fits, Thread
<1>10. Unpaid'
  BY <1>1, <1>3, <1>4, <1>5 DEF Base, Unpaid, Once, Started
<1>11. PaidOnce'
  BY DEF Base, PaidOnce, Started
<1> QED
  BY <1>6, <1>7, <1>8, <1>9, <1>10, <1>11 DEF Base

LEMMA SubmitsStart ==
  ASSUME Base, NEW r \in Run, NEW w \in Slot,
         \/ Submit(r, w) \/ Resubmit(r, w)
         \/ \E prev \in Run : Replay(r, prev, w)
  PROVE  Started(w)
<1>1. PlanOf(r) \in SUBSET StepId
  BY PlanTyped
<1>2. CASE Submit(r, w)
  BY <1>1, <1>2 DEF Submit, Started
<1>3. CASE Resubmit(r, w)
  BY <1>1, <1>3 DEF Resubmit, Started, Once
<1>4. CASE \E prev \in Run : Replay(r, prev, w)
  <2>1. PICK prev \in Run : Replay(r, prev, w)
    BY <1>4
  <2>2. {s \in StepId : steps[s] # None /\ steps[s].owner = prev} \in SUBSET StepId
    OBVIOUS
  <2> QED
    BY <2>1, <2>2 DEF Replay, Started
<1> QED
  BY <1>2, <1>3, <1>4

\* Steps that leave the goroutines alone, or end them all.
LEMMA OthersKeepBase ==
  ASSUME Base, asked' = asked, paid' = paid, RunsGrow,
         threads' = threads \/ threads' = [w \in Slot |-> None]
  PROVE  Base'
<1>1. Tables'
  BY DEF Base, Tables, RunsGrow
<1>2. ThreadsFit'
  BY DEF Base, ThreadsFit
<1>3. OneThread' /\ Registered'
  BY DEF Base, OneThread, Registered, RunsGrow, Once, ThreadsFit, Fits, Thread
<1>4. Unpaid'
  BY DEF Base, Unpaid, RunsGrow, Once
<1>5. PaidOnce'
  BY DEF Base, PaidOnce
<1> QED
  BY <1>1, <1>2, <1>3, <1>4, <1>5 DEF Base

LEMMA SummaryTyped ==
  ASSUME NEW L
  PROVE  Summary(L) \in Terminal /\ Summary(L) \in RunStatus
BY DEF Summary, RunStatus, Terminal

LEMMA FinishRunGrows ==
  ASSUME Base, NEW t, NEW status \in RunStatus, FinishRun(t, status)
  PROVE  RunsGrow
BY NoneIsApart DEF FinishRun, RunsGrow, Base, Tables

LEMMA SameRunsGrow ==
  ASSUME Base, runs' = runs
  PROVE  RunsGrow
BY DEF RunsGrow, Base, Tables

LEMMA FailsGrow ==
  ASSUME Base, NEW t, NEW u, Fits(t), AtStep(t), Fails(t, u)
  PROVE  Moves(t, u) /\ RunsGrow
<1>1. CASE AdHoc(t) /\ Leaves(t, u) /\ FinishRun(u, "failed")
  BY <1>1, LeavesMoves, FinishRunGrows DEF RunStatus, Terminal
<1>2. CASE runs' = runs /\ \E l : Settles(t, u, l)
  BY <1>2, SettlesMoves, SameRunsGrow
<1>3. CASE Leaves(t, u) /\ runs' = runs
  BY <1>3, LeavesMoves, SameRunsGrow
<1> QED
  BY <1>1, <1>2, <1>3 DEF Fails

\* The turn of a goroutine, as Base sees it.
Turn(w, u) ==
  /\ threads[w] # None /\ Become(w, u) /\ RunsGrow
  /\ u = None \/ Moves(threads[w], u)
  /\ \/ paid' = paid
     \/ /\ u # None => threads[w].at \notin Owed(u)
        /\ threads[w].phase = "calling" /\ Pay(threads[w])

\* What a call is paid for is not owed any more: it is not called for again.
LEMMA PaidTurn ==
  ASSUME NEW t, NEW u, Fits(t), t.phase = "calling",
         \/ Fails(t, u)
         \/ u.phase = "answered" /\ \E l : Holds(t, u, l)
  PROVE  t.at \notin Owed(u)
<1>1. t.at \in t.plan \ t.todo /\ t.at \in StepId
  BY AtHand DEF AtStep
<1> QED
  BY <1>1 DEF Fails, Leaves, Settles, Holds, Owed

LEMMA ProceedTurns ==
  ASSUME Base, NEW w \in Slot, Proceed(w) \/ Cancel(w) \/ Expire(w)
  PROVE  \E u : Turn(w, u)
<1> DEFINE t == threads[w]
<1>1. t # None
  BY DEF Proceed, CompileFails, Begin, StorePlan, Planned, SkipStep, StartStep, Unresolved,
         StoreFails, CallSucceeds, CallSucceedsLate, StoreResult, CallFails, BackoffEnds,
         Summarise, Leave, Cancel, Expire, Calls
<1>2. Fits(t)
  BY <1>1 DEF Base, ThreadsFit
<1>3. CASE CompileFails(w)
  <2>1. paid' = paid /\ runs' = runs
    BY <1>3 DEF CompileFails
  <2> QED
    BY <1>1, <1>2, <1>3, <2>1, CompileFailsKind, LeavesMoves, SameRunsGrow DEF Turn, End, Become
<1>4. CASE Begin(w)
  <2>1. PICK u : /\ Become(w, u)
                 /\ \/ Begins(t, u) /\ FinishRun(u, "running")
                    \/ Leaves(t, u) /\ UNCHANGED <<runs, steps>>
    BY <1>2, <1>4, BeginKind
  <2>2. RunsGrow
    BY <2>1, FinishRunGrows, SameRunsGrow DEF RunStatus
  <2>3. paid' = paid
    BY <1>4 DEF Begin
  <2> QED
    BY <1>1, <1>2, <2>1, <2>2, <2>3, BeginsMoves, LeavesMoves DEF Turn
<1>5. CASE StorePlan(w)
  <2>1. paid' = paid /\ runs' = runs
    BY <1>5 DEF StorePlan
  <2> QED
    BY <1>1, <1>2, <1>5, <2>1, StorePlanKind, PlansMoves, SameRunsGrow DEF Turn
<1>6. CASE Planned(w)
  <2>1. paid' = paid /\ runs' = runs
    BY <1>6 DEF Planned
  <2> QED
    BY <1>1, <1>2, <1>6, <2>1, PlannedKind, GoesMoves, LeavesMoves, SameRunsGrow DEF Turn
<1>7. CASE SkipStep(w)
  <2>1. paid' = paid /\ runs' = runs
    BY <1>7 DEF SkipStep
  <2> QED
    BY <1>1, <1>2, <1>7, <2>1, SkipStepKind, SkipsMoves, SameRunsGrow DEF Turn
<1>8. CASE StartStep(w)
  <2>1. paid' = paid /\ runs' = runs
    BY <1>8 DEF StartStep
  <2> QED
    BY <1>1, <1>2, <1>8, <2>1, StartStepKind, StartsMoves, SameRunsGrow DEF Turn
<1>9. CASE Unresolved(w)
  <2>1. paid' = paid
    BY <1>9 DEF Unresolved
  <2> QED
    BY <1>1, <1>2, <1>9, <2>1, UnresolvedKind, FailsGrow DEF Turn
<1>10. CASE StoreFails(w)
  <2>1. Pay(t) /\ t.phase = "calling"
    BY <1>10 DEF StoreFails, Calls
  <2> QED
    BY <1>1, <1>2, <1>10, <2>1, StoreFailsKind, FailsGrow, PaidTurn DEF Turn
<1>11. CASE \E answer \in Answer : CallSucceeds(w, answer)
  <2>1. PICK answer \in Answer : CallSucceeds(w, answer)
    BY <1>11
  <2>2. Pay(t) /\ t.phase = "calling" /\ AtStep(t) /\ runs' = runs
    BY <2>1 DEF CallSucceeds, Calls, AtStep
  <2>3. PICK u, l : Become(w, u) /\ Holds(t, u, l) /\ u.phase = "answered"
    BY <1>2, <2>1, CallSucceedsKind
  <2>4. Moves(t, u) /\ t.at \notin Owed(u)
    BY <1>2, <2>2, <2>3, HoldsMoves, PaidTurn
  <2> QED
    BY <1>1, <2>2, <2>3, <2>4, SameRunsGrow DEF Turn
<1>12. CASE CallSucceedsLate(w)
  <2>2. Pay(t) /\ t.phase = "calling" /\ AtStep(t) /\ runs' = runs
    BY <1>12 DEF CallSucceedsLate, Calls, AtStep
  <2>3. PICK u, l : Become(w, u) /\ Holds(t, u, l) /\ u.phase = "answered"
    BY <1>2, <1>12, CallSucceedsLateKind
  <2>4. Moves(t, u) /\ t.at \notin Owed(u)
    BY <1>2, <2>2, <2>3, HoldsMoves, PaidTurn
  <2> QED
    BY <1>1, <2>2, <2>3, <2>4, SameRunsGrow DEF Turn
<1>13. CASE StoreResult(w)
  <2>1. paid' = paid /\ runs' = runs
    BY <1>13 DEF StoreResult
  <2> QED
    BY <1>1, <1>2, <1>13, <2>1, StoreResultKind, SettlesMoves, SameRunsGrow DEF Turn
<1>14. CASE \E answer \in {"transient", "permanent"} : CallFails(w, answer)
  <2>1. PICK answer : CallFails(w, answer)
    BY <1>14
  <2>2. paid' = paid
    BY <2>1 DEF CallFails
  <2>3. PICK u : /\ Become(w, u)
                 /\ Fails(t, u) \/ \E l : Holds(t, u, l) /\ runs' = runs
    BY <1>2, <2>1, CallFailsKind
  <2>4. AtStep(t)
    BY <1>2, <2>1, CallFailsKind DEF AtStep
  <2>5. Moves(t, u) /\ RunsGrow
    BY <1>2, <2>3, <2>4, FailsGrow, HoldsMoves, SameRunsGrow
  <2> QED
    BY <1>1, <2>2, <2>3, <2>5 DEF Turn
<1>15. CASE BackoffEnds(w)
  <2>1. paid' = paid
    BY <1>15 DEF BackoffEnds
  <2>2. AtStep(t)
    BY <1>2, <1>15, BackoffEndsKind DEF AtStep
  <2>3. PICK u : /\ Become(w, u)
                 /\ Fails(t, u) \/ \E l : Holds(t, u, l) /\ runs' = runs
    BY <1>2, <1>15, BackoffEndsKind
  <2>4. Moves(t, u) /\ RunsGrow
    BY <1>2, <2>2, <2>3, FailsGrow, HoldsMoves, SameRunsGrow
  <2> QED
    BY <1>1, <2>1, <2>3, <2>4 DEF Turn
<1>16. CASE Summarise(w)
  <2>1. paid' = paid
    BY <1>16 DEF Summarise
  <2>2. RunsGrow
    BY <1>2, <1>16, SummariseKind, FinishRunGrows, SummaryTyped
  <2>3. End(w) \/ \E u : Become(w, u) /\ Leaves(t, u)
    BY <1>2, <1>16, SummariseKind
  <2> QED
    BY <1>1, <1>2, <2>1, <2>2, <2>3, LeavesMoves DEF Turn, End, Become
<1>17. CASE Leave(w)
  <2>1. paid' = paid /\ End(w)
    BY <1>17 DEF Leave
  <2>2. runs' = runs \/ FinishRun([t EXCEPT !.ctx = "live"], "failed")
    BY <1>17 DEF Leave
  <2>3. RunsGrow
    BY <2>2, FinishRunGrows, SameRunsGrow DEF RunStatus, Terminal
  <2> QED
    BY <1>1, <2>1, <2>3 DEF Turn, End, Become
<1>18. CASE Cancel(w) \/ Expire(w)
  <2>1. paid' = paid /\ runs' = runs
    BY <1>18 DEF Cancel, Expire
  <2> QED
    BY <1>1, <1>2, <1>18, <2>1, WarnedKind, WarnedMoves, SameRunsGrow DEF Turn
<1> QED
  BY <1>3, <1>4, <1>5, <1>6, <1>7, <1>8, <1>9, <1>10, <1>11, <1>12, <1>13, <1>14, <1>15,
     <1>16, <1>17, <1>18 DEF Proceed

LEMMA ResumedGrows ==
  ASSUME Base, NEW local, NEW status \in RunStatus, Resumed(local, status)
  PROVE  RunsGrow
BY NoneIsApart DEF Resumed, RunsGrow, Base, Tables

LEMMA OtherSteps ==
  ASSUME Base, (\E r \in Run : SubmitManual(r)) \/ Crash \/ Restart \/ ResumeStep
  PROVE  /\ paid' = paid /\ RunsGrow
         /\ threads' = threads \/ threads' = [w \in Slot |-> None]
<1>1. CASE \E r \in Run : SubmitManual(r)
  BY <1>1, NoneIsApart DEF SubmitManual, RunsGrow, Base, Tables, RunStatus
<1>2. CASE Crash \/ Restart
  BY <1>2, SameRunsGrow DEF Crash, Restart
<1>3. CASE StartResume \/ (\E r \in Run : LoadRun(r)) \/ EndResume
  BY <1>3, SameRunsGrow DEF StartResume, LoadRun, EndResume
<1>4. CASE Interrupt
  <2>1. PICK local, status : Resumed(local, status) /\ status \in {"succeeded", "partial"}
    BY <1>4 DEF Interrupt
  <2> QED
    BY <2>1, ResumedGrows DEF Resumed, RunStatus, Terminal
<1>5. CASE \E s \in StepId, outcome \in {"succeeded", "failed", "open"} : Poll(s, outcome)
  BY <1>5, SameRunsGrow DEF Poll
<1>6. CASE FinishAsync
  <2>1. PICK local, status : Resumed(local, status) /\ status \in RunStatus
    BY <1>6, SummaryTyped DEF FinishAsync
  <2> QED
    BY <2>1, ResumedGrows DEF Resumed
<1> QED
  BY <1>1, <1>2, <1>3, <1>4, <1>5, <1>6 DEF ResumeStep

\* Every step but a stuttering one is of one of three kinds.
LEMMA StepKinds ==
  ASSUME Base, Next
  PROVE  /\ asked' = asked
         /\ \/ \E w \in Slot : Started(w)
            \/ \E w \in Slot : \E u : Turn(w, u)
            \/ /\ paid' = paid /\ RunsGrow
               /\ threads' = threads \/ threads' = [w \in Slot |-> None]
<1>1. CASE \E r \in Run, w \in Slot : Submit(r, w) \/ Resubmit(r, w)
  BY <1>1, SubmitsStart DEF Next
<1>2. CASE \E r, prev \in Run, w \in Slot : Replay(r, prev, w)
  BY <1>2, SubmitsStart DEF Next
<1>3. CASE \E w \in Slot : Proceed(w) \/ Cancel(w) \/ Expire(w)
  <2>1. PICK w \in Slot : Proceed(w) \/ Cancel(w) \/ Expire(w)
    BY <1>3
  <2>2. \E u : Turn(w, u)
    BY <2>1, ProceedTurns
  <2> QED
    BY <2>2 DEF Next
<1>4. CASE (\E r \in Run : SubmitManual(r)) \/ Crash \/ Restart \/ ResumeStep
  BY <1>4, OtherSteps DEF Next
<1> QED
  BY <1>1, <1>2, <1>3, <1>4 DEF Next, Step

LEMMA InitBase == Init => Base
<1> SUFFICES ASSUME Init PROVE Base
  OBVIOUS
<1>1. Tables
  BY DEF Init, Tables
<1>2. ThreadsFit /\ OneThread /\ Registered
  BY DEF Init, ThreadsFit, OneThread, Registered
<1>3. Unpaid
  BY DEF Init, Unpaid
<1>4. PaidOnce
  BY DEF Init, PaidOnce
<1> QED
  BY <1>1, <1>2, <1>3, <1>4 DEF Base

LEMMA NextBase == Base /\ [Next]_<<vars, asked>> => Base'
<1> SUFFICES ASSUME Base, [Next]_<<vars, asked>> PROVE Base'
  OBVIOUS
<1>1. CASE Next
  BY <1>1, StepKinds, StartedKeepsBase, TurnKeepsBase, OthersKeepBase DEF Turn
<1>2. CASE UNCHANGED <<vars, asked>>
  <2>1. asked' = asked /\ runs' = runs /\ threads' = threads /\ paid' = paid
    BY <1>2 DEF vars
  <2> QED
    BY <2>1, SameRunsGrow, OthersKeepBase
<1> QED
  BY <1>1, <1>2

\* In every state, a run that is not sent twice is executed by one goroutine at
\* most, and a goroutine holds of its steps what fits the phase it is in.
THEOREM BaseHolds == Spec => []Base
<1> QED
  BY InitBase, NextBase, PTL DEF Spec

\* No step of a run is paid for twice (INV-3), whatever fails, is canceled, times
\* out or crashes, unless the run is sent again with its key.
THEOREM RunsPayOnce == Spec => []PaidOnce
<1>1. Base => PaidOnce
  BY DEF Base
<1> QED
  BY <1>1, BaseHolds, PTL

LEMMA NextInputsAreDone == Base /\ InputsAreDone /\ [Next]_<<vars, asked>> => InputsAreDone'
<1> SUFFICES ASSUME Base, InputsAreDone, [Next]_<<vars, asked>> PROVE InputsAreDone'
  OBVIOUS
<1>0. threads = [w \in Slot |-> threads[w]]
  BY DEF Base, Tables
<1>1. ASSUME NEW w \in Slot, Started(w), asked' = asked PROVE InputsAreDone'
  BY <1>0, <1>1, NewThreadFits DEF Started, Become, InputsAreDone, InputsDone, AdHoc, EntryOf
<1>2. ASSUME NEW w \in Slot, NEW u, Turn(w, u), asked' = asked PROVE InputsAreDone'
  BY <1>0, <1>2 DEF Turn, Moves, Become, InputsAreDone, InputsDone, AdHoc, EntryOf
<1>3. ASSUME asked' = asked, threads' = threads \/ threads' = [w \in Slot |-> None]
      PROVE  InputsAreDone'
  BY <1>3 DEF InputsAreDone, InputsDone, AdHoc, EntryOf
<1>4. CASE UNCHANGED <<vars, asked>>
  BY <1>3, <1>4 DEF vars
<1> QED
  BY <1>1, <1>2, <1>3, <1>4, StepKinds

LEMMA NextSkipsAreFit ==
  ASSUME FeedsRunUp
  PROVE  Base /\ SkipsAreFit /\ [Next]_<<vars, asked>> => SkipsAreFit'
<1> SUFFICES ASSUME Base, SkipsAreFit, [Next]_<<vars, asked>> PROVE SkipsAreFit'
  OBVIOUS
<1>0. threads = [w \in Slot |-> threads[w]]
  BY DEF Base, Tables
<1>1. ASSUME NEW w \in Slot, Started(w) PROVE SkipsAreFit'
  BY <1>0, <1>1, NewThreadFits DEF Started, Become, SkipsAreFit
<1>2. ASSUME NEW w \in Slot, NEW u, Turn(w, u) PROVE SkipsAreFit'
  BY <1>0, <1>2 DEF Turn, Moves, Become, SkipsAreFit
<1>3. ASSUME threads' = threads \/ threads' = [w \in Slot |-> None] PROVE SkipsAreFit'
  BY <1>3 DEF SkipsAreFit
<1>4. CASE UNCHANGED <<vars, asked>>
  BY <1>3, <1>4 DEF vars
<1> QED
  BY <1>1, <1>2, <1>3, <1>4, StepKinds

\* If edges run up in the ids of the nodes, a step is skipped only behind a step
\* that has failed or was skipped itself.
THEOREM SkipsHaveACause ==
  ASSUME FeedsRunUp
  PROVE  Spec => []SkippedOnlyForFailure
<1>1. Init => SkipsAreFit
  BY DEF Init, SkipsAreFit
<1>2. SkipsAreFit => SkippedOnlyForFailure
  BY DEF SkipsAreFit, SkipsFit, SkippedOnlyForFailure
<1> QED
  BY <1>1, <1>2, NextSkipsAreFit, BaseHolds, PTL DEF Spec

-----------------------------------------------------------------------------
(***************************************************************************)
(* A run that has ended keeps its status.                                  *)
(***************************************************************************)
\* What the turn of a goroutine does to the row of its run.
RunTurn(w, u) ==
  LET t == threads[w] IN
  /\ Become(w, u) /\ server' = server /\ resume' = resume
  /\ u # None => Live(u) \/ ~Live(t) \/ ~Undisturbed(t.run)
  /\ u # None /\ t.phase = "leaving" => u.phase = "leaving"
  /\ \/ runs' = runs
     \/ \E status : /\ runs' = [runs EXCEPT ![t.run] = status]
                    /\ t.phase = "leaving" => status = "failed"
                    /\ status \notin Terminal \/ u = None
                         \/ (u.phase = "leaving" /\ status = "failed")

LEMMA FailsRunTurn ==
  ASSUME NEW w, NEW u, Fits(threads[w]), AtStep(threads[w]), Fails(threads[w], u),
         Become(w, u), server' = server, resume' = resume
  PROVE  RunTurn(w, u)
<1> DEFINE t == threads[w]
<1>1. u.ctx = t.ctx /\ u.run = t.run /\ t.phase # "leaving"
  BY DEF Fails, Leaves, Settles, Keeps, AtStep
<1>2. CASE AdHoc(t) /\ Leaves(t, u) /\ FinishRun(u, "failed")
  BY <1>1, <1>2 DEF RunTurn, FinishRun, Leaves, Live
<1>3. CASE runs' = runs
  BY <1>1, <1>3 DEF RunTurn, Live
<1> QED
  BY <1>2, <1>3 DEF Fails

LEMMA ProceedRunTurns ==
  ASSUME Base, NEW w \in Slot, threads[w] # None, Proceed(w) \/ Cancel(w) \/ Expire(w)
  PROVE  \E u : RunTurn(w, u)
<1> DEFINE t == threads[w]
<1>1. Fits(t)
  BY DEF Base, ThreadsFit
<1>2. server' = server /\ resume' = resume
  BY DEF Proceed, CompileFails, Begin, StorePlan, Planned, SkipStep, StartStep, Unresolved,
         StoreFails, CallSucceeds, CallSucceedsLate, StoreResult, CallFails, BackoffEnds,
         Summarise, Leave, Cancel, Expire
<1>3. CASE CompileFails(w)
  <2>1. runs' = runs
    BY <1>3 DEF CompileFails
  <2> QED
    BY <1>1, <1>2, <1>3, <2>1, CompileFailsKind DEF RunTurn, End, Become, Leaves, Live
<1>4. CASE Begin(w)
  <2>1. PICK u : /\ Become(w, u)
                 /\ \/ Begins(t, u) /\ FinishRun(u, "running")
                    \/ Leaves(t, u) /\ UNCHANGED <<runs, steps>>
    BY <1>1, <1>4, BeginKind
  <2>2. u.ctx = t.ctx /\ u.run = t.run /\ t.phase = "submitted"
    BY <1>4, <2>1 DEF Begins, Leaves, Keeps, Begin
  <2>3. CASE FinishRun(u, "running")
    BY <1>2, <2>1, <2>2, <2>3 DEF RunTurn, FinishRun, Live, Terminal
  <2>4. CASE runs' = runs
    BY <1>2, <2>1, <2>2, <2>4 DEF RunTurn, Live
  <2> QED
    BY <2>1, <2>3, <2>4
<1>5. CASE StorePlan(w)
  BY <1>1, <1>2, <1>5, StorePlanKind DEF RunTurn, Plans, Live
<1>6. CASE Planned(w)
  <2>1. runs' = runs
    BY <1>6 DEF Planned
  <2> QED
    BY <1>1, <1>2, <1>6, <2>1, PlannedKind DEF RunTurn, Goes, Leaves, Live
<1>7. CASE SkipStep(w)
  BY <1>1, <1>2, <1>7, SkipStepKind DEF RunTurn, Skips, Live
<1>8. CASE StartStep(w)
  BY <1>1, <1>2, <1>8, StartStepKind DEF RunTurn, Starts, Live
<1>9. CASE Unresolved(w)
  BY <1>1, <1>2, <1>9, UnresolvedKind, FailsRunTurn
<1>10. CASE StoreFails(w)
  BY <1>1, <1>2, <1>10, StoreFailsKind, FailsRunTurn
<1>11. CASE \E answer \in Answer : CallSucceeds(w, answer)
  <2>1. PICK answer \in Answer : CallSucceeds(w, answer)
    BY <1>11
  <2>2. runs' = runs
    BY <2>1 DEF CallSucceeds
  <2> QED
    BY <1>1, <1>2, <2>1, <2>2, CallSucceedsKind DEF RunTurn, Holds, Live
<1>12. CASE CallSucceedsLate(w)
  <2>1. runs' = runs
    BY <1>12 DEF CallSucceedsLate
  <2> QED
    BY <1>1, <1>2, <1>12, <2>1, CallSucceedsLateKind DEF RunTurn, Holds, Live
<1>13. CASE StoreResult(w)
  <2>1. runs' = runs
    BY <1>13 DEF StoreResult
  <2> QED
    BY <1>1, <1>2, <1>13, <2>1, StoreResultKind DEF RunTurn, Settles, AtStep, Live
<1>14. CASE \E answer \in {"transient", "permanent"} : CallFails(w, answer)
  <2>1. PICK answer : CallFails(w, answer)
    BY <1>14
  <2>2. PICK u : /\ Become(w, u)
                 /\ Fails(t, u) \/ \E l : Holds(t, u, l) /\ runs' = runs
    BY <1>1, <2>1, CallFailsKind
  <2>3. AtStep(t) /\ t.phase = "calling"
    BY <1>1, <2>1, CallFailsKind DEF AtStep
  <2>4. CASE Fails(t, u)
    BY <1>1, <1>2, <2>2, <2>3, <2>4, FailsRunTurn
  <2>5. CASE \E l : Holds(t, u, l) /\ runs' = runs
    BY <1>2, <2>2, <2>3, <2>5 DEF RunTurn, Holds, Live
  <2> QED
    BY <2>2, <2>4, <2>5
<1>15. CASE BackoffEnds(w)
  <2>1. PICK u : /\ Become(w, u)
                 /\ Fails(t, u) \/ \E l : Holds(t, u, l) /\ runs' = runs
    BY <1>1, <1>15, BackoffEndsKind
  <2>2. AtStep(t) /\ t.phase = "backoff"
    BY <1>1, <1>15, BackoffEndsKind DEF AtStep
  <2>3. CASE Fails(t, u)
    BY <1>1, <1>2, <2>1, <2>2, <2>3, FailsRunTurn
  <2>4. CASE \E l : Holds(t, u, l) /\ runs' = runs
    BY <1>2, <2>1, <2>2, <2>4 DEF RunTurn, Holds, Live
  <2> QED
    BY <2>1, <2>3, <2>4
<1>16. CASE Summarise(w)
  <2>1. PICK status : /\ t.phase = "stepping" /\ FinishRun(t, status)
                      /\ IF status = "failed" THEN \E u : Become(w, u) /\ Leaves(t, u)
                                              ELSE End(w)
    BY <1>1, <1>16, SummariseKind
  <2> QED
    BY <1>2, <2>1 DEF RunTurn, FinishRun, End, Become, Leaves, Live
<1>17. CASE Leave(w)
  <2>1. Become(w, None)
    BY <1>17 DEF Leave, End, Become
  <2>2. runs' = runs \/ runs' = [runs EXCEPT ![t.run] = "failed"]
    <3>1. t \in Thread
      BY <1>1 DEF Fits
    <3>2. [t EXCEPT !.ctx = "live"].run = t.run
      BY <3>1 DEF Thread
    <3> QED
      BY <1>17, <3>2 DEF Leave, FinishRun
  <2> QED
    BY <1>2, <2>1, <2>2 DEF RunTurn
<1>18. CASE Cancel(w) \/ Expire(w)
  <2>1. runs' = runs /\ ~Undisturbed(t.run)
    BY <1>18 DEF Cancel, Expire, Undisturbed
  <2> QED
    BY <1>1, <1>2, <1>18, <2>1, WarnedKind DEF RunTurn, Warned
<1> QED
  BY <1>3, <1>4, <1>5, <1>6, <1>7, <1>8, <1>9, <1>10, <1>11, <1>12, <1>13, <1>14, <1>15,
     <1>16, <1>17, <1>18 DEF Proceed

Quiet == EndsOnce /\ ResumesAlone

\* What TerminalStays says of a step.
EndedStays == \A r \in Run : Undisturbed(r) /\ runs[r] \in Terminal => runs'[r] = runs[r]

LEMMA StartedQuiet ==
  ASSUME QuietStart, Base, Quiet, NEW w \in Slot, Started(w), asked' = asked,
         server.phase = "up"
  PROVE  Quiet' /\ EndedStays
<1>1. PICK r \in Run, plan \in SUBSET StepId :
        /\ Become(w, NewThread(r, plan))
        /\ \/ runs[r] = None /\ runs' = [runs EXCEPT ![r] = "pending"]
           \/ runs[r] # None /\ runs' = runs /\ ~Once(r)
  BY DEF Started
<1>2. PICK u : u = NewThread(r, plan)
  OBVIOUS
<1>3. u.run = r /\ Live(u)
  BY <1>2 DEF NewThread, Live
<1>4. threads' = [v \in Slot |-> IF v = w THEN u ELSE threads[v]]
  BY <1>1, <1>2 DEF Become, Base, Tables
<1>5. \A o \in Run : runs'[o] = runs[o] \/ (o = r /\ runs[o] = None /\ runs'[o] = "pending")
  BY <1>1 DEF Base, Tables
<1>6. None \notin Terminal /\ "pending" \notin Terminal
  BY NoneIsApart DEF RunStatus, Terminal
<1>7. EndedStays
  BY <1>5, <1>6 DEF EndedStays
<1>8. Undisturbed(r) => Once(r)
  BY DEF Undisturbed, Once
<1>9. EndsOnce'
  <2> SUFFICES ASSUME NEW v \in Slot, threads'[v] # None, Undisturbed(threads'[v].run)
               PROVE  /\ Live(threads'[v])
                      /\ runs'[threads'[v].run] \in Terminal =>
                           threads'[v].phase = "leaving" /\ runs'[threads'[v].run] = "failed"
    BY DEF EndsOnce, Undisturbed, Live
  <2>1. CASE v = w
    BY <1>1, <1>3, <1>4, <1>5, <1>6, <1>8, <2>1 DEF Base, Tables
  <2>2. CASE v # w
    <3>1. threads'[v] = threads[v] /\ threads[v].run \in Run
      BY <1>4, <2>2 DEF Base, ThreadsFit, Fits, Thread
    <3> QED
      BY <1>5, <1>6, <3>1 DEF Quiet, EndsOnce
  <2> QED
    BY <2>1, <2>2
<1>10. ResumesAlone'
  <2>1. server' = server /\ resume' = resume
    BY DEF Started
  <2>2. resume.run = None /\ resume.todo = {}
    BY DEF Quiet, ResumesAlone
  <2> QED
    BY <2>1, <2>2, NoneIsNoStep DEF Quiet, ResumesAlone, StepId
<1> QED
  BY <1>7, <1>9, <1>10 DEF Quiet

LEMMA TurnQuiet ==
  ASSUME Base, Quiet, NEW w \in Slot, threads[w] # None, NEW u, Turn(w, u), RunTurn(w, u),
         asked' = asked
  PROVE  Quiet' /\ EndedStays
<1> DEFINE t == threads[w]
<1>1. t.run \in Run /\ (u # None => u.run = t.run)
  BY DEF Base, ThreadsFit, Fits, Thread, Turn, Moves, Keeps
<1>2. threads' = [v \in Slot |-> IF v = w THEN u ELSE threads[v]]
  BY DEF Turn, Become, Base, Tables
<1>3. \A o \in Run : o # t.run => runs'[o] = runs[o]
  BY <1>1 DEF RunTurn, Base, Tables
<1>4. \/ runs'[t.run] = runs[t.run]
      \/ /\ t.phase = "leaving" => runs'[t.run] = "failed"
         /\ runs'[t.run] \notin Terminal \/ u = None
              \/ (u.phase = "leaving" /\ runs'[t.run] = "failed")
  BY <1>1 DEF RunTurn, Base, Tables
<1>5. Undisturbed(t.run) => /\ Live(t)
                            /\ runs[t.run] \in Terminal =>
                                 t.phase = "leaving" /\ runs[t.run] = "failed"
  BY DEF Quiet, EndsOnce
<1>6. EndedStays
  BY <1>3, <1>4, <1>5 DEF EndedStays
<1>7. EndsOnce'
  <2> SUFFICES ASSUME NEW v \in Slot, threads'[v] # None, Undisturbed(threads'[v].run)
               PROVE  /\ Live(threads'[v])
                      /\ runs'[threads'[v].run] \in Terminal =>
                           threads'[v].phase = "leaving" /\ runs'[threads'[v].run] = "failed"
    BY DEF EndsOnce, Undisturbed, Live
  <2>1. CASE v = w
    <3>1. threads'[v] = u /\ u # None
      BY <1>2, <2>1
    <3>2. Live(u) /\ (t.phase = "leaving" => u.phase = "leaving")
      BY <1>1, <1>5, <3>1 DEF RunTurn
    <3> QED
      BY <1>1, <1>4, <1>5, <3>1, <3>2
  <2>2. CASE v # w
    <3>1. threads'[v] = threads[v] /\ threads[v].run \in Run
      BY <1>2, <2>2 DEF Base, ThreadsFit, Fits, Thread
    <3>2. threads[v].run # t.run
      BY <2>2, <3>1 DEF Base, OneThread, Undisturbed, Once
    <3> QED
      BY <1>3, <3>1, <3>2 DEF Quiet, EndsOnce
  <2> QED
    BY <2>1, <2>2
<1>8. ResumesAlone'
  <2>1. server.phase = "up" /\ server' = server /\ resume' = resume
    BY DEF Quiet, ResumesAlone, RunTurn
  <2>2. resume.run = None /\ resume.todo = {}
    BY <2>1 DEF Quiet, ResumesAlone
  <2> QED
    BY <2>1, <2>2, NoneIsNoStep DEF Quiet, ResumesAlone, StepId
<1> QED
  BY <1>6, <1>7, <1>8 DEF Quiet

LEMMA ResumedQuiet ==
  ASSUME Base, Quiet, resume.run # None, NEW local, NEW status, Resumed(local, status),
         asked' = asked
  PROVE  Quiet' /\ EndedStays
<1>1. server.phase = "resuming" /\ \A w \in Slot : threads[w] = None
  BY DEF Quiet, ResumesAlone
<1>2. /\ server' = server /\ threads' = threads
      /\ resume'.todo = resume.todo /\ resume'.run = None
  BY DEF Resumed, NoRun
<1>3. \A r \in Run : r # resume.run => runs'[r] = runs[r]
  BY DEF Resumed, Base, Tables
<1>4. EndedStays
  BY <1>3 DEF EndedStays, Quiet, ResumesAlone, Terminal
<1>5. EndsOnce'
  BY <1>1, <1>2 DEF EndsOnce
<1>6. ResumesAlone'
  <2>1. \A r \in Run : r \in resume.todo => r # resume.run /\ runs[r] \in {"pending", "running"}
    BY DEF Quiet, ResumesAlone
  <2>2. \A r \in Run : r # None
    BY NoneIsNoStep DEF StepId
  <2>3. resume.todo \subseteq Run
    BY DEF Quiet, ResumesAlone
  <2> QED
    BY <1>1, <1>2, <1>3, <2>1, <2>2, <2>3 DEF Quiet, ResumesAlone
<1> QED
  BY <1>4, <1>5, <1>6 DEF Quiet

LEMMA NoRunEmpty == NoRun.run = None /\ NoRun.todo = {} /\ NoRun.polls = {}
BY DEF NoRun

LEMMA InitQuiet == Init => Quiet
<1> SUFFICES ASSUME Init PROVE Quiet
  OBVIOUS
<1>1. EndsOnce
  BY DEF Init, EndsOnce
<1>2. ResumesAlone
  BY NoRunEmpty, NoneIsNoStep DEF Init, ResumesAlone, StepId
<1> QED
  BY <1>1, <1>2 DEF Quiet

\* The steps that neither start nor run a goroutine.
LEMMA OthersQuiet ==
  ASSUME Base, Quiet, asked' = asked,
         (\E r \in Run : SubmitManual(r)) \/ Crash \/ Restart \/ ResumeStep
  PROVE  Quiet' /\ EndedStays
<1>0. \A r \in Run : r # None
  BY NoneIsNoStep DEF StepId
<1>1. CASE \E r \in Run : SubmitManual(r)
  <2>1. PICK r \in Run : SubmitManual(r)
    BY <1>1
  <2>2. runs[r] = None /\ runs' = [runs EXCEPT ![r] = "pending"]
    BY <2>1 DEF SubmitManual
  <2>3. \A o \in Run : runs'[o] = runs[o] \/ (runs[o] = None /\ runs'[o] = "pending")
    BY <2>2 DEF Base, Tables
  <2>4. None \notin Terminal /\ "pending" \notin Terminal
    BY NoneIsApart DEF RunStatus, Terminal
  <2>5. threads' = threads /\ server' = server /\ resume' = resume
    BY <2>1 DEF SubmitManual
  <2>6. EndedStays
    BY <2>3, <2>4 DEF EndedStays
  <2>7. EndsOnce'
    <3>1. \A w \in Slot : threads[w] # None => threads[w].run \in Run
      BY DEF Base, ThreadsFit, Fits, Thread
    <3> QED
      BY <2>3, <2>4, <2>5, <3>1 DEF Quiet, EndsOnce, Undisturbed
  <2>8. ResumesAlone'
    BY <2>3, <2>4, <2>5, NoneIsApart DEF Quiet, ResumesAlone, RunStatus
  <2> QED
    BY <2>6, <2>7, <2>8 DEF Quiet
<1>2. CASE Crash
  <2>1. /\ server' = [phase |-> "down", crashes |-> server.crashes + 1] /\ resume' = NoRun /\ runs' = runs
        /\ threads' = [w \in Slot |-> None]
    BY <1>2 DEF Crash
  <2> QED
    BY <1>0, <2>1, NoRunEmpty DEF Quiet, EndsOnce, ResumesAlone, EndedStays
<1>3. CASE Restart
  <2>1. /\ server.phase = "down" /\ server' = [server EXCEPT !.phase = "early"]
        /\ resume' = resume /\ runs' = runs /\ threads' = threads
    BY <1>3 DEF Restart
  <2>2. server' = [phase |-> "early", crashes |-> server.crashes]
    BY <2>1 DEF Quiet, ResumesAlone
  <2> QED
    BY <2>1, <2>2 DEF Quiet, EndsOnce, ResumesAlone, EndedStays, Undisturbed
<1>4. CASE StartResume
  <2>1. /\ server.phase = "early" /\ runs' = runs /\ threads' = threads
        /\ resume'.todo = ListResumable /\ resume'.run = None
    BY <1>4 DEF StartResume, NoRun
  <2>2. server' = [server EXCEPT !.phase = "resuming"]
    BY <1>4 DEF StartResume
  <2>3. \A w \in Slot : threads[w] = None
    BY <2>1 DEF Quiet, ResumesAlone
  <2>4. server = [phase |-> server.phase, crashes |-> server.crashes]
    BY DEF Quiet, ResumesAlone
  <2>5. server' = [phase |-> "resuming", crashes |-> server.crashes]
    BY <2>2, <2>4
  <2> QED
    BY <1>0, <2>1, <2>3, <2>5 DEF Quiet, EndsOnce, ResumesAlone, EndedStays, ListResumable
<1>5. CASE \E r \in Run : LoadRun(r)
  <2>1. PICK r \in Run : LoadRun(r)
    BY <1>5
  <2>2. /\ server.phase = "resuming" /\ r \in resume.todo /\ runs' = runs /\ threads' = threads
        /\ server' = server /\ resume'.todo = resume.todo \ {r} /\ resume'.run \in {None, r}
    BY <2>1 DEF LoadRun
  <2> QED
    BY <1>0, <2>2 DEF Quiet, EndsOnce, ResumesAlone, EndedStays, Undisturbed
<1>6. CASE Interrupt
  <2>1. resume.run # None /\ \E local, status : Resumed(local, status)
    BY <1>6 DEF Interrupt
  <2> QED
    BY <2>1, ResumedQuiet
<1>7. CASE \E s \in StepId, outcome \in {"succeeded", "failed", "open"} : Poll(s, outcome)
  <2>1. PICK s \in StepId, outcome \in {"succeeded", "failed", "open"} : Poll(s, outcome)
    BY <1>7
  <2>2. runs' = runs /\ threads' = threads /\ server' = server
    BY <2>1 DEF Poll
  <2>3. resume'.todo = resume.todo /\ resume'.run = resume.run
    BY <2>1 DEF Poll
  <2> QED
    BY <2>2, <2>3 DEF Quiet, EndsOnce, ResumesAlone, EndedStays, Undisturbed
<1>8. CASE FinishAsync
  <2>1. resume.run # None /\ \E local, status : Resumed(local, status)
    BY <1>8 DEF FinishAsync
  <2> QED
    BY <2>1, ResumedQuiet
<1>9. CASE EndResume
  <2>1. /\ resume.run = None /\ resume.todo = {} /\ server.phase = "resuming"
        /\ runs' = runs /\ threads' = threads /\ resume' = resume
        /\ server' = [server EXCEPT !.phase = "up"]
    BY <1>9 DEF EndResume
  <2>3. server' = [phase |-> "up", crashes |-> server.crashes]
    BY <2>1 DEF Quiet, ResumesAlone
  <2>2. \A w \in Slot : threads[w] = None
    BY <2>1 DEF Quiet, ResumesAlone
  <2> QED
    BY <1>0, <2>1, <2>2, <2>3 DEF Quiet, EndsOnce, ResumesAlone, EndedStays
<1> QED
  BY <1>1, <1>2, <1>3, <1>4, <1>5, <1>6, <1>7, <1>8, <1>9 DEF ResumeStep

LEMMA NextQuiet ==
  ASSUME QuietStart
  PROVE  Base /\ Quiet /\ [Next]_<<vars, asked>> => Quiet' /\ EndedStays
<1> SUFFICES ASSUME Base, Quiet, [Next]_<<vars, asked>> PROVE Quiet' /\ EndedStays
  OBVIOUS
<1>1. CASE Next
  <2>0. asked' = asked
    BY <1>1 DEF Next
  <2>1. ASSUME NEW r \in Run, NEW w \in Slot,
               \/ Submit(r, w) \/ Resubmit(r, w)
               \/ \E prev \in Run : Replay(r, prev, w)
        PROVE  Quiet' /\ EndedStays
    <3>1. Serving /\ Started(w)
      BY <2>1, SubmitsStart DEF Submit, Resubmit, Replay
    <3> QED
      BY <2>0, <3>1, StartedQuiet DEF Serving
  <2>2. ASSUME NEW w \in Slot, Proceed(w) \/ Cancel(w) \/ Expire(w)
        PROVE  Quiet' /\ EndedStays
    <3>1. PICK u : Turn(w, u)
      BY <2>2, ProceedTurns
    <3>2. PICK v : RunTurn(w, v)
      BY <2>2, <3>1, ProceedRunTurns DEF Turn
    <3>3. u = v
      BY <3>1, <3>2 DEF Turn, RunTurn, Become, Base, Tables
    <3> QED
      BY <2>0, <3>1, <3>2, <3>3, TurnQuiet DEF Turn
  <2> QED
    BY <1>1, <2>0, <2>1, <2>2, OthersQuiet DEF Next, Step
<1>2. CASE UNCHANGED <<vars, asked>>
  BY <1>2 DEF vars, Quiet, EndsOnce, ResumesAlone, EndedStays, Undisturbed
<1> QED
  BY <1>1, <1>2

\* If requests wait for the resumption after a restart, a run that has ended keeps
\* its status: no late goroutine and no resumption changes it (engine.go finishRun,
\* resume.go Resume).
THEOREM EndedRunsStay ==
  ASSUME QuietStart
  PROVE  Spec => TerminalStays
<1>1. EndedStays => [\A r \in Run : Undisturbed(r) /\ runs[r] \in Terminal => runs'[r] = runs[r]]_vars
  BY DEF EndedStays
<1> QED
  BY <1>1, InitQuiet, NextQuiet, BaseHolds, PTL DEF Spec, TerminalStays

-----------------------------------------------------------------------------
(***************************************************************************)
(* The tables have their types, and the attempts their unique keys.        *)
(***************************************************************************)
RowsTyped == steps = [s \in StepId |-> steps[s]] /\ \A s \in StepId : steps[s] = None \/ steps[s] \in Row

\* The unique keys of run_attempts.
Unique(table) ==
  \A a, b \in table : (a.step = b.step /\ (a.idx = b.idx \/ a.run = b.run)) => a = b

Says(l) == l.status \in StepStatus /\ l.product \in BOOLEAN

\* A resumption holds typed steps, and polls steps that it holds.
ResumeTyped ==
  /\ server = [phase |-> server.phase, crashes |-> server.crashes]
  /\ server.phase \in {"down", "early", "resuming", "up"} /\ server.crashes \in 0..MaxCrashes
  /\ resume = [todo |-> resume.todo, run |-> resume.run, status |-> resume.status,
                local |-> resume.local, polls |-> resume.polls]
  /\ resume.todo \subseteq Run /\ resume.run \in Run \union {None}
  /\ resume.run = None => resume.polls = {}
  /\ resume.local \in [StepId -> Told \union {None}]
  /\ \A s \in resume.polls : resume.local[s] # None

Stocked == RowsTyped /\ attempts \subseteq Attempt /\ Unique(attempts) /\ ResumeTyped

\* The steps that L tells of are stored for the run r.
Rewritten(r, L) ==
  steps' = [s \in StepId |-> IF L[s] = None THEN steps[s] ELSE SaveStep(steps, r, s, L[s])[s]]

LEMMA SaveStepRow ==
  ASSUME RowsTyped, NEW r, NEW s \in StepId, NEW l
  PROVE  SaveStep(steps, r, s, l) =
           [o \in StepId |->
              IF o = s THEN [owner |-> IF steps[s] = None THEN r ELSE steps[s].owner,
                             status |-> l.status, product |-> l.product]
                       ELSE steps[o]]
BY DEF SaveStep, RowsTyped

LEMMA SameRewritten ==
  ASSUME RowsTyped, steps' = steps, NEW r
  PROVE  \E L : Rewritten(r, L) /\ \A s \in StepId : L[s] = None
<1> DEFINE L == [s \in StepId |-> None]
<1>1. Rewritten(r, L)
  BY DEF Rewritten, RowsTyped
<1> QED
  BY <1>1

LEMMA SaveStepRewritten ==
  ASSUME RowsTyped, NEW r, NEW s \in StepId, NEW l, l # None,
         steps' = SaveStep(steps, r, s, l)
  PROVE  \E L : Rewritten(r, L) /\ \A o \in StepId : L[o] = IF o = s THEN l ELSE None
<1> DEFINE L == [o \in StepId |-> IF o = s THEN l ELSE None]
<1>1. \A o \in StepId : L[o] = IF o = s THEN l ELSE None
  OBVIOUS
<1> HIDE DEF L
<1>2. \A o \in StepId : steps'[o] = IF o = s THEN SaveStep(steps, r, s, l)[s] ELSE steps[o]
  BY SaveStepRow
<1>3. steps' = [o \in StepId |-> steps'[o]]
  BY SaveStepRow
<1>4. Rewritten(r, L)
  BY <1>1, <1>2, <1>3, Zenon DEF Rewritten
<1> QED
  BY <1>1, <1>4

\* Stored(t) is defined by attempts: those before the step.
LEMMA FinishRunRewritten ==
  ASSUME RowsTyped, NEW t \in Thread, NEW status, FinishRun(t, status)
  PROVE  \E L : /\ Rewritten(t.run, L)
                /\ \A s \in StepId : L[s] = IF Live(t) /\ s \in Stored(t) THEN t.local[s] ELSE None
<1>1. CASE Live(t)
  <2> DEFINE L == [s \in StepId |-> IF s \in Stored(t) THEN t.local[s] ELSE None]
  <2>1. steps' = [s \in StepId |-> IF s \in Stored(t)
                                   THEN SaveStep(steps, t.run, s, t.local[s])[s] ELSE steps[s]]
    BY <1>1 DEF FinishRun, SaveSteps
  <2>2. \A s \in Stored(t) : t.local[s] # None
    BY DEF Stored
  <2>3. Rewritten(t.run, L)
    BY <2>1, <2>2 DEF Rewritten
  <2> QED
    BY <1>1, <2>3
<1>2. CASE ~Live(t)
  BY <1>2, SameRewritten DEF FinishRun
<1> QED
  BY <1>1, <1>2

LEMMA RewrittenRow ==
  ASSUME RowsTyped, NEW r \in Run, NEW L, Rewritten(r, L),
         \A s \in StepId : L[s] = None \/ Says(L[s])
  PROVE  /\ RowsTyped'
         /\ \A s \in StepId :
              steps'[s] = IF L[s] = None THEN steps[s]
                          ELSE [owner |-> IF steps[s] = None THEN r ELSE steps[s].owner,
                                status |-> L[s].status, product |-> L[s].product]
<1>1. \A s \in StepId :
        steps'[s] = IF L[s] = None THEN steps[s] ELSE SaveStep(steps, r, s, L[s])[s]
  BY DEF Rewritten
<1>2. \A s \in StepId :
        steps'[s] = IF L[s] = None THEN steps[s]
                    ELSE [owner |-> IF steps[s] = None THEN r ELSE steps[s].owner,
                          status |-> L[s].status, product |-> L[s].product]
  BY <1>1, SaveStepRow
<1>3. steps' = [s \in StepId |-> steps'[s]]
  BY DEF Rewritten
<1>4. \A s \in StepId : steps'[s] = None \/ steps'[s] \in Row
  <2> SUFFICES ASSUME NEW s \in StepId PROVE steps'[s] = None \/ steps'[s] \in Row
    OBVIOUS
  <2>1. steps[s] = None \/ steps[s].owner \in Run
    BY DEF RowsTyped, Row
  <2>2. CASE L[s] = None
    BY <1>2, <2>2 DEF RowsTyped
  <2>3. CASE L[s] # None
    <3>1. PICK o \in Run : o = IF steps[s] = None THEN r ELSE steps[s].owner
      BY <2>1
    <3>2. steps'[s] = [owner |-> o, status |-> L[s].status, product |-> L[s].product]
      BY <1>2, <2>3, <3>1
    <3>3. L[s].status \in StepStatus /\ L[s].product \in BOOLEAN
      BY <2>3 DEF Says
    <3> QED
      BY <3>2, <3>3 DEF Row
  <2> QED
    BY <2>2, <2>3
<1> QED
  BY <1>2, <1>3, <1>4 DEF RowsTyped

\* Of a step, a run has one attempt; the keys of the table stay unique.
LEMMA SaveAttemptRows ==
  ASSUME attempts \subseteq Attempt, Unique(attempts),
         NEW r \in Run, NEW s \in StepId, NEW idx \in 1..MaxAttempts,
         NEW status \in {"failed", "succeeded"}, NEW task \in BOOLEAN,
         NEW after, after = SaveAttempt(r, s, idx, status, task)
  PROVE  /\ after \subseteq Attempt /\ Unique(after)
         /\ \A a \in after : a \in attempts \/ (a.run = r /\ a.step = s /\ a.task = task)
<1>1. CASE Taken(r, s, idx)
  BY <1>1 DEF SaveAttempt
<1>2. CASE ~Taken(r, s, idx) /\ \E a \in attempts : a.step = s /\ a.run = r
  <2> DEFINE new(a) == IF a.step = s /\ a.run = r
                       THEN [a EXCEPT !.status = status, !.task = task] ELSE a
  <2>1. after = {new(a) : a \in attempts}
    BY <1>2 DEF SaveAttempt
  <2>2. \A a \in attempts : /\ new(a) \in Attempt
                            /\ new(a).step = a.step /\ new(a).run = a.run /\ new(a).idx = a.idx
                            /\ new(a) = a \/ (a.run = r /\ a.step = s /\ new(a).task = task)
    BY DEF Attempt
  <2> HIDE DEF new
  <2> QED
    BY <2>1, <2>2 DEF Unique
<1>3. CASE ~Taken(r, s, idx) /\ ~\E a \in attempts : a.step = s /\ a.run = r
  <2> DEFINE new == [step |-> s, idx |-> idx, run |-> r, status |-> status, task |-> task]
  <2>1. after = attempts \union {new}
    BY <1>3 DEF SaveAttempt
  <2>2. new \in Attempt /\ new.step = s /\ new.idx = idx /\ new.run = r /\ new.task = task
    BY DEF Attempt
  <2>3. \A a \in attempts : a.step = s => a.idx # idx /\ a.run # r
    BY <1>3 DEF Taken
  <2> HIDE DEF new
  <2> QED
    BY <2>1, <2>2, <2>3 DEF Unique
<1> QED
  BY <1>1, <1>2, <1>3

LEMMA SaysLocal ==
  ASSUME NEW l \in Local
  PROVE  Says(l)
BY DEF Local, Says

\* The ways a turn writes rows of steps: not at all, one step, all of them.
Written(t) ==
  \E L : /\ Rewritten(t.run, L)
         /\ \A s \in StepId : L[s] # None => s \in t.plan /\ L[s] \in Local

LEMMA SameWritten ==
  ASSUME RowsTyped, NEW t, steps' = steps
  PROVE  Written(t)
BY SameRewritten DEF Written

LEMMA StepWritten ==
  ASSUME RowsTyped, NEW t, t.plan \subseteq StepId, NEW s \in t.plan, NEW l \in Local,
         steps' = steps \/ steps' = SaveStep(steps, t.run, s, l)
  PROVE  Written(t)
<1>1. CASE steps' = steps
  BY <1>1, SameWritten
<1>2. CASE steps' = SaveStep(steps, t.run, s, l)
  <2>1. s \in StepId /\ l # None
    BY NoneIsApart
  <2>2. PICK L : /\ Rewritten(t.run, L)
                 /\ \A o \in StepId : L[o] = IF o = s THEN l ELSE None
    BY <1>2, <2>1, SaveStepRewritten
  <2> QED
    BY <2>2 DEF Written
<1> QED
  BY <1>1, <1>2

LEMMA FinishWritten ==
  ASSUME RowsTyped, NEW t, NEW u \in Thread, NEW status, FinishRun(u, status),
         u.run = t.run, u.plan = t.plan
  PROVE  Written(t)
<1>1. PICK L : /\ Rewritten(t.run, L)
               /\ \A s \in StepId : L[s] = IF Live(u) /\ s \in Stored(u) THEN u.local[s] ELSE None
  BY FinishRunRewritten
<1>2. \A s \in StepId : L[s] # None => s \in t.plan /\ L[s] \in Local
  BY <1>1 DEF Stored, Thread
<1> QED
  BY <1>1, <1>2 DEF Written

LEMMA FailsWritten ==
  ASSUME RowsTyped, NEW t, NEW u, Fits(t), AtStep(t), Fails(t, u)
  PROVE  Written(t)
<1>1. t \in Thread /\ t.plan \subseteq StepId /\ t.at \in t.plan
  BY AtHand DEF Thread
<1>2. CASE Leaves(t, u) /\ FinishRun(u, "failed")
  BY <1>2, FinishWritten DEF Leaves, Keeps
<1>3. CASE \E l : Settles(t, u, l) /\ steps' = SaveStep(steps, t.run, t.at, l)
  BY <1>1, <1>3, StepWritten DEF Settles
<1>4. CASE steps' = steps
  BY <1>4, SameWritten
<1> QED
  BY <1>2, <1>3, <1>4 DEF Fails

LEMMA ProceedWrites ==
  ASSUME Base, RowsTyped, NEW w \in Slot, threads[w] # None, Proceed(w) \/ Cancel(w) \/ Expire(w)
  PROVE  Written(threads[w])
<1> DEFINE t == threads[w]
<1>1. Fits(t) /\ t \in Thread /\ t.plan \subseteq StepId
  BY DEF Base, ThreadsFit, Fits, Thread
<1>3. CASE CompileFails(w) \/ Planned(w) \/ CallSucceedsLate(w) \/ Cancel(w) \/ Expire(w)
  <2>1. steps' = steps
    BY <1>3 DEF CompileFails, Planned, CallSucceedsLate, Cancel, Expire
  <2> QED
    BY <2>1, SameWritten
<1>4. CASE Begin(w)
  <2>1. PICK u : \/ Begins(t, u) /\ FinishRun(u, "running")
                 \/ steps' = steps
    BY <1>1, <1>4, BeginKind
  <2> QED
    BY <2>1, SameWritten, FinishWritten DEF Begins, Keeps
<1>5. CASE StorePlan(w)
  <2>1. PICK u, s : /\ Plans(t, u, s)
                    /\ steps' = steps \/ steps' = SaveStep(steps, t.run, s, Fresh("pending"))
    BY <1>1, <1>5, StorePlanKind
  <2>2. s \in t.plan /\ Fresh("pending") \in Local
    BY <1>1, <2>1, FreshWaits DEF Plans, Fits, Waiting
  <2> QED
    BY <1>1, <2>1, <2>2, StepWritten
<1>6. CASE SkipStep(w)
  <2>1. PICK u, s : /\ Skips(t, u, s)
                    /\ steps' = steps \/ steps' = SaveStep(steps, t.run, s, u.local[s])
    BY <1>1, <1>6, SkipStepKind
  <2>2. s \in t.plan /\ u.local[s] \in Local
    <3>1. s \in t.todo /\ s \in t.plan /\ t.local[s] \in Local
      BY <1>1, <2>1, LeastFirst DEF Skips, Fits, Executes, Waiting, Thread
    <3>2. u.local[s] = [t.local[s] EXCEPT !.status = "skipped"]
      BY <1>1, <2>1, <3>1 DEF Skips, Thread
    <3> QED
      BY <3>1, <3>2 DEF Local, StepStatus, Settled
  <2> QED
    BY <1>1, <2>1, <2>2, StepWritten
<1>7. CASE StartStep(w)
  <2>1. PICK u, s : /\ Starts(t, u, s)
                    /\ steps' = steps \/ steps' = SaveStep(steps, t.run, s, u.local[s])
    BY <1>1, <1>7, StartStepKind
  <2>2. s \in t.plan /\ u.local[s] \in Local
    <3>1. s \in t.todo /\ s \in t.plan /\ t.local[s] \in Local
      BY <1>1, <2>1 DEF Starts, Fits, Executes, Waiting
    <3>2. u.local[s] = [t.local[s] EXCEPT !.status = "running"]
      BY <1>1, <2>1, <3>1 DEF Starts, Thread
    <3> QED
      BY <3>1, <3>2 DEF Local, StepStatus
  <2> QED
    BY <1>1, <2>1, <2>2, StepWritten
<1>8. CASE Unresolved(w)
  BY <1>1, <1>8, UnresolvedKind, FailsWritten
<1>9. CASE StoreFails(w)
  BY <1>1, <1>9, StoreFailsKind, FailsWritten
<1>10. CASE \E answer \in Answer : CallSucceeds(w, answer)
  <2>1. steps' = steps
    BY <1>10 DEF CallSucceeds
  <2> QED
    BY <2>1, SameWritten
<1>11. CASE StoreResult(w)
  <2>1. PICK u, l : /\ AtStep(t) /\ Settles(t, u, l)
                    /\ steps' = steps \/ steps' = SaveStep(steps, t.run, t.at, l)
    BY <1>1, <1>11, StoreResultKind
  <2>2. t.at \in t.plan /\ l \in Local
    BY <1>1, <2>1, AtHand DEF Settles
  <2> QED
    BY <1>1, <2>1, <2>2, StepWritten
<1>12. CASE \E answer \in {"transient", "permanent"} : CallFails(w, answer)
  <2>1. PICK answer : CallFails(w, answer)
    BY <1>12
  <2>2. PICK u : \/ Fails(t, u)
                 \/ \E l : Holds(t, u, l) /\ steps' = SaveStep(steps, t.run, t.at, l)
    BY <1>1, <2>1, CallFailsKind
  <2>3. AtStep(t)
    BY <1>1, <2>1, CallFailsKind DEF AtStep
  <2>4. t.at \in t.plan
    BY <1>1, <2>3, AtHand
  <2> QED
    BY <1>1, <2>2, <2>3, <2>4, FailsWritten, StepWritten DEF Holds, InHand
<1>13. CASE BackoffEnds(w)
  <2>1. PICK u : Fails(t, u) \/ steps' = steps
    BY <1>1, <1>13, BackoffEndsKind
  <2>2. AtStep(t)
    BY <1>1, <1>13, BackoffEndsKind DEF AtStep
  <2> QED
    BY <1>1, <2>1, <2>2, FailsWritten, SameWritten
<1>14. CASE Summarise(w)
  BY <1>1, <1>14, SummariseKind, FinishWritten
<1>15. CASE Leave(w)
  <2> DEFINE u == [t EXCEPT !.ctx = "live"]
  <2>1. steps' = steps \/ FinishRun(u, "failed")
    BY <1>15 DEF Leave
  <2>2. u \in Thread /\ u.run = t.run /\ u.plan = t.plan
    BY <1>1 DEF Thread
  <2> HIDE DEF u
  <2> QED
    BY <2>1, <2>2, SameWritten, FinishWritten
<1> QED
  BY <1>3, <1>4, <1>5, <1>6, <1>7, <1>8, <1>9, <1>10, <1>11, <1>12, <1>13, <1>14, <1>15 DEF Proceed

\* A turn records one attempt of the step at hand, if any.
Recorded(t) ==
  \/ attempts' = attempts
  \/ /\ AtStep(t)
     /\ \E idx \in 1..MaxAttempts, status \in {"failed", "succeeded"}, task \in BOOLEAN :
          /\ attempts' = SaveAttempt(t.run, t.at, idx, status, task)
          /\ task => "task" \in Answer

LEMMA ProceedRecords ==
  ASSUME Base, NEW w \in Slot, threads[w] # None, Proceed(w) \/ Cancel(w) \/ Expire(w)
  PROVE  Recorded(threads[w])
<1> DEFINE t == threads[w]
<1>1. Fits(t)
  BY DEF Base, ThreadsFit
<1>2. CASE attempts' = attempts
  BY <1>2 DEF Recorded
<1>3. CASE \E answer \in Answer : CallSucceeds(w, answer)
  <2>1. PICK answer \in Answer : CallSucceeds(w, answer)
    BY <1>3
  <2>2. PICK task \in BOOLEAN : task = (answer = "task")
    OBVIOUS
  <2>3. t.phase = "calling" /\ AtStep(t)
    BY <2>1 DEF CallSucceeds, Calls, AtStep
  <2>4. attempts' = SaveAttempt(t.run, t.at, t.local[t.at].tried + 1, "succeeded", task)
    BY <2>1, <2>2 DEF CallSucceeds
  <2> QED
    BY <1>1, <2>2, <2>3, <2>4, AtHand DEF Recorded
<1>4. CASE \E answer \in {"transient", "permanent"} : CallFails(w, answer)
  <2>1. PICK answer : CallFails(w, answer)
    BY <1>4
  <2>2. t.phase = "calling" /\ AtStep(t)
    BY <2>1 DEF CallFails, Calls, AtStep
  <2>3. \/ attempts' = attempts
        \/ attempts' = SaveAttempt(t.run, t.at, t.local[t.at].tried + 1, "failed", FALSE)
    BY <2>1 DEF CallFails
  <2> QED
    BY <1>1, <2>2, <2>3, AtHand DEF Recorded
<1> QED
  BY <1>2, <1>3, <1>4
     DEF Proceed, CompileFails, Begin, StorePlan, Planned, SkipStep, StartStep, Unresolved,
         StoreFails, CallSucceedsLate, StoreResult, BackoffEnds, Summarise, Leave, Cancel, Expire

LEMMA ProceedKeepsServer ==
  ASSUME NEW w \in Slot, Proceed(w) \/ Cancel(w) \/ Expire(w)
  PROVE  server' = server /\ resume' = resume /\ threads[w] # None
BY DEF Proceed, CompileFails, Begin, StorePlan, Planned, SkipStep, StartStep, Unresolved,
       StoreFails, CallSucceeds, CallSucceedsLate, StoreResult, CallFails, BackoffEnds,
       Summarise, Leave, Cancel, Expire, Calls

LEMMA ProceedStocked ==
  ASSUME Base, Stocked, NEW w \in Slot, Proceed(w) \/ Cancel(w) \/ Expire(w)
  PROVE  Stocked'
<1> DEFINE t == threads[w]
<1>1. t # None /\ server' = server /\ resume' = resume
  BY ProceedKeepsServer
<1>2. Fits(t) /\ t.run \in Run
  BY <1>1 DEF Base, ThreadsFit, Fits, Thread
<1>3. RowsTyped'
  <2>1. PICK L : /\ Rewritten(t.run, L)
                 /\ \A s \in StepId : L[s] # None => s \in t.plan /\ L[s] \in Local
    BY <1>1, ProceedWrites DEF Stocked, Written
  <2> QED
    BY <1>2, <2>1, RewrittenRow, SaysLocal DEF Stocked
<1>4. attempts' \subseteq Attempt /\ Unique(attempts')
  <2>1. Recorded(t)
    BY <1>1, ProceedRecords
  <2>2. CASE attempts' = attempts
    BY <2>2 DEF Stocked
  <2>3. CASE AtStep(t) /\ attempts' # attempts
    <3>1. t.at \in StepId
      BY <1>2, <2>3, AtHand
    <3> QED
      BY <1>2, <2>1, <2>3, <3>1, SaveAttemptRows DEF Stocked, Recorded
  <2> QED
    BY <2>1, <2>2, <2>3 DEF Recorded
<1>5. ResumeTyped'
  BY <1>1 DEF Stocked, ResumeTyped
<1> QED
  BY <1>3, <1>4, <1>5 DEF Stocked, Unique

LEMMA NoRunTyped ==
  /\ NoRun.todo = {} /\ NoRun.run = None /\ NoRun.polls = {}
  /\ NoRun.local = [s \in StepId |-> None]
  /\ NoRun = [todo |-> NoRun.todo, run |-> NoRun.run, status |-> NoRun.status,
              local |-> NoRun.local, polls |-> NoRun.polls]
BY DEF NoRun

LEMMA InitStocked == Init => Stocked
<1> SUFFICES ASSUME Init PROVE Stocked
  OBVIOUS
<1>1. RowsTyped
  BY DEF Init, RowsTyped
<1>2. attempts \subseteq Attempt /\ Unique(attempts)
  BY DEF Init, Unique
<1>3. ResumeTyped
  <2>1. server = [phase |-> "up", crashes |-> 0] /\ resume = NoRun
    BY DEF Init
  <2>2. 0 \in 0..MaxCrashes
    BY BoundsTyped
  <2> QED
    BY <2>1, <2>2, NoRunTyped DEF ResumeTyped
<1> QED
  BY <1>1, <1>2, <1>3 DEF Stocked

LEMMA ResumedStocked ==
  ASSUME Stocked, resume.run # None, NEW local, NEW status, Resumed(local, status),
         \A s \in StepId : local[s] = None \/ Says(local[s])
  PROVE  Stocked'
<1>1. resume.run \in Run
  BY DEF Stocked, ResumeTyped
<1>2. RowsTyped'
  BY <1>1, RewrittenRow DEF Resumed, Rewritten, Stocked
<1>3. resume' = [NoRun EXCEPT !.todo = resume.todo] /\ server' = server /\ attempts' = attempts
  BY DEF Resumed
<1>4. resume' = [todo |-> resume.todo, run |-> None, status |-> NoRun.status,
                 local |-> NoRun.local, polls |-> {}]
  BY <1>3, NoRunTyped
<1>5. ResumeTyped'
  BY <1>3, <1>4, NoRunTyped DEF Stocked, ResumeTyped
<1> QED
  BY <1>2, <1>3, <1>5 DEF Stocked, Unique

\* What polling a step makes of it.
LEMMA PollReads ==
  ASSUME Stocked, NEW s \in StepId, NEW outcome \in {"succeeded", "failed", "open"}, Poll(s, outcome)
  PROVE  /\ s \in resume.polls /\ resume.run \in Run /\ resume.local[s] # None
         /\ UNCHANGED <<runs, attempts, threads, server>>
         /\ \E l \in Told :
              /\ resume' = [todo |-> resume.todo, run |-> resume.run, status |-> resume.status,
                            local |-> [resume.local EXCEPT ![s] = l],
                            polls |-> resume.polls \ {s}]
              /\ steps' = steps \/ steps' = SaveStep(steps, resume.run, s, l)
<1>1. /\ s \in resume.polls /\ resume.local[s] \in Told /\ resume.local[s] # None
      /\ resume.run \in Run /\ resume.local \in [StepId -> Told \union {None}]
  BY DEF Poll, Stocked, ResumeTyped
<1>2. PICK x : x = IF outcome = "open" THEN resume.local[s].status ELSE outcome
  OBVIOUS
<1>3. PICK l \in Told : l = [resume.local[s] EXCEPT !.status = x]
  BY <1>1, <1>2 DEF Told, StepStatus, Settled
<1>4. resume' = [resume EXCEPT !.polls = resume.polls \ {s}, !.local[s].status = x]
  BY <1>2 DEF Poll
<1>5. [resume EXCEPT !.polls = resume.polls \ {s}, !.local[s].status = x] =
      [resume EXCEPT !.polls = resume.polls \ {s}, !.local = [resume.local EXCEPT ![s] = l]]
  BY <1>1, <1>3
<1>6. resume' = [todo |-> resume.todo, run |-> resume.run, status |-> resume.status,
                 local |-> [resume.local EXCEPT ![s] = l], polls |-> resume.polls \ {s}]
  BY <1>4, <1>5 DEF Stocked, ResumeTyped
<1>7. steps' = steps \/ steps' = SaveStep(steps, resume.run, s, resume'.local[s])
  BY Zenon DEF Poll
<1>8. resume'.local[s] = l
  BY <1>1, <1>6
<1> QED
  BY <1>1, <1>6, <1>7, <1>8 DEF Poll

LEMMA OthersStocked ==
  ASSUME Base, Stocked,
         (\E r \in Run : SubmitManual(r)) \/ Crash \/ Restart \/ ResumeStep
  PROVE  Stocked'
<1>1. CASE \E r \in Run : SubmitManual(r)
  BY <1>1 DEF SubmitManual, Stocked, RowsTyped, Unique, ResumeTyped
<1>2. CASE Crash
  <2>1. /\ server.crashes < MaxCrashes /\ server.crashes \in 0..MaxCrashes
        /\ server' = [phase |-> "down", crashes |-> server.crashes + 1] /\ resume' = NoRun
        /\ steps' = steps /\ attempts' = attempts
    BY <1>2 DEF Crash, Stocked, ResumeTyped
  <2>2. server.crashes + 1 \in 0..MaxCrashes
    BY <2>1, BoundsTyped
  <2>3. ResumeTyped'
    BY <2>1, <2>2, NoRunTyped DEF ResumeTyped
  <2> QED
    BY <2>1, <2>3 DEF Stocked, RowsTyped, Unique
<1>3. CASE Restart \/ EndResume
  <2>1. /\ steps' = steps /\ attempts' = attempts /\ resume' = resume
        /\ \E phase \in {"early", "up"} : server' = [server EXCEPT !.phase = phase]
    BY <1>3 DEF Restart, EndResume
  <2>2. \E phase \in {"early", "up"} : server' = [phase |-> phase, crashes |-> server.crashes]
    BY <2>1 DEF Stocked, ResumeTyped
  <2>3. ResumeTyped'
    BY <2>1, <2>2 DEF Stocked, ResumeTyped
  <2> QED
    BY <2>1, <2>3 DEF Stocked, RowsTyped, Unique
<1>4. CASE StartResume
  <2>1. /\ steps' = steps /\ attempts' = attempts
        /\ resume' = [NoRun EXCEPT !.todo = ListResumable]
        /\ server' = [server EXCEPT !.phase = "resuming"]
    BY <1>4 DEF StartResume
  <2>2. server' = [phase |-> "resuming", crashes |-> server.crashes]
    BY <2>1 DEF Stocked, ResumeTyped
  <2>3. resume' = [todo |-> ListResumable, run |-> None, status |-> NoRun.status,
                   local |-> NoRun.local, polls |-> {}]
    BY <2>1, NoRunTyped
  <2>4. ResumeTyped'
    BY <2>2, <2>3, NoRunTyped DEF Stocked, ResumeTyped, ListResumable
  <2> QED
    BY <2>1, <2>4 DEF Stocked, RowsTyped, Unique
<1>5. CASE \E r \in Run : LoadRun(r)
  <2>1. PICK r \in Run : LoadRun(r)
    BY <1>5
  <2> DEFINE polls == PendingAsync(r)
             left == polls = {} /\ runs[r] # "running"
             local == [s \in StepId |->
                         IF left \/ s \notin OwnSteps(r) THEN None
                         ELSE [status |-> steps[s].status, product |-> steps[s].product]]
  <2>2. /\ steps' = steps /\ attempts' = attempts /\ server' = server
        /\ resume'.todo = resume.todo \ {r} /\ resume'.run = IF left THEN None ELSE r
        /\ resume'.local = local /\ resume'.polls = polls
        /\ resume' = [todo |-> resume'.todo, run |-> resume'.run, status |-> resume'.status,
                      local |-> resume'.local, polls |-> resume'.polls]
    BY <2>1 DEF LoadRun
  <2>3. \A s \in OwnSteps(r) : [status |-> steps[s].status, product |-> steps[s].product] \in Told
    BY DEF Stocked, RowsTyped, Row, Told, OwnSteps
  <2>4. local \in [StepId -> Told \union {None}]
    BY <2>3
  <2>5. \A s \in polls : local[s] # None
    <3>1. \A s \in polls : s \in OwnSteps(r) /\ s \in StepId
      BY DEF PendingAsync, OwnSteps
    <3> QED
      BY <2>3, <3>1, NoneIsApart
  <2>6. left => polls = {}
    OBVIOUS
  <2> HIDE DEF polls, left, local
  <2>7. r # None
    BY NoneIsNoStep DEF StepId
  <2>8. ResumeTyped'
    BY <2>2, <2>4, <2>5, <2>6, <2>7 DEF Stocked, ResumeTyped
  <2> QED
    BY <2>2, <2>8 DEF Stocked, RowsTyped, Unique
<1>6. CASE Interrupt
  <2> DEFINE open == {s \in StepId : /\ resume.local[s] # None
                                     /\ resume.local[s].status \notin Settled}
             local == [s \in StepId |-> IF s \in open
                                        THEN [resume.local[s] EXCEPT !.status = "failed"]
                                        ELSE resume.local[s]]
  <2>1. resume.run # None /\ \E status : Resumed(local, status)
    BY <1>6 DEF Interrupt
  <2>2. \A s \in StepId : local[s] = None \/ Says(local[s])
    <3>1. \A s \in StepId : resume.local[s] \in Told \union {None}
      BY DEF Stocked, ResumeTyped
    <3>2. \A l \in Told : Says(l) /\ Says([l EXCEPT !.status = "failed"])
      BY DEF Told, Says, StepStatus, Settled
    <3> QED
      BY <3>1, <3>2
  <2> QED
    BY <2>1, <2>2, ResumedStocked
<1>7. CASE \E s \in StepId, outcome \in {"succeeded", "failed", "open"} : Poll(s, outcome)
  <2>1. PICK s \in StepId, outcome \in {"succeeded", "failed", "open"} : Poll(s, outcome)
    BY <1>7
  <2>2. PICK l \in Told :
          /\ resume' = [todo |-> resume.todo, run |-> resume.run, status |-> resume.status,
                        local |-> [resume.local EXCEPT ![s] = l], polls |-> resume.polls \ {s}]
          /\ steps' = steps \/ steps' = SaveStep(steps, resume.run, s, l)
    BY <2>1, PollReads
  <2>3. resume.run \in Run /\ attempts' = attempts /\ server' = server
    BY <2>1, PollReads
  <2>4. ResumeTyped'
    BY <2>2, <2>3, NoneIsApart DEF Stocked, ResumeTyped
  <2>5. RowsTyped'
    <3>1. l # None /\ Says(l)
      BY NoneIsApart DEF Told, Says
    <3>2. CASE steps' = steps
      BY <3>2 DEF Stocked, RowsTyped
    <3>3. CASE steps' = SaveStep(steps, resume.run, s, l)
      <4>1. PICK L : /\ Rewritten(resume.run, L)
                     /\ \A o \in StepId : L[o] = IF o = s THEN l ELSE None
        BY <3>1, <3>3, SaveStepRewritten DEF Stocked
      <4> QED
        BY <2>3, <3>1, <4>1, RewrittenRow DEF Stocked
    <3> QED
      BY <2>2, <3>2, <3>3
  <2> QED
    BY <2>3, <2>4, <2>5 DEF Stocked, Unique
<1>8. CASE FinishAsync
  <2>1. resume.run # None /\ \E status : Resumed(resume.local, status)
    BY <1>8 DEF FinishAsync
  <2>2. \A s \in StepId : resume.local[s] = None \/ Says(resume.local[s])
    BY DEF Stocked, ResumeTyped, Told, Says
  <2> QED
    BY <2>1, <2>2, ResumedStocked
<1> QED
  BY <1>1, <1>2, <1>3, <1>4, <1>5, <1>6, <1>7, <1>8 DEF ResumeStep

LEMMA NextStocked == Base /\ Stocked /\ [Next]_<<vars, asked>> => Stocked'
<1> SUFFICES ASSUME Base, Stocked, [Next]_<<vars, asked>> PROVE Stocked'
  OBVIOUS
<1>1. ASSUME NEW r \in Run, NEW w \in Slot,
             \/ Submit(r, w) \/ Resubmit(r, w)
             \/ \E prev \in Run : Replay(r, prev, w)
      PROVE  Stocked'
  <2>1. UNCHANGED <<steps, attempts, server, resume>>
    BY <1>1 DEF Submit, Resubmit, Replay
  <2> QED
    BY <2>1 DEF Stocked, RowsTyped, Unique, ResumeTyped
<1>2. ASSUME NEW w \in Slot, Proceed(w) \/ Cancel(w) \/ Expire(w)
      PROVE  Stocked'
  BY <1>2, ProceedStocked
<1>3. CASE UNCHANGED <<vars, asked>>
  BY <1>3 DEF vars, Stocked, RowsTyped, Unique, ResumeTyped
<1> QED
  BY <1>1, <1>2, <1>3, OthersStocked DEF Next, Step

\* Every variable keeps its type, and the attempts the unique keys of their table
\* (sqlstore.go SaveAttempt): a step has one attempt of an index, and one of a run.
THEOREM TypesHold == Spec => []TypeOK
<1>1. Base /\ Stocked => TypeOK
  <2> SUFFICES ASSUME Base, Stocked PROVE TypeOK
    OBVIOUS
  <2>1. runs \in [Run -> RunStatus \union {None}] /\ paid \in [Run \X StepId -> 0..2]
    BY DEF Base, Tables
  <2>2. \A s \in StepId : steps[s] = None \/ steps[s] \in Row
    BY DEF Stocked, RowsTyped
  <2>3. attempts \subseteq Attempt
    BY DEF Stocked
  <2>4. \A a, b \in attempts : (a.step = b.step /\ (a.idx = b.idx \/ a.run = b.run)) => a = b
    BY DEF Stocked, Unique
  <2>5. \A w \in Slot : threads[w] = None \/ threads[w] \in Thread
    BY DEF Base, ThreadsFit, Fits
  <2>6. /\ server.phase \in {"down", "early", "resuming", "up"} /\ server.crashes \in 0..MaxCrashes
        /\ resume.todo \subseteq Run /\ resume.run \in Run \union {None}
    BY DEF Stocked, ResumeTyped
  <2> QED
    BY <2>1, <2>2, <2>3, <2>4, <2>5, <2>6 DEF TypeOK
<1> QED
  BY <1>1, InitStocked, NextStocked, BaseHolds, PTL DEF Spec
-----------------------------------------------------------------------------
(***************************************************************************)
(* The rows of the steps, if the plans of the runs have no step in common: *)
(* a step is written by the run that plans it alone.                       *)
(***************************************************************************)
\* Nothing is replayed, and no two runs plan the same node.
PlansApart ==
  \A q \in Requests : \A r, o \in Run :
    /\ q[r].entry # "replay"
    /\ q[r].entry = "agent" /\ q[o].entry = "agent" /\ r # o =>
         Collected(q[r].targets) \intersect Collected(q[o].targets) = {}

\* The run r plans the step s.
Owns(r, s) == r \in Run /\ EntryOf(r) \in {"agent", "adhoc"} /\ s \in PlanOf(r)

RowOf(r, l) == [owner |-> r, status |-> l.status, product |-> l.product]

PlansOwn(t) == EntryOf(t.run) \in {"agent", "adhoc"} /\ t.plan = PlanOf(t.run)

\* Goroutines, rows and attempts are of runs that plan the steps.
Owned ==
  /\ \A w \in Slot : threads[w] # None => PlansOwn(threads[w])
  /\ \A s \in StepId : steps[s] # None => Owns(steps[s].owner, s)
  /\ \A a \in attempts : Owns(a.run, a.step)

\* The steps whose rows tell what the goroutine holds of them.
Shown(t) ==
  CASE t.phase = "planning"                          -> t.plan \ t.todo
    [] t.phase \in {"stepping", "calling", "backoff"} -> t.plan
    [] t.phase = "answered"                          -> t.plan \ {t.at}
    [] OTHER                                         -> {}

\* What the rows have to do with a goroutine that is the only one of its run.
Tells(t) ==
  /\ t.phase = "submitted" => runs[t.run] = "pending"
  /\ Live(t) /\ t.phase \notin {"submitted", "leaving"} => runs[t.run] = "running"
  /\ Live(t) => \A s \in Shown(t) : steps[s] = RowOf(t.run, t.local[s])
  /\ Undisturbed(t.run) /\ runs[t.run] \in Terminal =>
       \A s \in t.plan : t.local[s] # None /\ steps[s] = RowOf(t.run, t.local[s])

ThreadsTell == \A w \in Slot : threads[w] # None /\ Once(threads[w].run) => Tells(threads[w])

\* A run that has not begun has no steps.
NoRowsYet ==
  \A r \in Run : runs[r] \in {None, "pending"} /\ Once(r) =>
    \A s \in StepId : steps[s] # None => steps[s].owner # r

\* A resumption holds the steps of its run.
ResumesOwn ==
  resume.run # None =>
       \A s \in StepId : resume.local[s] # None => steps[s] # None /\ steps[s].owner = resume.run

Rows == Owned /\ ThreadsTell /\ NoRowsYet /\ ResumesOwn

\* The rows of a run that has ended stay as they are, and none is added.
RowsStay ==
  \A r \in Run, s \in StepId :
    /\ Undisturbed(r) /\ runs[r] \in Terminal
    /\ \/ steps[s] # None /\ steps[s].owner = r
       \/ steps'[s] # None /\ steps'[s].owner = r
    => steps'[s] = steps[s]

LEMMA OneOwner ==
  ASSUME PlansApart, asked \in Requests, NEW r \in Run, NEW o \in Run, NEW s,
         Owns(r, s), Owns(o, s)
  PROVE  r = o
<1>1. \A q \in Run : EntryOf(q) = "adhoc" /\ Owns(q, s) => s = q
  BY DEF Owns, PlanOf
<1>2. \A q \in Run : EntryOf(q) = "agent" /\ Owns(q, s) => s \in Node /\ s \in Collected(asked[q].targets)
  BY DEF Owns, PlanOf, Collected
<1>3. Run \intersect Node = {}
  BY IdsTyped
<1>4. CASE EntryOf(r) = "agent" /\ EntryOf(o) = "agent"
  BY <1>2, <1>4 DEF PlansApart, EntryOf
<1> QED
  BY <1>1, <1>2, <1>3, <1>4 DEF Owns

LEMMA OwnRow ==
  ASSUME PlansApart, asked \in Requests, RowsTyped, Owned,
         NEW r \in Run, NEW s \in StepId, Owns(r, s), NEW l
  PROVE  SaveStep(steps, r, s, l)[s] = RowOf(r, l)
<1>1. steps[s] # None => steps[s].owner \in Run /\ Owns(steps[s].owner, s)
  BY DEF Owned, Owns
<1>2. steps[s] # None => steps[s].owner = r
  BY <1>1, OneOwner
<1> QED
  BY <1>2, SaveStepRow DEF RowOf

\* No attempt of another run is in the way of a run: all its steps are stored.
LEMMA OwnStored ==
  ASSUME PlansApart, asked \in Requests, Owned, NEW t \in Thread, PlansOwn(t)
  PROVE  Stored(t) = {s \in t.plan : t.local[s] # None}
<1>1. \A s \in t.plan : ~Taken(t.run, s, 1)
  <2> SUFFICES ASSUME NEW s \in t.plan, NEW a \in attempts, a.step = s
               PROVE  a.run = t.run
    BY DEF Taken
  <2>1. a.run \in Run /\ Owns(a.run, s)
    BY DEF Owned, Owns
  <2>2. t.run \in Run /\ Owns(t.run, s)
    BY DEF Owns, PlansOwn, Thread
  <2> QED
    BY <2>1, <2>2, OneOwner
<1> QED
  BY <1>1 DEF Stored

LEMMA OwnFinish ==
  ASSUME PlansApart, asked \in Requests, RowsTyped, Owned, NEW t \in Thread, PlansOwn(t),
         NEW status, FinishRun(t, status), Live(t)
  PROVE  /\ runs' = [runs EXCEPT ![t.run] = status]
         /\ steps' = [s \in StepId |-> steps'[s]]
         /\ \A s \in StepId : steps'[s] = IF s \in t.plan /\ t.local[s] # None
                                          THEN RowOf(t.run, t.local[s]) ELSE steps[s]
<1>1. PICK S : S = {s \in t.plan : t.local[s] # None} /\ S = Stored(t)
  BY OwnStored
<1>2. /\ runs' = [runs EXCEPT ![t.run] = status]
      /\ steps' = [s \in StepId |-> IF s \in S THEN SaveStep(steps, t.run, s, t.local[s])[s]
                                               ELSE steps[s]]
  BY <1>1 DEF FinishRun, SaveSteps
<1>3. \A s \in StepId : s \in S => SaveStep(steps, t.run, s, t.local[s])[s] = RowOf(t.run, t.local[s])
  BY <1>1, OwnRow DEF Owns, PlansOwn, Thread
<1> QED
  BY <1>1, <1>2, <1>3

\* What a turn that makes u of the only goroutine t of a run leaves in the rows.
TellTurn(t, u) ==
  /\ u # None => Tells(u)'
  /\ steps' = steps \/ runs'[t.run] \notin {None, "pending"}
  /\ runs'[t.run] = runs[t.run] \/ runs'[t.run] \notin {None, "pending"}
  /\ Undisturbed(t.run) /\ runs[t.run] \in Terminal => steps' = steps

\* EndsOnce, of one goroutine.
EndsIn(t) ==
  Undisturbed(t.run) =>
    Live(t) /\ (runs[t.run] \in Terminal => t.phase = "leaving" /\ runs[t.run] = "failed")

\* One step is stored.
LEMMA StepTells ==
  ASSUME PlansApart, asked \in Requests, asked' = asked, RowsTyped, Owned,
         NEW t \in Thread, NEW u \in Thread, PlansOwn(t), Tells(t), EndsIn(t),
         u.run = t.run, u.plan = t.plan, u.ctx = t.ctx,
         t.phase \notin {"submitted", "leaving"}, u.phase \notin {"submitted", "leaving"},
         NEW s \in t.plan, NEW l, u.local[s] = l,
         \A o \in Shown(u) : o = s \/ (o \in Shown(t) /\ u.local[o] = t.local[o]),
         runs' = runs,
         steps' = IF Live(t) THEN SaveStep(steps, t.run, s, l) ELSE steps
  PROVE  TellTurn(t, u)
<1>1. t.run \in Run /\ t.plan \subseteq StepId /\ Shown(u) \subseteq StepId
  BY DEF Thread, Shown
<1>2. Live(u) = Live(t)
  BY DEF Live
<1>3. Undisturbed(t.run) => runs[t.run] \notin Terminal
  BY DEF EndsIn
<1>4. Live(t) => runs[t.run] = "running"
  BY DEF Tells
<1>5. Live(t) => /\ steps'[s] = RowOf(t.run, l)
                 /\ \A o \in StepId : o # s => steps'[o] = steps[o]
  <2>1. Owns(t.run, s)
    BY <1>1 DEF Owns, PlansOwn
  <2>2. SaveStep(steps, t.run, s, l)[s] = RowOf(t.run, l)
    BY <1>1, <2>1, OwnRow
  <2>3. \A o \in StepId : o # s => SaveStep(steps, t.run, s, l)[o] = steps[o]
    BY <1>1, SaveStepRow
  <2> QED
    BY <2>2, <2>3
<1>6. Live(u) => \A o \in Shown(u) : steps'[o] = RowOf(t.run, u.local[o])
  <2> SUFFICES ASSUME Live(t), NEW o \in Shown(u)
               PROVE  steps'[o] = RowOf(t.run, u.local[o])
    BY <1>2
  <2>1. CASE o = s
    BY <1>5, <2>1
  <2>2. CASE o # s
    BY <1>1, <1>5, <2>2 DEF Tells
  <2> QED
    BY <2>1, <2>2
<1>7. Tells(u)'
  <2>1. Undisturbed(t.run)' = Undisturbed(t.run)
    BY DEF Undisturbed
  <2> QED
    BY <1>2, <1>3, <1>4, <1>6, <2>1 DEF Tells, Live, Shown
<1>8. "running" \notin {None, "pending"}
  BY NoneIsApart DEF RunStatus
<1> QED
  BY <1>3, <1>4, <1>7, <1>8 DEF TellTurn

\* No row is written.
LEMMA StillTells ==
  ASSUME asked' = asked, NEW t, NEW u, Tells(t), EndsIn(t),
         u # None => /\ u.run = t.run /\ u.phase # "submitted"
                     /\ \/ t.phase # "leaving"
                        \/ ~Undisturbed(t.run)
                     /\ Live(u) /\ u.phase # "leaving" =>
                          /\ Live(t) /\ t.phase \notin {"submitted", "leaving"}
                          /\ \A o \in Shown(u) : o \in Shown(t) /\ u.local[o] = t.local[o],
         runs' = runs, steps' = steps
  PROVE  TellTurn(t, u)
<1>1. Undisturbed(t.run)' = Undisturbed(t.run)
  BY DEF Undisturbed
<1>2. ASSUME u # None PROVE Tells(u)'
  <2>1. Undisturbed(u.run) => runs[u.run] \notin Terminal
    BY <1>2 DEF EndsIn
  <2>2. u.phase = "leaving" => Shown(u) = {}
    BY DEF Shown
  <2>3. Live(u) => \A s \in Shown(u) : steps[s] = RowOf(u.run, u.local[s])
    BY <1>2, <2>2 DEF Tells
  <2>4. Live(u) /\ u.phase \notin {"submitted", "leaving"} => runs[u.run] = "running"
    BY <1>2 DEF Tells
  <2> QED
    BY <1>1, <1>2, <2>1, <2>3, <2>4 DEF Tells, Live, Shown
<1> QED
  BY <1>2 DEF TellTurn

\* The run is stored, with its steps.
LEMMA FinishTells ==
  ASSUME PlansApart, asked \in Requests, asked' = asked, RowsTyped, Owned,
         runs \in [Run -> RunStatus \union {None}],
         NEW t \in Thread, PlansOwn(t), Tells(t), EndsIn(t), t.phase # "leaving",
         NEW v \in Thread, NEW u, NEW status, FinishRun(v, status),
         v.run = t.run, v.plan = t.plan, v.ctx = t.ctx, u # None => u = v,
         status \in Terminal \union {"running"},
         status \in Terminal /\ u # None => u.phase = "leaving",
         status \in Terminal => \A s \in t.plan : v.local[s] # None,
         status = "running" => u.phase \notin {"submitted", "leaving"},
         u # None /\ Live(t) => \A s \in Shown(u) : s \in t.plan /\ u.local[s] # None,
         Live(t) \/ u = None \/ u.phase # "submitted"
  PROVE  TellTurn(t, u)
<1>0. t.run \in Run /\ t.plan \subseteq StepId
  BY DEF Thread
<1>1. Undisturbed(t.run) => runs[t.run] \notin Terminal
  BY DEF EndsIn
<1>2. CASE Live(t)
  <2>1. Live(v)
    BY <1>2 DEF Live
  <2>2. PlansOwn(v)
    BY DEF PlansOwn
  <2>3. /\ runs'[t.run] = status
        /\ \A s \in t.plan : v.local[s] # None => steps'[s] = RowOf(t.run, v.local[s])
    BY <1>0, <2>1, <2>2, OwnFinish
  <2>4. status \notin {None, "pending"}
    BY NoneIsApart DEF RunStatus, Terminal
  <2>5. ASSUME u # None PROVE Tells(u)'
    <3>1. \A s \in Shown(u) : steps'[s] = RowOf(u.run, u.local[s])
      BY <1>2, <2>3, <2>5
    <3>2. runs'[u.run] \in Terminal =>
            \A s \in u.plan : u.local[s] # None /\ steps'[s] = RowOf(u.run, u.local[s])
      BY <2>3, <2>5
    <3>3. u.phase # "leaving" => runs'[u.run] = "running"
      BY <2>3, <2>5
    <3>4. u.phase # "submitted"
      BY <2>5
    <3> QED
      BY <3>1, <3>2, <3>3, <3>4 DEF Tells, Live, Shown
  <2> QED
    BY <1>1, <2>3, <2>4, <2>5 DEF TellTurn
<1>3. CASE ~Live(t)
  <2>1. runs' = runs /\ steps' = steps
    BY <1>3 DEF FinishRun, Live
  <2>2. u # None => ~Live(u) /\ u.run = t.run
    BY <1>3 DEF Live
  <2> QED
    BY <1>3, <2>1, <2>2, StillTells
<1> QED
  BY <1>2, <1>3

LEMMA FailsTells ==
  ASSUME PlansApart, asked \in Requests, asked' = asked, RowsTyped, Owned,
         runs \in [Run -> RunStatus \union {None}],
         NEW t, NEW u, Fits(t), AtStep(t), PlansOwn(t), Tells(t), EndsIn(t), Fails(t, u)
  PROVE  TellTurn(t, u)
<1>1. t \in Thread /\ u \in Thread /\ u.run = t.run /\ u.plan = t.plan /\ u.ctx = t.ctx
  BY DEF Fits, Fails, Leaves, Settles, Keeps
<1>2. /\ t.at \in t.plan /\ t.at \in StepId /\ t.phase \in {"calling", "backoff", "answered"}
      /\ u.phase \in {"stepping", "leaving"} /\ t.plan \subseteq StepId
  BY AtHand DEF AtStep, Fails, Leaves, Settles, Thread
<1>3. CASE /\ Leaves(t, u) /\ FinishRun(u, "failed")
           /\ \E l \in Local : u.local = [t.local EXCEPT ![t.at] = l]
  <2>1. u.phase = "leaving"
    BY <1>3 DEF Leaves
  <2>2. Shown(u) = {}
    BY <2>1 DEF Shown
  <2>3. \A s \in t.plan : u.local[s] # None
    <3>1. \A s \in t.plan : t.local[s] \in Local
      BY <1>2 DEF Fits, AtStep, Executes, Waiting, InHand, Done
    <3>2. \A s \in t.plan : u.local[s] \in Local
      BY <1>1, <1>2, <1>3, <3>1 DEF Thread
    <3> QED
      BY <3>2, NoneIsApart
  <2>4. "failed" \in Terminal
    BY DEF Terminal
  <2> QED
    BY <1>1, <1>2, <1>3, <2>1, <2>2, <2>3, <2>4, FinishTells
<1>4. CASE /\ runs' = runs /\ Live(t)
           /\ \E l : Settles(t, u, l) /\ steps' = SaveStep(steps, t.run, t.at, l)
  <2>1. PICK l : Settles(t, u, l) /\ steps' = SaveStep(steps, t.run, t.at, l)
    BY <1>4
  <2>2. /\ u.local[t.at] = l /\ u.phase = "stepping"
        /\ \A o \in t.plan : o # t.at => u.local[o] = t.local[o]
    BY <1>1, <1>2, <2>1 DEF Settles, Thread
  <2>3. \A o \in Shown(u) : o = t.at \/ (o \in Shown(t) /\ u.local[o] = t.local[o])
    BY <1>1, <1>2, <2>2 DEF Shown
  <2> QED
    BY <1>1, <1>2, <1>4, <2>1, <2>2, <2>3, StepTells
<1>5. CASE ~Live(t) /\ Leaves(t, u) /\ UNCHANGED <<runs, steps>>
  <2>1. u.phase = "leaving"
    BY <1>5 DEF Leaves
  <2> QED
    BY <1>1, <1>2, <1>5, <2>1, StillTells
<1> QED
  BY <1>3, <1>4, <1>5 DEF Fails

LEMMA ProceedTells ==
  ASSUME PlansApart, Base, asked' = asked, RowsTyped, Owned,
         NEW w \in Slot, threads[w] # None, Tells(threads[w]), EndsIn(threads[w]),
         Proceed(w) \/ Cancel(w) \/ Expire(w)
  PROVE  \E u : Become(w, u) /\ TellTurn(threads[w], u)
<1> DEFINE t == threads[w]
<1>1. /\ Fits(t) /\ t \in Thread /\ t.run \in Run /\ t.plan \subseteq StepId /\ PlansOwn(t)
      /\ asked \in Requests /\ runs \in [Run -> RunStatus \union {None}]
  BY DEF Base, Tables, ThreadsFit, Fits, Thread, Owned
<1>2. CASE CompileFails(w)
  <2>1. runs' = runs /\ steps' = steps /\ t.phase = "submitted"
    BY <1>2 DEF CompileFails
  <2>2. CASE End(w)
    BY <2>1, <2>2, StillTells DEF End, Become
  <2>3. CASE \E u : Become(w, u) /\ Leaves(t, u)
    <3>1. PICK u : Become(w, u) /\ Leaves(t, u)
      BY <2>3
    <3>2. u.run = t.run /\ u.phase = "leaving"
      BY <3>1 DEF Leaves, Keeps
    <3>3. TellTurn(t, u)
      BY <2>1, <3>2, StillTells
    <3> QED
      BY <3>1, <3>3
  <2> QED
    BY <1>1, <1>2, <2>2, <2>3, CompileFailsKind
<1>3. CASE Begin(w)
  <2>1. t.phase = "submitted" /\ t.todo = t.plan
    BY <1>1, <1>3 DEF Begin, Fits
  <2>2. PICK u : /\ Become(w, u)
                 /\ \/ Begins(t, u) /\ FinishRun(u, "running")
                    \/ Leaves(t, u) /\ UNCHANGED <<runs, steps>>
    BY <1>1, <1>3, BeginKind
  <2>3. CASE Begins(t, u) /\ FinishRun(u, "running")
    <3>1. /\ u \in Thread /\ u.run = t.run /\ u.plan = t.plan /\ u.ctx = t.ctx
          /\ u.todo = t.plan /\ u.phase \in {"planning", "stepping"}
          /\ u.phase = "stepping" => AdHoc(t)
      BY <2>1, <2>3 DEF Begins, Keeps
    <3>2. \A s \in Shown(u) : s \in t.plan /\ u.local[s] # None
      <4>1. u.phase = "stepping" => \A s \in t.plan : u.local[s] \in Local
        BY <2>3, <3>1 DEF Begins, Waiting
      <4> QED
        BY <3>1, <4>1, NoneIsApart DEF Shown
    <3>3. "running" \notin Terminal
      BY DEF Terminal
    <3>4. TellTurn(t, u)
      BY <1>1, <2>1, <2>3, <3>1, <3>2, <3>3, FinishTells
    <3> QED
      BY <2>2, <3>4
  <2>4. CASE Leaves(t, u) /\ UNCHANGED <<runs, steps>>
    <3>1. u.run = t.run /\ u.phase = "leaving"
      BY <2>4 DEF Leaves, Keeps
    <3>2. TellTurn(t, u)
      BY <2>1, <2>4, <3>1, StillTells
    <3> QED
      BY <2>2, <3>2
  <2> QED
    BY <2>2, <2>3, <2>4
<1>4. CASE StorePlan(w)
  <2>1. PICK u, s : /\ Become(w, u) /\ Plans(t, u, s) /\ UNCHANGED runs
                    /\ steps' = IF Live(t) THEN SaveStep(steps, t.run, s, Fresh("pending"))
                                ELSE steps
    BY <1>1, <1>4, StorePlanKind
  <2>2. /\ u \in Thread /\ u.run = t.run /\ u.plan = t.plan /\ u.ctx = t.ctx /\ s \in t.plan
        /\ t.phase = "planning" /\ u.phase = "planning" /\ u.todo = t.todo \ {s}
        /\ u.local[s] = Fresh("pending") /\ \A o \in t.plan : o # s => u.local[o] = t.local[o]
    BY <1>1, <2>1 DEF Plans, Keeps, Fits, Thread
  <2>3. \A o \in Shown(u) : o = s \/ (o \in Shown(t) /\ u.local[o] = t.local[o])
    BY <2>2 DEF Shown
  <2>4. TellTurn(t, u)
    BY <1>1, <2>1, <2>2, <2>3, StepTells
  <2> QED
    BY <2>1, <2>4
<1>5. CASE Planned(w)
  <2>1. runs' = runs /\ steps' = steps /\ t.phase = "planning" /\ t.todo = {}
    BY <1>5 DEF Planned
  <2>2. PICK u : Become(w, u) /\ \/ Goes(t, u)
                                 \/ Leaves(t, u)
    BY <1>1, <1>5, PlannedKind
  <2>3. /\ u.run = t.run /\ u.plan = t.plan /\ u.ctx = t.ctx
        /\ u.phase = "leaving" \/ (u.phase = "stepping" /\ u.local = t.local)
    BY <2>2 DEF Goes, Leaves, Keeps
  <2>4. u.phase = "stepping" => \A o \in Shown(u) : o \in Shown(t)
    BY <2>1, <2>3 DEF Shown
  <2>5. TellTurn(t, u)
    BY <2>1, <2>3, <2>4, StillTells DEF Live
  <2> QED
    BY <2>2, <2>5
<1>6. CASE SkipStep(w)
  <2>1. PICK u, s : /\ Become(w, u) /\ Skips(t, u, s) /\ UNCHANGED runs
                    /\ steps' = IF Live(t) THEN SaveStep(steps, t.run, s, u.local[s]) ELSE steps
    BY <1>1, <1>6, SkipStepKind
  <2>2. s \in t.plan
    BY <1>1, <2>1, LeastFirst DEF Skips, Fits, Thread
  <2>3. /\ u \in Thread /\ u.run = t.run /\ u.plan = t.plan /\ u.ctx = t.ctx
        /\ t.phase = "stepping" /\ u.phase = "stepping"
        /\ \A o \in t.plan : o # s => u.local[o] = t.local[o]
    BY <1>1, <2>1, <2>2 DEF Skips, Keeps, Thread
  <2>4. \A o \in Shown(u) : o = s \/ (o \in Shown(t) /\ u.local[o] = t.local[o])
    BY <2>3 DEF Shown
  <2>5. TellTurn(t, u)
    BY <1>1, <2>1, <2>2, <2>3, <2>4, StepTells
  <2> QED
    BY <2>1, <2>5
<1>7. CASE StartStep(w)
  <2>1. PICK u, s : /\ Become(w, u) /\ Starts(t, u, s) /\ UNCHANGED runs
                    /\ steps' = IF Live(t) THEN SaveStep(steps, t.run, s, u.local[s]) ELSE steps
    BY <1>1, <1>7, StartStepKind
  <2>2. /\ u \in Thread /\ u.run = t.run /\ u.plan = t.plan /\ u.ctx = t.ctx /\ s \in t.plan
        /\ t.phase = "stepping" /\ u.phase = "calling"
        /\ \A o \in t.plan : o # s => u.local[o] = t.local[o]
    BY <1>1, <2>1 DEF Starts, Keeps, Fits, Thread
  <2>3. \A o \in Shown(u) : o = s \/ (o \in Shown(t) /\ u.local[o] = t.local[o])
    BY <2>2 DEF Shown
  <2>4. TellTurn(t, u)
    BY <1>1, <2>1, <2>2, <2>3, StepTells
  <2> QED
    BY <2>1, <2>4
<1>8. ASSUME NEW u, Become(w, u), AtStep(t), Fails(t, u)
      PROVE  \E v : Become(w, v) /\ TellTurn(t, v)
  BY <1>1, <1>8, FailsTells
<1>9. ASSUME NEW u, NEW l, Become(w, u), AtStep(t), Holds(t, u, l),
             u.phase = "answered" \/ t.phase = "backoff", UNCHANGED <<runs, steps>>,
             l = t.local[t.at] \/ u.phase = "answered", t.phase # "answered"
      PROVE  \E v : Become(w, v) /\ TellTurn(t, v)
  <2>1. /\ u.run = t.run /\ u.plan = t.plan /\ u.ctx = t.ctx /\ u.at = t.at
        /\ u.phase \in {"calling", "backoff", "answered"}
        /\ t.at \in t.plan /\ t.phase \in {"calling", "backoff"}
    BY <1>1, <1>9, AtHand DEF Holds, Keeps, AtStep
  <2>2. /\ u.local[t.at] = l
        /\ \A o \in t.plan : o # t.at => u.local[o] = t.local[o]
    BY <1>1, <1>9, <2>1 DEF Holds, Thread
  <2>3. \A o \in Shown(u) : o \in Shown(t) /\ u.local[o] = t.local[o]
    BY <1>9, <2>1, <2>2 DEF Shown
  <2>4. TellTurn(t, u)
    BY <1>9, <2>1, <2>3, StillTells DEF Live
  <2> QED
    BY <1>9, <2>4
<1>10. CASE Unresolved(w)
  BY <1>1, <1>8, <1>10, UnresolvedKind
<1>11. CASE StoreFails(w)
  BY <1>1, <1>8, <1>11, StoreFailsKind
<1>12. CASE \E answer \in Answer : CallSucceeds(w, answer)
  <2>1. PICK answer \in Answer : CallSucceeds(w, answer)
    BY <1>12
  <2>2. UNCHANGED <<runs, steps>>
    BY <2>1 DEF CallSucceeds
  <2> QED
    BY <1>1, <1>9, <2>1, <2>2, CallSucceedsKind DEF AtStep
<1>13. CASE CallSucceedsLate(w)
  <2>2. UNCHANGED <<runs, steps>>
    BY <1>13 DEF CallSucceedsLate
  <2> QED
    BY <1>1, <1>9, <1>13, <2>2, CallSucceedsLateKind DEF AtStep
<1>14. CASE StoreResult(w)
  <2>1. PICK u, l : /\ Become(w, u) /\ AtStep(t) /\ Settles(t, u, l)
                    /\ steps' = IF Live(t) THEN SaveStep(steps, t.run, t.at, l) ELSE steps
    BY <1>1, <1>14, StoreResultKind
  <2>2. runs' = runs /\ t.phase = "answered"
    BY <1>14 DEF StoreResult
  <2>3. t.at \in t.plan
    BY <1>1, <2>1, AtHand
  <2>4. /\ u \in Thread /\ u.run = t.run /\ u.plan = t.plan /\ u.ctx = t.ctx
        /\ u.phase = "stepping" /\ u.local[t.at] = l
        /\ \A o \in t.plan : o # t.at => u.local[o] = t.local[o]
    BY <1>1, <2>1, <2>3 DEF Settles, Keeps, Thread
  <2>5. \A o \in Shown(u) : o = t.at \/ (o \in Shown(t) /\ u.local[o] = t.local[o])
    BY <2>2, <2>4 DEF Shown
  <2>6. TellTurn(t, u)
    BY <1>1, <2>1, <2>2, <2>3, <2>4, <2>5, StepTells
  <2> QED
    BY <2>1, <2>6
<1>15. CASE \E answer \in {"transient", "permanent"} : CallFails(w, answer)
  <2>1. PICK answer : CallFails(w, answer)
    BY <1>15
  <2>2. t.phase = "calling" /\ AtStep(t)
    BY <1>1, <2>1, CallFailsKind DEF AtStep
  <2>3. PICK u : /\ Become(w, u)
                 /\ \/ Fails(t, u)
                    \/ \E l : /\ Live(t) /\ Holds(t, u, l) /\ runs' = runs /\ u.phase = "backoff"
                              /\ steps' = SaveStep(steps, t.run, t.at, l)
    BY <1>1, <2>1, CallFailsKind
  <2>4. CASE Fails(t, u)
    BY <1>8, <2>2, <2>3, <2>4
  <2>5. CASE \E l : /\ Live(t) /\ Holds(t, u, l) /\ runs' = runs /\ u.phase = "backoff"
                    /\ steps' = SaveStep(steps, t.run, t.at, l)
    <3>1. PICK l : /\ Live(t) /\ Holds(t, u, l) /\ runs' = runs /\ u.phase = "backoff"
                   /\ steps' = SaveStep(steps, t.run, t.at, l)
      BY <2>5
    <3>2. t.at \in t.plan
      BY <1>1, <2>2, AtHand
    <3>3. /\ u \in Thread /\ u.run = t.run /\ u.plan = t.plan /\ u.ctx = t.ctx
          /\ u.local[t.at] = l
          /\ \A o \in t.plan : o # t.at => u.local[o] = t.local[o]
      BY <1>1, <3>1, <3>2 DEF Holds, Keeps, Thread
    <3>4. \A o \in Shown(u) : o = t.at \/ (o \in Shown(t) /\ u.local[o] = t.local[o])
      BY <2>2, <3>1, <3>3 DEF Shown
    <3>5. TellTurn(t, u)
      BY <1>1, <2>2, <3>1, <3>2, <3>3, <3>4, StepTells
    <3> QED
      BY <2>3, <3>5
  <2> QED
    BY <2>3, <2>4, <2>5
<1>16. CASE BackoffEnds(w)
  BY <1>1, <1>8, <1>9, <1>16, BackoffEndsKind DEF AtStep
<1>17. CASE Summarise(w)
  <2>1. PICK status \in Terminal :
               /\ t.phase = "stepping" /\ t.todo = {} /\ FinishRun(t, status)
               /\ End(w) \/ \E u : Become(w, u) /\ Leaves(t, u) /\ u.local = t.local
    BY <1>1, <1>17, SummariseKind, SummaryTyped
  <2>2. \A s \in t.plan : t.local[s] # None
    <3>1. t.at = None
      BY <1>1, <2>1 DEF Fits, AtStep
    <3>2. \A s \in t.plan : s \notin t.todo /\ s # t.at
      BY <1>1, <2>1, <3>1, NoneIsNoStep
    <3>3. \A s \in t.plan : t.local[s] \in Local
      BY <1>1, <2>1, <3>2 DEF Fits, Executes, Done
    <3> QED
      BY <3>3, NoneIsApart
  <2>3. status # "running"
    BY DEF Terminal
  <2>4. CASE End(w)
    <3>1. TellTurn(t, None)
      BY <1>1, <2>1, <2>2, <2>3, FinishTells
    <3> QED
      BY <2>4, <3>1 DEF End, Become
  <2>5. ASSUME NEW u, Become(w, u), Leaves(t, u), u.local = t.local
        PROVE  \E v : Become(w, v) /\ TellTurn(t, v)
    <3>1. /\ u \in Thread /\ u.run = t.run /\ u.plan = t.plan /\ u.ctx = t.ctx
          /\ u.phase = "leaving" /\ Shown(u) = {}
      BY <2>5 DEF Leaves, Keeps, Shown
    <3>2. FinishRun(u, status)
      BY <2>1, <2>5, <3>1 DEF FinishRun, Live, SaveSteps, Stored
    <3>3. TellTurn(t, u)
      BY <1>1, <2>1, <2>2, <2>3, <2>5, <3>1, <3>2, FinishTells
    <3> QED
      BY <2>5, <3>3
  <2> QED
    BY <2>1, <2>4, <2>5
<1>18. CASE Leave(w)
  <2>1. t.phase = "leaving" /\ Become(w, None)
    BY <1>18 DEF Leave, End, Become
  <2> DEFINE v == [t EXCEPT !.ctx = "live"]
  <2>2. UNCHANGED <<runs, steps>> \/ FinishRun(v, "failed")
    BY <1>18 DEF Leave
  <2>3. /\ v \in Thread /\ v.run = t.run /\ v.plan = t.plan /\ v.local = t.local /\ Live(v)
    BY <1>1 DEF Thread, Live
  <2> HIDE DEF v
  <2>4. CASE UNCHANGED <<runs, steps>>
    BY <2>1, <2>4, StillTells
  <2>5. CASE FinishRun(v, "failed")
    <3>1. PlansOwn(v)
      BY <1>1, <2>3 DEF PlansOwn
    <3>2. /\ runs'[t.run] = "failed" /\ steps' = [s \in StepId |-> steps'[s]]
          /\ \A s \in StepId : steps'[s] = IF s \in t.plan /\ t.local[s] # None
                                           THEN RowOf(t.run, t.local[s]) ELSE steps[s]
      BY <1>1, <2>3, <2>5, <3>1, OwnFinish
    <3>3. ASSUME Undisturbed(t.run), runs[t.run] \in Terminal
          PROVE  steps' = steps
      <4>1. \A s \in t.plan : steps[s] = RowOf(t.run, t.local[s])
        BY <3>3 DEF Tells
      <4>2. \A s \in StepId : steps'[s] = steps[s]
        BY <3>2, <4>1
      <4> QED
        BY <3>2, <4>2 DEF RowsTyped
    <3>4. "failed" \notin {None, "pending"}
      BY NoneIsApart DEF RunStatus, Terminal
    <3> QED
      BY <2>1, <3>2, <3>3, <3>4 DEF TellTurn
  <2> QED
    BY <2>2, <2>4, <2>5
<1>19. CASE Cancel(w) \/ Expire(w)
  <2>1. runs' = runs /\ steps' = steps /\ ~Undisturbed(t.run)
    BY <1>19 DEF Cancel, Expire, Undisturbed
  <2>2. PICK u : Become(w, u) /\ Warned(t, u)
    BY <1>1, <1>19, WarnedKind
  <2>3. u.run = t.run /\ u.phase = t.phase /\ ~Live(u)
    BY <2>2 DEF Warned, Keeps
  <2>4. Tells(u)'
    BY <2>1, <2>3 DEF Tells, Live, Undisturbed
  <2> QED
    BY <2>1, <2>2, <2>4 DEF TellTurn
<1> QED
  BY <1>2, <1>3, <1>4, <1>5, <1>6, <1>7, <1>10, <1>11, <1>12, <1>13, <1>14, <1>15, <1>16,
     <1>17, <1>18, <1>19 DEF Proceed

LEMMA TellsSame ==
  ASSUME NEW x, Tells(x), asked' = asked, runs'[x.run] = runs[x.run],
         \A s \in x.plan : steps'[s] = steps[s]
  PROVE  Tells(x)'
<1>1. Shown(x) \subseteq x.plan
  BY DEF Shown
<1>2. Undisturbed(x.run)' = Undisturbed(x.run)
  BY DEF Undisturbed
<1> QED
  BY <1>1, <1>2 DEF Tells, Live, Shown

LEMMA OwnedSame ==
  ASSUME asked' = asked,
         \A w \in Slot : threads'[w] # None => PlansOwn(threads'[w]),
         \A s \in StepId : steps'[s] # None => Owns(steps'[s].owner, s),
         \A a \in attempts' : Owns(a.run, a.step)
  PROVE  Owned'
BY DEF Owned, PlansOwn, Owns, EntryOf, PlanOf

LEMMA TurnRows ==
  ASSUME QuietStart, PlansApart, Base, Quiet, Stocked, Rows, asked' = asked,
         NEW w \in Slot, Proceed(w) \/ Cancel(w) \/ Expire(w)
  PROVE  Rows' /\ RowsStay
<1> DEFINE t == threads[w]
<1>1. t # None /\ server' = server /\ resume' = resume
  BY ProceedKeepsServer
<1>2. /\ Fits(t) /\ t \in Thread /\ t.run \in Run /\ t.plan \subseteq StepId /\ PlansOwn(t)
      /\ asked \in Requests /\ RowsTyped
  BY <1>1 DEF Base, Tables, ThreadsFit, Fits, Thread, Rows, Owned, Stocked
<1>3. \A s \in t.plan : Owns(t.run, s)
  BY <1>2 DEF Owns, PlansOwn
<1>4. PICK u : Turn(w, u)
  BY <1>1, ProceedTurns
<1>5. RunTurn(w, u)
  <2>1. PICK x : RunTurn(w, x)
    BY <1>1, ProceedRunTurns
  <2>2. x = u
    BY <1>4, <2>1 DEF Turn, RunTurn, Become, Base, Tables
  <2> QED
    BY <2>1, <2>2
<1>6. threads' = [v \in Slot |-> IF v = w THEN u ELSE threads[v]]
  BY <1>4 DEF Turn, Become, Base, Tables
<1>7. u # None => u.run = t.run /\ u.plan = t.plan
  BY <1>4 DEF Turn, Moves, Keeps
<1>8. \A r \in Run : r # t.run => runs'[r] = runs[r]
  BY <1>2, <1>5 DEF RunTurn, Base, Tables
<1>9. /\ steps' = [s \in StepId |-> steps'[s]]
      /\ \A s \in StepId :
           \/ steps'[s] = steps[s]
           \/ s \in t.plan /\ steps'[s] # None /\ steps'[s].owner = t.run
  <2>1. PICK L : /\ Rewritten(t.run, L)
                 /\ \A s \in StepId : L[s] # None => s \in t.plan /\ L[s] \in Local
    BY <1>1, <1>2, ProceedWrites DEF Written
  <2>2. /\ RowsTyped'
        /\ \A s \in StepId :
             steps'[s] = IF L[s] = None THEN steps[s]
                         ELSE [owner |-> IF steps[s] = None THEN t.run ELSE steps[s].owner,
                               status |-> L[s].status, product |-> L[s].product]
    BY <1>2, <2>1, RewrittenRow, SaysLocal
  <2>3. ASSUME NEW s \in StepId, L[s] # None
        PROVE  s \in t.plan /\ steps'[s] # None /\ steps'[s].owner = t.run
    <3>1. s \in t.plan /\ Owns(t.run, s)
      BY <1>3, <2>1, <2>3
    <3>2. steps[s] # None => steps[s].owner = t.run
      BY <1>2, <3>1, OneOwner DEF Rows, Owned, Owns
    <3>3. steps'[s] = [owner |-> t.run, status |-> L[s].status, product |-> L[s].product]
      BY <2>2, <2>3, <3>2
    <3>4. steps'[s] \in Row
      BY <1>2, <2>1, <2>3, <3>3, SaysLocal DEF Says, Row
    <3> QED
      BY <3>1, <3>3, <3>4, NoneIsApart
  <2> QED
    BY <2>2, <2>3 DEF RowsTyped
<1>10. Once(t.run) => TellTurn(t, u)
  <2> SUFFICES ASSUME Once(t.run) PROVE TellTurn(t, u)
    OBVIOUS
  <2>1. Tells(t) /\ EndsIn(t)
    BY <1>1 DEF Rows, ThreadsTell, EndsIn, Quiet, EndsOnce
  <2>2. PICK x : Become(w, x) /\ TellTurn(t, x)
    BY <1>1, <1>2, <2>1, ProceedTells DEF Rows
  <2>3. x = u
    BY <1>4, <2>2 DEF Turn, Become, Base, Tables
  <2> QED
    BY <2>2, <2>3
<1>11. Owned'
  <2>1. \A v \in Slot : threads'[v] # None => PlansOwn(threads'[v])
    BY <1>2, <1>6, <1>7 DEF Rows, Owned, PlansOwn
  <2>2. \A s \in StepId : steps'[s] # None => Owns(steps'[s].owner, s)
    BY <1>3, <1>9 DEF Rows, Owned
  <2>3. \A a \in attempts' : Owns(a.run, a.step)
    <3>1. Recorded(t)
      BY <1>1, ProceedRecords
    <3>2. CASE attempts' = attempts
      BY <3>2 DEF Rows, Owned
    <3>3. CASE attempts' # attempts
      <4>1. t.at \in t.plan /\ t.at \in StepId
        BY <1>2, <3>1, <3>3, AtHand DEF Recorded
      <4>2. \A a \in attempts' : a \in attempts \/ (a.run = t.run /\ a.step = t.at)
        BY <1>2, <3>1, <3>3, <4>1, SaveAttemptRows DEF Recorded, Stocked
      <4> QED
        BY <1>3, <4>1, <4>2 DEF Rows, Owned
    <3> QED
      BY <3>2, <3>3
  <2> QED
    BY <2>1, <2>2, <2>3, OwnedSame
<1>12. ThreadsTell'
  <2> SUFFICES ASSUME NEW v \in Slot, NEW x, x = threads'[v], x # None, Once(x.run)
               PROVE  Tells(x)'
    BY DEF ThreadsTell, Once
  <2>1. CASE v = w
    BY <1>6, <1>7, <1>10, <2>1 DEF TellTurn
  <2>2. CASE v # w
    <3>1. x = threads[v]
      BY <1>6, <2>2
    <3>2. threads[v].run \in Run /\ threads[v].plan \subseteq StepId /\ PlansOwn(threads[v])
      BY <3>1 DEF Base, ThreadsFit, Fits, Thread, Rows, Owned
    <3>3. threads[v].run # t.run
      BY <1>1, <2>2, <3>1 DEF Base, OneThread
    <3>4. \A s \in threads[v].plan : s \notin t.plan
      BY <1>2, <1>3, <3>2, <3>3, OneOwner DEF Owns, PlansOwn
    <3>5. \A s \in threads[v].plan : steps'[s] = steps[s]
      BY <1>9, <3>2, <3>4
    <3>6. Tells(threads[v])
      BY <3>1 DEF Rows, ThreadsTell
    <3> QED
      BY <1>8, <3>1, <3>2, <3>3, <3>5, <3>6, TellsSame
  <2> QED
    BY <2>1, <2>2
<1>13. NoRowsYet'
  <2> SUFFICES ASSUME NEW r \in Run, runs'[r] \in {None, "pending"}, Once(r),
                      NEW s \in StepId, steps'[s] # None
               PROVE  steps'[s].owner # r
    BY DEF NoRowsYet, Once
  <2>1. CASE r = t.run
    BY <1>10, <2>1 DEF TellTurn, Rows, NoRowsYet
  <2>2. CASE r # t.run
    BY <1>8, <1>9, <2>2 DEF Rows, NoRowsYet
  <2> QED
    BY <2>1, <2>2
<1>14. ResumesOwn'
  <2>1. resume.run = None
    BY <1>1 DEF Quiet, ResumesAlone
  <2> QED
    BY <1>1, <2>1 DEF ResumesOwn
<1>15. RowsStay
  <2> SUFFICES ASSUME NEW r \in Run, NEW s \in StepId, Undisturbed(r), runs[r] \in Terminal,
                      \/ steps[s] # None /\ steps[s].owner = r
                      \/ steps'[s] # None /\ steps'[s].owner = r,
                      steps'[s] # steps[s]
               PROVE  FALSE
    BY DEF RowsStay
  <2>1. s \in t.plan /\ steps'[s].owner = t.run
    BY <1>9
  <2>2. r = t.run
    BY <1>2, <1>3, <2>1, OneOwner DEF Rows, Owned
  <2>3. Once(t.run)
    BY <2>2 DEF Undisturbed, Once
  <2> QED
    BY <1>10, <2>2, <2>3 DEF TellTurn
<1> QED
  BY <1>11, <1>12, <1>13, <1>14, <1>15 DEF Rows

LEMMA StartedRows ==
  ASSUME PlansApart, Base, Rows, asked' = asked, NEW r \in Run, NEW w \in Slot,
         \/ Submit(r, w) \/ Resubmit(r, w)
         \/ \E prev \in Run : Replay(r, prev, w)
  PROVE  Rows' /\ RowsStay
<1>1. /\ EntryOf(r) \in {"agent", "adhoc"} /\ threads[w] = None
      /\ Become(w, NewThread(r, PlanOf(r)))
      /\ \/ runs[r] = None /\ runs' = [runs EXCEPT ![r] = "pending"]
         \/ runs' = runs /\ ~Once(r)
      /\ UNCHANGED <<steps, attempts, resume>>
  <2>1. CASE Submit(r, w)
    BY <2>1 DEF Submit
  <2>2. CASE Resubmit(r, w)
    <3>1. ~Once(r)
      BY <2>2 DEF Resubmit, Once
    <3>2. EntryOf(r) = "adhoc"
      BY <3>1, RunTyped DEF Base, Tables
    <3> QED
      BY <2>2, <3>1, <3>2 DEF Resubmit
  <2>3. CASE \E prev \in Run : Replay(r, prev, w)
    BY <2>3 DEF Replay, PlansApart, EntryOf, Base, Tables
  <2> QED
    BY <2>1, <2>2, <2>3
<1>2. PICK u : u = NewThread(r, PlanOf(r))
  OBVIOUS
<1>3. u.run = r /\ u.plan = PlanOf(r) /\ u.phase = "submitted" /\ Shown(u) = {}
  BY <1>2 DEF NewThread, Shown
<1>4. threads' = [v \in Slot |-> IF v = w THEN u ELSE threads[v]]
  BY <1>1, <1>2 DEF Become, Base, Tables
<1>5. \A o \in Run : runs'[o] = runs[o] \/ (o = r /\ runs[r] = None /\ runs'[r] = "pending")
  BY <1>1 DEF Base, Tables
<1>6. Once(r) => runs[r] = None /\ runs'[r] = "pending"
  BY <1>1 DEF Base, Tables
<1>7. Owned'
  <2>1. \A v \in Slot : threads'[v] # None => PlansOwn(threads'[v])
    BY <1>1, <1>3, <1>4 DEF Rows, Owned, PlansOwn
  <2> QED
    BY <1>1, <2>1, OwnedSame DEF Rows, Owned
<1>8. ThreadsTell'
  <2> SUFFICES ASSUME NEW v \in Slot, NEW x, x = threads'[v], x # None, Once(x.run)
               PROVE  Tells(x)'
    BY DEF ThreadsTell, Once
  <2>1. CASE v = w
    <3>1. x = u /\ runs'[x.run] = "pending"
      BY <1>3, <1>4, <1>6, <2>1
    <3>2. "pending" \notin Terminal
      BY DEF Terminal
    <3> QED
      BY <1>3, <3>1, <3>2 DEF Tells, Live, Shown
  <2>2. CASE v # w
    <3>1. x = threads[v]
      BY <1>4, <2>2
    <3>2. x.run \in Run /\ runs[x.run] # None /\ Tells(x)
      BY <3>1 DEF Base, Registered, ThreadsFit, Fits, Thread, Rows, ThreadsTell
    <3>3. runs'[x.run] = runs[x.run]
      BY <1>5, <3>2
    <3> QED
      BY <1>1, <3>2, <3>3, TellsSame
  <2> QED
    BY <2>1, <2>2
<1>9. NoRowsYet'
  BY <1>1, <1>5 DEF Rows, NoRowsYet, Once
<1>10. ResumesOwn'
  BY <1>1 DEF Rows, ResumesOwn
<1>11. RowsStay
  BY <1>1 DEF RowsStay
<1> QED
  BY <1>7, <1>8, <1>9, <1>10, <1>11 DEF Rows

\* No goroutine, or none that notices: the rows keep their owners, and change for
\* the run that is resumed alone.
LEMMA ResumeRows ==
  ASSUME Base, Quiet, Rows, asked' = asked, attempts' = attempts,
         \A w \in Slot : threads'[w] = None, resume.run # None,
         \A r \in Run : runs'[r] = runs[r] \/ (r = resume.run /\ runs'[r] \in Terminal),
         \A s \in StepId : \/ steps'[s] = steps[s]
                           \/ /\ steps[s] # None /\ steps'[s] # None
                              /\ steps[s].owner = resume.run /\ steps'[s].owner = resume.run,
         resume'.run # None =>
           /\ resume'.run = resume.run
           /\ \A s \in StepId : resume'.local[s] # None => resume.local[s] # None
  PROVE  Rows' /\ RowsStay
<1>1. Owned'
  BY OwnedSame DEF Rows, Owned
<1>2. ThreadsTell'
  BY DEF ThreadsTell
<1>3. NoRowsYet'
  <2>1. None \notin Terminal /\ "pending" \notin Terminal
    BY NoneIsApart DEF RunStatus, Terminal
  <2> QED
    BY <2>1 DEF Rows, NoRowsYet, Once
<1>4. ResumesOwn'
  BY DEF Rows, ResumesOwn
<1>5. RowsStay
  <2>1. \A r \in Run : r = resume.run => runs[r] \in {"pending", "running"}
    BY DEF Quiet, ResumesAlone
  <2> QED
    BY <2>1 DEF RowsStay, Terminal
<1> QED
  BY <1>1, <1>2, <1>3, <1>4, <1>5 DEF Rows

LEMMA ResumedRows ==
  ASSUME Base, Quiet, Stocked, Rows, asked' = asked, resume.run # None,
         NEW local, NEW status \in Terminal, Resumed(local, status),
         \A s \in StepId : local[s] # None => resume.local[s] # None /\ Says(local[s])
  PROVE  Rows' /\ RowsStay
<1>1. resume.run \in Run
  BY DEF Stocked, ResumeTyped
<1>2. \A s \in StepId :
        steps'[s] = IF local[s] = None THEN steps[s]
                    ELSE [owner |-> IF steps[s] = None THEN resume.run ELSE steps[s].owner,
                          status |-> local[s].status, product |-> local[s].product]
  BY <1>1, RewrittenRow DEF Stocked, Resumed, Rewritten
<1>3. ASSUME NEW s \in StepId, local[s] # None
      PROVE  /\ steps[s] # None /\ steps'[s] # None
             /\ steps[s].owner = resume.run /\ steps'[s].owner = resume.run
  <2>1. steps[s] # None /\ steps[s].owner = resume.run
    BY <1>3 DEF Rows, ResumesOwn
  <2>2. steps'[s] = [owner |-> resume.run, status |-> local[s].status, product |-> local[s].product]
    BY <1>2, <1>3, <2>1
  <2>3. steps'[s] \in Row
    BY <1>1, <1>3, <2>2 DEF Says, Row
  <2> QED
    BY <2>1, <2>2, <2>3, NoneIsApart
<1>4. \A s \in StepId : \/ steps'[s] = steps[s]
                        \/ /\ steps[s] # None /\ steps'[s] # None
                           /\ steps[s].owner = resume.run /\ steps'[s].owner = resume.run
  BY <1>2, <1>3
<1>5. \A r \in Run : runs'[r] = runs[r] \/ (r = resume.run /\ runs'[r] \in Terminal)
  BY DEF Resumed, Base, Tables
<1>6. attempts' = attempts /\ threads' = threads /\ resume'.run = None
  BY DEF Resumed, NoRun
<1>7. \A w \in Slot : threads'[w] = None
  BY <1>6 DEF Quiet, ResumesAlone
<1> QED
  BY <1>4, <1>5, <1>6, <1>7, ResumeRows

\* The rows are as they are, and there is no goroutine that was not there before.
LEMMA SameRows ==
  ASSUME Base, Rows, asked' = asked, UNCHANGED <<steps, attempts>>,
         threads' = threads \/ threads' = [w \in Slot |-> None],
         \A r \in Run : runs'[r] = runs[r] \/ (runs[r] = None /\ runs'[r] = "pending"),
         ResumesOwn'
  PROVE  Rows' /\ RowsStay
<1>1. Owned'
  BY OwnedSame DEF Rows, Owned
<1>2. ThreadsTell'
  <2> SUFFICES ASSUME NEW w \in Slot, NEW x, x = threads'[w], x # None, Once(x.run)
               PROVE  Tells(x)'
    BY DEF ThreadsTell, Once
  <2>1. x = threads[w]
    OBVIOUS
  <2>2. x.run \in Run /\ runs[x.run] # None /\ Tells(x)
    BY <2>1 DEF Base, Registered, ThreadsFit, Fits, Thread, Rows, ThreadsTell
  <2> QED
    BY <2>2, TellsSame
<1>3. NoRowsYet'
  BY DEF Rows, NoRowsYet, Once
<1>4. RowsStay
  BY DEF RowsStay
<1> QED
  BY <1>1, <1>2, <1>3, <1>4 DEF Rows

LEMMA OthersRows ==
  ASSUME Base, Quiet, Stocked, Rows, asked' = asked,
         (\E r \in Run : SubmitManual(r)) \/ Crash \/ Restart \/ ResumeStep
  PROVE  Rows' /\ RowsStay
<1>1. CASE \E r \in Run : SubmitManual(r)
  <2>1. PICK r \in Run : SubmitManual(r)
    BY <1>1
  <2>2. \A o \in Run : runs'[o] = runs[o] \/ (runs[o] = None /\ runs'[o] = "pending")
    BY <2>1 DEF SubmitManual, Base, Tables
  <2>3. UNCHANGED <<steps, attempts, threads, resume>>
    BY <2>1 DEF SubmitManual
  <2>4. ResumesOwn'
    BY <2>3 DEF Rows, ResumesOwn
  <2> QED
    BY <2>2, <2>3, <2>4, SameRows
<1>2. CASE Crash \/ Restart \/ EndResume \/ StartResume
  <2>1. /\ UNCHANGED <<runs, steps, attempts>>
        /\ threads' = threads \/ threads' = [w \in Slot |-> None]
        /\ resume' = resume \/ resume'.run = None
    BY <1>2, NoRunTyped DEF Crash, Restart, EndResume, StartResume, NoRun
  <2>2. ResumesOwn'
    BY <2>1 DEF Rows, ResumesOwn
  <2> QED
    BY <2>1, <2>2, SameRows
<1>3. CASE \E r \in Run : LoadRun(r)
  <2>1. PICK r \in Run : LoadRun(r)
    BY <1>3
  <2>2. /\ UNCHANGED <<runs, steps, attempts, threads>>
        /\ resume'.run = None \/
             /\ resume'.run = r
             /\ \A s \in StepId : resume'.local[s] # None => s \in OwnSteps(r)
    BY <2>1 DEF LoadRun
  <2>3. ResumesOwn'
    BY <2>2 DEF ResumesOwn, OwnSteps
  <2> QED
    BY <2>2, <2>3, SameRows
<1>4. CASE Interrupt
  <2> DEFINE open == {s \in StepId : /\ resume.local[s] # None
                                     /\ resume.local[s].status \notin Settled}
             local == [s \in StepId |-> IF s \in open
                                        THEN [resume.local[s] EXCEPT !.status = "failed"]
                                        ELSE resume.local[s]]
  <2>1. resume.run # None /\ \E status \in Terminal : Resumed(local, status)
    BY <1>4 DEF Interrupt, Terminal
  <2>2. \A s \in StepId : local[s] # None => resume.local[s] # None /\ Says(local[s])
    <3>1. \A s \in StepId : resume.local[s] \in Told \union {None}
      BY DEF Stocked, ResumeTyped
    <3>2. \A l \in Told : Says(l) /\ Says([l EXCEPT !.status = "failed"])
      BY DEF Told, Says, StepStatus, Settled
    <3> QED
      BY <3>1, <3>2
  <2> QED
    BY <2>1, <2>2, ResumedRows
<1>5. CASE \E s \in StepId, outcome \in {"succeeded", "failed", "open"} : Poll(s, outcome)
  <2>1. PICK s \in StepId, outcome \in {"succeeded", "failed", "open"} : Poll(s, outcome)
    BY <1>5
  <2>2. PICK l \in Told :
          /\ resume' = [todo |-> resume.todo, run |-> resume.run, status |-> resume.status,
                        local |-> [resume.local EXCEPT ![s] = l], polls |-> resume.polls \ {s}]
          /\ steps' = steps \/ steps' = SaveStep(steps, resume.run, s, l)
    BY <2>1, PollReads
  <2>3. resume.run \in Run /\ resume.local[s] # None /\ UNCHANGED <<runs, attempts, threads>>
    BY <2>1, PollReads
  <2>4. resume.run # None
    BY <2>3, NoneIsNoStep DEF StepId
  <2>5. steps[s] # None /\ steps[s].owner = resume.run
    BY <2>3, <2>4 DEF Rows, ResumesOwn
  <2>6. \A o \in StepId : \/ steps'[o] = steps[o]
                          \/ /\ steps[o] # None /\ steps'[o] # None
                             /\ steps[o].owner = resume.run /\ steps'[o].owner = resume.run
    <3>1. CASE steps' = steps
      BY <3>1
    <3>2. CASE steps' = SaveStep(steps, resume.run, s, l)
      <4>1. /\ steps'[s] = [owner |-> resume.run, status |-> l.status, product |-> l.product]
            /\ \A o \in StepId : o # s => steps'[o] = steps[o]
        BY <2>5, <3>2, SaveStepRow DEF Stocked
      <4>2. steps'[s] \in Row
        BY <2>3, <4>1 DEF Told, Row
      <4> QED
        BY <2>5, <4>1, <4>2, NoneIsApart
    <3> QED
      BY <2>2, <3>1, <3>2
  <2>7. /\ resume'.run = resume.run
        /\ \A o \in StepId : resume'.local[o] # None => resume.local[o] # None
    BY <2>2, <2>3 DEF Stocked, ResumeTyped
  <2>8. \A w \in Slot : threads'[w] = None
    BY <2>3, <2>4 DEF Quiet, ResumesAlone
  <2> QED
    BY <2>3, <2>4, <2>6, <2>7, <2>8, ResumeRows
<1>6. CASE FinishAsync
  <2>1. resume.run # None /\ \E status \in Terminal : Resumed(resume.local, status)
    BY <1>6, SummaryTyped DEF FinishAsync
  <2>2. \A s \in StepId : resume.local[s] # None => Says(resume.local[s])
    BY DEF Stocked, ResumeTyped, Told, Says
  <2> QED
    BY <2>1, <2>2, ResumedRows
<1> QED
  BY <1>1, <1>2, <1>3, <1>4, <1>5, <1>6 DEF ResumeStep

LEMMA InitRows == Init => Rows
<1> SUFFICES ASSUME Init PROVE Rows
  OBVIOUS
<1>1. Owned
  BY DEF Init, Owned
<1>2. ThreadsTell /\ NoRowsYet
  BY DEF Init, ThreadsTell, NoRowsYet
<1>3. ResumesOwn
  BY NoRunTyped DEF Init, ResumesOwn
<1> QED
  BY <1>1, <1>2, <1>3 DEF Rows

LEMMA NextRows ==
  ASSUME QuietStart, PlansApart
  PROVE  Base /\ Quiet /\ Stocked /\ Rows /\ [Next]_<<vars, asked>> => Rows' /\ RowsStay
<1> SUFFICES ASSUME Base, Quiet, Stocked, Rows, [Next]_<<vars, asked>> PROVE Rows' /\ RowsStay
  OBVIOUS
<1>1. CASE Next
  <2>1. asked' = asked
    BY <1>1 DEF Next
  <2>2. ASSUME NEW r \in Run, NEW w \in Slot,
               \/ Submit(r, w) \/ Resubmit(r, w)
               \/ \E prev \in Run : Replay(r, prev, w)
        PROVE  Rows' /\ RowsStay
    BY <2>1, <2>2, StartedRows
  <2>3. ASSUME NEW w \in Slot, Proceed(w) \/ Cancel(w) \/ Expire(w)
        PROVE  Rows' /\ RowsStay
    BY <2>1, <2>3, TurnRows
  <2> QED
    BY <1>1, <2>1, <2>2, <2>3, OthersRows DEF Next, Step
<1>2. CASE UNCHANGED <<vars, asked>>
  <2>1. ResumesOwn'
    BY <1>2 DEF vars, Rows, ResumesOwn
  <2> QED
    BY <1>2, <2>1, SameRows DEF vars
<1> QED
  BY <1>1, <1>2

LEMMA RowsHold ==
  ASSUME QuietStart, PlansApart
  PROVE  Spec => [](Base /\ Quiet /\ Stocked /\ Rows)
BY InitBase, InitQuiet, InitStocked, InitRows, NextBase, NextQuiet, NextStocked, NextRows, PTL DEF Spec

\* If requests wait for the resumption after a restart, and no two runs share a step,
\* the steps of a run that has ended stay as they are while other runs execute, are
\* canceled or are resumed: what it did can still be read (engine.go finishRun,
\* sqlstore.go SaveStep).
THEOREM EndedRowsStay ==
  ASSUME QuietStart, PlansApart
  PROVE  Spec => FinishedStepsStay
<1>1. RowsStay => [\A r \in Run : Undisturbed(r) /\ runs[r] \in Terminal /\ runs'[r] = runs[r] =>
                     \A s \in OwnSteps(r) : steps'[s] = steps[s]]_vars
  BY DEF RowsStay, OwnSteps
<1> QED
  BY <1>1, RowsHold, NextRows, PTL DEF Spec, FinishedStepsStay

\* Under the same conditions, a step that an upstream is called for, or was, has the
\* steps of its plan that feed it stored as succeeded (engine.go depsSatisfied).
THEOREM InputsAreStored ==
  ASSUME QuietStart, PlansApart
  PROVE  Spec => []StartsAfterInputs
<1>1. Base /\ Rows /\ InputsAreDone => StartsAfterInputs
  <2> SUFFICES ASSUME Base, Rows, InputsAreDone, NEW w \in Slot, threads[w] # None,
                      threads[w].phase = "calling", Live(threads[w]),
                      NEW d \in threads[w].plan, <<d, threads[w].at>> \in Feeds
               PROVE  steps[d] # None /\ steps[d].status = "succeeded"
    BY DEF StartsAfterInputs
  <2> DEFINE t == threads[w]
  <2>1. Fits(t) /\ t.run \in Run /\ PlansOwn(t) /\ d \in StepId /\ asked \in Requests
    BY DEF Base, Tables, ThreadsFit, Fits, Thread, Rows, Owned
  <2>2. ~AdHoc(t)
    <3>1. d \in Node
      BY RequestsTyped
    <3>2. Node \intersect Run = {}
      BY IdsTyped
    <3> QED
      BY <2>1, <3>1, <3>2 DEF PlansOwn, PlanOf, AdHoc
  <2>3. Once(t.run)
    BY <2>1, <2>2, RunTyped DEF AdHoc
  <2>4. t.local[d].status = "succeeded"
    BY <2>2 DEF InputsAreDone, InputsDone, AtStep
  <2>5. steps[d] = RowOf(t.run, t.local[d])
    BY <2>3 DEF Rows, ThreadsTell, Tells, Shown
  <2>6. t.local[d] \in Local
    BY <2>1 DEF Fits, AtStep, Executes, Waiting, InHand, Done
  <2>7. steps[d] \in Row /\ steps[d].status = "succeeded"
    BY <2>1, <2>4, <2>5, <2>6 DEF RowOf, Row, Local
  <2> QED
    BY <2>7, NoneIsApart
<1>2. Init => InputsAreDone
  BY DEF Init, InputsAreDone
<1> QED
  BY <1>1, <1>2, RowsHold, NextInputsAreDone, PTL DEF Spec

-----------------------------------------------------------------------------
(***************************************************************************)
(* A run that ends has settled its steps, if nothing is canceled or times  *)
(* out and no upstream answers with a task that goes on.                   *)
(***************************************************************************)
\* No run is canceled, and none reaches its limit.
Undisturbing == \A q \in Requests, r \in Run : q[r].hurt \subseteq {"again"}

\* No attempt has a task to poll, and a resumption holds every step of its run.
NoTasks ==
  /\ \A a \in attempts : ~a.task
  /\ resume.polls = {}
  /\ resume.run # None =>
       /\ resume.status = "running"
       /\ \A s \in StepId : steps[s] # None /\ steps[s].owner = resume.run => resume.local[s] # None

\* A goroutine that leaves a run which has not ended has not begun to execute it.
LeavesNothing ==
  \A w \in Slot : LET t == threads[w] IN
    t # None /\ ~AdHoc(t) /\ t.phase = "leaving" /\ runs[t.run] \notin Terminal =>
      runs[t.run] = "pending" /\ \A s \in t.plan : t.local[s] = None

Ended == NoTasks /\ LeavesNothing /\ SettledSteps

LEMMA CanvasRunsUndisturbed ==
  ASSUME Undisturbing, asked \in Requests, NEW r \in Run, EntryOf(r) # "adhoc"
  PROVE  Undisturbed(r) /\ Once(r)
<1>1. Once(r) /\ asked[r].hurt \subseteq {"again"}
  BY RunTyped DEF Undisturbing
<1> QED
  BY <1>1 DEF Undisturbed, Once

\* A turn that ends a canvas run settles its steps.
EndTurn(t, u) ==
  /\ u # None /\ u.phase = "leaving" /\ runs'[t.run] \notin Terminal =>
       runs'[t.run] = "pending" /\ \A s \in t.plan : u.local[s] = None
  /\ runs[t.run] \notin Terminal /\ runs'[t.run] \in Terminal =>
       \A s \in StepId : steps'[s] # None /\ steps'[s].owner = t.run => steps'[s].status \in Settled

LEMMA GoesOnEndTurn ==
  ASSUME NEW t, NEW u, runs' = runs, u.phase # "leaving"
  PROVE  EndTurn(t, u)
BY DEF EndTurn

LEMMA FailsEndTurn ==
  ASSUME NEW t, NEW u, Fails(t, u), ~AdHoc(t), Live(t)
  PROVE  EndTurn(t, u)
<1>1. runs' = runs /\ u.phase = "stepping"
  BY DEF Fails, Settles
<1> QED
  BY <1>1, GoesOnEndTurn

LEMMA ProceedEndTurns ==
  ASSUME PlansApart, Base, RowsTyped, Owned, NoRowsYet, asked' = asked,
         NEW w \in Slot, threads[w] # None, Tells(threads[w]), EndsIn(threads[w]),
         ~AdHoc(threads[w]), Undisturbed(threads[w].run),
         threads[w].phase = "leaving" /\ runs[threads[w].run] \notin Terminal =>
           /\ runs[threads[w].run] = "pending"
           /\ \A s \in threads[w].plan : threads[w].local[s] = None,
         Proceed(w) \/ Cancel(w) \/ Expire(w)
  PROVE  \E u : Become(w, u) /\ EndTurn(threads[w], u)
<1> DEFINE t == threads[w]
<1>1. /\ Fits(t) /\ t \in Thread /\ t.run \in Run /\ t.plan \subseteq StepId /\ PlansOwn(t)
      /\ asked \in Requests /\ runs \in [Run -> RunStatus \union {None}] /\ Live(t)
  BY DEF Base, Tables, ThreadsFit, Fits, Thread, Owned, EndsIn
<1>2. ASSUME NEW u, Become(w, u), runs' = runs, u.phase # "leaving"
      PROVE  \E v : Become(w, v) /\ EndTurn(t, v)
  BY <1>2, GoesOnEndTurn
<1>3. ASSUME NEW u, Become(w, u), Fails(t, u)
      PROVE  \E v : Become(w, v) /\ EndTurn(t, v)
  BY <1>1, <1>3, FailsEndTurn
<1>4. CASE CompileFails(w)
  <2>1. PICK u : Become(w, u) /\ Leaves(t, u) /\ u.local = t.local
    BY <1>1, <1>4, CompileFailsKind
  <2>2. runs' = runs /\ t.phase = "submitted"
    BY <1>4 DEF CompileFails
  <2>3. runs[t.run] = "pending" /\ \A s \in t.plan : u.local[s] = None
    BY <1>1, <2>1, <2>2 DEF Tells, Fits
  <2>4. EndTurn(t, u)
    BY <2>2, <2>3 DEF EndTurn
  <2> QED
    BY <2>1, <2>4
<1>5. CASE Begin(w)
  <2>1. PICK u : /\ Become(w, u)
                 /\ \/ Begins(t, u) /\ FinishRun(u, "running")
                    \/ Leaves(t, u) /\ ~Live(u)
    BY <1>1, <1>5, BeginKind
  <2>2. Begins(t, u) /\ FinishRun(u, "running") /\ Live(u) /\ u.run = t.run
    BY <1>1, <2>1 DEF Leaves, Begins, Keeps, Live
  <2>3. u.phase = "planning" /\ runs'[t.run] = "running"
    BY <1>1, <2>2 DEF Begins, FinishRun
  <2>4. EndTurn(t, u)
    BY <2>3 DEF EndTurn, Terminal
  <2> QED
    BY <2>1, <2>4
<1>6. CASE StorePlan(w)
  BY <1>1, <1>2, <1>6, StorePlanKind DEF Plans
<1>7. CASE Planned(w)
  <2>1. PICK u : Become(w, u) /\ (Goes(t, u) \/ (Leaves(t, u) /\ ~Live(u)))
    BY <1>1, <1>7, PlannedKind
  <2>2. u.phase = "stepping"
    BY <1>1, <2>1 DEF Goes, Leaves, Live
  <2>3. runs' = runs
    BY <1>7 DEF Planned
  <2> QED
    BY <1>2, <2>1, <2>2, <2>3
<1>8. CASE SkipStep(w)
  BY <1>1, <1>2, <1>8, SkipStepKind DEF Skips
<1>9. CASE StartStep(w)
  BY <1>1, <1>2, <1>9, StartStepKind DEF Starts
<1>10. CASE Unresolved(w)
  BY <1>1, <1>3, <1>10, UnresolvedKind
<1>11. CASE StoreFails(w)
  BY <1>1, <1>3, <1>11, StoreFailsKind
<1>12. CASE (\E answer \in Answer : CallSucceeds(w, answer)) \/ CallSucceedsLate(w)
  <2>1. runs' = runs
    BY <1>12 DEF CallSucceeds, CallSucceedsLate
  <2>2. \E u : Become(w, u) /\ u.phase = "answered"
    BY <1>1, <1>12, CallSucceedsKind, CallSucceedsLateKind
  <2> QED
    BY <1>2, <2>1, <2>2
<1>13. CASE StoreResult(w)
  <2>1. runs' = runs
    BY <1>13 DEF StoreResult
  <2> QED
    BY <1>1, <1>2, <1>13, <2>1, StoreResultKind DEF Settles
<1>14. CASE \E answer \in {"transient", "permanent"} : CallFails(w, answer)
  <2>1. PICK answer : CallFails(w, answer)
    BY <1>14
  <2>2. PICK u : Become(w, u) /\ (Fails(t, u) \/ (runs' = runs /\ u.phase = "backoff"))
    BY <1>1, <2>1, CallFailsKind
  <2> QED
    BY <1>2, <1>3, <2>2
<1>15. CASE BackoffEnds(w)
  <2>1. PICK u : Become(w, u) /\ (Fails(t, u) \/ (runs' = runs /\ u.phase = "calling"))
    BY <1>1, <1>15, BackoffEndsKind
  <2> QED
    BY <1>2, <1>3, <2>1
<1>16. CASE Summarise(w)
  <2>1. PICK status \in Terminal :
          /\ t.phase = "stepping" /\ t.todo = {} /\ FinishRun(t, status)
          /\ End(w) \/ \E u : Become(w, u)
    BY <1>1, <1>16, SummariseKind, SummaryTyped
  <2>2. \A s \in t.plan : Done(t.local[s])
    BY <1>1, <2>1, NoneIsNoStep DEF Fits, AtStep, Executes
  <2>3. /\ runs' = [runs EXCEPT ![t.run] = status]
        /\ \A s \in t.plan : t.local[s] # None => steps'[s] = RowOf(t.run, t.local[s])
        /\ \A s \in StepId : s \notin t.plan => steps'[s] = steps[s]
    BY <1>1, <2>1, OwnFinish
  <2>4. ASSUME NEW s \in StepId, steps'[s] # None, steps'[s].owner = t.run
        PROVE  steps'[s].status \in Settled
    <3>1. s \in t.plan
      BY <1>1, <2>3, <2>4 DEF Owned, Owns, PlansOwn
    <3>2. steps'[s] = RowOf(t.run, t.local[s])
      BY <2>2, <2>3, <3>1, NoneIsApart DEF Done
    <3> QED
      BY <2>2, <3>1, <3>2 DEF RowOf, Done, Settled
  <2>5. \E u : Become(w, u) /\ EndTurn(t, u)
    <3>1. PICK u : Become(w, u)
      BY <2>1 DEF End, Become
    <3>2. runs'[t.run] \in Terminal
      BY <1>1, <2>1, <2>3
    <3>3. EndTurn(t, u)
      BY <2>4, <3>2 DEF EndTurn
    <3> QED
      BY <3>1, <3>3
  <2> QED
    BY <2>5
<1>17. CASE Leave(w)
  <2>1. t.phase = "leaving" /\ Become(w, None)
    BY <1>17 DEF Leave, End, Become
  <2> DEFINE v == [t EXCEPT !.ctx = "live"]
  <2>2. UNCHANGED <<runs, steps>> \/ FinishRun(v, "failed")
    BY <1>17 DEF Leave
  <2>3. /\ v \in Thread /\ v.run = t.run /\ v.plan = t.plan /\ v.local = t.local /\ Live(v)
    BY <1>1 DEF Thread, Live
  <2> HIDE DEF v
  <2>4. CASE UNCHANGED <<runs, steps>>
    BY <2>1, <2>4 DEF EndTurn
  <2>5. CASE FinishRun(v, "failed")
    <3>1. PlansOwn(v)
      BY <1>1, <2>3 DEF PlansOwn
    <3>2. \A s \in StepId : steps'[s] = IF s \in t.plan /\ t.local[s] # None
                                        THEN RowOf(t.run, t.local[s]) ELSE steps[s]
      BY <1>1, <2>3, <2>5, <3>1, OwnFinish
    <3>3. ASSUME runs[t.run] \notin Terminal, NEW s \in StepId, steps'[s] # None
          PROVE  steps'[s].owner # t.run
      <4>1. runs[t.run] = "pending" /\ Once(t.run)
        BY <2>1, <3>3 DEF Undisturbed, Once
      <4>2. steps'[s] = steps[s]
        BY <2>1, <3>2, <3>3
      <4> QED
        BY <1>1, <3>3, <4>1, <4>2 DEF NoRowsYet
    <3>4. EndTurn(t, None)
      BY <3>3 DEF EndTurn
    <3> QED
      BY <2>1, <3>4
  <2> QED
    BY <2>2, <2>4, <2>5
<1>18. CASE Cancel(w) \/ Expire(w)
  BY <1>18 DEF Cancel, Expire, Undisturbed
<1> QED
  BY <1>4, <1>5, <1>6, <1>7, <1>8, <1>9, <1>10, <1>11, <1>12, <1>13, <1>14, <1>15, <1>16,
     <1>17, <1>18 DEF Proceed

LEMMA TurnEnded ==
  ASSUME QuietStart, PlansApart, Undisturbing, "task" \notin Answer,
         Base, Quiet, Stocked, Rows, Ended, asked' = asked, RowsStay,
         NEW w \in Slot, Proceed(w) \/ Cancel(w) \/ Expire(w)
  PROVE  Ended'
<1> DEFINE t == threads[w]
<1>1. t # None /\ server' = server /\ resume' = resume
  BY ProceedKeepsServer
<1>2. /\ Fits(t) /\ t \in Thread /\ t.run \in Run /\ PlansOwn(t)
      /\ asked \in Requests /\ RowsTyped
  BY <1>1 DEF Base, Tables, ThreadsFit, Fits, Thread, Rows, Owned, Stocked
<1>3. PICK u : Turn(w, u)
  BY <1>1, ProceedTurns
<1>4. RunTurn(w, u)
  <2>1. PICK x : RunTurn(w, x)
    BY <1>1, ProceedRunTurns
  <2>2. x = u
    BY <1>3, <2>1 DEF Turn, RunTurn, Become, Base, Tables
  <2> QED
    BY <2>1, <2>2
<1>5. threads' = [v \in Slot |-> IF v = w THEN u ELSE threads[v]]
  BY <1>3 DEF Turn, Become, Base, Tables
<1>6. u # None => u.run = t.run /\ u.plan = t.plan
  BY <1>3 DEF Turn, Moves, Keeps
<1>7. \A r \in Run : r # t.run => runs'[r] = runs[r]
  BY <1>2, <1>4 DEF RunTurn, Base, Tables
<1>8. ~AdHoc(t) => Once(t.run) /\ Undisturbed(t.run) /\ EndTurn(t, u)
  <2> SUFFICES ASSUME ~AdHoc(t) PROVE Once(t.run) /\ Undisturbed(t.run) /\ EndTurn(t, u)
    OBVIOUS
  <2>1. Once(t.run) /\ Undisturbed(t.run)
    BY <1>2, CanvasRunsUndisturbed DEF AdHoc
  <2>2. Tells(t) /\ EndsIn(t)
    BY <1>1, <2>1 DEF Rows, ThreadsTell, EndsIn, Quiet, EndsOnce
  <2>3. t.phase = "leaving" /\ runs[t.run] \notin Terminal =>
           runs[t.run] = "pending" /\ \A s \in t.plan : t.local[s] = None
    BY <1>1 DEF Ended, LeavesNothing
  <2>4. PICK x : Become(w, x) /\ EndTurn(t, x)
    BY <1>1, <1>2, <2>1, <2>2, <2>3, ProceedEndTurns DEF Rows
  <2>5. x = u
    BY <1>3, <2>4 DEF Turn, Become, Base, Tables
  <2> QED
    BY <2>1, <2>4, <2>5
<1>9. NoTasks'
  <2>1. \A a \in attempts' : ~a.task
    <3>1. Recorded(t)
      BY <1>1, ProceedRecords
    <3>2. CASE attempts' = attempts
      BY <3>2 DEF Ended, NoTasks
    <3>3. CASE attempts' # attempts
      <4>1. t.at \in StepId
        BY <1>2, <3>1, <3>3, AtHand DEF Recorded
      <4>2. \A a \in attempts' : a \in attempts \/ a.task = FALSE
        BY <1>2, <3>1, <3>3, <4>1, SaveAttemptRows DEF Recorded, Stocked
      <4> QED
        BY <4>2 DEF Ended, NoTasks
    <3> QED
      BY <3>2, <3>3
  <2>2. resume.run = None
    BY <1>1 DEF Quiet, ResumesAlone
  <2> QED
    BY <1>1, <2>1, <2>2 DEF Ended, NoTasks
<1>10. LeavesNothing'
  <2> SUFFICES ASSUME NEW v \in Slot, NEW x, x = threads'[v], x # None, ~AdHoc(x),
                      x.phase = "leaving", runs'[x.run] \notin Terminal
               PROVE  runs'[x.run] = "pending" /\ \A s \in x.plan : x.local[s] = None
    BY DEF LeavesNothing, AdHoc, EntryOf
  <2>1. CASE v = w
    BY <1>5, <1>6, <1>8, <2>1 DEF EndTurn, AdHoc
  <2>2. CASE v # w
    <3>1. x = threads[v]
      BY <1>5, <2>2
    <3>2. x.run \in Run
      BY <3>1 DEF Base, ThreadsFit, Fits, Thread
    <3>3. x.run # t.run
      <4>1. Once(x.run)
        BY <1>2, <3>2, CanvasRunsUndisturbed DEF AdHoc
      <4> QED
        BY <1>1, <2>2, <3>1, <4>1 DEF Base, OneThread
    <3> QED
      BY <1>7, <3>1, <3>2, <3>3 DEF Ended, LeavesNothing
  <2> QED
    BY <2>1, <2>2
<1>11. SettledSteps'
  <2> SUFFICES ASSUME NEW r \in Run, runs'[r] \in Terminal, EntryOf(r) # "adhoc",
                      NEW s \in StepId, steps'[s] # None, steps'[s].owner = r
               PROVE  steps'[s].status \in Settled
    BY DEF SettledSteps, OwnSteps, EntryOf
  <2>1. CASE runs[r] \in Terminal
    <3>1. Undisturbed(r)
      BY <1>2, CanvasRunsUndisturbed
    <3>2. steps'[s] = steps[s]
      BY <2>1, <3>1 DEF RowsStay
    <3> QED
      BY <2>1, <3>2 DEF Ended, SettledSteps, OwnSteps
  <2>2. CASE runs[r] \notin Terminal
    <3>1. r = t.run
      BY <1>7, <2>2
    <3> QED
      BY <1>8, <2>2, <3>1 DEF EndTurn, AdHoc
  <2> QED
    BY <2>1, <2>2
<1> QED
  BY <1>9, <1>10, <1>11 DEF Ended

LEMMA StartedEnded ==
  ASSUME PlansApart, Base, Quiet, Ended, asked' = asked, server.phase = "up",
         NEW w \in Slot, Started(w)
  PROVE  Ended'
<1>1. PICK r \in Run, plan \in SUBSET StepId :
        /\ Become(w, NewThread(r, plan))
        /\ \/ runs[r] = None /\ runs' = [runs EXCEPT ![r] = "pending"]
           \/ runs[r] # None /\ runs' = runs /\ ~Once(r)
  BY DEF Started
<1>2. PICK u : u = NewThread(r, plan)
  OBVIOUS
<1>3. threads' = [v \in Slot |-> IF v = w THEN u ELSE threads[v]]
  BY <1>1, <1>2 DEF Become, Base, Tables
<1>4. \A o \in Run : runs'[o] = runs[o] \/ (runs[o] = None /\ runs'[o] = "pending")
  BY <1>1 DEF Base, Tables
<1>5. UNCHANGED <<steps, attempts, resume>>
  BY DEF Started
<1>6. NoTasks'
  BY <1>5 DEF Ended, NoTasks
<1>7. LeavesNothing'
  <2> SUFFICES ASSUME NEW v \in Slot, NEW x, x = threads'[v], x # None, ~AdHoc(x),
                      x.phase = "leaving", runs'[x.run] \notin Terminal
               PROVE  runs'[x.run] = "pending" /\ \A s \in x.plan : x.local[s] = None
    BY DEF LeavesNothing, AdHoc, EntryOf
  <2>1. v # w /\ x = threads[v]
    BY <1>2, <1>3 DEF NewThread
  <2>2. x.run \in Run /\ runs[x.run] # None
    BY <2>1 DEF Base, Registered, ThreadsFit, Fits, Thread
  <2> QED
    BY <1>4, <2>1, <2>2 DEF Ended, LeavesNothing
<1>8. SettledSteps'
  <2>1. \A o \in Run : runs'[o] \in Terminal => runs[o] \in Terminal
    BY <1>4 DEF Terminal
  <2> QED
    BY <1>5, <2>1 DEF Ended, SettledSteps, OwnSteps, EntryOf
<1> QED
  BY <1>6, <1>7, <1>8 DEF Ended

LEMMA OthersEnded ==
  ASSUME QuietStart, "task" \notin Answer,
         Base, Quiet, Stocked, Rows, Ended, asked' = asked,
         (\E r \in Run : SubmitManual(r)) \/ Crash \/ Restart \/ ResumeStep
  PROVE  Ended'
<1>1. ASSUME threads' = threads \/ threads' = [w \in Slot |-> None],
             \A r \in Run : runs'[r] = runs[r] \/ (runs[r] = None /\ runs'[r] = "pending")
      PROVE  LeavesNothing'
  <2> SUFFICES ASSUME NEW v \in Slot, NEW x, x = threads'[v], x # None, ~AdHoc(x),
                      x.phase = "leaving", runs'[x.run] \notin Terminal
               PROVE  runs'[x.run] = "pending" /\ \A s \in x.plan : x.local[s] = None
    BY DEF LeavesNothing, AdHoc, EntryOf
  <2>1. x = threads[v]
    BY <1>1
  <2>2. x.run \in Run /\ runs[x.run] # None
    BY <2>1 DEF Base, Registered, ThreadsFit, Fits, Thread
  <2> QED
    BY <1>1, <2>1, <2>2 DEF Ended, LeavesNothing
<1>2. ASSUME steps' = steps,
             \A r \in Run : runs'[r] = runs[r] \/ (runs[r] = None /\ runs'[r] = "pending")
      PROVE  SettledSteps'
  <2>1. \A o \in Run : runs'[o] \in Terminal => runs[o] \in Terminal
    BY <1>2 DEF Terminal
  <2> QED
    BY <1>2, <2>1 DEF Ended, SettledSteps, OwnSteps, EntryOf
<1>3. CASE \E r \in Run : SubmitManual(r)
  <2>1. PICK r \in Run : SubmitManual(r)
    BY <1>3
  <2>2. \A o \in Run : runs'[o] = runs[o] \/ (runs[o] = None /\ runs'[o] = "pending")
    BY <2>1 DEF SubmitManual, Base, Tables
  <2>3. UNCHANGED <<steps, attempts, threads, resume>>
    BY <2>1 DEF SubmitManual
  <2>4. NoTasks'
    BY <2>3 DEF Ended, NoTasks
  <2> QED
    BY <1>1, <1>2, <2>2, <2>3, <2>4 DEF Ended
<1>4. CASE Crash \/ Restart \/ EndResume \/ StartResume
  <2>1. /\ UNCHANGED <<runs, steps, attempts>>
        /\ threads' = threads \/ threads' = [w \in Slot |-> None]
        /\ resume' = resume \/ (resume'.run = None /\ resume'.polls = {})
    BY <1>4, NoRunTyped DEF Crash, Restart, EndResume, StartResume, NoRun
  <2>2. NoTasks'
    BY <2>1 DEF Ended, NoTasks
  <2> QED
    BY <1>1, <1>2, <2>1, <2>2 DEF Ended
<1>5. CASE \E r \in Run : LoadRun(r)
  <2>1. PICK r \in Run : LoadRun(r)
    BY <1>5
  <2>2. PendingAsync(r) = {}
    BY DEF PendingAsync, Ended, NoTasks
  <2>3. /\ UNCHANGED <<runs, steps, attempts, threads>> /\ resume'.polls = {}
        /\ runs[r] # "running" => resume'.run = None
        /\ runs[r] = "running" => /\ resume'.run = r /\ resume'.status = "running"
                                  /\ resume'.local =
                                       [s \in StepId |->
                                          IF s \notin OwnSteps(r) THEN None
                                          ELSE [status |-> steps[s].status,
                                                product |-> steps[s].product]]
    BY <2>1, <2>2 DEF LoadRun
  <2>4. \A s \in OwnSteps(r) : [status |-> steps[s].status, product |-> steps[s].product] # None
    <3>1. \A s \in OwnSteps(r) : [status |-> steps[s].status, product |-> steps[s].product] \in Told
      BY DEF Stocked, RowsTyped, Row, Told, OwnSteps
    <3> QED
      BY <3>1, NoneIsApart
  <2>5. NoTasks'
    <3>1. CASE runs[r] # "running"
      BY <2>3, <3>1 DEF Ended, NoTasks
    <3>2. CASE runs[r] = "running"
      <4>1. ASSUME NEW s \in StepId, steps[s] # None, steps[s].owner = r
            PROVE  resume'.local[s] # None
        BY <2>3, <2>4, <3>2, <4>1 DEF OwnSteps
      <4> QED
        BY <2>3, <3>2, <4>1 DEF Ended, NoTasks
    <3> QED
      BY <3>1, <3>2
  <2> QED
    BY <1>1, <1>2, <2>3, <2>5 DEF Ended
<1>6. CASE Interrupt
  <2> DEFINE open == {s \in StepId : /\ resume.local[s] # None
                                     /\ resume.local[s].status \notin Settled}
             local == [s \in StepId |-> IF s \in open
                                        THEN [resume.local[s] EXCEPT !.status = "failed"]
                                        ELSE resume.local[s]]
  <2>1. resume.run # None /\ resume.run \in Run /\ \E status : Resumed(local, status)
    BY <1>6 DEF Interrupt, Stocked, ResumeTyped
  <2>2. \A s \in StepId : resume.local[s] # None =>
           local[s] # None /\ Says(local[s]) /\ local[s].status \in Settled
    <3>1. \A s \in StepId : resume.local[s] \in Told \union {None}
      BY DEF Stocked, ResumeTyped
    <3>2. \A l \in Told : /\ [l EXCEPT !.status = "failed"] \in Told
                          /\ [l EXCEPT !.status = "failed"].status = "failed"
      BY DEF Told, StepStatus, Settled
    <3>3. \A l \in Told : l # None /\ Says(l)
      BY NoneIsApart DEF Told, Says
    <3>4. "failed" \in Settled
      BY DEF Settled
    <3> QED
      BY <3>1, <3>2, <3>3, <3>4
  <2>3. \A s \in StepId : resume.local[s] = None => local[s] = None
    OBVIOUS
  <2> HIDE DEF local
  <2>4. \A s \in StepId :
          steps'[s] = IF local[s] = None THEN steps[s]
                      ELSE [owner |-> IF steps[s] = None THEN resume.run ELSE steps[s].owner,
                            status |-> local[s].status, product |-> local[s].product]
    <3>1. Rewritten(resume.run, local)
      BY <2>1 DEF Resumed, Rewritten
    <3>2. \A s \in StepId : local[s] = None \/ Says(local[s])
      BY <2>2, <2>3
    <3> QED
      BY <2>1, <3>1, <3>2, RewrittenRow DEF Stocked
  <2>5. /\ \A r \in Run : r # resume.run => runs'[r] = runs[r]
        /\ UNCHANGED <<attempts, threads>> /\ resume'.run = None /\ resume'.polls = {}
    BY <2>1 DEF Resumed, NoRun, Base, Tables
  <2>6. NoTasks'
    BY <2>5 DEF Ended, NoTasks
  <2>7. LeavesNothing'
    BY <2>1, <2>5 DEF LeavesNothing, Quiet, ResumesAlone
  <2>8. SettledSteps'
    <3> SUFFICES ASSUME NEW r \in Run, runs'[r] \in Terminal, EntryOf(r) # "adhoc",
                        NEW s \in StepId, steps'[s] # None, steps'[s].owner = r
                 PROVE  steps'[s].status \in Settled
      BY DEF SettledSteps, OwnSteps, EntryOf
    <3>1. CASE local[s] # None
      <4>1. steps'[s].status = local[s].status
        <5>1. steps'[s] = [owner |-> IF steps[s] = None THEN resume.run ELSE steps[s].owner,
                           status |-> local[s].status, product |-> local[s].product]
          BY <2>4, <3>1
        <5> QED
          BY <5>1
      <4>2. resume.local[s] # None
        BY <2>3, <3>1
      <4>3. local[s].status \in Settled
        BY <2>2, <4>2
      <4> QED
        BY <4>1, <4>3
    <3>2. CASE local[s] = None
      <4>1. steps'[s] = steps[s]
        BY <2>4, <3>2
      <4>2. r # resume.run
        BY <2>2, <3>2, <4>1, <2>1 DEF Ended, NoTasks
      <4> QED
        BY <2>5, <4>1, <4>2 DEF Ended, SettledSteps, OwnSteps
    <3> QED
      BY <3>1, <3>2
  <2> QED
    BY <2>6, <2>7, <2>8 DEF Ended
<1>7. CASE \E s \in StepId, outcome \in {"succeeded", "failed", "open"} : Poll(s, outcome)
  BY <1>7 DEF Poll, Ended, NoTasks
<1>8. CASE FinishAsync
  BY <1>8 DEF FinishAsync, Ended, NoTasks
<1> QED
  BY <1>3, <1>4, <1>5, <1>6, <1>7, <1>8 DEF ResumeStep

LEMMA InitEnded == Init => Ended
<1> SUFFICES ASSUME Init PROVE Ended
  OBVIOUS
<1>1. /\ attempts = {} /\ resume.polls = {} /\ resume.run = None
      /\ \A w \in Slot : threads[w] = None
      /\ \A s \in StepId : steps[s] = None
  BY DEF Init, NoRun
<1>2. NoTasks
  BY <1>1 DEF NoTasks
<1>3. LeavesNothing
  BY <1>1 DEF LeavesNothing
<1>4. SettledSteps
  BY <1>1 DEF SettledSteps, OwnSteps
<1> QED
  BY <1>2, <1>3, <1>4 DEF Ended

LEMMA NextEnded ==
  ASSUME QuietStart, PlansApart, Undisturbing, "task" \notin Answer
  PROVE  Base /\ Quiet /\ Stocked /\ Rows /\ Ended /\ [Next]_<<vars, asked>> => Ended'
<1> SUFFICES ASSUME Base, Quiet, Stocked, Rows, Ended, [Next]_<<vars, asked>> PROVE Ended'
  OBVIOUS
<1>1. CASE Next
  <2>1. asked' = asked
    BY <1>1 DEF Next
  <2>2. ASSUME NEW r \in Run, NEW w \in Slot,
               \/ Submit(r, w) \/ Resubmit(r, w)
               \/ \E prev \in Run : Replay(r, prev, w)
        PROVE  Ended'
    <3>1. server.phase = "up"
      BY <2>2 DEF Submit, Resubmit, Replay, Serving
    <3>2. Started(w)
      BY <2>1, <2>2, SubmitsStart
    <3> QED
      BY <2>1, <3>1, <3>2, StartedEnded
  <2>3. ASSUME NEW w \in Slot, Proceed(w) \/ Cancel(w) \/ Expire(w)
        PROVE  Ended'
    <3>1. RowsStay
      BY <2>1, <2>3, TurnRows
    <3> QED
      BY <2>1, <2>3, <3>1, TurnEnded
  <2> QED
    BY <1>1, <2>1, <2>2, <2>3, OthersEnded DEF Next, Step
<1>2. CASE UNCHANGED <<vars, asked>>
  <2>1. NoTasks'
    BY <1>2 DEF vars, Ended, NoTasks
  <2>2. LeavesNothing'
    BY <1>2 DEF vars, Ended, LeavesNothing, AdHoc, EntryOf
  <2>3. SettledSteps'
    BY <1>2 DEF vars, Ended, SettledSteps, OwnSteps, EntryOf
  <2> QED
    BY <2>1, <2>2, <2>3 DEF Ended
<1> QED
  BY <1>1, <1>2

\* If, besides, nothing is canceled or reaches its limit and no upstream answers with a
\* task that goes on, a canvas run that has ended, also by a resumption after a crash,
\* has no step that is still pending or running (engine.go Execute, resume.go Resume).
THEOREM EndedRunsSettle ==
  ASSUME QuietStart, PlansApart, Undisturbing, "task" \notin Answer
  PROVE  Spec => []SettledSteps
<1>1. Ended => SettledSteps
  BY DEF Ended
<1> QED
  BY <1>1, RowsHold, InitEnded, NextEnded, PTL DEF Spec
=============================================================================
