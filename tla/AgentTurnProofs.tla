--------------------------- MODULE AgentTurnProofs ---------------------------
(***************************************************************************)
(* Theorems about AgentTurn, for all tools' plans, answers of the model,   *)
(* numbers of workers and turns: what writes or costs money is executed in *)
(* a turn only after its approval, and, if a turn is not approved twice at *)
(* a time, no call is executed twice unless something failed.  An answer   *)
(* "ok" of what generates means that its run exists, and one "error" that  *)
(* the call's ops are not in the log unless its run followed them.         *)
(***************************************************************************)
EXTENDS AgentTurn, SequenceTheorems, TLAPS

\* The tool of a call writes or costs money.
Guarded(call) ==
  LET tool == ToolByName[call.name] IN tool.scope = "write" \/ tool.costs

ToolPhases == {"read", "store", "append", "run", "skill", "upsert", "record"}

IsFrame(f) ==
  f = [phase |-> f.phase, for |-> f.for, turn |-> f.turn, at |-> f.at, call |-> f.call,
       plan |-> f.plan, missed |-> f.missed, result |-> f.result, seq |-> f.seq]

\* What the frame of a request owes to the turns and the grants.
Fits(f, rows, given) ==
  \/ f.phase = "idle"
  \/ /\ IsFrame(f)
     /\ f.phase \in ToolPhases \union {"insert", "ask", "next", "save"}
     /\ f.for \in {"submit", "approve", "mcp"}
     /\ IF f.phase = "insert" \/ f.for = "mcp" THEN f.turn = 0 ELSE f.turn \in DOMAIN rows
     /\ f.for = "mcp" => f.phase \in ToolPhases
     /\ f.phase \in {"insert", "ask", "next"} => f.for = "submit"
     /\ f.phase \in {"ask", "next"} => f.at \in Nat \ {0}
     /\ f.phase \in ToolPhases /\ f.for # "mcp" => f.at \in DOMAIN rows[f.turn].answer
     /\ f.phase = "read" /\ f.for = "submit" => ~Guarded(rows[f.turn].answer[f.at])
     /\ f.phase = "read" /\ f.for = "approve" => <<f.turn, f.at>> \in given

IsRow(r) ==
  /\ r = [status |-> r.status, seq |-> r.seq, answer |-> r.answer, pending |-> r.pending,
          results |-> r.results]
  /\ \E S : r.answer \in Seq(S)

IsTable(rows) ==
  /\ \E S : rows \in Seq(S)
  /\ \A t \in DOMAIN rows : IsRow(rows[t])

\* A worker that waits for the model has its turn for itself.
Asking(frames, rows) ==
  \A w \in Worker : frames[w].phase = "ask" =>
    /\ rows[frames[w].turn].answer = <<>>
    /\ \A v \in Worker \ {w} : frames[v].phase # "idle" => frames[v].turn # frames[w].turn

Frames(frames, rows, given) ==
  /\ frames = [w \in Worker |-> frames[w]]
  /\ \A w \in Worker : Fits(frames[w], rows, given)
  /\ Asking(frames, rows)

\* An executed call is one of its turn, and granted if that was needed.
Granted(k, rows, given) ==
  /\ k[1] \in DOMAIN rows /\ k[2] \in DOMAIN rows[k[1]].answer
  /\ Guarded(rows[k[1]].answer[k[2]]) => k \in given

\* Turns are added; an answer that arrived stays.
Grown(rows, more) ==
  /\ IsTable(rows) /\ IsTable(more)
  /\ \A t \in DOMAIN rows :
       t \in DOMAIN more /\ (more[t].answer = rows[t].answer \/ rows[t].answer = <<>>)

\* Nobody else waits for the answer to the turn of g, and the turns others
\* wait for did not change.
Apart(frames, rows, more, w, g) ==
  \A v \in Worker \ {w} : frames[v].phase = "ask" =>
    /\ more[frames[v].turn].answer = rows[frames[v].turn].answer
    /\ g.phase # "idle" => g.turn # frames[v].turn

\* The new frame of w waits for an answer only alone.
AsksAlone(frames, more, w, g) ==
  g.phase = "ask" =>
    /\ more[g.turn].answer = <<>>
    /\ \A v \in Worker \ {w} : frames[v].phase # "idle" => frames[v].turn # g.turn

Inv ==
  /\ IsTable(turns)
  /\ Frames(work, turns, grants)
  /\ \A k \in DOMAIN ran : Granted(k, turns, grants)

-----------------------------------------------------------------------------
(***************************************************************************)
(* Tables of turns.                                                        *)
(***************************************************************************)
LEMMA TableRows ==
  ASSUME NEW rows, IsTable(rows)
  PROVE  DOMAIN rows = 1..Len(rows) /\ Len(rows) \in Nat /\ 0 \notin DOMAIN rows
  BY LenProperties DEF IsTable

LEMMA RowAppended ==
  ASSUME NEW rows, IsTable(rows), NEW r, IsRow(r)
  PROVE  /\ IsTable(Append(rows, r))
         /\ DOMAIN Append(rows, r) = DOMAIN rows \union {Len(rows) + 1}
         /\ \A t \in DOMAIN rows : Append(rows, r)[t] = rows[t]
         /\ Append(rows, r)[Len(rows) + 1] = r
         /\ Len(rows) + 1 \notin DOMAIN rows
  <1>1. PICK S : rows \in Seq(S)
    BY DEF IsTable
  <1>2. rows \in Seq(S \union {r}) /\ r \in S \union {r}
    BY <1>1
  <1>3. /\ Append(rows, r) \in Seq(S \union {r})
        /\ Len(Append(rows, r)) = Len(rows) + 1
        /\ \A i \in 1..Len(rows) : Append(rows, r)[i] = rows[i]
        /\ Append(rows, r)[Len(rows) + 1] = r
    BY <1>2, AppendProperties
  <1>4. DOMAIN rows = 1..Len(rows) /\ Len(rows) \in Nat
    BY TableRows
  <1>5. DOMAIN Append(rows, r) = 1..Len(rows) + 1
    BY <1>3, LenProperties
  <1>6. IsTable(Append(rows, r))
    BY <1>3, <1>4, <1>5 DEF IsTable
  <1>. QED
    BY <1>3, <1>4, <1>5, <1>6

LEMMA RowChanged ==
  ASSUME NEW rows, IsTable(rows), NEW t \in DOMAIN rows, NEW r, IsRow(r)
  PROVE  /\ IsTable([rows EXCEPT ![t] = r])
         /\ DOMAIN [rows EXCEPT ![t] = r] = DOMAIN rows
  <1>1. PICK S : rows \in Seq(S)
    BY DEF IsTable
  <1>2. [rows EXCEPT ![t] = r] \in Seq(S \union {r})
    BY <1>1, ExceptSeq
  <1>. QED
    BY <1>2 DEF IsTable


LEMMA GrownSame ==
  ASSUME NEW rows, IsTable(rows)
  PROVE  Grown(rows, rows)
  BY DEF Grown

-----------------------------------------------------------------------------
(***************************************************************************)
(* Frames.                                                                 *)
(***************************************************************************)
LEMMA FitsStays ==
  ASSUME NEW f, NEW rows, NEW more, NEW given, NEW wider,
         Fits(f, rows, given), Grown(rows, more), given \subseteq wider
  PROVE  Fits(f, more, wider)
  <1>1. CASE f.phase = "idle"
    BY <1>1 DEF Fits
  <1>2. CASE f.phase # "idle"
    <2>1. f.phase \in ToolPhases /\ f.for # "mcp" =>
            f.at \in DOMAIN more[f.turn].answer /\ more[f.turn].answer = rows[f.turn].answer
      BY <1>2 DEF Fits, Grown, ToolPhases
    <2>. QED
      BY <1>2, <2>1 DEF Fits, Grown, ToolPhases
  <1>. QED
    BY <1>1, <1>2

LEMMA GrantedStays ==
  ASSUME NEW k, NEW rows, NEW more, NEW given, NEW wider,
         Granted(k, rows, given), Grown(rows, more), given \subseteq wider
  PROVE  Granted(k, more, wider)
  <1>1. rows[k[1]].answer # <<>>
    BY DEF Granted
  <1>. QED
    BY <1>1 DEF Granted, Grown

LEMMA AskerHasTurn ==
  ASSUME NEW frames, NEW rows, NEW given, Frames(frames, rows, given), IsTable(rows),
         NEW v \in Worker, frames[v].phase = "ask"
  PROVE  frames[v].turn \in DOMAIN rows /\ frames[v].turn # 0
  <1>1. Fits(frames[v], rows, given)
    BY DEF Frames
  <1>2. frames[v].turn \in DOMAIN rows
    BY <1>1 DEF Fits, ToolPhases
  <1>. QED
    BY <1>2, TableRows

LEMMA Moves ==
  ASSUME NEW frames, NEW rows, NEW more, NEW given, NEW wider, NEW w \in Worker, NEW g,
         Frames(frames, rows, given), Grown(rows, more), given \subseteq wider,
         Fits(g, more, wider), Apart(frames, rows, more, w, g), AsksAlone(frames, more, w, g)
  PROVE  Frames([frames EXCEPT ![w] = g], more, wider)
  <1>. DEFINE next == [frames EXCEPT ![w] = g]
  <1>1. next = [v \in Worker |-> next[v]] /\ next[w] = g
        /\ \A v \in Worker \ {w} : next[v] = frames[v]
    BY DEF Frames
  <1>. HIDE DEF next
  <1>2. ASSUME NEW v \in Worker
        PROVE  Fits(next[v], more, wider)
    <2>1. CASE v = w
      BY <1>1, <2>1
    <2>2. CASE v # w
      <3>1. Fits(frames[v], rows, given)
        BY DEF Frames
      <3>. QED
        BY <1>1, <2>2, <3>1, FitsStays
    <2>. QED
      BY <2>1, <2>2
  <1>3. ASSUME NEW v \in Worker, next[v].phase = "ask"
        PROVE  /\ more[next[v].turn].answer = <<>>
               /\ \A u \in Worker \ {v} : next[u].phase # "idle" => next[u].turn # next[v].turn
    <2>1. CASE v = w
      BY <1>1, <1>3, <2>1 DEF AsksAlone
    <2>2. CASE v # w
      <3>1. /\ rows[frames[v].turn].answer = <<>>
            /\ \A u \in Worker \ {v} : frames[u].phase # "idle" => frames[u].turn # frames[v].turn
        BY <1>1, <1>3, <2>2 DEF Frames, Asking
      <3>. QED
        BY <1>1, <1>3, <2>2, <3>1 DEF Apart
    <2>. QED
      BY <2>1, <2>2
  <1>4. Asking(next, more)
    BY <1>3 DEF Asking
  <1>5. Frames(next, more, wider)
    BY <1>1, <1>2, <1>4 DEF Frames
  <1>. QED
    BY <1>5 DEF next

\* A request that goes on with its turn, or ends, disturbs nobody who waits.
LEMMA ApartOnOwnTurn ==
  ASSUME NEW frames, NEW rows, NEW more, NEW given, NEW w \in Worker, NEW g,
         Frames(frames, rows, given), IsTable(rows),
         frames[w].phase # "idle",
         g.phase = "idle" \/ g.turn = frames[w].turn,
         \A t \in DOMAIN rows : t = frames[w].turn \/ more[t].answer = rows[t].answer
  PROVE  Apart(frames, rows, more, w, g)
  <1>1. ASSUME NEW v \in Worker \ {w}, frames[v].phase = "ask"
        PROVE  /\ more[frames[v].turn].answer = rows[frames[v].turn].answer
               /\ g.phase # "idle" => g.turn # frames[v].turn
    <2>1. frames[v].turn \in DOMAIN rows
      BY <1>1, AskerHasTurn
    <2>2. frames[w].turn # frames[v].turn
      BY <1>1 DEF Frames, Asking
    <2>. QED
      BY <2>1, <2>2
  <1>. QED
    BY <1>1 DEF Apart

\* What happens to the canvas is noted in the frames of others.
LEMMA MissedSame ==
  ASSUME NEW frames, NEW ops, NEW v \in Worker,
         frames[v].phase = "idle" \/ IsFrame(frames[v]),
         NEW g, g = Missed(frames, ops)[v]
  PROVE  \/ g = frames[v]
         \/ /\ IsFrame(g) /\ g.phase = frames[v].phase /\ g.for = frames[v].for
            /\ g.turn = frames[v].turn /\ g.at = frames[v].at
            /\ g.phase \in {"store", "append"}
  <1>1. CASE frames[v].phase \notin {"store", "append"}
    BY <1>1 DEF Missed
  <1>2. CASE frames[v].phase \in {"store", "append"}
    <2>1. PICK m : g = [frames[v] EXCEPT !.missed = m]
      BY <1>2 DEF Missed
    <2>. QED
      BY <1>2, <2>1 DEF IsFrame
  <1>. QED
    BY <1>1, <1>2

LEMMA MissedFrames ==
  ASSUME NEW frames, NEW rows, NEW given, NEW ops, Frames(frames, rows, given)
  PROVE  Frames(Missed(frames, ops), rows, given)
  <1>. DEFINE next == Missed(frames, ops)
  <1>1. next = [v \in Worker |-> next[v]]
    BY DEF Missed
  <1>2. ASSUME NEW v \in Worker
        PROVE  /\ Fits(next[v], rows, given)
               /\ next[v].phase = frames[v].phase
               /\ frames[v].phase # "idle" => next[v].turn = frames[v].turn
    <2>1. Fits(frames[v], rows, given)
      BY DEF Frames
    <2>2. frames[v].phase = "idle" \/ IsFrame(frames[v])
      BY <2>1 DEF Fits
    <2>3. \/ next[v] = frames[v]
          \/ /\ IsFrame(next[v]) /\ next[v].phase = frames[v].phase
             /\ next[v].for = frames[v].for /\ next[v].turn = frames[v].turn
             /\ next[v].at = frames[v].at /\ next[v].phase \in {"store", "append"}
      BY <2>2, MissedSame
    <2>. HIDE DEF next
    <2>. QED
      BY <2>1, <2>3 DEF Fits, ToolPhases
  <1>. HIDE DEF next
  <1>3. Asking(next, rows)
    BY <1>2 DEF Frames, Asking
  <1>4. Frames(next, rows, given)
    BY <1>1, <1>2, <1>3 DEF Frames
  <1>. QED
    BY <1>4 DEF next

-----------------------------------------------------------------------------
(***************************************************************************)
(* The steps of a tool lead from one of its phases to another.             *)
(***************************************************************************)
LEMMA MinIn ==
  ASSUME NEW S, S \subseteq 1..5, S # {}
  PROVE  Min(S) \in S /\ \A y \in S : Min(S) <= y
  <1>1. \E x \in S : \A y \in S : x <= y
    <2>1. CASE 1 \in S  BY <2>1
    <2>2. CASE 1 \notin S /\ 2 \in S  BY <2>2
    <2>3. CASE 1 \notin S /\ 2 \notin S /\ 3 \in S  BY <2>3
    <2>4. CASE S \subseteq {4, 5} /\ 4 \in S  BY <2>4
    <2>5. CASE S \subseteq {5}
      <3>1. S = {5}
        BY <2>5
      <3>. QED
        BY <3>1
    <2>. QED
      BY <2>1, <2>2, <2>3, <2>4, <2>5
  <1>. QED
    BY <1>1 DEF Min

\* g is the frame f in another phase of the same call.
SameCall(f, g) ==
  /\ IsFrame(g) /\ g.phase \in ToolPhases \ {"read"}
  /\ g.for = f.for /\ g.turn = f.turn /\ g.at = f.at

LEMMA SameCallFits ==
  ASSUME NEW f, NEW g, NEW rows, NEW given,
         Fits(f, rows, given), f.phase \in ToolPhases, SameCall(f, g)
  PROVE  Fits(g, rows, given)
  BY DEF Fits, SameCall, ToolPhases

LEMMA FollowingSame ==
  ASSUME NEW f, IsFrame(f), NEW p \in {"store", "append", "run", "skill"}
  PROVE  SameCall(f, Following(f, p))
  <1>. DEFINE at == CHOOSE i \in DOMAIN Phases : Phases[i] = p
              left == {i \in DOMAIN Phases : i > at /\ Needs(f.plan, Phases[i])}
  <1>1. DOMAIN Phases = 1..5 /\ Phases[1] = "store" /\ Phases[2] = "append"
        /\ Phases[3] = "run" /\ Phases[4] = "skill" /\ Phases[5] = "record"
    BY DEF Phases
  <1>2. at \in 1..5 /\ Phases[at] = p
    BY <1>1
  <1>3. at < 5
    BY <1>1, <1>2
  <1>4. 5 \in left
    BY <1>1, <1>3 DEF Needs
  <1>5. Min(left) \in left
    BY <1>1, <1>4, MinIn
  <1>6. Phases[Min(left)] \in ToolPhases \ {"read"}
    BY <1>1, <1>5 DEF ToolPhases
  <1>. HIDE DEF left
  <1>7. \E p2 \in ToolPhases \ {"read"} : \E r :
          Following(f, p) = [f EXCEPT !.phase = p2, !.result = r]
    BY <1>6 DEF Following, left
  <1>. QED
    BY <1>7 DEF IsFrame, SameCall

LEMMA PhaseSame ==
  ASSUME NEW f, IsFrame(f), NEW p \in ToolPhases \ {"read"}
  PROVE  SameCall(f, [f EXCEPT !.phase = p])
  <1>. DEFINE g == [f EXCEPT !.phase = p]
  <1>1. IsFrame(g) /\ g.phase = p /\ g.for = f.for /\ g.turn = f.turn /\ g.at = f.at
    BY DEF IsFrame
  <1>. QED
    BY <1>1 DEF SameCall

LEMMA StartedSame ==
  ASSUME NEW f, IsFrame(f), NEW plan
  PROVE  SameCall(f, Started(f, plan))
  <1>. DEFINE g == [f EXCEPT !.plan = plan]
  <1>1. IsFrame(g) /\ g.for = f.for /\ g.turn = f.turn /\ g.at = f.at
    BY DEF IsFrame
  <1>2. SameCall(f, Following(g, "store"))
    BY <1>1, FollowingSame DEF SameCall
  <1>. HIDE DEF g
  <1>3. SameCall(g, [g EXCEPT !.phase = "store"])
    BY <1>1, PhaseSame DEF ToolPhases
  <1>4. SameCall(f, [g EXCEPT !.phase = "store"])
    BY <1>1, <1>3 DEF SameCall
  <1>. QED
    BY <1>2, <1>4 DEF Started, g

LEMMA FailingSame ==
  ASSUME NEW f, IsFrame(f)
  PROVE  SameCall(f, Failing(f))
  <1>1. PICK p, r : p = "record" /\ Failing(f) = [f EXCEPT !.phase = p, !.result = r]
    BY DEF Failing
  <1>2. p \in ToolPhases \ {"read"}
    BY <1>1 DEF ToolPhases
  <1>. QED
    BY <1>1, <1>2 DEF IsFrame, SameCall

\* A step of a tool that leaves the turns alone.
LEMMA ToolStep ==
  ASSUME NEW frames, NEW w \in Worker, NEW g, IsTable(turns),
         Frames(frames, turns, grants), frames[w].phase \in ToolPhases, SameCall(frames[w], g)
  PROVE  Frames([frames EXCEPT ![w] = g], turns, grants)
  <1>1. Fits(g, turns, grants)
    BY SameCallFits DEF Frames
  <1>2. Grown(turns, turns)
    BY GrownSame
  <1>3. Apart(frames, turns, turns, w, g)
    BY ApartOnOwnTurn DEF SameCall, ToolPhases
  <1>4. AsksAlone(frames, turns, w, g)
    BY DEF AsksAlone, SameCall, ToolPhases
  <1>. QED
    BY <1>1, <1>2, <1>3, <1>4, Moves

\* A request ends: its frame is free again.
LEMMA Ends ==
  ASSUME NEW w \in Worker, NEW rows, NEW more, NEW given,
         Frames(work, rows, given), Grown(rows, more), work[w].phase # "idle",
         \A t \in DOMAIN rows : more[t].answer = rows[t].answer
  PROVE  Frames([work EXCEPT ![w] = Free], more, given)
  <1>1. Fits(Free, more, given) /\ AsksAlone(work, more, w, Free)
    BY DEF Fits, Free, AsksAlone
  <1>2. Apart(work, rows, more, w, Free)
    BY ApartOnOwnTurn DEF Free, Grown
  <1>. QED
    BY <1>1, <1>2, Moves

LEMMA WorkingFits ==
  ASSUME Inv, NEW w \in Worker, work[w].phase # "idle"
  PROVE  Fits(work[w], turns, grants) /\ IsFrame(work[w])
  BY DEF Inv, Frames, Fits


-----------------------------------------------------------------------------
(***************************************************************************)
(* The invariant is kept: one lemma for the actions of each kind.          *)
(***************************************************************************)
\* What a step owes to Inv when it executes no call.
LEMMA KeepsInv ==
  ASSUME Inv, Grown(turns, turns'), grants \subseteq grants', ran' = ran,
         Frames(work', turns', grants')
  PROVE  Inv'
  <1>1. \A k \in DOMAIN ran : Granted(k, turns', grants')
    BY GrantedStays DEF Inv
  <1>. QED
    BY <1>1 DEF Inv, Grown

\* The request is received, answered or given up.
LEMMA SubmitKeeps ==
  ASSUME Inv, NEW w \in Worker, SubmitTurn(w) \/ McpCall(w)
  PROVE  Inv'
  <1>1. PICK g : /\ work' = [work EXCEPT ![w] = g] /\ IsFrame(g) /\ g.turn = 0
                 /\ \/ g.phase = "insert" /\ g.for = "submit"
                    \/ g.phase = "read" /\ g.for = "mcp"
    <2>1. CASE SubmitTurn(w)
      <3>1. [Frame("insert", "submit", 0, 0, None) EXCEPT !.seq = MaxSeq + 1]
              = [phase |-> "insert", for |-> "submit", turn |-> 0, at |-> 0, call |-> None,
                 plan |-> Answer, missed |-> {}, result |-> "ok", seq |-> MaxSeq + 1]
        BY DEF Frame
      <3>. QED
        BY <2>1, <3>1 DEF SubmitTurn, Become, IsFrame
    <2>2. CASE McpCall(w)
      <3>1. PICK call : work' = [work EXCEPT ![w] = Frame("read", "mcp", 0, 0, call)]
        BY <2>2 DEF McpCall, Become
      <3>. DEFINE g == Frame("read", "mcp", 0, 0, call)
      <3>2. IsFrame(g) /\ g.turn = 0 /\ g.phase = "read" /\ g.for = "mcp"
        BY DEF Frame, IsFrame
      <3>. HIDE DEF g
      <3>3. work' = [work EXCEPT ![w] = g]
        BY <3>1 DEF g
      <3>. QED
        BY <3>2, <3>3
    <2>. QED
      BY <2>1, <2>2
  <1>2. UNCHANGED <<turns, ran, grants>>
    BY DEF SubmitTurn, McpCall, history, database, bounds
  <1>3. Fits(g, turns, grants) /\ AsksAlone(work, turns, w, g)
    BY <1>1 DEF Fits, ToolPhases, AsksAlone
  <1>4. Apart(work, turns, turns, w, g)
    BY <1>1, AskerHasTurn DEF Apart, Inv
  <1>5. Grown(turns, turns)
    BY GrownSame DEF Inv
  <1>6. Frames(work', turns, grants)
    BY <1>1, <1>3, <1>4, <1>5, Moves DEF Inv
  <1>. QED
    BY <1>2, <1>5, <1>6, KeepsInv

LEMMA InsertKeeps ==
  ASSUME Inv, NEW w \in Worker, InsertTurn(w)
  PROVE  Inv'
  <1>. DEFINE r == [status |-> "running", seq |-> work[w].seq, answer |-> <<>>,
                    pending |-> 0, results |-> <<>>]
              g == Frame("ask", "submit", Len(turns) + 1, 1, None)
  <1>1. IsRow(r) /\ r.answer = <<>>
    <2>1. <<>> \in Seq({})
      OBVIOUS
    <2>. QED
      BY <2>1 DEF IsRow
  <1>2. /\ turns' = Append(turns, r) /\ work' = [work EXCEPT ![w] = g]
        /\ UNCHANGED <<ran, grants>> /\ work[w].phase = "insert"
    BY DEF InsertTurn, Become, At, history
  <1>. HIDE DEF r
  <1>3. /\ IsTable(turns') /\ DOMAIN turns' = DOMAIN turns \union {Len(turns) + 1}
        /\ \A t \in DOMAIN turns : turns'[t] = turns[t]
        /\ turns'[Len(turns) + 1] = r /\ Len(turns) + 1 \notin DOMAIN turns
    BY <1>1, <1>2, RowAppended DEF Inv
  <1>4. Grown(turns, turns')
    BY <1>3 DEF Grown, Inv
  <1>5. IsFrame(g) /\ g.phase = "ask" /\ g.for = "submit" /\ g.turn = Len(turns) + 1
        /\ g.at = 1
    BY DEF Frame, IsFrame
  <1>. HIDE DEF g
  <1>6. Fits(g, turns', grants')
    BY <1>3, <1>5 DEF Fits, ToolPhases
  <1>7. Apart(work, turns, turns', w, g)
    BY <1>3, <1>5, AskerHasTurn DEF Apart, Inv
  <1>8. ASSUME NEW v \in Worker, work[v].phase # "idle"
        PROVE  work[v].turn # g.turn
    <2>1. work[v].turn = 0 \/ work[v].turn \in DOMAIN turns
      BY <1>8, WorkingFits DEF Fits
    <2>2. Len(turns) + 1 # 0
      BY TableRows DEF Inv
    <2>. QED
      BY <1>3, <1>5, <2>1, <2>2
  <1>9. AsksAlone(work, turns', w, g)
    BY <1>1, <1>3, <1>5, <1>8 DEF AsksAlone
  <1>10. Frames(work', turns', grants')
    BY <1>2, <1>4, <1>6, <1>7, <1>9, Moves DEF Inv
  <1>. QED
    BY <1>2, <1>4, <1>10, KeepsInv

\* The answer arrives at a turn that has none, where nobody else is.
LEMMA CompleteKeeps ==
  ASSUME Inv, NEW w \in Worker, Complete(w)
  PROVE  Inv'
  <1>. DEFINE f == work[w]
              g == [f EXCEPT !.phase = "next"]
              t == f.turn
  <1>1. PICK a \in Answers : turns' = [turns EXCEPT ![t].answer = a,
                                        ![t].results = [i \in DOMAIN a |-> "none"]]
    BY DEF Complete
  <1>2. f.phase = "ask" /\ work' = [work EXCEPT ![w] = g] /\ UNCHANGED <<ran, grants>>
    BY DEF Complete, At, Become, history
  <1>3. Fits(f, turns, grants) /\ IsFrame(f)
    BY <1>2, WorkingFits
  <1>15. f.at \in Nat \ {0}
    BY <1>2, <1>3 DEF Fits
  <1>4. t \in DOMAIN turns /\ turns[t].answer = <<>> /\ f.for = "submit"
    BY <1>2, <1>3 DEF Fits, ToolPhases, Inv, Frames, Asking
  <1>5. PICK r : r = [turns[t] EXCEPT !.answer = a, !.results = [i \in DOMAIN a |-> "none"]]
    OBVIOUS
  <1>6. turns' = [turns EXCEPT ![t] = r]
    BY <1>1, <1>4, <1>5
  <1>14. \E S : a \in Seq(S)
    BY AnswersTyped
  <1>7. IsRow(r)
    <2>1. IsRow(turns[t])
      BY <1>4 DEF Inv, IsTable
    <2>2. /\ r = [status |-> r.status, seq |-> r.seq, answer |-> r.answer,
                  pending |-> r.pending, results |-> r.results]
          /\ r.answer = a
      BY <1>5, <2>1 DEF IsRow
    <2>. QED
      BY <1>14, <2>2 DEF IsRow
  <1>8. IsTable(turns') /\ DOMAIN turns' = DOMAIN turns
        /\ \A u \in DOMAIN turns : u = t \/ turns'[u].answer = turns[u].answer
    BY <1>4, <1>6, <1>7, RowChanged DEF Inv
  <1>9. Grown(turns, turns')
    BY <1>4, <1>8 DEF Grown, Inv
  <1>10. IsFrame(g) /\ g.phase = "next" /\ g.for = "submit" /\ g.turn = t
         /\ g.at \in Nat \ {0}
    BY <1>3, <1>4, <1>15 DEF IsFrame
  <1>. HIDE DEF g
  <1>11. Fits(g, turns', grants') /\ AsksAlone(work, turns', w, g)
    BY <1>4, <1>8, <1>10 DEF Fits, ToolPhases, AsksAlone
  <1>12. Apart(work, turns, turns', w, g)
    BY <1>2, <1>8, <1>10, ApartOnOwnTurn DEF Inv
  <1>13. Frames(work', turns', grants')
    BY <1>2, <1>9, <1>11, <1>12, Moves DEF Inv
  <1>. QED
    BY <1>2, <1>9, <1>13, KeepsInv

\* A row changes, not its answer, and the request ends or saves its turn.
LEMMA RowStep ==
  ASSUME Inv, NEW w \in Worker, work[w].phase # "idle", work[w].turn \in DOMAIN turns,
         NEW r, IsRow(r), r.answer = turns[work[w].turn].answer,
         turns' = [turns EXCEPT ![work[w].turn] = r],
         NEW g, work' = [work EXCEPT ![w] = g], UNCHANGED <<ran, grants>>,
         \/ g.phase = "idle"
         \/ /\ IsFrame(g) /\ g.turn = work[w].turn
            /\ \/ g.phase = "next" /\ g.for = "submit" /\ g.at \in Nat \ {0}
               \/ g.phase = "save" /\ g.for = "approve"
  PROVE  Inv'
  <1>1. IsTable(turns') /\ DOMAIN turns' = DOMAIN turns
        /\ \A u \in DOMAIN turns : turns'[u].answer = turns[u].answer
    BY RowChanged DEF Inv
  <1>2. Grown(turns, turns')
    BY <1>1 DEF Grown, Inv
  <1>3. Fits(g, turns', grants') /\ AsksAlone(work, turns', w, g)
    BY <1>1 DEF Fits, ToolPhases, AsksAlone
  <1>4. Apart(work, turns, turns', w, g)
    BY <1>1, ApartOnOwnTurn DEF Inv
  <1>5. Frames(work', turns', grants')
    BY <1>2, <1>3, <1>4, Moves DEF Inv
  <1>. QED
    BY <1>2, <1>5, KeepsInv


\* Recording a result, saving the turn, giving it up.
LEMMA RowKeeps ==
  ASSUME Inv, NEW w \in Worker,
         Record(w) \/ LoseResult(w) \/ SaveTurn(w) \/ failTurn(w)
  PROVE  Inv'
  <1>. DEFINE f == work[w]
              t == f.turn
  <1>1. f.phase \in {"record", "save", "ask"}
    BY DEF Record, LoseResult, Recorded, SaveTurn, failTurn, At
  <1>2. Fits(f, turns, grants) /\ IsFrame(f) /\ UNCHANGED <<ran, grants>>
    BY <1>1, WorkingFits DEF Record, LoseResult, SaveTurn, failTurn, history
  <1>3. IsTable(turns) /\ 0 \notin DOMAIN turns
    BY TableRows DEF Inv
  <1>4. Free.phase = "idle"
    BY DEF Free
  <1>5. CASE SaveTurn(w)
    <2>1. t \in DOMAIN turns
      BY <1>2, <1>5 DEF Fits, SaveTurn, At, ToolPhases
    <2>2. IsRow(turns[t])
      BY <1>3, <2>1 DEF IsTable
    <2>3. PICK s, p : turns' = [turns EXCEPT ![t].status = s, ![t].pending = p]
      BY <1>5 DEF SaveTurn
    <2>4. PICK r : r = [turns[t] EXCEPT !.status = s, !.pending = p]
      OBVIOUS
    <2>5. IsRow(r) /\ r.answer = turns[t].answer
      BY <2>2, <2>4 DEF IsRow
    <2>6. turns' = [turns EXCEPT ![t] = r]
      BY <2>1, <2>3, <2>4
    <2>. QED
      BY <1>1, <1>2, <1>4, <1>5, <2>1, <2>5, <2>6, RowStep DEF SaveTurn, Become
  <1>6. CASE failTurn(w)
    <2>1. t \in DOMAIN turns
      BY <1>2, <1>6 DEF Fits, failTurn, At, ToolPhases
    <2>2. IsRow(turns[t])
      BY <1>3, <2>1 DEF IsTable
    <2>3. PICK r : r = [turns[t] EXCEPT !.status = "failed"]
      OBVIOUS
    <2>4. IsRow(r) /\ r.answer = turns[t].answer
      BY <2>2, <2>3 DEF IsRow
    <2>5. turns' = [turns EXCEPT ![t] = r]
      BY <1>6, <2>1, <2>3 DEF failTurn
    <2>. QED
      BY <1>1, <1>2, <1>4, <1>6, <2>1, <2>4, <2>5, RowStep DEF failTurn, Become
  <1>7. CASE Record(w) \/ LoseResult(w)
    <2>1. PICK kept \in BOOLEAN : Recorded(w, kept)
      BY <1>7 DEF Record, LoseResult
    <2>2. PICK g :
            /\ work' = [work EXCEPT ![w] = g]
            /\ g = CASE f.for = "submit"  -> [Frame("next", "submit", f.turn, f.at + 1, None)
                                                EXCEPT !.seq = 0]
                     [] f.for = "approve" -> Save(f, 0)
                     [] f.for = "mcp"     -> Free
      BY <2>1 DEF Recorded, Become
    <2>3. CASE f.for = "mcp"
      <3>1. f.turn = 0
        BY <1>1, <1>2, <2>3 DEF Fits
      <3>2. turns' = turns
        BY <2>1, <3>1 DEF Recorded
      <3>3. g = Free
        BY <2>2, <2>3
      <3>4. Grown(turns, turns)
        BY <1>3, GrownSame
      <3>5. Frames(work', turns, grants)
        BY <1>1, <2>2, <3>3, <3>4, Ends DEF Inv
      <3>. QED
        BY <1>2, <3>2, <3>4, <3>5, KeepsInv
    <2>4. CASE f.for # "mcp"
      <3>1. t \in DOMAIN turns /\ f.for \in {"submit", "approve"}
        BY <1>2, <1>1, <2>4 DEF Fits, ToolPhases
      <3>2. IsRow(turns[t])
        BY <1>3, <3>1 DEF IsTable
      <3>3. PICK rs, r :
              /\ r = [turns[t] EXCEPT !.results = rs]
              /\ turns' = [turns EXCEPT ![t] = r]
        <4>1. CASE turns' = turns
          <5>1. turns[t] = [turns[t] EXCEPT !.results = turns[t].results]
            BY <3>2 DEF IsRow
          <5>2. turns = [turns EXCEPT ![t] = turns[t]]
            BY <1>3, <3>1 DEF IsTable
          <5>. QED
            BY <4>1, <5>1, <5>2
        <4>2. CASE turns' = [turns EXCEPT ![f.turn].results[f.at] = f.result]
          <5>. DEFINE rs == [turns[t].results EXCEPT ![f.at] = f.result]
          <5>1. turns' = [turns EXCEPT ![t] = [turns[t] EXCEPT !.results = rs]]
            BY <3>1, <4>2
          <5>. QED
            BY <5>1
        <4>. QED
          BY <2>1, <4>1, <4>2 DEF Recorded
      <3>4. IsRow(r) /\ r.answer = turns[t].answer
        BY <3>2, <3>3 DEF IsRow
      <3>5. IsFrame(g) /\ g.turn = t
            /\ \/ g.phase = "next" /\ g.for = "submit" /\ g.at \in Nat \ {0}
               \/ g.phase = "save" /\ g.for = "approve"
        <4>3. f.at + 1 \in Nat \ {0}
          <5>1. f.phase = "record"
            BY <2>1 DEF Recorded, At
          <5>2. f.at \in DOMAIN turns[t].answer
            BY <1>2, <2>4, <5>1 DEF Fits, ToolPhases
          <5>. PICK S : turns[t].answer \in Seq(S)
            BY <3>2 DEF IsRow
          <5>3. f.at \in 1..Len(turns[t].answer) /\ Len(turns[t].answer) \in Nat
            BY <5>2, LenProperties
          <5>. QED
            BY <5>3
        <4>1. CASE f.for = "submit"
          <5>1. g = [phase |-> "next", for |-> "submit", turn |-> f.turn, at |-> f.at + 1,
                     call |-> None, plan |-> Answer, missed |-> {}, result |-> "ok", seq |-> 0]
            BY <2>2, <4>1 DEF Frame
          <5>. QED
            BY <4>3, <5>1 DEF IsFrame
        <4>2. CASE f.for = "approve"
          <5>1. g = [f EXCEPT !.phase = "save", !.seq = 0]
            BY <2>2, <4>2 DEF Save
          <5>. QED
            BY <1>2, <4>2, <5>1 DEF IsFrame
        <4>. QED
          BY <3>1, <4>1, <4>2
      <3>. QED
        BY <1>1, <1>2, <2>2, <3>1, <3>3, <3>4, <3>5, RowStep
    <2>. QED
      BY <2>3, <2>4
  <1>. QED
    BY <1>5, <1>6, <1>7


\* A request ends without a write to its turn, or all of them end.
LEMMA EndKeeps ==
  ASSUME Inv, NEW w \in Worker, LoseUserItem(w) \/ SaveFails(w)
  PROVE  Inv'
  <1>1. work[w].phase # "idle" /\ work' = [work EXCEPT ![w] = Free]
    BY DEF LoseUserItem, SaveFails, At, Become
  <1>2. UNCHANGED <<turns, ran, grants>>
    BY DEF LoseUserItem, SaveFails, history
  <1>3. Grown(turns, turns)
    BY GrownSame DEF Inv
  <1>4. Frames(work', turns, grants)
    BY <1>1, <1>3, Ends DEF Inv
  <1>. QED
    BY <1>2, <1>3, <1>4, KeepsInv

LEMMA CrashKeeps ==
  ASSUME Inv, Crash
  PROVE  Inv'
  <1>1. work' = [w \in Worker |-> Free] /\ UNCHANGED <<turns, ran, grants>>
    BY DEF Crash, history
  <1>2. Frames(work', turns, grants)
    BY <1>1 DEF Frames, Fits, Asking, Free
  <1>. QED
    BY <1>1, <1>2, KeepsInv, GrownSame DEF Inv

\* What the session lets through without asking is not guarded.
LEMMA UnaskedIsHarmless ==
  ASSUME NEW call, ~Confirmed(call)
  PROVE  ~Guarded(call)
  BY DEF Confirmed, Guarded, ApprovalFor, Permission

\* The loop goes to the next call, starts one, or saves the turn.
LEMMA NextCallKeeps ==
  ASSUME Inv, NEW w \in Worker, NextCall(w)
  PROVE  Inv'
  <1>. DEFINE f == work[w]
              t == f.turn
  <1>1. f.phase = "next" /\ UNCHANGED <<turns, ran, grants>>
    BY DEF NextCall, At, history
  <1>2. IsFrame(f) /\ f.for = "submit" /\ t \in DOMAIN turns /\ t # 0
    BY <1>1, WorkingFits, TableRows DEF Fits, Inv, ToolPhases
  <1>. PICK S : turns[t].answer \in Seq(S)
    BY <1>2 DEF Inv, IsTable, IsRow
  <1>9. f.at > Len(turns[t].answer) \/ f.at \in DOMAIN turns[t].answer
    <2>1. f.at \in Nat \ {0}
      BY <1>1, WorkingFits DEF Fits
    <2>2. DOMAIN turns[t].answer = 1..Len(turns[t].answer) /\ Len(turns[t].answer) \in Nat
      BY LenProperties
    <2>. QED
      BY <2>1, <2>2
  <1>3. PICK g :
          /\ work' = [work EXCEPT ![w] = g]
          /\ \/ g = Save(f, 0)
             \/ g = Skipped(f)
             \/ g = Save(f, f.at)
             \/ /\ f.at \in DOMAIN turns[t].answer /\ ~Confirmed(turns[t].answer[f.at])
                /\ g = [f EXCEPT !.phase = "read"]
    BY <1>2, <1>9 DEF NextCall, Become, CallOf
  <1>4. IsFrame(g) /\ g.for = "submit" /\ g.turn = t /\ (g.phase = "next" => g.at \in Nat \ {0})
        /\ \/ g.phase \in {"save", "next"}
           \/ /\ g.phase = "read" /\ g.at = f.at
              /\ f.at \in DOMAIN turns[t].answer /\ ~Guarded(turns[t].answer[f.at])
    <2>1. CASE \E n : g = [f EXCEPT !.phase = "save", !.seq = n]
      BY <1>2, <2>1 DEF IsFrame
    <2>2. CASE \E n \in Nat \ {0} : g = [f EXCEPT !.at = n]
      BY <1>1, <1>2, <2>2 DEF IsFrame
    <2>3. CASE /\ f.at \in DOMAIN turns[t].answer /\ ~Confirmed(turns[t].answer[f.at])
               /\ g = [f EXCEPT !.phase = "read"]
      <3>1. ~Guarded(turns[t].answer[f.at])
        BY <2>3, UnaskedIsHarmless
      <3>2. IsFrame(g) /\ g.for = "submit" /\ g.turn = t /\ g.phase = "read" /\ g.at = f.at
        BY <1>2, <2>3 DEF IsFrame
      <3>. QED
        BY <2>3, <3>1, <3>2
    <2>5. f.at \in Nat \ {0}
      BY <1>1, WorkingFits DEF Fits
    <2>4. f.at + 1 \in Nat \ {0}
      BY <2>5
    <2>. QED
      BY <1>3, <2>1, <2>2, <2>3, <2>4 DEF Save, Skipped
  <1>5. Fits(g, turns, grants) /\ AsksAlone(work, turns, w, g)
    BY <1>2, <1>4 DEF Fits, ToolPhases, AsksAlone
  <1>6. Apart(work, turns, turns, w, g)
    BY <1>1, <1>4, ApartOnOwnTurn DEF Inv
  <1>7. Grown(turns, turns)
    BY GrownSame DEF Inv
  <1>8. Frames(work', turns, grants)
    BY <1>3, <1>5, <1>6, <1>7, Moves DEF Inv
  <1>. QED
    BY <1>1, <1>7, <1>8, KeepsInv

\* The approval is for a call of a turn that has its answer.
LEMMA ApproveKeeps ==
  ASSUME Inv, NEW w \in Worker, NEW t \in Turns, NEW i \in DOMAIN turns[t].answer,
         Approve(w, t, i)
  PROVE  Inv'
  <1>1. UNCHANGED <<turns, ran>> /\ t \in DOMAIN turns /\ t # 0
    BY TableRows DEF Approve, Turns, Inv
  <1>2. PICK yes \in Granting :
          /\ Become(w, IF yes THEN Frame("read", "approve", t, i, None)
                       ELSE [Frame("record", "approve", t, i, None) EXCEPT !.result = "denied"])
          /\ grants' = IF yes THEN grants \union {<<t, i>>} ELSE grants
    BY DEF Approve
  <1>3. PICK g :
          /\ work' = [work EXCEPT ![w] = g]
          /\ IsFrame(g) /\ g.for = "approve" /\ g.turn = t /\ g.at = i
          /\ grants \subseteq grants'
          /\ \/ g.phase = "read" /\ <<t, i>> \in grants'
             \/ g.phase = "record"
    <2>1. CASE yes
      <3>. DEFINE g == Frame("read", "approve", t, i, None)
      <3>1. IsFrame(g) /\ g.for = "approve" /\ g.turn = t /\ g.at = i /\ g.phase = "read"
        BY DEF Frame, IsFrame
      <3>2. work' = [work EXCEPT ![w] = g] /\ grants' = grants \union {<<t, i>>}
        BY <1>2, <2>1 DEF Become
      <3>. HIDE DEF g
      <3>. QED
        BY <3>1, <3>2
    <2>2. CASE ~yes
      <3>. DEFINE g == [Frame("record", "approve", t, i, None) EXCEPT !.result = "denied"]
      <3>1. g = [phase |-> "record", for |-> "approve", turn |-> t, at |-> i, call |-> None,
                 plan |-> Answer, missed |-> {}, result |-> "denied", seq |-> 0]
        BY DEF Frame
      <3>2. IsFrame(g) /\ g.for = "approve" /\ g.turn = t /\ g.at = i /\ g.phase = "record"
        BY <3>1 DEF IsFrame
      <3>3. work' = [work EXCEPT ![w] = g] /\ grants' = grants
        BY <1>2, <2>2 DEF Become
      <3>. HIDE DEF g
      <3>. QED
        BY <3>2, <3>3
    <2>. QED
      BY <2>1, <2>2
  <1>4. Fits(g, turns, grants') /\ AsksAlone(work, turns, w, g)
    BY <1>1, <1>3 DEF Fits, ToolPhases, AsksAlone
  <1>5. turns[t].answer # <<>>
    OBVIOUS
  <1>6. Apart(work, turns, turns, w, g)
    BY <1>3, <1>5 DEF Apart, Inv, Frames, Asking
  <1>7. Grown(turns, turns)
    BY GrownSame DEF Inv
  <1>8. Frames(work', turns, grants')
    BY <1>3, <1>4, <1>6, <1>7, Moves DEF Inv
  <1>. QED
    BY <1>1, <1>3, <1>7, <1>8, KeepsInv


-----------------------------------------------------------------------------
(***************************************************************************)
(* The steps of the tools.                                                 *)
(***************************************************************************)
LEMMA ToolKeeps ==
  ASSUME Inv, NEW w \in Worker,
         \/ StoreAttachments(w) \/ TriggerRun(w) \/ CountSkills(w) \/ UpsertSkill(w)
         \/ StepFails(w)
  PROVE  Inv'
  <1>. DEFINE f == work[w]
  <1>1. f.phase \in ToolPhases /\ f.phase # "idle" /\ UNCHANGED <<turns, ran, grants>>
    BY DEF StoreAttachments, TriggerRun, CountSkills, UpsertSkill, StepFails, At, ToolPhases,
           history, database
  <1>2. IsFrame(f)
    BY <1>1, WorkingFits
  <1>3. PICK g : work' = [work EXCEPT ![w] = g] /\ SameCall(f, g)
    <2>1. SameCall(f, Failing(f)) /\ SameCall(f, [f EXCEPT !.phase = "upsert"])
          /\ \A p \in {"store", "append", "run", "skill"} : SameCall(f, Following(f, p))
      BY <1>2, FailingSame, PhaseSame, FollowingSame DEF ToolPhases
    <2>2. \E g \in {Failing(f), [f EXCEPT !.phase = "upsert"], Following(f, "store"),
                    Following(f, "run"), Following(f, "skill")} :
            work' = [work EXCEPT ![w] = g]
      BY DEF StoreAttachments, TriggerRun, CountSkills, UpsertSkill, StepFails, Become
    <2>. QED
      BY <2>1, <2>2
  <1>4. Frames(work', turns, grants)
    BY <1>1, <1>3, ToolStep DEF Inv
  <1>. QED
    BY <1>1, <1>4, KeepsInv, GrownSame DEF Inv

\* The ops reach the canvas or not; the others' frames note what they miss.
LEMMA AppendKeeps ==
  ASSUME Inv, NEW w \in Worker, AppendOps(w)
  PROVE  Inv'
  <1>. DEFINE f == work[w]
  <1>1. f.phase = "append" /\ UNCHANGED <<turns, ran, grants>>
    BY DEF AppendOps, At
  <1>2. IsFrame(f)
    BY <1>1, WorkingFits
  <1>3. PICK frames, g :
          /\ work' = [frames EXCEPT ![w] = g]
          /\ frames \in {work, Missed(work, f.plan.ops)}
          /\ g \in {Following(f, "append"), Failing(f)}
    <2>1. \E accepted, next :
            work' = [(IF next # Rejected THEN Missed(work, f.plan.ops) ELSE work) EXCEPT
                       ![w] = IF accepted THEN Following(f, "append") ELSE Failing(f)]
      BY DEF AppendOps
    <2>. QED
      BY <2>1
  <1>4. /\ Frames(frames, turns, grants) /\ frames[w].phase = f.phase
        /\ f.phase # "idle" => frames[w].turn = f.turn
    <2>1. CASE frames = work
      BY <2>1 DEF Inv
    <2>2. CASE frames = Missed(work, f.plan.ops)
      <3>1. Frames(frames, turns, grants)
        BY <2>2, MissedFrames DEF Inv
      <3>2. PICK h : h = frames[w]
        OBVIOUS
      <3>3. h.phase = f.phase /\ h.turn = f.turn
        BY <1>2, <2>2, <3>2, MissedSame
      <3>. QED
        BY <3>1, <3>2, <3>3
    <2>. QED
      BY <1>3, <2>1, <2>2
  <1>5. SameCall(f, g)
    BY <1>2, <1>3, FailingSame, FollowingSame
  <1>6. Fits(g, turns, grants)
    BY <1>1, <1>5, WorkingFits, SameCallFits DEF ToolPhases
  <1>7. AsksAlone(frames, turns, w, g)
    BY <1>5 DEF SameCall, ToolPhases, AsksAlone
  <1>8. g.turn = frames[w].turn /\ frames[w].phase # "idle"
    BY <1>1, <1>4, <1>5 DEF SameCall
  <1>9. Apart(frames, turns, turns, w, g)
    BY <1>4, <1>8, ApartOnOwnTurn DEF Inv
  <1>10. Grown(turns, turns)
    BY GrownSame DEF Inv
  <1>11. Frames(work', turns, grants)
    BY <1>3, <1>4, <1>6, <1>7, <1>9, <1>10, Moves
  <1>. QED
    BY <1>1, <1>10, <1>11, KeepsInv

LEMMA UserEditKeeps ==
  ASSUME Inv, UserEdit
  PROVE  Inv'
  <1>1. UNCHANGED <<turns, ran, grants>>
    BY DEF UserEdit, history
  <1>2. \E ops : work' = Missed(work, ops)
    BY DEF UserEdit
  <1>3. Frames(work', turns, grants)
    BY <1>2, MissedFrames DEF Inv
  <1>. QED
    BY <1>1, <1>3, KeepsInv, GrownSame DEF Inv

\* A call is executed: in a turn, by a frame that fits it.
LEMMA ReadKeeps ==
  ASSUME Inv, NEW w \in Worker, Read(w)
  PROVE  Inv'
  <1>. DEFINE f == work[w]
  <1>1. f.phase = "read" /\ UNCHANGED <<turns, grants>> /\ ran' = Counted(f)
    BY DEF Read, At
  <1>2. IsFrame(f) /\ Fits(f, turns, grants)
    BY <1>1, WorkingFits
  <1>3. PICK plan : work' = [work EXCEPT ![w] = Started(f, plan)]
    BY DEF Read, Become
  <1>4. SameCall(f, Started(f, plan))
    BY <1>2, StartedSame
  <1>5. Frames(work', turns, grants)
    BY <1>1, <1>3, <1>4, ToolStep DEF Inv, ToolPhases
  <1>6. ASSUME NEW k \in DOMAIN ran'
        PROVE  Granted(k, turns, grants)
    <2>1. CASE k \in DOMAIN ran
      BY <2>1 DEF Inv
    <2>2. CASE k \notin DOMAIN ran
      <3>1. f.turn # 0 /\ k = <<f.turn, f.at>>
        BY <1>1, <1>6, <2>2 DEF Counted, Key2
      <3>2. f.for \in {"submit", "approve"} /\ f.turn \in DOMAIN turns
            /\ f.at \in DOMAIN turns[f.turn].answer
        BY <1>1, <1>2, <3>1 DEF Fits, ToolPhases
      <3>3. Guarded(turns[f.turn].answer[f.at]) => <<f.turn, f.at>> \in grants
        BY <1>1, <1>2, <3>2 DEF Fits
      <3>. QED
        BY <3>1, <3>2, <3>3 DEF Granted
    <2>. QED
      BY <2>1, <2>2
  <1>. QED
    BY <1>1, <1>5, <1>6 DEF Inv

-----------------------------------------------------------------------------
\* The invariant: tables are tables, frames fit their turns, and what was
\* executed was granted if it writes or costs money.
THEOREM Invariance == Spec => []Inv
  <1>1. Init => Inv
    <2>. SUFFICES ASSUME Init PROVE Inv
      OBVIOUS
    <2>1. IsTable(turns)
      <3>1. <<>> \in Seq({}) /\ DOMAIN <<>> = {}
        OBVIOUS
      <3>. QED
        BY <3>1 DEF Init, IsTable
    <2>2. Frames(work, turns, grants)
      BY DEF Init, Frames, Fits, Asking, Free
    <2>3. DOMAIN ran = {}
      BY DEF Init
    <2>. QED
      BY <2>1, <2>2, <2>3 DEF Inv
  <1>2. Inv /\ [Next]_vars => Inv'
    <2>. SUFFICES ASSUME Inv, [Next]_vars PROVE Inv'
      OBVIOUS
    <2>1. CASE UNCHANGED vars
      BY <2>1 DEF vars, Inv
    <2>2. CASE UserEdit
      BY <2>2, UserEditKeeps
    <2>3. CASE Crash
      BY <2>3, CrashKeeps
    <2>4. ASSUME NEW w \in Worker, SubmitTurn(w) \/ McpCall(w) \/ AppendOps(w)
          PROVE  Inv'
      BY <2>4, SubmitKeeps, AppendKeeps
    <2>5. ASSUME NEW w \in Worker, Step(w)
          PROVE  Inv'
      BY <2>5, InsertKeeps, CompleteKeeps, NextCallKeeps, ReadKeeps, ToolKeeps, RowKeeps
         DEF Step
    <2>6. ASSUME NEW w \in Worker, Trouble(w)
          PROVE  Inv'
      BY <2>6, EndKeeps, RowKeeps, ToolKeeps DEF Trouble
    <2>7. ASSUME NEW w \in Worker, NEW t \in Turns, NEW i \in DOMAIN turns[t].answer,
                 Approve(w, t, i)
          PROVE  Inv'
      BY <2>7, ApproveKeeps
    <2>. QED
      BY <2>1, <2>2, <2>3, <2>4, <2>5, <2>6, <2>7 DEF Next
  <1>. QED
    BY <1>1, <1>2, PTL DEF Spec

\* A tool that writes or costs money is executed in a turn only after a person
\* approved that very call, however many requests there are (turn.go: the
\* loop stops at it, and Approve looks for the call the turn waits for).
THEOREM ApprovedFirst == Spec => []OnlyApproved
  <1>1. Inv => OnlyApproved
    BY DEF Inv, Granted, OnlyApproved, Guarded, Name
  <1>. QED
    BY <1>1, Invariance, PTL


-----------------------------------------------------------------------------
(***************************************************************************)
(* Executed once.  As long as nothing failed, and a turn is not approved   *)
(* twice at a time, a turn belongs to one request, which executes its      *)
(* calls in order; a call that waits was not executed.                     *)
(***************************************************************************)
\* No two requests work on the same turn; a request of turn 0 has none.
Alone(frames) ==
  \A v, w \in Worker :
    v # w /\ frames[v].phase # "idle" /\ frames[w].phase # "idle"
      /\ frames[v].turn = frames[w].turn
    => frames[v].turn = 0

\* What the frame of a request owes to what was executed in its turn.
Owes(f, rows, done) ==
  f.phase # "idle" /\ f.turn # 0 =>
    /\ f.for = "submit" =>
         /\ rows[f.turn].status = "running"
         /\ \A k \in done : k[1] = f.turn => k[2] <= f.at
         /\ f.phase \in {"ask", "next", "read"} =>
              \A k \in done : k[1] = f.turn => k[2] < f.at
         /\ f.phase = "save" /\ f.seq # 0 =>
              f.seq = f.at /\ \A k \in done : k[1] = f.turn => k[2] < f.at
    /\ f.for = "approve" =>
         /\ f.phase = "read" => \A k \in done : k[1] = f.turn => k[2] # f.at
         /\ f.phase = "save" => f.seq = 0

\* The call a turn waits for was not executed, unless someone is at it.
Unexecuted(t, rows, done) ==
  rows[t].status = "awaiting" => \A k \in done : k[1] = t => k[2] # rows[t].pending

Untouched(frames, t) == \A w \in Worker : frames[w].phase # "idle" => frames[w].turn # t

Waiting(frames, rows, done) ==
  \A t \in DOMAIN rows : Untouched(frames, t) => Unexecuted(t, rows, done)

Orderly(frames, rows, done) ==
  /\ Alone(frames)
  /\ \A w \in Worker : Owes(frames[w], rows, done)
  /\ Waiting(frames, rows, done)

Once ==
  /\ faults \in Nat
  /\ faults = 0 =>
       /\ Orderly(work, turns, DOMAIN ran)
       /\ \A k \in DOMAIN ran : ran[k] = 1

\* Nothing of the other turns changes.
Elsewhere(rows, more, done, wider, t) ==
  \A u \in DOMAIN more \ {t} :
    /\ u \in DOMAIN rows /\ more[u].status = rows[u].status /\ more[u].pending = rows[u].pending
    /\ \A k \in wider : k[1] = u => k \in done

\* A request moves on with its turn, or takes one that nobody has.
LEMMA OrderlyMoves ==
  ASSUME NEW frames, NEW rows, NEW more, NEW done, NEW wider, NEW given, NEW w \in Worker, NEW g,
         Frames(frames, rows, given), Orderly(frames, rows, done), IsTable(rows), IsTable(more),
         DOMAIN rows \subseteq DOMAIN more,
         NEW t, Elsewhere(rows, more, done, wider, t),
         frames[w].phase # "idle" => frames[w].turn \in {0, t},
         g.phase # "idle" => g.turn \in {0, t},
         \A v \in Worker \ {w} : frames[v].phase # "idle" /\ t # 0 => frames[v].turn # t,
         Owes(g, more, wider),
         g.phase = "idle" /\ t \in DOMAIN more => Unexecuted(t, more, wider),
         g.phase # "idle" /\ g.turn = 0 => frames[w].phase = "idle" \/ frames[w].turn = 0,
         g.phase # "idle" /\ g.turn = 0 => t = 0
  PROVE  Orderly([frames EXCEPT ![w] = g], more, wider)
  <1>. DEFINE next == [frames EXCEPT ![w] = g]
  <1>1. next[w] = g /\ \A v \in Worker \ {w} : next[v] = frames[v]
    BY DEF Frames
  <1>. HIDE DEF next
  <1>2. 0 \notin DOMAIN more
    BY TableRows
  <1>3. Alone(next)
    BY <1>1 DEF Alone, Orderly
  <1>4. ASSUME NEW v \in Worker
        PROVE  Owes(next[v], more, wider)
    <2>1. CASE v = w
      BY <1>1, <2>1
    <2>2. CASE v # w
      <3>1. Owes(frames[v], rows, done) /\ Fits(frames[v], rows, given)
        BY DEF Orderly, Frames
      <3>2. CASE frames[v].phase = "idle" \/ frames[v].turn = 0
        BY <1>1, <2>2, <3>2 DEF Owes
      <3>3. CASE frames[v].phase # "idle" /\ frames[v].turn # 0
        <4>. DEFINE u == frames[v].turn
        <4>1. u \in DOMAIN more \ {t}
          BY <2>2, <3>1, <3>3, <1>2 DEF Fits
        <4>2. more[u].status = rows[u].status /\ \A k \in wider : k[1] = u => k \in done
          BY <4>1 DEF Elsewhere
        <4>. QED
          BY <1>1, <2>2, <3>1, <3>3, <4>2 DEF Owes
      <3>. QED
        BY <3>2, <3>3
    <2>. QED
      BY <2>1, <2>2
  <1>5. ASSUME NEW u \in DOMAIN more, Untouched(next, u)
        PROVE  Unexecuted(u, more, wider)
    <2>1. CASE u = t
      <3>1. g.phase = "idle"
        BY <1>1, <1>2, <1>5, <2>1 DEF Untouched
      <3>. QED
        BY <2>1, <3>1
    <2>2. CASE u # t
      <3>1. u \in DOMAIN rows /\ u # 0
        BY <1>2, <2>2 DEF Elsewhere
      <3>2. Untouched(frames, u)
        BY <1>1, <1>5, <2>2, <3>1 DEF Untouched
      <3>3. Unexecuted(u, rows, done)
        BY <3>1, <3>2 DEF Orderly, Waiting
      <3>. QED
        BY <2>2, <3>3 DEF Elsewhere, Unexecuted
    <2>. QED
      BY <2>1, <2>2
  <1>6. Orderly(next, more, wider)
    BY <1>3, <1>4, <1>5 DEF Orderly, Waiting
  <1>. QED
    BY <1>6 DEF next


\* A request goes on with its own turn, or ends.
LEMMA GoesOn ==
  ASSUME Inv, Once, faults = 0, faults' = 0, NEW w \in Worker, work[w].phase # "idle",
         NEW g, work' = [work EXCEPT ![w] = g], g.phase # "idle" => g.turn = work[w].turn,
         IsTable(turns'), DOMAIN turns' = DOMAIN turns,
         Elsewhere(turns, turns', DOMAIN ran, DOMAIN ran', work[w].turn),
         Owes(g, turns', DOMAIN ran'),
         g.phase = "idle" /\ work[w].turn \in DOMAIN turns =>
           Unexecuted(work[w].turn, turns', DOMAIN ran'),
         \A k \in DOMAIN ran' : ran'[k] = 1
  PROVE  Once'
  <1>1. Frames(work, turns, grants) /\ Orderly(work, turns, DOMAIN ran) /\ IsTable(turns)
    BY DEF Inv, Once
  <1>2. \A v \in Worker \ {w} :
          work[v].phase # "idle" /\ work[w].turn # 0 => work[v].turn # work[w].turn
    BY <1>1 DEF Orderly, Alone
  <1>3. Orderly([work EXCEPT ![w] = g], turns', DOMAIN ran')
    BY <1>1, <1>2, OrderlyMoves
  <1>. QED
    BY <1>3 DEF Once

LEMMA SameElsewhere ==
  ASSUME NEW rows, NEW done, NEW t
  PROVE  Elsewhere(rows, rows, done, done, t)
  BY DEF Elsewhere

\* What was executed is a call of a turn, and its index a number.
LEMMA KeysTyped ==
  ASSUME Inv, NEW k \in DOMAIN ran
  PROVE  k[1] \in DOMAIN turns /\ k[2] \in Nat \ {0}
  <1>1. k[1] \in DOMAIN turns /\ k[2] \in DOMAIN turns[k[1]].answer
    BY DEF Inv, Granted
  <1>. PICK S : turns[k[1]].answer \in Seq(S)
    BY <1>1 DEF Inv, IsTable, IsRow
  <1>2. k[2] \in 1..Len(turns[k[1]].answer) /\ Len(turns[k[1]].answer) \in Nat
    BY <1>1, LenProperties
  <1>. QED
    BY <1>1, <1>2

LEMMA OwesSame ==
  ASSUME NEW f, NEW g, NEW rows, NEW done,
         Owes(f, rows, done), f.phase \in ToolPhases, SameCall(f, g)
  PROVE  Owes(g, rows, done)
  BY DEF Owes, SameCall, ToolPhases

LEMMA MissedOrderly ==
  ASSUME NEW frames, NEW rows, NEW given, NEW done, NEW ops,
         Frames(frames, rows, given), Orderly(frames, rows, done)
  PROVE  Orderly(Missed(frames, ops), rows, done)
  <1>. DEFINE next == Missed(frames, ops)
  <1>1. ASSUME NEW v \in Worker
        PROVE  /\ Owes(next[v], rows, done)
               /\ next[v].phase = frames[v].phase
               /\ frames[v].phase # "idle" => next[v].turn = frames[v].turn
    <2>1. Owes(frames[v], rows, done)
      BY DEF Orderly
    <2>2. frames[v].phase = "idle" \/ IsFrame(frames[v])
      BY DEF Frames, Fits
    <2>3. \/ next[v] = frames[v]
          \/ /\ IsFrame(next[v]) /\ next[v].phase = frames[v].phase
             /\ next[v].for = frames[v].for /\ next[v].turn = frames[v].turn
             /\ next[v].at = frames[v].at /\ next[v].phase \in {"store", "append"}
      BY <2>2, MissedSame
    <2>. HIDE DEF next
    <2>. QED
      BY <2>1, <2>3 DEF Owes
  <1>. HIDE DEF next
  <1>2. Alone(next)
    BY <1>1 DEF Orderly, Alone
  <1>3. Waiting(next, rows, done)
    BY <1>1 DEF Orderly, Waiting, Untouched
  <1>4. Orderly(next, rows, done)
    BY <1>1, <1>2, <1>3 DEF Orderly
  <1>. QED
    BY <1>4 DEF next

\* After a failure nothing is claimed.
LEMMA FaultOnce ==
  ASSUME Once, Fault
  PROVE  Once'
  BY DEF Once, Fault

LEMMA TroubleOnce ==
  ASSUME Once, NEW w \in Worker, Trouble(w)
  PROVE  Once'
  BY FaultOnce DEF Trouble, LoseUserItem, failTurn, StepFails, LoseResult, SaveFails

LEMMA SubmitOnce ==
  ASSUME Inv, Once, NEW w \in Worker, SubmitTurn(w) \/ McpCall(w)
  PROVE  Once'
  <1>1. PICK g : /\ work' = [work EXCEPT ![w] = g] /\ g.turn = 0
                 /\ g.phase # "idle"
    <2>1. CASE SubmitTurn(w)
      <3>1. [Frame("insert", "submit", 0, 0, None) EXCEPT !.seq = MaxSeq + 1]
              = [phase |-> "insert", for |-> "submit", turn |-> 0, at |-> 0, call |-> None,
                 plan |-> Answer, missed |-> {}, result |-> "ok", seq |-> MaxSeq + 1]
        BY DEF Frame
      <3>. QED
        BY <2>1, <3>1 DEF SubmitTurn, Become
    <2>2. CASE McpCall(w)
      <3>1. PICK call : work' = [work EXCEPT ![w] = Frame("read", "mcp", 0, 0, call)]
        BY <2>2 DEF McpCall, Become
      <3>. DEFINE g == Frame("read", "mcp", 0, 0, call)
      <3>2. g.turn = 0 /\ g.phase = "read"
        BY DEF Frame
      <3>. HIDE DEF g
      <3>3. work' = [work EXCEPT ![w] = g]
        BY <3>1 DEF g
      <3>. QED
        BY <3>2, <3>3
    <2>. QED
      BY <2>1, <2>2
  <1>2. work[w].phase = "idle" /\ UNCHANGED <<turns, ran, faults>>
    BY DEF SubmitTurn, McpCall, At, history, bounds, database
  <1>3. CASE faults = 0
    <2>1. Frames(work, turns, grants) /\ Orderly(work, turns, DOMAIN ran) /\ IsTable(turns)
      BY <1>3 DEF Inv, Once
    <2>2. Owes(g, turns, DOMAIN ran)
      BY <1>1 DEF Owes
    <2>3. Elsewhere(turns, turns, DOMAIN ran, DOMAIN ran, 0)
      BY SameElsewhere
    <2>4. Orderly([work EXCEPT ![w] = g], turns, DOMAIN ran)
      BY <1>1, <1>2, <2>1, <2>2, <2>3, OrderlyMoves
    <2>. QED
      BY <1>1, <1>2, <2>4 DEF Once
  <1>4. CASE faults # 0
    BY <1>2, <1>4 DEF Once
  <1>. QED
    BY <1>3, <1>4


\* The new turn has no request yet, and none of its calls was executed.
LEMMA InsertOnce ==
  ASSUME Inv, Once, NEW w \in Worker, InsertTurn(w)
  PROVE  Once'
  <1>. DEFINE r == [status |-> "running", seq |-> work[w].seq, answer |-> <<>>,
                    pending |-> 0, results |-> <<>>]
              t == Len(turns) + 1
              g == Frame("ask", "submit", t, 1, None)
  <1>1. IsRow(r) /\ r.status = "running"
    <2>1. <<>> \in Seq({})
      OBVIOUS
    <2>. QED
      BY <2>1 DEF IsRow
  <1>2. /\ turns' = Append(turns, r) /\ work' = [work EXCEPT ![w] = g]
        /\ UNCHANGED <<ran, faults>> /\ work[w].phase = "insert"
    BY DEF InsertTurn, Become, At, history, bounds
  <1>. HIDE DEF r
  <1>3. /\ IsTable(turns') /\ DOMAIN turns' = DOMAIN turns \union {t}
        /\ \A u \in DOMAIN turns : turns'[u] = turns[u]
        /\ turns'[t] = r /\ t \notin DOMAIN turns
    BY <1>1, <1>2, RowAppended DEF Inv
  <1>4. t # 0 /\ IsTable(turns)
    BY TableRows DEF Inv
  <1>. HIDE DEF t
  <1>5. g.phase = "ask" /\ g.for = "submit" /\ g.turn = t
    BY DEF Frame
  <1>. HIDE DEF g
  <1>6. \A v \in Worker : work[v].phase # "idle" => work[v].turn # t
    <2>. SUFFICES ASSUME NEW v \in Worker, work[v].phase # "idle"
                  PROVE  work[v].turn # t
      OBVIOUS
    <2>1. work[v].turn = 0 \/ work[v].turn \in DOMAIN turns
      BY WorkingFits DEF Fits
    <2>. QED
      BY <1>3, <1>4, <2>1
  <1>7. work[w].turn = 0
    BY <1>2, WorkingFits DEF Fits
  <1>8. \A k \in DOMAIN ran : k[1] # t
    BY <1>3, KeysTyped
  <1>9. Owes(g, turns', DOMAIN ran)
    BY <1>1, <1>3, <1>5, <1>8 DEF Owes
  <1>10. Elsewhere(turns, turns', DOMAIN ran, DOMAIN ran, t)
    BY <1>3 DEF Elsewhere
  <1>11. CASE faults = 0
    <2>1. Frames(work, turns, grants) /\ Orderly(work, turns, DOMAIN ran)
      BY <1>11 DEF Inv, Once
    <2>2. Orderly([work EXCEPT ![w] = g], turns', DOMAIN ran)
      BY <1>3, <1>4, <1>5, <1>6, <1>7, <1>9, <1>10, <2>1, OrderlyMoves
    <2>. QED
      BY <1>2, <1>11, <2>2 DEF Once
  <1>12. CASE faults # 0
    BY <1>2, <1>12 DEF Once
  <1>. QED
    BY <1>11, <1>12

LEMMA CompleteOnce ==
  ASSUME Inv, Inv', Once, NEW w \in Worker, Complete(w)
  PROVE  Once'
  <1>. DEFINE f == work[w]
              g == [f EXCEPT !.phase = "next"]
              t == f.turn
  <1>1. PICK a \in Answers : turns' = [turns EXCEPT ![t].answer = a,
                                        ![t].results = [i \in DOMAIN a |-> "none"]]
    BY DEF Complete
  <1>2. f.phase = "ask" /\ work' = [work EXCEPT ![w] = g] /\ UNCHANGED <<ran, faults>>
    BY DEF Complete, At, Become, history, bounds
  <1>3. Fits(f, turns, grants) /\ IsFrame(f)
    BY <1>2, WorkingFits
  <1>4. t \in DOMAIN turns /\ f.for = "submit" /\ IsTable(turns) /\ IsTable(turns')
    BY <1>2, <1>3 DEF Fits, ToolPhases, Inv
  <1>5. IsRow(turns[t])
    BY <1>4 DEF IsTable
  <1>6. PICK r : r = [turns[t] EXCEPT !.answer = a, !.results = [i \in DOMAIN a |-> "none"]]
    OBVIOUS
  <1>7. r.status = turns[t].status /\ turns' = [turns EXCEPT ![t] = r]
    BY <1>1, <1>4, <1>5, <1>6 DEF IsRow
  <1>8. DOMAIN turns' = DOMAIN turns /\ turns'[t].status = turns[t].status
        /\ Elsewhere(turns, turns', DOMAIN ran, DOMAIN ran', t)
    BY <1>2, <1>4, <1>7 DEF Elsewhere
  <1>9. g.phase = "next" /\ g.for = "submit" /\ g.turn = t /\ g.at = f.at
    BY <1>3, <1>4 DEF IsFrame
  <1>. HIDE DEF g
  <1>10. CASE faults = 0
    <2>1. Owes(f, turns, DOMAIN ran)
      BY <1>10 DEF Once, Orderly
    <2>2. Owes(g, turns', DOMAIN ran')
      BY <1>2, <1>4, <1>8, <1>9, <2>1 DEF Owes
    <2>. QED
      BY <1>2, <1>4, <1>8, <1>9, <1>10, <2>2, GoesOn DEF Once
  <1>11. CASE faults # 0
    BY <1>2, <1>11 DEF Once
  <1>. QED
    BY <1>10, <1>11

LEMMA NextCallOnce ==
  ASSUME Inv, Once, NEW w \in Worker, NextCall(w)
  PROVE  Once'
  <1>. DEFINE f == work[w]
              t == f.turn
  <1>1. f.phase = "next" /\ UNCHANGED <<turns, ran, faults>>
    BY DEF NextCall, At, history, bounds
  <1>2. IsFrame(f) /\ f.for = "submit" /\ t \in DOMAIN turns /\ t # 0 /\ f.at \in Nat \ {0}
    BY <1>1, WorkingFits, TableRows DEF Fits, Inv, ToolPhases
  <1>3. PICK g :
          /\ work' = [work EXCEPT ![w] = g]
          /\ g \in {Save(f, 0), Skipped(f), Save(f, f.at), [f EXCEPT !.phase = "read"]}
    BY DEF NextCall, Become
  <1>4. /\ g.for = "submit" /\ g.turn = t
        /\ \/ g.phase = "save" /\ g.seq \in {0, f.at} /\ g.at = f.at
           \/ g.phase = "next" /\ g.at = f.at + 1
           \/ g.phase = "read" /\ g.at = f.at
    <2>1. CASE g = Save(f, 0) \/ g = Save(f, f.at)
      <3>1. PICK n \in {0, f.at} : g = [f EXCEPT !.phase = "save", !.seq = n]
        BY <2>1 DEF Save
      <3>. QED
        BY <1>2, <3>1 DEF IsFrame
    <2>2. CASE g = Skipped(f)
      <3>1. g = [f EXCEPT !.at = f.at + 1]
        BY <2>2 DEF Skipped
      <3>. QED
        BY <1>1, <1>2, <3>1 DEF IsFrame
    <2>3. CASE g = [f EXCEPT !.phase = "read"]
      BY <1>2, <2>3 DEF IsFrame
    <2>. QED
      BY <1>3, <2>1, <2>2, <2>3
  <1>5. CASE faults = 0
    <2>1. Owes(f, turns, DOMAIN ran)
      BY <1>5 DEF Once, Orderly
    <2>2. /\ turns[t].status = "running"
          /\ \A k \in DOMAIN ran : k[1] = t => k[2] < f.at
      BY <1>1, <1>2, <2>1 DEF Owes
    <2>3. \A k \in DOMAIN ran : k[1] = t =>
            k[2] < f.at /\ k[2] <= f.at /\ k[2] < f.at + 1 /\ k[2] <= f.at + 1
      <3>. SUFFICES ASSUME NEW k \in DOMAIN ran, k[1] = t
                    PROVE  k[2] < f.at /\ k[2] <= f.at /\ k[2] < f.at + 1 /\ k[2] <= f.at + 1
        OBVIOUS
      <3>1. k[2] \in Nat /\ f.at \in Nat /\ k[2] < f.at
        BY <1>2, <2>2, KeysTyped
      <3>. QED
        BY <3>1
    <2>4. Owes(g, turns, DOMAIN ran)
      BY <1>4, <2>2, <2>3 DEF Owes
    <2>5. Elsewhere(turns, turns, DOMAIN ran, DOMAIN ran, t) /\ IsTable(turns)
      BY SameElsewhere DEF Inv
    <2>. QED
      BY <1>1, <1>3, <1>4, <1>5, <2>4, <2>5, GoesOn DEF Once
  <1>6. CASE faults # 0
    BY <1>1, <1>6 DEF Once
  <1>. QED
    BY <1>5, <1>6

LEMMA ToolOnce ==
  ASSUME Inv, Once, NEW w \in Worker,
         StoreAttachments(w) \/ TriggerRun(w) \/ CountSkills(w) \/ UpsertSkill(w)
  PROVE  Once'
  <1>. DEFINE f == work[w]
  <1>1. f.phase \in ToolPhases /\ f.phase # "idle" /\ UNCHANGED <<turns, ran, faults>>
    BY DEF StoreAttachments, TriggerRun, CountSkills, UpsertSkill, At, ToolPhases,
           history, database, bounds
  <1>2. IsFrame(f)
    BY <1>1, WorkingFits
  <1>3. PICK g : work' = [work EXCEPT ![w] = g] /\ SameCall(f, g)
    <2>1. SameCall(f, Failing(f)) /\ SameCall(f, [f EXCEPT !.phase = "upsert"])
          /\ \A p \in {"store", "append", "run", "skill"} : SameCall(f, Following(f, p))
      BY <1>2, FailingSame, PhaseSame, FollowingSame DEF ToolPhases
    <2>2. \E g \in {Failing(f), [f EXCEPT !.phase = "upsert"], Following(f, "store"),
                    Following(f, "run"), Following(f, "skill")} :
            work' = [work EXCEPT ![w] = g]
      BY DEF StoreAttachments, TriggerRun, CountSkills, UpsertSkill, Become
    <2>. QED
      BY <2>1, <2>2
  <1>4. g.turn = f.turn /\ g.phase # "idle"
    BY <1>3 DEF SameCall, ToolPhases
  <1>5. CASE faults = 0
    <2>1. Owes(g, turns, DOMAIN ran)
      BY <1>1, <1>3, <1>5, OwesSame DEF Once, Orderly
    <2>2. Elsewhere(turns, turns, DOMAIN ran, DOMAIN ran, f.turn) /\ IsTable(turns)
      BY SameElsewhere DEF Inv
    <2>. QED
      BY <1>1, <1>3, <1>4, <1>5, <2>1, <2>2, GoesOn DEF Once
  <1>6. CASE faults # 0
    BY <1>1, <1>6 DEF Once
  <1>. QED
    BY <1>5, <1>6


LEMMA AppendOnce ==
  ASSUME Inv, Once, NEW w \in Worker, AppendOps(w)
  PROVE  Once'
  <1>. DEFINE f == work[w]
  <1>1. f.phase = "append" /\ UNCHANGED <<turns, ran, faults>>
    BY DEF AppendOps, At, bounds
  <1>2. IsFrame(f)
    BY <1>1, WorkingFits
  <1>3. PICK frames, g :
          /\ work' = [frames EXCEPT ![w] = g]
          /\ frames \in {work, Missed(work, f.plan.ops)}
          /\ g \in {Following(f, "append"), Failing(f)}
    <2>1. \E accepted, next :
            work' = [(IF next # Rejected THEN Missed(work, f.plan.ops) ELSE work) EXCEPT
                       ![w] = IF accepted THEN Following(f, "append") ELSE Failing(f)]
      BY DEF AppendOps
    <2>. QED
      BY <2>1
  <1>4. SameCall(f, g)
    BY <1>2, <1>3, FailingSame, FollowingSame
  <1>5. g.turn = f.turn /\ g.phase # "idle"
    BY <1>4 DEF SameCall, ToolPhases
  <1>6. CASE faults = 0
    <2>1. Frames(work, turns, grants) /\ Orderly(work, turns, DOMAIN ran) /\ IsTable(turns)
      BY <1>6 DEF Inv, Once
    <2>2. Owes(g, turns, DOMAIN ran)
      BY <1>1, <1>4, <2>1, OwesSame DEF Orderly, ToolPhases
    <2>3. /\ Frames(frames, turns, grants) /\ Orderly(frames, turns, DOMAIN ran)
          /\ frames[w].phase = f.phase /\ frames[w].turn = f.turn
      <3>1. CASE frames = work
        BY <2>1, <3>1
      <3>2. CASE frames = Missed(work, f.plan.ops)
        <4>1. Frames(frames, turns, grants)
          BY <2>1, <3>2, MissedFrames
        <4>2. Orderly(frames, turns, DOMAIN ran)
          BY <2>1, <3>2, MissedOrderly
        <4>3. PICK h : h = frames[w]
          OBVIOUS
        <4>4. h.phase = f.phase /\ h.turn = f.turn
          BY <1>2, <3>2, <4>3, MissedSame
        <4>. QED
          BY <4>1, <4>2, <4>3, <4>4
      <3>. QED
        BY <1>3, <3>1, <3>2
    <2>4. \A v \in Worker \ {w} :
            frames[v].phase # "idle" /\ f.turn # 0 => frames[v].turn # f.turn
      BY <1>1, <2>3 DEF Orderly, Alone
    <2>5. Elsewhere(turns, turns, DOMAIN ran, DOMAIN ran, f.turn)
      BY SameElsewhere
    <2>6. Orderly([frames EXCEPT ![w] = g], turns, DOMAIN ran)
      BY <1>5, <2>1, <2>2, <2>3, <2>4, <2>5, OrderlyMoves
    <2>. QED
      BY <1>1, <1>3, <1>6, <2>6 DEF Once
  <1>7. CASE faults # 0
    BY <1>1, <1>7 DEF Once
  <1>. QED
    BY <1>6, <1>7

LEMMA UserEditOnce ==
  ASSUME Inv, Once, UserEdit
  PROVE  Once'
  <1>1. UNCHANGED <<turns, ran, faults>>
    BY DEF UserEdit, history
  <1>2. PICK ops : work' = Missed(work, ops)
    BY DEF UserEdit
  <1>3. CASE faults = 0
    <2>1. Frames(work, turns, grants) /\ Orderly(work, turns, DOMAIN ran)
      BY <1>3 DEF Inv, Once
    <2>2. Orderly(work', turns, DOMAIN ran)
      BY <1>2, <2>1, MissedOrderly
    <2>. QED
      BY <1>1, <1>3, <2>2 DEF Once
  <1>4. CASE faults # 0
    BY <1>1, <1>4 DEF Once
  <1>. QED
    BY <1>3, <1>4

\* The step that executes: its call is new in the turn.
LEMMA ReadOnce ==
  ASSUME Inv, Once, NEW w \in Worker, Read(w)
  PROVE  Once'
  <1>. DEFINE f == work[w]
              t == f.turn
  <1>1. f.phase = "read" /\ UNCHANGED <<turns, faults>> /\ ran' = Counted(f)
    BY DEF Read, At, bounds
  <1>2. IsFrame(f) /\ Fits(f, turns, grants)
    BY <1>1, WorkingFits
  <1>3. PICK plan : work' = [work EXCEPT ![w] = Started(f, plan)]
    BY DEF Read, Become
  <1>. DEFINE g == Started(f, plan)
  <1>4. SameCall(f, g)
    BY <1>2, StartedSame
  <1>. HIDE DEF g
  <1>5. g.turn = t /\ g.at = f.at /\ g.for = f.for /\ g.phase \in ToolPhases \ {"read"}
        /\ g.phase # "idle"
    BY <1>4 DEF SameCall, ToolPhases
  <1>6. IsTable(turns)
    BY DEF Inv
  <1>7. CASE faults = 0 /\ t = 0
    <2>1. ran' = ran
      BY <1>1, <1>7 DEF Counted
    <2>2. Owes(g, turns, DOMAIN ran)
      BY <1>5, <1>7 DEF Owes
    <2>3. Elsewhere(turns, turns, DOMAIN ran, DOMAIN ran, t)
      BY SameElsewhere
    <2>4. \A k \in DOMAIN ran' : ran'[k] = 1
      BY <1>7, <2>1 DEF Once
    <2>. QED
      BY <1>1, <1>3, <1>5, <1>6, <1>7, <2>1, <2>2, <2>3, <2>4, GoesOn DEF g
  <1>8. CASE faults = 0 /\ t # 0
    <2>1. Owes(f, turns, DOMAIN ran) /\ \A k \in DOMAIN ran : ran[k] = 1
      BY <1>8 DEF Once, Orderly
    <2>2. f.for \in {"submit", "approve"} /\ f.at \in DOMAIN turns[t].answer /\ t \in DOMAIN turns
      BY <1>1, <1>2, <1>8 DEF Fits, ToolPhases
    <2>3. f.at \in Nat
      <3>. PICK S : turns[t].answer \in Seq(S)
        BY <1>6, <2>2 DEF IsTable, IsRow
      <3>1. f.at \in 1..Len(turns[t].answer) /\ Len(turns[t].answer) \in Nat
        BY <2>2, LenProperties
      <3>. QED
        BY <3>1
    <2>4. ASSUME NEW k \in DOMAIN ran, k[1] = t
          PROVE  k[2] # f.at /\ (f.for = "submit" => k[2] <= f.at)
      <3>1. k[2] \in Nat
        BY KeysTyped
      <3>2. CASE f.for = "submit"
        <4>1. k[2] < f.at
          BY <1>1, <1>8, <2>1, <2>4, <3>2 DEF Owes
        <4>. QED
          BY <2>3, <3>1, <4>1
      <3>3. CASE f.for = "approve"
        BY <1>1, <1>8, <2>1, <2>4, <3>3 DEF Owes
      <3>. QED
        BY <2>2, <3>2, <3>3
    <2>. DEFINE key == <<t, f.at>>
    <2>5. key[1] = t /\ key[2] = f.at
      OBVIOUS
    <2>6. DOMAIN ran' = DOMAIN ran \union {key}
          /\ \A k \in DOMAIN ran' :
               ran'[k] = (IF k \in DOMAIN ran THEN ran[k] ELSE 0) + IF k = key THEN 1 ELSE 0
      BY <1>1, <1>8 DEF Counted, Key2
    <2>. HIDE DEF key
    <2>7. key \notin DOMAIN ran
      BY <2>4, <2>5
    <2>8. \A k \in DOMAIN ran' : ran'[k] = 1
      BY <2>1, <2>6, <2>7
    <2>9. \A k \in DOMAIN ran' : k[1] = t => k[2] = f.at \/ (f.for = "submit" => k[2] <= f.at)
      BY <2>4, <2>5, <2>6
    <2>10. \A k \in DOMAIN ran' : k[1] = t /\ f.for = "submit" => k[2] <= f.at
      BY <2>3, <2>9
    <2>11. f.for = "submit" => turns[t].status = "running"
      BY <1>1, <1>8, <2>1 DEF Owes
    <2>12. Owes(g, turns, DOMAIN ran')
      BY <1>5, <2>10, <2>11 DEF Owes, ToolPhases
    <2>13. Elsewhere(turns, turns, DOMAIN ran, DOMAIN ran', t)
      BY <2>5, <2>6 DEF Elsewhere
    <2>. QED
      BY <1>1, <1>3, <1>5, <1>6, <1>8, <2>8, <2>12, <2>13, GoesOn DEF g
  <1>9. CASE faults # 0
    BY <1>1, <1>9 DEF Once
  <1>. QED
    BY <1>7, <1>8, <1>9


LEMMA RecordOnce ==
  ASSUME Inv, Inv', Once, NEW w \in Worker, Record(w)
  PROVE  Once'
  <1>. DEFINE f == work[w]
              t == f.turn
  <1>1. f.phase = "record" /\ UNCHANGED <<ran, faults>> /\ Recorded(w, TRUE)
    BY DEF Record, Recorded, At, history, bounds
  <1>2. Fits(f, turns, grants) /\ IsFrame(f) /\ IsTable(turns) /\ IsTable(turns')
    BY <1>1, WorkingFits DEF Inv
  <1>3. /\ DOMAIN turns' = DOMAIN turns
        /\ \A u \in DOMAIN turns : turns'[u].status = turns[u].status
                                   /\ turns'[u].pending = turns[u].pending
    <2>1. CASE turns' = turns
      BY <2>1
    <2>2. CASE turns' = [turns EXCEPT ![f.turn].results[f.at] = f.result] /\ t \in DOMAIN turns
      <3>. DEFINE rs == [turns[t].results EXCEPT ![f.at] = f.result]
      <3>1. turns' = [turns EXCEPT ![t] = [turns[t] EXCEPT !.results = rs]]
        BY <2>2
      <3>. HIDE DEF rs
      <3>2. PICK r : r = [turns[t] EXCEPT !.results = rs]
        OBVIOUS
      <3>3. r.status = turns[t].status /\ r.pending = turns[t].pending
        BY <1>2, <2>2, <3>2 DEF IsTable, IsRow
      <3>. QED
        BY <2>2, <3>1, <3>2, <3>3
    <2>3. t = 0 \/ t \in DOMAIN turns
      BY <1>1, <1>2 DEF Fits
    <2>. QED
      BY <1>1, <2>1, <2>2, <2>3 DEF Recorded
  <1>4. Elsewhere(turns, turns', DOMAIN ran, DOMAIN ran', t)
    BY <1>1, <1>3 DEF Elsewhere
  <1>5. PICK g :
          /\ work' = [work EXCEPT ![w] = g]
          /\ g = CASE f.for = "submit"  -> [Frame("next", "submit", f.turn, f.at + 1, None)
                                              EXCEPT !.seq = 0]
                   [] f.for = "approve" -> Save(f, 0)
                   [] f.for = "mcp"     -> Free
    BY <1>1 DEF Recorded, Become
  <1>6. f.for \in {"submit", "approve", "mcp"}
    BY <1>1, <1>2 DEF Fits
  <1>7. \/ f.for = "submit" /\ g.for = "submit" /\ g.phase = "next" /\ g.turn = t /\ g.at = f.at + 1
        \/ f.for = "approve" /\ g.for = "approve" /\ g.phase = "save" /\ g.turn = t /\ g.seq = 0
        \/ f.for = "mcp" /\ g.phase = "idle"
    <2>1. CASE f.for = "submit"
      <3>1. g = [phase |-> "next", for |-> "submit", turn |-> f.turn, at |-> f.at + 1,
                 call |-> None, plan |-> Answer, missed |-> {}, result |-> "ok", seq |-> 0]
        BY <1>5, <2>1 DEF Frame
      <3>. QED
        BY <2>1, <3>1
    <2>2. CASE f.for = "approve"
      <3>1. g = [f EXCEPT !.phase = "save", !.seq = 0]
        BY <1>5, <2>2 DEF Save
      <3>. QED
        BY <1>2, <2>2, <3>1 DEF IsFrame
    <2>3. CASE f.for = "mcp"
      BY <1>5, <2>3 DEF Free
    <2>. QED
      BY <1>6, <2>1, <2>2, <2>3
  <1>8. g.phase = "idle" => t \notin DOMAIN turns
    <2>1. 0 \notin DOMAIN turns
      BY <1>2, TableRows
    <2>2. f.for = "mcp" => t = 0
      BY <1>1, <1>2 DEF Fits
    <2>. QED
      BY <1>7, <2>1, <2>2
  <1>9. CASE faults = 0
    <2>1. Owes(f, turns, DOMAIN ran)
      BY <1>9 DEF Once, Orderly
    <2>2. CASE t = 0
      <3>1. Owes(g, turns', DOMAIN ran')
        BY <1>7, <2>2 DEF Owes
      <3>. QED
        BY <1>1, <1>2, <1>3, <1>4, <1>5, <1>7, <1>8, <1>9, <3>1, GoesOn DEF Once
    <2>3. CASE t # 0
      <3>1. f.for = "submit" =>
              /\ t \in DOMAIN turns /\ turns'[t].status = "running"
              /\ \A k \in DOMAIN ran : k[1] = t => k[2] < f.at + 1 /\ k[2] <= f.at + 1
        <4>. SUFFICES ASSUME f.for = "submit"
                      PROVE  /\ t \in DOMAIN turns /\ turns'[t].status = "running"
                             /\ \A k \in DOMAIN ran :
                                  k[1] = t => k[2] < f.at + 1 /\ k[2] <= f.at + 1
          OBVIOUS
        <4>1. t \in DOMAIN turns /\ f.at \in DOMAIN turns[t].answer
          BY <1>1, <1>2 DEF Fits, ToolPhases
        <4>. PICK S : turns[t].answer \in Seq(S)
          BY <1>2, <4>1 DEF IsTable, IsRow
        <4>2. f.at \in 1..Len(turns[t].answer) /\ Len(turns[t].answer) \in Nat
          BY <4>1, LenProperties
        <4>3. f.at \in Nat
          BY <4>2
        <4>4. turns'[t].status = "running"
          BY <1>1, <1>3, <2>1, <2>3, <4>1 DEF Owes
        <4>5. ASSUME NEW k \in DOMAIN ran, k[1] = t
              PROVE  k[2] < f.at + 1 /\ k[2] <= f.at + 1
          <5>1. k[2] \in Nat /\ k[2] <= f.at
            BY <1>1, <2>1, <2>3, <4>5, KeysTyped DEF Owes
          <5>. QED
            BY <4>3, <5>1
        <4>. QED
          BY <4>1, <4>4, <4>5
      <3>2. Owes(g, turns', DOMAIN ran)
        BY <1>7, <3>1 DEF Owes
      <3>3. Owes(g, turns', DOMAIN ran')
        BY <1>1, <3>2
      <3>. QED
        BY <1>1, <1>2, <1>3, <1>4, <1>5, <1>7, <1>8, <1>9, <3>3, GoesOn DEF Once
    <2>. QED
      BY <2>2, <2>3
  <1>10. CASE faults # 0
    BY <1>1, <1>10 DEF Once
  <1>. QED
    BY <1>9, <1>10

\* A turn that is saved as waiting waits for a call that was not executed.
LEMMA SaveOnce ==
  ASSUME Inv, Inv', Once, NEW w \in Worker, SaveTurn(w)
  PROVE  Once'
  <1>. DEFINE f == work[w]
              t == f.turn
  <1>1. f.phase = "save" /\ UNCHANGED <<ran, faults>> /\ work' = [work EXCEPT ![w] = Free]
    BY DEF SaveTurn, At, history, bounds, Become
  <1>2. /\ IsFrame(f) /\ t \in DOMAIN turns /\ f.for \in {"submit", "approve"}
        /\ IsTable(turns) /\ IsTable(turns') /\ t # 0
    BY <1>1, WorkingFits, TableRows DEF Fits, ToolPhases, Inv
  <1>3. PICK r : r = [turns[t] EXCEPT !.status = IF f.seq = 0 THEN "done" ELSE "awaiting",
                                      !.pending = f.seq]
    OBVIOUS
  <1>4. turns' = [turns EXCEPT ![t] = r]
    BY <1>2, <1>3 DEF SaveTurn
  <1>5. r.status = (IF f.seq = 0 THEN "done" ELSE "awaiting") /\ r.pending = f.seq
    BY <1>2, <1>3 DEF IsTable, IsRow
  <1>6. /\ DOMAIN turns' = DOMAIN turns /\ turns'[t] = r
        /\ Elsewhere(turns, turns', DOMAIN ran, DOMAIN ran', t)
    BY <1>1, <1>2, <1>4 DEF Elsewhere
  <1>7. Free.phase = "idle"
    BY DEF Free
  <1>8. CASE faults = 0
    <2>1. Owes(f, turns, DOMAIN ran)
      BY <1>8 DEF Once, Orderly
    <2>2. Owes(Free, turns', DOMAIN ran')
      BY <1>7 DEF Owes
    <2>3. Unexecuted(t, turns', DOMAIN ran')
      <3>1. CASE f.seq = 0
        BY <1>5, <1>6, <3>1 DEF Unexecuted
      <3>2. CASE f.seq # 0
        <4>1. f.seq = f.at /\ \A k \in DOMAIN ran : k[1] = t => k[2] < f.at
          BY <1>1, <1>2, <2>1, <3>2 DEF Owes
        <4>2. \A k \in DOMAIN ran : k[1] = t => k[2] # f.seq
          BY <4>1, KeysTyped
        <4>. QED
          BY <1>1, <1>5, <1>6, <4>2 DEF Unexecuted
      <3>. QED
        BY <3>1, <3>2
    <2>. QED
      BY <1>1, <1>2, <1>6, <1>7, <1>8, <2>2, <2>3, GoesOn DEF Once
  <1>9. CASE faults # 0
    BY <1>1, <1>9 DEF Once
  <1>. QED
    BY <1>8, <1>9

\* The one place that needs OneApprover: nobody else is at the turn.
LEMMA ApproveOnce ==
  ASSUME OneApprover, Inv, Once, NEW w \in Worker, NEW t \in Turns,
         NEW i \in DOMAIN turns[t].answer, Approve(w, t, i)
  PROVE  Once'
  <1>1. /\ UNCHANGED <<turns, ran, faults>> /\ t \in DOMAIN turns /\ t # 0
        /\ IsTable(turns) /\ work[w].phase = "idle"
    BY TableRows DEF Approve, Turns, Inv, At, bounds
  <1>2. /\ turns[t].status = "awaiting" /\ turns[t].pending = i
        /\ Untouched(work, t)
    BY DEF Approve, Awaits, Untouched
  <1>3. PICK yes \in Granting :
          Become(w, IF yes THEN Frame("read", "approve", t, i, None)
                    ELSE [Frame("record", "approve", t, i, None) EXCEPT !.result = "denied"])
    BY DEF Approve
  <1>4. PICK g :
          /\ work' = [work EXCEPT ![w] = g]
          /\ g.for = "approve" /\ g.turn = t /\ g.at = i /\ g.phase \in {"read", "record"}
    <2>1. CASE yes
      <3>. DEFINE g == Frame("read", "approve", t, i, None)
      <3>1. g.for = "approve" /\ g.turn = t /\ g.at = i /\ g.phase = "read"
        BY DEF Frame
      <3>2. work' = [work EXCEPT ![w] = g]
        BY <1>3, <2>1 DEF Become
      <3>. HIDE DEF g
      <3>. QED
        BY <3>1, <3>2
    <2>2. CASE ~yes
      <3>. DEFINE g == [Frame("record", "approve", t, i, None) EXCEPT !.result = "denied"]
      <3>1. g = [phase |-> "record", for |-> "approve", turn |-> t, at |-> i, call |-> None,
                 plan |-> Answer, missed |-> {}, result |-> "denied", seq |-> 0]
        BY DEF Frame
      <3>2. g.for = "approve" /\ g.turn = t /\ g.at = i /\ g.phase = "record"
        BY <3>1
      <3>3. work' = [work EXCEPT ![w] = g]
        BY <1>3, <2>2 DEF Become
      <3>. HIDE DEF g
      <3>. QED
        BY <3>2, <3>3
    <2>. QED
      BY <2>1, <2>2
  <1>5. CASE faults = 0
    <2>1. Frames(work, turns, grants) /\ Orderly(work, turns, DOMAIN ran)
      BY <1>5 DEF Inv, Once
    <2>2. \A k \in DOMAIN ran : k[1] = t => k[2] # i
      BY <1>1, <1>2, <2>1 DEF Orderly, Waiting, Unexecuted
    <2>3. Owes(g, turns, DOMAIN ran)
      BY <1>4, <2>2 DEF Owes
    <2>4. Elsewhere(turns, turns, DOMAIN ran, DOMAIN ran, t)
      BY SameElsewhere
    <2>5. Orderly([work EXCEPT ![w] = g], turns, DOMAIN ran)
      BY <1>1, <1>2, <1>4, <2>1, <2>3, <2>4, OrderlyMoves DEF Untouched
    <2>. QED
      BY <1>1, <1>4, <1>5, <2>5 DEF Once
  <1>6. CASE faults # 0
    BY <1>1, <1>6 DEF Once
  <1>. QED
    BY <1>5, <1>6

-----------------------------------------------------------------------------
\* A call of a turn is executed at most once unless something failed or the
\* process crashed, provided a turn is not approved twice at a time: Approve
\* reads the turn, executes, and only then settles it (turn.go).
THEOREM OnceOnly == ASSUME OneApprover PROVE Spec => []ExecutedOnce
  <1>1. Init => Once
    <2>. SUFFICES ASSUME Init PROVE Once
      OBVIOUS
    <2>1. DOMAIN turns = {} /\ DOMAIN ran = {} /\ faults = 0 /\ \A w \in Worker : work[w].phase = "idle"
      BY DEF Init, Free
    <2>2. Orderly(work, turns, DOMAIN ran)
      BY <2>1 DEF Orderly, Alone, Owes, Waiting
    <2>. QED
      BY <2>1, <2>2 DEF Once
  <1>2. Inv /\ Inv' /\ Once /\ [Next]_vars => Once'
    <2>. SUFFICES ASSUME Inv, Inv', Once, [Next]_vars PROVE Once'
      OBVIOUS
    <2>1. CASE UNCHANGED vars
      BY <2>1 DEF vars, Once
    <2>2. CASE UserEdit
      BY <2>2, UserEditOnce
    <2>3. ASSUME NEW w \in Worker, SubmitTurn(w) \/ McpCall(w) \/ AppendOps(w)
          PROVE  Once'
      BY <2>3, SubmitOnce, AppendOnce
    <2>4. ASSUME NEW w \in Worker, Step(w)
          PROVE  Once'
      BY <2>4, InsertOnce, CompleteOnce, NextCallOnce, ReadOnce, ToolOnce, RecordOnce, SaveOnce
         DEF Step
    <2>5. ASSUME NEW w \in Worker, Trouble(w)
          PROVE  Once'
      BY <2>5, TroubleOnce
    <2>6. CASE Crash
      BY <2>6, FaultOnce DEF Crash
    <2>7. ASSUME NEW w \in Worker, NEW t \in Turns, NEW i \in DOMAIN turns[t].answer,
                 Approve(w, t, i)
          PROVE  Once'
      BY <2>7, ApproveOnce
    <2>. QED
      BY <2>1, <2>2, <2>3, <2>4, <2>5, <2>6, <2>7 DEF Next
  <1>3. Once => ExecutedOnce
    BY DEF Once, ExecutedOnce
  <1>. QED
    BY <1>1, <1>2, <1>3, Invariance, PTL DEF Spec

-----------------------------------------------------------------------------
(***************************************************************************)
(* Plans.  A plan that was refused has no ops; one with ops starts a run   *)
(* only for a flow that is to run at once, and saves no skill; and what is *)
(* to run is refused or has something to run.                              *)
(***************************************************************************)
IsPlan(plan) ==
  /\ plan.refused \in BOOLEAN
  /\ plan.ops # <<>> => ~plan.refused /\ plan.skill = None /\ ~plan.adhoc

\* A plan with ops that starts nothing.
Quiet(plan) == IsPlan(plan) /\ (plan.ops # <<>> => plan.run = {})

LEMMA AnswerIsQuiet == Quiet(Answer) /\ Quiet(Refused)
  <1>1. /\ Answer.refused = FALSE /\ Answer.ops = <<>>
        /\ Refused.refused = TRUE /\ Refused.ops = <<>>
    BY DEF Refused, Answer
  <1>. QED
    BY <1>1 DEF Quiet, IsPlan

LEMMA EditIsQuiet ==
  ASSUME NEW ops
  PROVE  Quiet(Edit(ops))
  <1>1. /\ Edit(ops).refused = FALSE /\ Edit(ops).run = {}
        /\ Edit(ops).adhoc = FALSE /\ Edit(ops).skill = None
    BY DEF Edit, Answer
  <1>. QED
    BY <1>1, Zenon DEF Quiet, IsPlan

LEMMA IfIsQuiet ==
  ASSUME NEW guard, NEW plan, Quiet(plan)
  PROVE  Quiet(If(guard, plan))
  BY AnswerIsQuiet DEF If

LEMMA TranslationsAreQuiet ==
  ASSUME NEW canvas, NEW call, NEW ids
  PROVE  /\ Quiet(translateCreateNode(call, ids))
         /\ Quiet(translateCreateTextNodes(call, ids))
         /\ Quiet(translateUpdateNode(call))
         /\ Quiet(translateUpdateNodeText(call))
         /\ Quiet(translateMoveNodes(call))
         /\ Quiet(translateResizeNode(call))
         /\ Quiet(translateDeleteNodes(call))
         /\ Quiet(toolConnectNodes(canvas, call, ids))
         /\ Quiet(toolSetViewport(call))
         /\ Quiet(createTextNode(call, ids))
         /\ Quiet(applyOps(call))
  <1>1. \A ops : \A guard : Quiet(If(guard, Edit(ops)))
    BY EditIsQuiet, IfIsQuiet
  <1>2. Quiet(translateCreateNode(call, ids))
    BY <1>1, Zenon DEF translateCreateNode
  <1>3. Quiet(translateCreateTextNodes(call, ids))
    BY <1>1, Zenon DEF translateCreateTextNodes
  <1>4. Quiet(translateUpdateNode(call)) /\ Quiet(translateUpdateNodeText(call))
    BY <1>1, Zenon DEF translateUpdateNode, translateUpdateNodeText
  <1>5. Quiet(translateMoveNodes(call))
    BY <1>1, Zenon DEF translateMoveNodes
  <1>6. Quiet(translateResizeNode(call)) /\ Quiet(translateDeleteNodes(call))
    BY <1>1, Zenon DEF translateResizeNode, translateDeleteNodes
  <1>7. Quiet(toolConnectNodes(canvas, call, ids))
    BY <1>1, Zenon DEF toolConnectNodes
  <1>8. Quiet(toolSetViewport(call)) /\ Quiet(createTextNode(call, ids))
    BY <1>1, Zenon DEF toolSetViewport, createTextNode
  <1>9. Quiet(applyOps(call))
    BY <1>1, Zenon DEF applyOps
  <1>. QED
    BY <1>2, <1>3, <1>4, <1>5, <1>6, <1>7, <1>8, <1>9

\* The tools whose plans have no ops, and the attachments.
LEMMA ReadersAreQuiet ==
  ASSUME NEW canvas, NEW call, NEW ids
  PROVE  /\ Quiet(Query(call)) /\ \A guard : Quiet(If(guard, Query(call)))
         /\ Quiet(toolWorkbenchGenerate(call)) /\ Quiet(toolGenerationStatus(call))
         /\ Quiet(toolAssetsAdd(call)) /\ Quiet(saveSkill(call)) /\ Quiet(runGeneration(canvas, call))
         /\ Quiet(createAttachmentNodes(canvas, call, ids))
  <1>1. Quiet(Query(call)) /\ Quiet(toolGenerationStatus(call))
    BY IfIsQuiet, AnswerIsQuiet, Zenon DEF Query, toolGenerationStatus
  <1>2. \A guard : Quiet(If(guard, Query(call)))
    BY <1>1, IfIsQuiet
  <1>3. Quiet(toolWorkbenchGenerate(call))
    <2>1. PICK plan : plan = [Answer EXCEPT !.adhoc = TRUE]
      OBVIOUS
    <2>2. plan.refused = FALSE /\ plan.ops = <<>>
      BY <2>1 DEF Answer
    <2>3. Quiet(plan)
      BY <2>2 DEF Quiet, IsPlan
    <2>. QED
      BY <2>1, <2>3, IfIsQuiet, Zenon DEF toolWorkbenchGenerate
  <1>4. Quiet(toolAssetsAdd(call))
    <2>1. PICK plan : plan = [Answer EXCEPT !.stores = 1]
      OBVIOUS
    <2>2. plan.refused = FALSE /\ plan.ops = <<>>
      BY <2>1 DEF Answer
    <2>3. Quiet(plan)
      BY <2>2 DEF Quiet, IsPlan
    <2>. QED
      BY <2>1, <2>3, IfIsQuiet, Zenon DEF toolAssetsAdd
  <1>5. Quiet(saveSkill(call))
    <2>1. PICK plan : plan = [Answer EXCEPT !.skill = call.args.name]
      OBVIOUS
    <2>2. plan.refused = FALSE /\ plan.ops = <<>>
      BY <2>1 DEF Answer
    <2>3. Quiet(plan)
      BY <2>2 DEF Quiet, IsPlan
    <2>. QED
      BY <2>1, <2>3, IfIsQuiet, Zenon DEF saveSkill
  <1>6. Quiet(runGeneration(canvas, call))
    <2>1. PICK plan : plan = [Answer EXCEPT !.run = call.args.nodeIds]
      OBVIOUS
    <2>2. plan.refused = FALSE /\ plan.ops = <<>>
      BY <2>1 DEF Answer
    <2>3. Quiet(plan)
      BY <2>2 DEF Quiet, IsPlan
    <2>. QED
      BY <2>1, <2>3, IfIsQuiet, Zenon DEF runGeneration
  <1>7. Quiet(createAttachmentNodes(canvas, call, ids))
    <2>1. \A n : Quiet(RefusedAfter(n))
      <3>. SUFFICES ASSUME NEW n PROVE Quiet(RefusedAfter(n))
        OBVIOUS
      <3>1. RefusedAfter(n).refused = TRUE /\ RefusedAfter(n).ops = <<>>
        BY DEF RefusedAfter, Refused, Answer
      <3>. QED
        BY <3>1 DEF Quiet, IsPlan
    <2>2. \A n, ops : Quiet([Answer EXCEPT !.stores = n, !.ops = ops])
      <3>. SUFFICES ASSUME NEW n, NEW ops, NEW plan, plan = [Answer EXCEPT !.stores = n, !.ops = ops]
                    PROVE  Quiet(plan)
        OBVIOUS
      <3>1. plan.refused = FALSE /\ plan.run = {} /\ plan.adhoc = FALSE /\ plan.skill = None
        BY DEF Answer
      <3>. QED
        BY <3>1, Zenon DEF Quiet, IsPlan
    <2>. QED
      BY <2>1, <2>2, AnswerIsQuiet, Zenon DEF createAttachmentNodes
  <1>. QED
    BY <1>1, <1>2, <1>3, <1>4, <1>5, <1>6, <1>7

\* A flow starts its run unless it is only to be laid out.
LEMMA FlowPlans ==
  ASSUME NEW canvas, NEW call, NEW ids
  PROVE  LET plan == toolCreateGenerationFlow(canvas, call, ids)
         IN /\ IsPlan(plan)
            /\ plan.ops # <<>> /\ plan.run # {} => Running(call)
            /\ Running(call) => plan.refused \/ plan.run # {}
  <1>1. ASSUME NEW ns, NEW prompt, NEW capability, NEW x, NEW refs
        PROVE  LET flow == Flow(ns, prompt, capability, x, refs)
                   laid == [flow EXCEPT !.run = {}]
               IN /\ IsPlan(flow) /\ flow.run # {}
                  /\ Quiet(laid)
    <2>1. PICK ops, gen : Flow(ns, prompt, capability, x, refs)
                            = [Answer EXCEPT !.ops = ops, !.run = {gen}]
      BY Zenon DEF Flow
    <2>. DEFINE flow == Flow(ns, prompt, capability, x, refs)
                laid == [flow EXCEPT !.run = {}]
    <2>2. /\ flow.refused = FALSE /\ flow.run = {gen} /\ flow.adhoc = FALSE /\ flow.skill = None
          /\ laid.refused = FALSE /\ laid.run = {} /\ laid.adhoc = FALSE /\ laid.skill = None
      BY <2>1 DEF Answer
    <2>. QED
      BY <2>2 DEF Quiet, IsPlan
  <1>. DEFINE prompt == Arg(call, "prompt", NoTitle)
              capability == capabilityForTool(call.name, Arg(call, "mode", "image"))
              refs == Arg(call, "referenceNodeIds", <<>>)
              flow == Flow(ids, prompt, capability, Arg(call, "x", 0), refs)
              laid == [flow EXCEPT !.run = {}]
  <1>2. toolCreateGenerationFlow(canvas, call, ids)
          \in {Refused, IF RunsAtOnce(call) THEN flow ELSE laid}
    BY Zenon DEF toolCreateGenerationFlow, If
  <1>3. IsPlan(flow) /\ flow.run # {} /\ Quiet(laid)
    BY <1>1
  <1>. HIDE DEF flow, laid
  <1>4. Quiet(Refused) /\ Refused.refused = TRUE
    BY AnswerIsQuiet DEF Refused, Answer
  <1>. QED
    BY <1>2, <1>3, <1>4 DEF RunsAtOnce, Quiet

\* createGenerationFlow lays the nodes out and starts nothing.
LEMMA FlowLaidOut ==
  ASSUME NEW call, NEW ids
  PROVE  Quiet(createGenerationFlow(call, ids))
  <1>1. ASSUME NEW flow, NEW ops, NEW run, flow = [Answer EXCEPT !.ops = ops, !.run = run]
        PROVE  Quiet([flow EXCEPT !.run = {}])
    <2>1. PICK plan : plan = [flow EXCEPT !.run = {}]
      OBVIOUS
    <2>2. plan.refused = FALSE /\ plan.run = {} /\ plan.adhoc = FALSE /\ plan.skill = None
      BY <1>1, <2>1 DEF Answer
    <2>3. Quiet(plan)
      BY <2>2, Zenon DEF Quiet, IsPlan
    <2>. QED
      BY <2>1, <2>3
  <1>2. \A ns, prompt, capability, x, refs :
          Quiet([Flow(ns, prompt, capability, x, refs) EXCEPT !.run = {}])
    <2>. SUFFICES ASSUME NEW ns, NEW prompt, NEW capability, NEW x, NEW refs
                  PROVE  Quiet([Flow(ns, prompt, capability, x, refs) EXCEPT !.run = {}])
      OBVIOUS
    <2>1. PICK ops, run : Flow(ns, prompt, capability, x, refs)
                            = [Answer EXCEPT !.ops = ops, !.run = run]
      BY Zenon DEF Flow
    <2>. QED
      BY <1>1, <2>1
  <1>. QED
    BY <1>2, IfIsQuiet, Zenon DEF createGenerationFlow

LEMMA UpstreamPlans ==
  ASSUME NEW canvas, NEW call, NEW ids
  PROVE  LET plan == executeUpstream(canvas, call, ids)
         IN /\ IsPlan(plan)
            /\ plan.ops # <<>> /\ plan.run # {} => call.name \in FlowTools /\ Running(call)
            /\ call.name \in FlowTools /\ Running(call) => plan.refused \/ plan.run # {}
  <1>1. CASE call.name \in FlowTools
    <2>1. executeUpstream(canvas, call, ids) = toolCreateGenerationFlow(canvas, call, ids)
      <3>1. call.name \in {"canvas_generate_text", "canvas_generate_image",
                           "canvas_generate_video", "canvas_generate_audio",
                           "canvas_create_config_node", "canvas_create_image_prompt_flow"}
        BY <1>1 DEF FlowTools, Generators
      <3>. QED
        BY <3>1 DEF executeUpstream, FlowTools, Generators
    <2>. QED
      BY <1>1, <2>1, FlowPlans
  <1>2. CASE call.name \notin FlowTools
    <2>1. Quiet(executeUpstream(canvas, call, ids))
      BY <1>2, TranslationsAreQuiet, ReadersAreQuiet, AnswerIsQuiet DEF executeUpstream
    <2>. QED
      BY <1>2, <2>1 DEF Quiet
  <1>. QED
    BY <1>1, <1>2

\* What the plan of a call promises.
Planned(plan, call) ==
  /\ IsPlan(plan)
  /\ plan.ops # <<>> /\ plan.run # {} => Generating(call)
  /\ Triggers(call) => plan.refused \/ plan.run # {}

LEMMA ToolsPlan ==
  ASSUME NEW canvas, NEW given, NEW ids
  PROVE  Planned(ExecuteTool(canvas, given, ids), given)
  <1>. DEFINE call == Canonical(given)
              plan == ExecuteTool(canvas, given, ids)
  <1>. HIDE DEF call
  <1>1. CASE call.name \in DOMAIN ToolByName /\ call.name \in DOMAIN upstreamToolDefs
    <2>1. plan = executeUpstream(canvas, call, ids)
      BY <1>1 DEF ExecuteTool, call
    <2>2. call.name # "canvas.run_generation"
      BY <1>1, FlowsAreUpstream
    <2>. QED
      BY <2>1, <2>2, UpstreamPlans DEF Planned, Triggers, Generating, call
  <1>2. CASE call.name \notin DOMAIN upstreamToolDefs /\ call.name \in DOMAIN ToolByName
    <2>1. call.name \notin FlowTools
      BY <1>2, FlowsAreUpstream
    <2>2. CASE call.name = "canvas.run_generation"
      <3>1. plan = runGeneration(canvas, call)
        BY <1>2, <2>2 DEF ExecuteTool, executeOwn, call
      <3>2. Quiet(plan)
        BY <3>1, ReadersAreQuiet
      <3>3. plan.refused \/ plan.run # {}
        <4>1. PICK started : started = [Answer EXCEPT !.run = call.args.nodeIds]
          OBVIOUS
        <4>2. started.run = call.args.nodeIds
          BY <4>1 DEF Answer
        <4>3. Refused.refused = TRUE
          BY DEF Refused, Answer
        <4>4. \/ plan = started /\ call.args.nodeIds # {}
              \/ plan = Refused
          BY <3>1, <4>1 DEF runGeneration, If, Arg
        <4>. QED
          BY <4>2, <4>3, <4>4
      <3>. QED
        BY <2>1, <3>2, <3>3 DEF Planned, Quiet, Generating, call
    <2>3. CASE call.name # "canvas.run_generation"
      <3>1. Quiet(plan)
        BY <1>2, <2>3, TranslationsAreQuiet, ReadersAreQuiet, AnswerIsQuiet, FlowLaidOut
           DEF ExecuteTool, executeOwn, call
      <3>. QED
        BY <2>1, <2>3, <3>1 DEF Planned, Quiet, Triggers, Generating, call
    <2>. QED
      BY <2>2, <2>3
  <1>3. CASE call.name \notin DOMAIN ToolByName
    <2>1. plan = Refused
      BY <1>3 DEF ExecuteTool, call
    <2>2. Refused.refused = TRUE
      BY DEF Refused, Answer
    <2>. QED
      BY <2>1, <2>2, AnswerIsQuiet DEF Planned, Quiet
  <1>. QED
    BY <1>1, <1>2, <1>3

-----------------------------------------------------------------------------
(***************************************************************************)
(* What became of the calls.  A request that executes a call owes it a run *)
(* if its plan has one, and an error only if its ops are not in the log.   *)
(***************************************************************************)
\* The request has planned a call of its turn.
Executing(f) == f.phase \in ToolPhases \ {"read"} /\ f.turn # 0 /\ f.result # "denied"

RunOf(runs, k) == \E r \in runs : r.by = k

Due(f, call, runs, done, count) ==
  LET k == Key2(f) IN
  /\ k \in DOMAIN count
  /\ Planned(f.plan, call)
  /\ f.phase \in {"store", "append"} => f.result = "ok"
  /\ f.phase = "append" => f.plan.ops # <<>>
  /\ Triggers(call) /\ f.result = "ok" =>
       /\ f.phase \in {"append", "run"} => f.plan.run # {}
       /\ f.phase \in {"skill", "upsert", "record"} => RunOf(runs, k)
  /\ count[k] = 1 =>
       /\ f.phase \in {"store", "append"} => k \notin done
       /\ k \in done => (f.phase = "record" /\ f.result = "ok") \/ Generating(call)

\* A call is denied without being planned.
Unplanned(f) ==
  /\ f.phase \in {"ask", "next", "read"} => f.result = "ok"
  /\ f.phase \in {"store", "append", "run", "skill", "upsert"} => f.result # "denied"

IsError(rows, t, i) == i \in DOMAIN rows[t].results /\ rows[t].results[i] = "error"

\* Who executes a call for the first time is alone, and has not answered yet.
Sole(frames, rows, count) ==
  \A w \in Worker : Executing(frames[w]) /\ count[Key2(frames[w])] = 1 =>
    /\ \A v \in Worker \ {w} : Executing(frames[v]) => Key2(frames[v]) # Key2(frames[w])
    /\ ~IsError(rows, frames[w].turn, frames[w].at)

Outcome(rows, runs, done, count) ==
  \A t \in DOMAIN rows : \A i \in DOMAIN rows[t].results :
    LET told == rows[t].results[i]
        call == rows[t].answer[i]
    IN /\ told = "ok" /\ Triggers(call) => RunOf(runs, <<t, i>>)
       /\ told = "error" => /\ <<t, i>> \in DOMAIN count
                            /\ count[<<t, i>>] = 1 /\ <<t, i>> \in done => Generating(call)

Counts(done, count) == done \subseteq DOMAIN count /\ \A k \in DOMAIN count : count[k] \in Nat \ {0}

Owed(frames, rows, runs, done, count) ==
  \A w \in Worker :
    /\ Unplanned(frames[w])
    /\ Executing(frames[w]) =>
         Due(frames[w], rows[frames[w].turn].answer[frames[w].at], runs, done, count)

Fulfilled(frames, rows, runs, done, count) ==
  /\ Counts(done, count)
  /\ Outcome(rows, runs, done, count)
  /\ Owed(frames, rows, runs, done, count)
  /\ Sole(frames, rows, count)

-----------------------------------------------------------------------------
LEMMA FollowingKind ==
  ASSUME NEW f, IsFrame(f), NEW p \in {"store", "append", "run", "skill"}
  PROVE  LET g == Following(f, p) IN
         /\ g.plan = f.plan /\ g.result = (IF f.plan.refused THEN "error" ELSE f.result)
         /\ g.phase \in {"append", "run", "skill", "record"}
         /\ g.phase = "append" => p = "store" /\ f.plan.ops # <<>>
         /\ g.phase = "run" => f.plan.run # {} \/ f.plan.adhoc
         /\ g.phase = "skill" => f.plan.skill # None
         /\ p \in {"store", "append"} /\ f.plan.run # {} => g.phase \in {"append", "run"}
         /\ p \in {"run", "skill"} => g.phase \in {"skill", "record"}
  <1>. DEFINE at == CHOOSE i \in DOMAIN Phases : Phases[i] = p
              left == {i \in DOMAIN Phases : i > at /\ Needs(f.plan, Phases[i])}
  <1>1. DOMAIN Phases = 1..5 /\ Phases[1] = "store" /\ Phases[2] = "append"
        /\ Phases[3] = "run" /\ Phases[4] = "skill" /\ Phases[5] = "record"
    BY DEF Phases
  <1>2. at \in 1..5 /\ Phases[at] = p
    BY <1>1
  <1>14. /\ Needs(f.plan, "append") <=> f.plan.ops # <<>>
         /\ Needs(f.plan, "run") <=> f.plan.run # {} \/ f.plan.adhoc
         /\ Needs(f.plan, "skill") <=> f.plan.skill # None
         /\ Needs(f.plan, "record")
    BY DEF Needs
  <1>3. at < 5 /\ (at = 1 <=> p = "store") /\ (at <= 2 <=> p \in {"store", "append"})
    BY <1>1, <1>2
  <1>4. 5 \in left /\ left \subseteq 1..5
    BY <1>1, <1>3, <1>14
  <1>5. Min(left) \in left /\ \A y \in left : Min(left) <= y
    BY <1>4, MinIn
  <1>6. PICK m \in 2..5 : m = Min(left) /\ m > at /\ Needs(f.plan, Phases[m])
    BY <1>1, <1>2, <1>5
  <1>7. at <= 2 /\ f.plan.run # {} => m <= 3
    <2>1. at <= 2 /\ f.plan.run # {} => 3 \in left
      BY <1>1, <1>2, <1>14
    <2>. QED
      BY <1>5, <1>6, <2>1
  <1>. HIDE DEF left, at
  <1>8. Following(f, p) = [f EXCEPT !.phase = Phases[m],
                                    !.result = IF f.plan.refused THEN "error" ELSE f.result]
    BY <1>6 DEF Following, left, at
  <1>9. PICK g : g = Following(f, p)
    OBVIOUS
  <1>10. /\ g.phase = Phases[m] /\ g.plan = f.plan
         /\ g.result = (IF f.plan.refused THEN "error" ELSE f.result)
    BY <1>8, <1>9 DEF IsFrame
  <1>11. /\ g.phase \in {"append", "run", "skill", "record"}
         /\ g.phase = "append" => m = 2
         /\ g.phase = "run" => m = 3
         /\ g.phase = "skill" => m = 4
         /\ m <= 3 => g.phase \in {"append", "run"}
         /\ m >= 4 => g.phase \in {"skill", "record"}
    BY <1>1, <1>6, <1>10
  <1>12. /\ m = 2 => at = 1 /\ f.plan.ops # <<>>
         /\ m = 3 => f.plan.run # {} \/ f.plan.adhoc
         /\ m = 4 => f.plan.skill # None
    BY <1>1, <1>2, <1>6, <1>14
  <1>13. p \in {"run", "skill"} => m >= 4
    <2>1. p \in {"run", "skill"} => at >= 3
      BY <1>2, <1>3
    <2>. QED
      BY <1>2, <1>6, <2>1
  <1>. QED
    BY <1>3, <1>7, <1>9, <1>10, <1>11, <1>12, <1>13

\* What is due stays due when the store grows and nothing is said of the call.
LEMMA DueStays ==
  ASSUME NEW f, NEW call, NEW runs, NEW moreRuns, NEW done, NEW wider, NEW count, NEW later,
         Due(f, call, runs, done, count), runs \subseteq moreRuns,
         DOMAIN count \subseteq DOMAIN later,
         later[Key2(f)] = 1 => count[Key2(f)] = 1 /\ (Key2(f) \in wider => Key2(f) \in done)
  PROVE  Due(f, call, moreRuns, wider, later)
  <1>. DEFINE k == Key2(f)
  <1>. HIDE DEF k
  <1>1. RunOf(runs, k) => RunOf(moreRuns, k)
    BY DEF RunOf
  <1>. QED
    BY <1>1 DEF Due, k

\* The others' calls are as they were.
Undisturbed(frames, w, rows, more, done, wider, count, later) ==
  \A v \in Worker \ {w} : Executing(frames[v]) =>
    LET k == Key2(frames[v]) IN
    later[k] = 1 =>
      /\ count[k] = 1
      /\ k \in wider => k \in done
      /\ IsError(more, k[1], k[2]) => IsError(rows, k[1], k[2])

\* What the new frame of w owes.
Owing(frames, w, g, more, runs, wider, later) ==
  /\ Unplanned(g)
  /\ Executing(g) =>
       /\ Due(g, more[g.turn].answer[g.at], runs, wider, later)
       /\ later[Key2(g)] = 1 =>
            /\ \A v \in Worker \ {w} : Executing(frames[v]) => Key2(frames[v]) # Key2(g)
            /\ ~IsError(more, g.turn, g.at)

LEMMA Carries ==
  ASSUME NEW frames, NEW rows, NEW more, NEW given, NEW runs, NEW moreRuns, NEW done, NEW wider,
         NEW count, NEW later, NEW w \in Worker, NEW g,
         Frames(frames, rows, given), Grown(rows, more), runs \subseteq moreRuns,
         DOMAIN count \subseteq DOMAIN later,
         Owed(frames, rows, runs, done, count), Sole(frames, rows, count),
         Undisturbed(frames, w, rows, more, done, wider, count, later),
         Owing(frames, w, g, more, moreRuns, wider, later)
  PROVE  /\ Owed([frames EXCEPT ![w] = g], more, moreRuns, wider, later)
         /\ Sole([frames EXCEPT ![w] = g], more, later)
  <1>. DEFINE next == [frames EXCEPT ![w] = g]
  <1>1. next[w] = g /\ \A v \in Worker \ {w} : next[v] = frames[v]
    BY DEF Frames
  <1>. HIDE DEF next
  <1>2. ASSUME NEW v \in Worker \ {w}, Executing(frames[v])
        PROVE  /\ more[frames[v].turn].answer = rows[frames[v].turn].answer
               /\ Due(frames[v], more[frames[v].turn].answer[frames[v].at], moreRuns, wider, later)
    <2>. DEFINE f == frames[v]
    <2>1. Fits(f, rows, given) /\ f.phase \in ToolPhases /\ f.turn # 0
      BY <1>2 DEF Frames, Executing
    <2>2. f.turn \in DOMAIN rows /\ f.at \in DOMAIN rows[f.turn].answer
      BY <2>1 DEF Fits, ToolPhases
    <2>3. more[f.turn].answer = rows[f.turn].answer
      BY <2>2 DEF Grown
    <2>4. Due(f, rows[f.turn].answer[f.at], runs, done, count)
      BY <1>2 DEF Owed
    <2>5. later[Key2(f)] = 1 => count[Key2(f)] = 1 /\ (Key2(f) \in wider => Key2(f) \in done)
      BY <1>2 DEF Undisturbed
    <2>6. Due(f, rows[f.turn].answer[f.at], moreRuns, wider, later)
      BY <2>4, <2>5, DueStays
    <2>. QED
      BY <2>3, <2>6
  <1>3. Owed(next, more, moreRuns, wider, later)
    <2>. SUFFICES ASSUME NEW v \in Worker
                  PROVE  /\ Unplanned(next[v])
                         /\ Executing(next[v]) =>
                              Due(next[v], more[next[v].turn].answer[next[v].at], moreRuns, wider,
                                  later)
      BY DEF Owed
    <2>1. CASE v = w
      BY <1>1, <2>1 DEF Owing
    <2>2. CASE v # w
      BY <1>1, <1>2, <2>2 DEF Owed
    <2>. QED
      BY <2>1, <2>2
  <1>4. Sole(next, more, later)
    <2>. SUFFICES ASSUME NEW v \in Worker, Executing(next[v]), later[Key2(next[v])] = 1
                  PROVE  /\ \A u \in Worker \ {v} :
                              Executing(next[u]) => Key2(next[u]) # Key2(next[v])
                         /\ ~IsError(more, next[v].turn, next[v].at)
      BY DEF Sole
    <2>1. CASE v = w
      BY <1>1, <2>1 DEF Owing
    <2>2. CASE v # w
      <3>1. count[Key2(frames[v])] = 1
        BY <1>1, <2>2 DEF Undisturbed
      <3>2. /\ \A u \in Worker \ {v} : Executing(frames[u]) => Key2(frames[u]) # Key2(frames[v])
            /\ ~IsError(rows, frames[v].turn, frames[v].at)
        BY <1>1, <2>2, <3>1 DEF Sole
      <3>3. Key2(frames[v])[1] = frames[v].turn /\ Key2(frames[v])[2] = frames[v].at
        BY DEF Key2
      <3>4. ~IsError(more, frames[v].turn, frames[v].at)
        BY <1>1, <2>2, <3>2, <3>3 DEF Undisturbed
      <3>5. \A u \in Worker \ {v} : Executing(next[u]) => Key2(next[u]) # Key2(next[v])
        <4>. SUFFICES ASSUME NEW u \in Worker \ {v}, Executing(next[u])
                      PROVE  Key2(next[u]) # Key2(next[v])
          OBVIOUS
        <4>1. CASE u = w
          BY <1>1, <2>2, <4>1 DEF Owing
        <4>2. CASE u # w
          BY <1>1, <2>2, <3>2, <4>2
        <4>. QED
          BY <4>1, <4>2
      <3>. QED
        BY <1>1, <2>2, <3>4, <3>5
    <2>. QED
      BY <2>1, <2>2
  <1>. QED
    BY <1>3, <1>4 DEF next

-----------------------------------------------------------------------------
(***************************************************************************)
(* The steps of a tool keep what is due.                                   *)
(***************************************************************************)
LEMMA KeySame ==
  ASSUME NEW f, NEW g, SameCall(f, g)
  PROVE  Key2(g) = Key2(f) /\ g.turn = f.turn /\ g.at = f.at
  BY DEF SameCall, Key2

LEMMA FollowingDue ==
  ASSUME NEW f, IsFrame(f), NEW p \in {"store", "run", "skill"},
         f.phase = p \/ (p = "skill" /\ f.phase = "upsert"),
         NEW call, NEW runs, NEW more, NEW done, NEW count,
         Due(f, call, runs, done, count), runs \subseteq more,
         p = "run" /\ f.plan.run # {} => RunOf(more, Key2(f))
  PROVE  Due(Following(f, p), call, more, done, count)
  <1>1. PICK g : g = Following(f, p)
    OBVIOUS
  <1>2. Key2(g) = Key2(f)
    BY <1>1, FollowingSame, KeySame
  <1>3. /\ g.plan = f.plan /\ g.result = (IF f.plan.refused THEN "error" ELSE f.result)
        /\ g.phase \in {"append", "run", "skill", "record"}
        /\ g.phase = "append" => p = "store" /\ f.plan.ops # <<>>
        /\ p = "store" /\ f.plan.run # {} => g.phase \in {"append", "run"}
        /\ p \in {"run", "skill"} => g.phase \in {"skill", "record"}
    BY <1>1, FollowingKind
  <1>. DEFINE k == Key2(f)
  <1>. HIDE DEF k
  <1>4. /\ k \in DOMAIN count /\ Planned(f.plan, call)
        /\ f.phase = "store" => f.result = "ok"
        /\ Triggers(call) /\ f.result = "ok" /\ p = "skill" => RunOf(runs, k)
        /\ count[k] = 1 /\ p = "store" => k \notin done
        /\ count[k] = 1 /\ k \in done => Generating(call)
    BY DEF Due, k
  <1>5. RunOf(runs, k) => RunOf(more, k)
    BY DEF RunOf
  <1>6. /\ f.plan.ops # <<>> => ~f.plan.refused
        /\ Triggers(call) => f.plan.refused \/ f.plan.run # {}
    BY <1>4 DEF Planned, IsPlan
  <1>7. g.phase = "append" => g.result = "ok" /\ g.plan.ops # <<>> /\ (count[k] = 1 => k \notin done)
    BY <1>3, <1>4, <1>6
  <1>8. Triggers(call) /\ g.result = "ok" => ~f.plan.refused /\ f.result = "ok" /\ f.plan.run # {}
    BY <1>3, <1>6
  <1>9. Triggers(call) /\ g.result = "ok" /\ g.phase \in {"skill", "upsert", "record"} =>
          RunOf(more, k)
    BY <1>3, <1>4, <1>5, <1>8 DEF k
  <1>10. Due(g, call, more, done, count)
    BY <1>2, <1>3, <1>4, <1>7, <1>8, <1>9 DEF Due, k
  <1>. QED
    BY <1>1, <1>10

LEMMA FailingDue ==
  ASSUME NEW f, IsFrame(f), f.phase \in {"store", "append", "run", "skill", "upsert"},
         NEW call, NEW runs, NEW done, NEW count, Due(f, call, runs, done, count)
  PROVE  Due(Failing(f), call, runs, done, count)
  <1>1. PICK g : g = Failing(f)
    OBVIOUS
  <1>2. Key2(g) = Key2(f) /\ g.plan = f.plan /\ g.phase = "record" /\ g.result = "error"
    BY <1>1 DEF Failing, IsFrame, Key2
  <1>3. Due(g, call, runs, done, count)
    BY <1>2 DEF Due
  <1>. QED
    BY <1>1, <1>3

LEMMA UpsertDue ==
  ASSUME NEW f, IsFrame(f), f.phase = "skill",
         NEW call, NEW runs, NEW done, NEW count, Due(f, call, runs, done, count)
  PROVE  Due([f EXCEPT !.phase = "upsert"], call, runs, done, count)
  <1>1. PICK g : g = [f EXCEPT !.phase = "upsert"]
    OBVIOUS
  <1>2. Key2(g) = Key2(f) /\ g.plan = f.plan /\ g.phase = "upsert" /\ g.result = f.result
    BY <1>1 DEF IsFrame, Key2
  <1>3. Due(g, call, runs, done, count)
    BY <1>2 DEF Due
  <1>. QED
    BY <1>1, <1>3

\* Ops that reached the log are not followed by an error, unless by the run's.
LEMMA AppendedDue ==
  ASSUME NEW f, IsFrame(f), f.phase = "append",
         NEW call, NEW runs, NEW done, NEW wider, NEW count, Due(f, call, runs, done, count)
  PROVE  Due(Following(f, "append"), call, runs, wider, count)
  <1>1. PICK g : g = Following(f, "append")
    OBVIOUS
  <1>2. Key2(g) = Key2(f)
    BY <1>1, FollowingSame, KeySame
  <1>3. /\ g.plan = f.plan /\ g.result = (IF f.plan.refused THEN "error" ELSE f.result)
        /\ g.phase \in {"append", "run", "skill", "record"} /\ g.phase # "append"
        /\ g.phase = "run" => f.plan.run # {} \/ f.plan.adhoc
        /\ g.phase = "skill" => f.plan.skill # None
        /\ f.plan.run # {} => g.phase \in {"append", "run"}
    BY <1>1, FollowingKind
  <1>. DEFINE k == Key2(f)
  <1>. HIDE DEF k
  <1>4. /\ k \in DOMAIN count /\ Planned(f.plan, call) /\ f.result = "ok"
        /\ f.plan.ops # <<>>
        /\ Triggers(call) => f.plan.run # {}
    BY DEF Due, k
  <1>5. ~f.plan.refused /\ f.plan.skill = None /\ ~f.plan.adhoc
        /\ (f.plan.run # {} => Generating(call))
    BY <1>4 DEF Planned, IsPlan
  <1>6. g.result = "ok" /\ (g.phase = "run" => Generating(call)) /\ g.phase \in {"run", "record"}
    BY <1>3, <1>4, <1>5
  <1>7. Due(g, call, runs, wider, count)
    BY <1>2, <1>3, <1>4, <1>6 DEF Due, k
  <1>. QED
    BY <1>1, <1>7

\* A call that was planned for the first time owes what its plan promises.
LEMMA StartedDue ==
  ASSUME NEW f, IsFrame(f), f.phase = "read", f.result = "ok", NEW plan, NEW call, Planned(plan, call),
         NEW runs, NEW done, NEW count, Key2(f) \in DOMAIN count,
         count[Key2(f)] = 1 => Key2(f) \notin done
  PROVE  Due(Started(f, plan), call, runs, done, count)
  <1>1. PICK h : h = [[f EXCEPT !.plan = plan] EXCEPT !.phase = "store"]
    OBVIOUS
  <1>2. IsFrame(h) /\ h.phase = "store" /\ h.plan = plan /\ h.result = "ok" /\ Key2(h) = Key2(f)
    BY <1>1 DEF IsFrame, Key2
  <1>3. Due(h, call, runs, done, count)
    BY <1>2 DEF Due
  <1>4. Due(Following(h, "store"), call, runs, done, count)
    BY <1>2, <1>3, FollowingDue
  <1>5. Following([f EXCEPT !.plan = plan], "store") = Following(h, "store")
    <2>1. PICK h0 : h0 = [f EXCEPT !.plan = plan]
      OBVIOUS
    <2>2. IsFrame(h0) /\ h0.plan = h.plan /\ h0.result = h.result /\ h = [h0 EXCEPT !.phase = "store"]
      BY <1>1, <1>2, <2>1 DEF IsFrame
    <2>3. \A p, r : [h0 EXCEPT !.phase = p, !.result = r] = [h EXCEPT !.phase = p, !.result = r]
      BY <2>2 DEF IsFrame
    <2>. QED
      BY <2>1, <2>2, <2>3, Zenon DEF Following
  <1>. QED
    BY <1>1, <1>3, <1>4, <1>5 DEF Started

LEMMA StartedResult ==
  ASSUME NEW f, IsFrame(f), f.result = "ok", NEW plan
  PROVE  Started(f, plan).result # "denied"
  <1>1. PICK h : h = [f EXCEPT !.plan = plan]
    OBVIOUS
  <1>2. IsFrame(h) /\ h.result = "ok"
    BY <1>1 DEF IsFrame
  <1>3. Following(h, "store").result \in {"ok", "error"}
    BY <1>2, FollowingKind
  <1>4. [h EXCEPT !.phase = "store"].result = "ok"
    BY <1>2 DEF IsFrame
  <1>. QED
    BY <1>1, <1>3, <1>4 DEF Started

-----------------------------------------------------------------------------
IsStore(s) ==
  s = [assets |-> s.assets, runs |-> s.runs, adhocs |-> s.adhocs, skills |-> s.skills]

Settled == IsStore(store) /\ Fulfilled(work, turns, store.runs, applied, ran)

LEMMA StaysSettled ==
  ASSUME Inv, Settled, NEW w \in Worker, NEW g, work' = [work EXCEPT ![w] = g],
         UNCHANGED <<turns, applied, ran>>, IsStore(store'), store.runs \subseteq store'.runs,
         Owing(work, w, g, turns, store'.runs, applied, ran)
  PROVE  Settled'
  <1>1. Undisturbed(work, w, turns, turns, applied, applied, ran, ran)
    BY DEF Undisturbed, Settled, Fulfilled, Sole
  <1>2. Frames(work, turns, grants) /\ Grown(turns, turns)
    BY GrownSame DEF Inv
  <1>3. Owed(work', turns, store'.runs, applied, ran) /\ Sole(work', turns, ran)
    BY <1>1, <1>2, Carries DEF Settled, Fulfilled
  <1>4. Outcome(turns, store'.runs, applied, ran)
    <2>1. \A k : RunOf(store.runs, k) => RunOf(store'.runs, k)
      BY DEF RunOf
    <2>. QED
      BY <2>1 DEF Outcome, Settled, Fulfilled
  <1>. QED
    BY <1>3, <1>4 DEF Settled, Fulfilled

\* The same request goes on with the same call.
LEMMA SameOwing ==
  ASSUME Inv, Settled, NEW w \in Worker, NEW g, NEW runs,
         work[w].phase \in {"store", "append", "run", "skill", "upsert"}, SameCall(work[w], g),
         g.result = work[w].result \/ g.result = "error",
         Executing(work[w]) =>
           Due(g, turns[work[w].turn].answer[work[w].at], runs, applied, ran)
  PROVE  Owing(work, w, g, turns, runs, applied, ran)
  <1>. DEFINE f == work[w]
  <1>1. f.result # "denied" /\ g.result # "denied"
    BY DEF Settled, Fulfilled, Owed, Unplanned
  <1>2. g.phase \in ToolPhases \ {"read"} /\ g.turn = f.turn /\ g.at = f.at /\ Key2(g) = Key2(f)
    BY KeySame DEF SameCall
  <1>3. Unplanned(g)
    BY <1>1, <1>2 DEF Unplanned, ToolPhases
  <1>4. Executing(g) => Executing(f)
    BY <1>1, <1>2 DEF Executing, ToolPhases
  <1>5. Executing(f) /\ ran[Key2(f)] = 1 =>
          /\ \A v \in Worker \ {w} : Executing(work[v]) => Key2(work[v]) # Key2(f)
          /\ ~IsError(turns, f.turn, f.at)
    BY DEF Settled, Fulfilled, Sole
  <1>. QED
    BY <1>2, <1>3, <1>4, <1>5 DEF Owing

LEMMA DueNow ==
  ASSUME Settled, NEW w \in Worker, Executing(work[w])
  PROVE  Due(work[w], turns[work[w].turn].answer[work[w].at], store.runs, applied, ran)
  BY DEF Settled, Fulfilled, Owed

LEMMA ToolSettled ==
  ASSUME Inv, Settled, NEW w \in Worker,
         \/ StoreAttachments(w) \/ TriggerRun(w) \/ CountSkills(w) \/ UpsertSkill(w)
         \/ StepFails(w)
  PROVE  Settled'
  <1>. DEFINE f == work[w]
              call == turns[f.turn].answer[f.at]
  <1>1. f.phase \in {"store", "append", "run", "skill", "upsert"} /\ UNCHANGED <<turns, applied, ran>>
    BY DEF StoreAttachments, TriggerRun, CountSkills, UpsertSkill, StepFails, At, history, database
  <1>2. IsFrame(f)
    BY <1>1, WorkingFits
  <1>3. IsStore(store)
    BY DEF Settled
  <1>4. IsStore(store') /\ store.runs \subseteq store'.runs
    BY <1>3 DEF StoreAttachments, TriggerRun, CountSkills, UpsertSkill, StepFails, IsStore, database
  <1>5. PICK g :
          /\ work' = [work EXCEPT ![w] = g] /\ SameCall(f, g)
          /\ g.result = f.result \/ g.result = "error"
          /\ Executing(f) => Due(g, call, store'.runs, applied, ran)
    <2>1. ASSUME NEW p \in {"store", "run", "skill"},
                 f.phase = p \/ (p = "skill" /\ f.phase = "upsert"),
                 work' = [work EXCEPT ![w] = Following(f, p)],
                 p = "run" /\ f.plan.run # {} => RunOf(store'.runs, Key2(f))
          PROVE  \E g : /\ work' = [work EXCEPT ![w] = g] /\ SameCall(f, g)
                        /\ g.result = f.result \/ g.result = "error"
                        /\ Executing(f) => Due(g, call, store'.runs, applied, ran)
      <3>1. SameCall(f, Following(f, p))
        BY <1>2, FollowingSame
      <3>2. Following(f, p).result = f.result \/ Following(f, p).result = "error"
        BY <1>2, FollowingKind
      <3>3. Executing(f) => Due(Following(f, p), call, store'.runs, applied, ran)
        BY <1>2, <1>4, <2>1, DueNow, FollowingDue
      <3>. QED
        BY <2>1, <3>1, <3>2, <3>3
    <2>2. CASE StoreAttachments(w)
      BY <2>1, <2>2 DEF StoreAttachments, Become, At
    <2>3. CASE TriggerRun(w)
      <3>1. f.plan.run # {} => RunOf(store'.runs, Key2(f))
        <4>1. f.plan.run # {} =>
                store'.runs = store.runs \union {[by |-> Key2(f), targets |-> f.plan.run]}
          BY <1>3, <2>3 DEF TriggerRun, IsStore
        <4>2. PICK r : r = [by |-> Key2(f), targets |-> f.plan.run]
          OBVIOUS
        <4>3. r.by = Key2(f)
          BY <4>2
        <4>. QED
          BY <4>1, <4>2, <4>3 DEF RunOf
      <3>. QED
        BY <2>1, <2>3, <3>1 DEF TriggerRun, Become, At
    <2>4. CASE UpsertSkill(w)
      BY <2>1, <2>4 DEF UpsertSkill, Become, At
    <2>5. CASE work' = [work EXCEPT ![w] = Failing(f)]
      <3>1. SameCall(f, Failing(f))
        BY <1>2, FailingSame
      <3>2. Failing(f).result = "error"
        BY <1>2 DEF Failing, IsFrame
      <3>3. Executing(f) => Due(Failing(f), call, store'.runs, applied, ran)
        <4>1. Executing(f) => Due(f, call, store'.runs, applied, ran)
          BY <1>4, DueNow, DueStays
        <4>. QED
          BY <1>1, <1>2, <4>1, FailingDue
      <3>. QED
        BY <2>5, <3>1, <3>2, <3>3
    <2>6. CASE CountSkills(w) /\ work' = [work EXCEPT ![w] = [f EXCEPT !.phase = "upsert"]]
      <3>1. f.phase = "skill" /\ store' = store
        BY <2>6 DEF CountSkills, At, database
      <3>2. SameCall(f, [f EXCEPT !.phase = "upsert"])
        BY <1>2, PhaseSame DEF ToolPhases
      <3>3. [f EXCEPT !.phase = "upsert"].result = f.result
        BY <1>2 DEF IsFrame
      <3>4. Executing(f) => Due([f EXCEPT !.phase = "upsert"], call, store'.runs, applied, ran)
        BY <1>2, <3>1, DueNow, UpsertDue
      <3>. QED
        BY <2>6, <3>2, <3>3, <3>4
    <2>. QED
      BY <2>2, <2>3, <2>4, <2>5, <2>6 DEF CountSkills, StepFails, Become
  <1>6. Owing(work, w, g, turns, store'.runs, applied, ran)
    BY <1>1, <1>5, SameOwing
  <1>. QED
    BY <1>1, <1>4, <1>5, <1>6, StaysSettled

\* A frame that executes nothing owes nothing.
LEMMA IdleOwing ==
  ASSUME NEW w \in Worker, NEW g, NEW rows, NEW runs, NEW done, NEW count, NEW frames,
         ~Executing(g), Unplanned(g)
  PROVE  Owing(frames, w, g, rows, runs, done, count)
  BY DEF Owing

\* A step that plans nothing, executes nothing and leaves the tables alone.
LEMMA LoopSettled ==
  ASSUME Inv, Settled, NEW w \in Worker,
         \/ SubmitTurn(w) \/ McpCall(w) \/ NextCall(w) \/ LoseUserItem(w) \/ SaveFails(w)
         \/ \E t \in Turns : \E i \in DOMAIN turns[t].answer : Approve(w, t, i)
  PROVE  Settled'
  <1>1. UNCHANGED <<store, turns, applied, ran>>
    BY DEF SubmitTurn, McpCall, NextCall, LoseUserItem, SaveFails, Approve, history, database
  <1>2. PICK g : /\ work' = [work EXCEPT ![w] = g]
                 /\ \/ g = Free
                    \/ \E n : g = [Frame("insert", "submit", 0, 0, None) EXCEPT !.seq = n]
                    \/ \E call : g = Frame("read", "mcp", 0, 0, call)
                    \/ \E t, i : g = Frame("read", "approve", t, i, None)
                    \/ \E t, i : g = [Frame("record", "approve", t, i, None) EXCEPT !.result = "denied"]
                    \/ /\ work[w].phase = "next"
                       /\ \/ \E n : g = [work[w] EXCEPT !.phase = "save", !.seq = n]
                          \/ \E n : g = [work[w] EXCEPT !.at = n]
                          \/ g = [work[w] EXCEPT !.phase = "read"]
    <2>1. CASE SubmitTurn(w)
      BY <2>1 DEF SubmitTurn, Become
    <2>2. CASE McpCall(w)
      BY <2>2 DEF McpCall, Become
    <2>3. CASE NextCall(w)
      <3>1. work[w].phase = "next" /\ \E g : work' = [work EXCEPT ![w] = g]
              /\ g \in {Save(work[w], 0), Skipped(work[w]), Save(work[w], work[w].at),
                       [work[w] EXCEPT !.phase = "read"]}
        BY <2>3 DEF NextCall, Become, At
      <3>. QED
        BY <3>1 DEF Save, Skipped
    <2>4. CASE LoseUserItem(w) \/ SaveFails(w)
      BY <2>4 DEF LoseUserItem, SaveFails, Become
    <2>5. CASE \E t \in Turns : \E i \in DOMAIN turns[t].answer : Approve(w, t, i)
      <3>1. PICK t, i, yes : Become(w, IF yes THEN Frame("read", "approve", t, i, None)
                    ELSE [Frame("record", "approve", t, i, None) EXCEPT !.result = "denied"])
        BY <2>5 DEF Approve
      <3>2. \E g : /\ work' = [work EXCEPT ![w] = g]
                   /\ \/ g = Frame("read", "approve", t, i, None)
                      \/ g = [Frame("record", "approve", t, i, None) EXCEPT !.result = "denied"]
        BY <3>1, Zenon DEF Become
      <3>. QED
        BY <3>2, Zenon
    <2>. QED
      BY <2>1, <2>2, <2>3, <2>4, <2>5
  <1>3. ~Executing(g) /\ Unplanned(g)
    <2>1. CASE g = Free
      BY <2>1 DEF Free, Executing, Unplanned, ToolPhases
    <2>2. CASE \/ \E n : g = [Frame("insert", "submit", 0, 0, None) EXCEPT !.seq = n]
               \/ \E call : g = Frame("read", "mcp", 0, 0, call)
               \/ \E t, i : g = Frame("read", "approve", t, i, None)
      <3>1. g.phase \in {"insert", "read"} /\ g.result = "ok"
        BY <2>2 DEF Frame
      <3>. QED
        BY <3>1 DEF Executing, Unplanned, ToolPhases
    <2>3. CASE \E t, i : g = [Frame("record", "approve", t, i, None) EXCEPT !.result = "denied"]
      <3>1. g.phase = "record" /\ g.result = "denied"
        BY <2>3 DEF Frame
      <3>. QED
        BY <3>1 DEF Executing, Unplanned, ToolPhases
    <2>4. CASE /\ work[w].phase = "next"
               /\ \/ \E n : g = [work[w] EXCEPT !.phase = "save", !.seq = n]
                  \/ \E n : g = [work[w] EXCEPT !.at = n]
                  \/ g = [work[w] EXCEPT !.phase = "read"]
      <3>1. IsFrame(work[w]) /\ work[w].result = "ok"
        BY <2>4, WorkingFits DEF Settled, Fulfilled, Owed, Unplanned
      <3>2. g.phase \in {"save", "next", "read"} /\ g.result = "ok"
        BY <2>4, <3>1 DEF IsFrame
      <3>. QED
        BY <3>2 DEF Executing, Unplanned, ToolPhases
    <2>. QED
      BY <1>2, <2>1, <2>2, <2>3, <2>4
  <1>4. Owing(work, w, g, turns, store'.runs, applied, ran)
    BY <1>3, IdleOwing
  <1>5. IsStore(store') /\ store.runs \subseteq store'.runs
    BY <1>1 DEF Settled
  <1>. QED
    BY <1>1, <1>2, <1>4, <1>5, StaysSettled

\* The step that executes: of a first execution nothing is in the log yet, and
\* nobody else is at the call.
LEMMA ReadSettled ==
  ASSUME Inv, Settled, NEW w \in Worker, Read(w)
  PROVE  Settled'
  <1>. DEFINE f == work[w]
              k == Key2(f)
  <1>1. f.phase = "read" /\ UNCHANGED <<store, turns, applied>> /\ ran' = Counted(f)
    BY DEF Read, At
  <1>2. IsFrame(f) /\ f.result = "ok"
    BY <1>1, WorkingFits DEF Settled, Fulfilled, Owed, Unplanned
  <1>3. PICK plan : /\ plan = ExecuteTool(doc, CallOf(f), fresh)
                    /\ work' = [work EXCEPT ![w] = Started(f, plan)]
    BY DEF Read, Become
  <1>4. PICK g : g = Started(f, plan)
    OBVIOUS
  <1>5. SameCall(f, g) /\ Key2(g) = k /\ g.turn = f.turn /\ g.at = f.at
        /\ g.phase \in ToolPhases \ {"read"}
    BY <1>2, <1>4, StartedSame, KeySame DEF SameCall
  <1>6. CASE f.turn = 0
    <2>1. ran' = ran
      BY <1>1, <1>6 DEF Counted
    <2>2. ~Executing(g)
      BY <1>5, <1>6 DEF Executing
    <2>3. g.result # "denied"
      BY <1>2, <1>4, StartedResult
    <2>4. Unplanned(g)
      BY <1>5, <2>3 DEF Unplanned, ToolPhases
    <2>5. Owing(work, w, g, turns, store'.runs, applied, ran)
      BY <2>2, <2>4, IdleOwing
    <2>6. IsStore(store') /\ store.runs \subseteq store'.runs
      BY <1>1 DEF Settled
    <2>. QED
      BY <1>1, <1>3, <1>4, <2>1, <2>5, <2>6, StaysSettled
  <1>7. CASE f.turn # 0
    <2>. DEFINE call == turns[f.turn].answer[f.at]
    <2>1. DOMAIN ran' = DOMAIN ran \union {k}
          /\ \A j \in DOMAIN ran' :
               ran'[j] = (IF j \in DOMAIN ran THEN ran[j] ELSE 0) + IF j = k THEN 1 ELSE 0
      BY <1>1, <1>7 DEF Counted
    <2>. HIDE DEF k
    <2>2. Counts(applied, ran) /\ Outcome(turns, store.runs, applied, ran)
          /\ Owed(work, turns, store.runs, applied, ran) /\ Sole(work, turns, ran)
      BY DEF Settled, Fulfilled
    <2>3. \A j \in DOMAIN ran : ran[j] \in Nat \ {0}
      BY <2>2 DEF Counts
    <2>4. \A j \in DOMAIN ran' : ran'[j] \in Nat \ {0}
      BY <2>1, <2>3
    <2>5. ran'[k] = 1 => k \notin DOMAIN ran
      BY <2>1, <2>3
    <2>6. \A j \in DOMAIN ran : ran'[j] = 1 => ran[j] = 1 /\ j # k
      BY <2>1, <2>3
    <2>7. Counts(applied, ran')
      BY <2>1, <2>2, <2>4 DEF Counts
    <2>8. Outcome(turns, store.runs, applied, ran')
      BY <2>1, <2>2, <2>6 DEF Outcome, Counts
    <2>9. \A v \in Worker : Executing(work[v]) => Key2(work[v]) \in DOMAIN ran
      BY <2>2 DEF Owed, Due
    <2>10. Undisturbed(work, w, turns, turns, applied, applied, ran, ran')
      BY <2>6, <2>9 DEF Undisturbed
    <2>11. Planned(plan, call)
      BY <1>3, <1>7, ToolsPlan DEF CallOf
    <2>12. Due(g, call, store.runs, applied, ran')
      <3>1. k \in DOMAIN ran' /\ (ran'[k] = 1 => k \notin applied)
        BY <2>1, <2>2, <2>5 DEF Counts
      <3>. QED
        BY <1>1, <1>2, <1>4, <2>11, <3>1, StartedDue DEF k
    <2>13. ran'[k] = 1 =>
             /\ \A v \in Worker \ {w} : Executing(work[v]) => Key2(work[v]) # k
             /\ ~IsError(turns, f.turn, f.at)
      <3>1. k = <<f.turn, f.at>>
        BY DEF k, Key2
      <3>2. f.turn \in DOMAIN turns
        BY <1>1, <1>7, WorkingFits DEF Fits
      <3>3. k \notin DOMAIN ran => ~IsError(turns, f.turn, f.at)
        BY <2>2, <3>1, <3>2 DEF Outcome, IsError
      <3>. QED
        BY <2>5, <2>9, <3>3
    <2>14. g.result # "denied"
      BY <1>2, <1>4, StartedResult
    <2>15. Unplanned(g)
      BY <1>5, <2>14 DEF Unplanned, ToolPhases
    <2>16. Owing(work, w, g, turns, store.runs, applied, ran')
      BY <1>5, <2>12, <2>13, <2>15 DEF Owing
    <2>17. Frames(work, turns, grants) /\ Grown(turns, turns)
      BY GrownSame DEF Inv
    <2>18. Owed(work', turns, store.runs, applied, ran') /\ Sole(work', turns, ran')
      BY <1>3, <1>4, <2>1, <2>2, <2>10, <2>16, <2>17, Carries
    <2>. QED
      BY <1>1, <2>7, <2>8, <2>18 DEF Settled, Fulfilled
  <1>. QED
    BY <1>6, <1>7

-----------------------------------------------------------------------------
\* What others miss does not change what they owe.
LEMMA MissedOwed ==
  ASSUME NEW frames, NEW rows, NEW given, NEW runs, NEW done, NEW count, NEW ops,
         Frames(frames, rows, given), Owed(frames, rows, runs, done, count), Sole(frames, rows, count)
  PROVE  /\ Owed(Missed(frames, ops), rows, runs, done, count)
         /\ Sole(Missed(frames, ops), rows, count)
         /\ \A v \in Worker : Executing(Missed(frames, ops)[v]) =>
              Executing(frames[v]) /\ Key2(Missed(frames, ops)[v]) = Key2(frames[v])
  <1>. DEFINE next == Missed(frames, ops)
  <1>1. ASSUME NEW v \in Worker
        PROVE  /\ next[v].phase = frames[v].phase
               /\ frames[v].phase # "idle" =>
                    /\ next[v].turn = frames[v].turn /\ next[v].at = frames[v].at
                    /\ next[v].plan = frames[v].plan /\ next[v].result = frames[v].result
    <2>1. frames[v].phase = "idle" \/ IsFrame(frames[v])
      BY DEF Frames, Fits
    <2>2. CASE frames[v].phase \in {"store", "append"}
      <3>1. PICK m : next[v] = [frames[v] EXCEPT !.missed = m]
        BY <2>2 DEF Missed
      <3>. HIDE DEF next
      <3>. QED
        BY <2>1, <2>2, <3>1 DEF IsFrame
    <2>3. CASE frames[v].phase \notin {"store", "append"}
      <3>1. next[v] = frames[v]
        BY <2>3 DEF Missed
      <3>. HIDE DEF next
      <3>. QED
        BY <3>1
    <2>. QED
      BY <2>2, <2>3
  <1>. HIDE DEF next
  <1>2. ASSUME NEW v \in Worker
        PROVE  /\ Executing(next[v]) <=> Executing(frames[v])
               /\ Executing(next[v]) => Key2(next[v]) = Key2(frames[v])
               /\ Unplanned(next[v]) <=> Unplanned(frames[v])
    <2>1. CASE frames[v].phase = "idle"
      BY <1>1, <2>1 DEF Executing, Unplanned, ToolPhases
    <2>2. CASE frames[v].phase # "idle"
      BY <1>1, <2>2 DEF Executing, Unplanned, Key2
    <2>. QED
      BY <2>1, <2>2
  <1>3. ASSUME NEW v \in Worker, Executing(next[v])
        PROVE  Due(next[v], rows[next[v].turn].answer[next[v].at], runs, done, count)
    <2>1. frames[v].phase # "idle"
      BY <1>2, <1>3 DEF Executing, ToolPhases
    <2>2. Due(frames[v], rows[frames[v].turn].answer[frames[v].at], runs, done, count)
      BY <1>2, <1>3 DEF Owed
    <2>3. Due(next[v], rows[frames[v].turn].answer[frames[v].at], runs, done, count)
      BY <1>1, <1>2, <1>3, <2>1, <2>2 DEF Due
    <2>. QED
      BY <1>1, <2>1, <2>3
  <1>4. Owed(next, rows, runs, done, count)
    BY <1>2, <1>3 DEF Owed
  <1>5. Sole(next, rows, count)
    <2>1. \A v \in Worker : Executing(next[v]) => next[v].turn = frames[v].turn /\ next[v].at = frames[v].at
      BY <1>1, <1>2 DEF Executing, ToolPhases
    <2>. QED
      BY <1>2, <2>1 DEF Sole
  <1>. QED
    BY <1>2, <1>4, <1>5 DEF next

LEMMA UserEditSettled ==
  ASSUME Inv, Settled, UserEdit
  PROVE  Settled'
  <1>1. UNCHANGED <<store, turns, applied, ran>>
    BY DEF UserEdit, history
  <1>2. PICK ops : work' = Missed(work, ops)
    BY DEF UserEdit
  <1>3. Frames(work, turns, grants)
    BY DEF Inv
  <1>4. Owed(work', turns, store.runs, applied, ran) /\ Sole(work', turns, ran)
    BY <1>2, <1>3, MissedOwed DEF Settled, Fulfilled
  <1>. QED
    BY <1>1, <1>4 DEF Settled, Fulfilled

LEMMA CrashSettled ==
  ASSUME Settled, Crash
  PROVE  Settled'
  <1>1. work' = [w \in Worker |-> Free] /\ UNCHANGED <<store, turns, applied, ran>>
    BY DEF Crash, history, database
  <1>2. ~Executing(Free) /\ Unplanned(Free)
    BY DEF Free, Executing, Unplanned, ToolPhases
  <1>. QED
    BY <1>1, <1>2 DEF Settled, Fulfilled, Owed, Sole

\* Ops reach the log at most once for a call that is executed once, and if
\* they do not the answer is an error.
LEMMA AppendSettled ==
  ASSUME Inv, Settled, NEW w \in Worker, AppendOps(w)
  PROVE  Settled'
  <1>. DEFINE f == work[w]
              k == Key2(f)
  <1>1. f.phase = "append" /\ UNCHANGED <<store, turns, ran>>
    BY DEF AppendOps, At
  <1>2. IsFrame(f) /\ f.result # "denied"
    BY <1>1, WorkingFits DEF Settled, Fulfilled, Owed, Unplanned
  <1>3. Executing(f) <=> f.turn # 0
    BY <1>1, <1>2 DEF Executing, ToolPhases
  <1>4. PICK frames, g :
          /\ work' = [frames EXCEPT ![w] = g]
          /\ frames \in {work, Missed(work, f.plan.ops)}
          /\ \/ g = Following(f, "append") /\ applied' \in {applied, applied \union {k}}
             \/ g = Failing(f) /\ applied' = applied
          /\ f.turn = 0 => applied' = applied
    <2>1. PICK accepted, next :
            /\ next # Rejected => accepted
            /\ applied' = IF next \notin {Rejected, doc} /\ f.turn # 0
                          THEN applied \union {Key2(f)} ELSE applied
            /\ work' = [(IF next # Rejected THEN Missed(work, f.plan.ops) ELSE work) EXCEPT
                          ![w] = IF accepted THEN Following(f, "append") ELSE Failing(f)]
      BY DEF AppendOps, Appended
    <2>2. PICK frames : frames = IF next # Rejected THEN Missed(work, f.plan.ops) ELSE work
      OBVIOUS
    <2>3. PICK g : g = IF accepted THEN Following(f, "append") ELSE Failing(f)
      OBVIOUS
    <2>4. work' = [frames EXCEPT ![w] = g]
      BY <2>1, <2>2, <2>3
    <2>. QED
      BY <2>1, <2>2, <2>3, <2>4
  <1>5. SameCall(f, g) /\ Key2(g) = k /\ g.turn = f.turn /\ g.at = f.at
    BY <1>2, <1>4, FollowingSame, FailingSame, KeySame
  <1>6. g.result \in {f.result, "error"} /\ g.phase \in ToolPhases \ {"read"}
    <2>1. Failing(f).result = "error"
      BY <1>2 DEF Failing, IsFrame
    <2>2. Following(f, "append").result \in {f.result, "error"}
      BY <1>2, FollowingKind
    <2>. QED
      BY <1>4, <1>5, <2>1, <2>2 DEF SameCall
  <1>7. /\ Frames(work, turns, grants) /\ Grown(turns, turns) /\ IsStore(store)
        /\ Counts(applied, ran) /\ Outcome(turns, store.runs, applied, ran)
        /\ Owed(work, turns, store.runs, applied, ran) /\ Sole(work, turns, ran)
    BY GrownSame DEF Inv, Settled, Fulfilled
  <1>8. /\ Frames(frames, turns, grants)
        /\ Owed(frames, turns, store.runs, applied, ran) /\ Sole(frames, turns, ran)
        /\ \A v \in Worker : Executing(frames[v]) =>
             Executing(work[v]) /\ Key2(frames[v]) = Key2(work[v])
    BY <1>4, <1>7, MissedFrames, MissedOwed
  <1>9. Executing(f) => Due(f, turns[f.turn].answer[f.at], store.runs, applied, ran)
    BY <1>7 DEF Owed
  <1>. HIDE DEF k
  <1>10. Executing(f) /\ ran[k] = 1 =>
           /\ \A v \in Worker \ {w} : Executing(work[v]) => Key2(work[v]) # k
           /\ ~IsError(turns, f.turn, f.at)
    BY <1>7 DEF Sole, k
  <1>11. Executing(f) => Due(g, turns[f.turn].answer[f.at], store.runs, applied', ran)
    BY <1>1, <1>2, <1>4, <1>9, AppendedDue, FailingDue
  <1>12. Owing(frames, w, g, turns, store.runs, applied', ran)
    <2>1. Unplanned(g)
      BY <1>2, <1>6 DEF Unplanned, ToolPhases
    <2>2. Executing(g) => Executing(f)
      BY <1>3, <1>5 DEF Executing
    <2>. QED
      BY <1>5, <1>8, <1>10, <1>11, <2>1, <2>2 DEF Owing
  <1>13. Undisturbed(frames, w, turns, turns, applied, applied', ran, ran)
    <2>. SUFFICES ASSUME NEW v \in Worker \ {w}, Executing(frames[v]), ran[Key2(frames[v])] = 1,
                         Key2(frames[v]) \in applied'
                  PROVE  Key2(frames[v]) \in applied
      BY DEF Undisturbed
    <2>1. CASE Key2(frames[v]) = k /\ f.turn # 0
      BY <1>3, <1>8, <1>10, <2>1
    <2>2. CASE Key2(frames[v]) # k \/ f.turn = 0
      BY <1>4, <2>2
    <2>. QED
      BY <2>1, <2>2
  <1>14. Owed(work', turns, store.runs, applied', ran) /\ Sole(work', turns, ran)
    BY <1>4, <1>7, <1>8, <1>12, <1>13, Carries
  <1>15. Counts(applied', ran)
    <2>1. Executing(f) => k \in DOMAIN ran
      BY <1>9 DEF Due, k
    <2>. QED
      BY <1>3, <1>4, <1>7, <2>1 DEF Counts
  <1>16. Outcome(turns, store.runs, applied', ran)
    <2>. SUFFICES ASSUME NEW t \in DOMAIN turns, NEW i \in DOMAIN turns[t].results,
                         turns[t].results[i] = "error", ran[<<t, i>>] = 1, <<t, i>> \in applied'
                  PROVE  Generating(turns[t].answer[i])
      BY <1>7 DEF Outcome
    <2>1. CASE <<t, i>> \in applied
      BY <1>7, <2>1 DEF Outcome
    <2>2. CASE <<t, i>> \notin applied
      <3>1. <<t, i>> = k /\ f.turn # 0
        BY <1>4, <2>2
      <3>2. f.turn = t /\ f.at = i
        BY <3>1 DEF k, Key2
      <3>. QED
        BY <1>3, <1>10, <3>1, <3>2 DEF IsError
    <2>. QED
      BY <2>1, <2>2
  <1>. QED
    BY <1>1, <1>7, <1>14, <1>15, <1>16 DEF Settled, Fulfilled

-----------------------------------------------------------------------------
(***************************************************************************)
(* The steps that write a turn.                                            *)
(***************************************************************************)
\* A result is as it was, or the one that w brings, or none that counts.
Brought(w, rows, more) ==
  \A t \in DOMAIN more : \A i \in DOMAIN more[t].results :
    LET told == more[t].results[i] IN
    \/ told \notin {"ok", "error"}
    \/ /\ t \in DOMAIN rows /\ more[t].answer = rows[t].answer
       /\ \/ i \in DOMAIN rows[t].results /\ told = rows[t].results[i]
          \/ /\ t = work[w].turn /\ i = work[w].at /\ told = work[w].result
             /\ work[w].phase = "record" /\ work[w].turn # 0

LEMMA RowsSettled ==
  ASSUME Inv, Settled, NEW w \in Worker, NEW g, work' = [work EXCEPT ![w] = g],
         ~Executing(g), Unplanned(g), UNCHANGED <<store, applied, ran>>,
         Grown(turns, turns'), Brought(w, turns, turns')
  PROVE  Settled'
  <1>. DEFINE f == work[w]
              k == Key2(f)
  <1>1. /\ Frames(work, turns, grants)
        /\ Outcome(turns, store.runs, applied, ran)
        /\ Owed(work, turns, store.runs, applied, ran) /\ Sole(work, turns, ran)
    BY DEF Inv, Settled, Fulfilled
  <1>2. k[1] = f.turn /\ k[2] = f.at /\ k = <<f.turn, f.at>>
    BY DEF Key2
  <1>. HIDE DEF k
  <1>3. ASSUME f.phase = "record", f.turn # 0, f.result \in {"ok", "error"}
        PROVE  Executing(f) /\ Due(f, turns[f.turn].answer[f.at], store.runs, applied, ran)
    <2>1. Executing(f)
      BY <1>3 DEF Executing, ToolPhases
    <2>. QED
      BY <1>1, <2>1 DEF Owed
  <1>4. Outcome(turns', store.runs, applied, ran)
    <2>. SUFFICES ASSUME NEW t \in DOMAIN turns', NEW i \in DOMAIN turns'[t].results,
                         turns'[t].results[i] \in {"ok", "error"}
                  PROVE  LET told == turns'[t].results[i]
                             call == turns'[t].answer[i]
                         IN /\ told = "ok" /\ Triggers(call) => RunOf(store.runs, <<t, i>>)
                            /\ told = "error" =>
                                 /\ <<t, i>> \in DOMAIN ran
                                 /\ ran[<<t, i>>] = 1 /\ <<t, i>> \in applied => Generating(call)
      BY DEF Outcome
    <2>1. t \in DOMAIN turns /\ turns'[t].answer = turns[t].answer
      BY DEF Brought
    <2>2. CASE i \in DOMAIN turns[t].results /\ turns'[t].results[i] = turns[t].results[i]
      BY <1>1, <2>1, <2>2 DEF Outcome
    <2>3. CASE /\ t = f.turn /\ i = f.at /\ turns'[t].results[i] = f.result
               /\ f.phase = "record" /\ f.turn # 0
      <3>1. Due(f, turns[t].answer[i], store.runs, applied, ran) /\ k = <<t, i>>
        BY <1>2, <1>3, <2>3
      <3>. QED
        BY <2>1, <2>3, <3>1 DEF Due, k
    <2>. QED
      BY <2>2, <2>3 DEF Brought
  <1>5. Undisturbed(work, w, turns, turns', applied, applied, ran, ran)
    <2>. SUFFICES ASSUME NEW v \in Worker \ {w}, Executing(work[v]), ran[Key2(work[v])] = 1,
                         IsError(turns', work[v].turn, work[v].at)
                  PROVE  IsError(turns, work[v].turn, work[v].at)
      BY DEF Undisturbed, Key2
    <2>. DEFINE t == work[v].turn
                i == work[v].at
    <2>1. t \in DOMAIN turns'
      <3>1. Fits(work[v], turns, grants) /\ work[v].phase \in ToolPhases /\ t # 0
        BY <1>1 DEF Frames, Executing
      <3>2. t \in DOMAIN turns
        BY <3>1 DEF Fits, ToolPhases
      <3>. QED
        BY <3>2 DEF Grown
    <2>2. Key2(work[v]) = <<t, i>>
      BY DEF Key2
    <2>3. ~(t = f.turn /\ i = f.at /\ f.phase = "record" /\ f.turn # 0 /\ f.result = "error")
      <3>1. CASE t = f.turn /\ i = f.at /\ f.phase = "record" /\ f.turn # 0 /\ f.result = "error"
        <4>1. Executing(f) /\ k = Key2(work[v])
          BY <1>2, <1>3, <2>2, <3>1
        <4>. QED
          BY <1>1, <4>1 DEF Sole, k
      <3>. QED
        BY <3>1
    <2>. QED
      BY <2>1, <2>3 DEF Brought, IsError
  <1>6. Owing(work, w, g, turns', store.runs, applied, ran)
    BY IdleOwing
  <1>7. Owed(work', turns', store.runs, applied, ran) /\ Sole(work', turns', ran)
    BY <1>1, <1>5, <1>6, Carries
  <1>. QED
    BY <1>4, <1>7 DEF Settled, Fulfilled

\* Receiving the turn, its answer, and its end.
LEMMA TurnSettled ==
  ASSUME Inv, Settled, NEW w \in Worker,
         InsertTurn(w) \/ Complete(w) \/ SaveTurn(w) \/ failTurn(w)
  PROVE  Settled'
  <1>. DEFINE f == work[w]
              t == f.turn
  <1>1. IsTable(turns) /\ UNCHANGED <<store, applied, ran>>
    BY DEF Inv, InsertTurn, Complete, SaveTurn, failTurn, history, database
  <1>2. CASE InsertTurn(w)
    <2>. DEFINE r == [status |-> "running", seq |-> f.seq, answer |-> <<>>,
                      pending |-> 0, results |-> <<>>]
                g == Frame("ask", "submit", Len(turns) + 1, 1, None)
    <2>1. IsRow(r) /\ DOMAIN r.results = {}
      <3>1. <<>> \in Seq({}) /\ DOMAIN <<>> = {}
        OBVIOUS
      <3>. QED
        BY <3>1 DEF IsRow
    <2>2. turns' = Append(turns, r) /\ work' = [work EXCEPT ![w] = g]
      BY <1>2 DEF InsertTurn, Become
    <2>. HIDE DEF r
    <2>3. /\ IsTable(turns') /\ DOMAIN turns' = DOMAIN turns \union {Len(turns) + 1}
          /\ \A u \in DOMAIN turns : turns'[u] = turns[u]
          /\ turns'[Len(turns) + 1] = r
      BY <1>1, <2>1, <2>2, RowAppended
    <2>4. g.phase = "ask" /\ g.result = "ok"
      BY DEF Frame
    <2>. HIDE DEF g
    <2>5. ~Executing(g) /\ Unplanned(g)
      BY <2>4 DEF Executing, Unplanned, ToolPhases
    <2>6. Grown(turns, turns') /\ Brought(w, turns, turns')
      BY <1>1, <2>1, <2>3 DEF Grown, Brought
    <2>. QED
      BY <1>1, <2>2, <2>5, <2>6, RowsSettled
  <1>3. CASE Complete(w) \/ SaveTurn(w) \/ failTurn(w)
    <2>1. Fits(f, turns, grants) /\ IsFrame(f) /\ f.phase \in {"ask", "save"}
      BY <1>3, WorkingFits DEF Complete, SaveTurn, failTurn, At
    <2>2. t \in DOMAIN turns
      BY <2>1 DEF Fits, ToolPhases
    <2>3. IsRow(turns[t])
      BY <1>1, <2>2 DEF IsTable
    <2>4. PICK r : /\ turns' = [turns EXCEPT ![t] = r] /\ IsRow(r)
                   /\ \/ r.answer = turns[t].answer /\ r.results = turns[t].results
                      \/ turns[t].answer = <<>> /\ \A i \in DOMAIN r.results : r.results[i] = "none"
      <3>1. CASE Complete(w)
        <4>1. PICK a \in Answers : turns' = [turns EXCEPT ![t].answer = a,
                                              ![t].results = [i \in DOMAIN a |-> "none"]]
          BY <3>1 DEF Complete
        <4>2. PICK r : r = [turns[t] EXCEPT !.answer = a, !.results = [i \in DOMAIN a |-> "none"]]
          OBVIOUS
        <4>3. turns' = [turns EXCEPT ![t] = r]
          BY <2>2, <4>1, <4>2
        <4>4. /\ r = [status |-> r.status, seq |-> r.seq, answer |-> r.answer,
                      pending |-> r.pending, results |-> r.results]
              /\ r.answer = a /\ r.results = [i \in DOMAIN a |-> "none"]
          BY <2>3, <4>2 DEF IsRow
        <4>5. \E S : a \in Seq(S)
          BY AnswersTyped
        <4>6. turns[t].answer = <<>>
          BY <3>1 DEF Complete, At, Inv, Frames, Asking
        <4>. QED
          BY <4>3, <4>4, <4>5, <4>6 DEF IsRow
      <3>2. CASE SaveTurn(w) \/ failTurn(w)
        <4>1. PICK r : /\ turns' = [turns EXCEPT ![t] = r]
                       /\ \/ \E s, p : r = [turns[t] EXCEPT !.status = s, !.pending = p]
                          \/ r = [turns[t] EXCEPT !.status = "failed"]
          <5>1. CASE SaveTurn(w)
            <6>1. PICK s, p : turns' = [turns EXCEPT ![t].status = s, ![t].pending = p]
              BY <5>1 DEF SaveTurn
            <6>2. turns' = [turns EXCEPT ![t] = [turns[t] EXCEPT !.status = s, !.pending = p]]
              BY <2>2, <6>1
            <6>. QED
              BY <6>2
          <5>2. CASE failTurn(w)
            BY <2>2, <5>2 DEF failTurn
          <5>. QED
            BY <3>2, <5>1, <5>2
        <4>2. IsRow(r) /\ r.answer = turns[t].answer /\ r.results = turns[t].results
          BY <2>3, <4>1 DEF IsRow
        <4>. QED
          BY <4>1, <4>2
      <3>. QED
        BY <1>3, <3>1, <3>2
    <2>5. IsTable(turns') /\ DOMAIN turns' = DOMAIN turns /\ turns'[t] = r
          /\ \A u \in DOMAIN turns \ {t} : turns'[u] = turns[u]
      BY <1>1, <2>2, <2>4, RowChanged
    <2>6. Grown(turns, turns') /\ Brought(w, turns, turns')
      BY <1>1, <2>4, <2>5 DEF Grown, Brought
    <2>7. PICK g : work' = [work EXCEPT ![w] = g] /\ g \in {Free, [f EXCEPT !.phase = "next"]}
                   /\ (g # Free => f.phase = "ask")
      BY <1>3 DEF Complete, SaveTurn, failTurn, Become, At
    <2>8. ~Executing(g) /\ Unplanned(g)
      <3>1. f.phase = "ask" => f.result = "ok"
        BY DEF Settled, Fulfilled, Owed, Unplanned
      <3>2. g = Free \/ (g.phase = "next" /\ g.result = "ok")
        BY <2>1, <2>7, <3>1 DEF IsFrame
      <3>. QED
        BY <3>2 DEF Free, Executing, Unplanned, ToolPhases
    <2>. QED
      BY <1>1, <2>6, <2>7, <2>8, RowsSettled
  <1>. QED
    BY <1>2, <1>3

\* The result is written, or the write is lost.
LEMMA RecordSettled ==
  ASSUME Inv, Settled, NEW w \in Worker, Record(w) \/ LoseResult(w)
  PROVE  Settled'
  <1>. DEFINE f == work[w]
              t == f.turn
  <1>1. PICK kept \in BOOLEAN : Recorded(w, kept)
    BY DEF Record, LoseResult
  <1>2. IsTable(turns) /\ UNCHANGED <<store, applied, ran>> /\ f.phase = "record"
    BY <1>1 DEF Inv, Record, LoseResult, Recorded, At, history, database
  <1>3. Fits(f, turns, grants) /\ IsFrame(f)
    BY <1>2, WorkingFits
  <1>4. PICK g :
          /\ work' = [work EXCEPT ![w] = g]
          /\ g = CASE f.for = "submit"  -> [Frame("next", "submit", f.turn, f.at + 1, None)
                                              EXCEPT !.seq = 0]
                   [] f.for = "approve" -> Save(f, 0)
                   [] f.for = "mcp"     -> Free
    BY <1>1 DEF Recorded, Become
  <1>5. ~Executing(g) /\ Unplanned(g)
    <2>1. CASE f.for = "submit"
      <3>1. g = [Frame("next", "submit", f.turn, f.at + 1, None) EXCEPT !.seq = 0]
        BY <1>4, <2>1
      <3>2. g.phase = "next" /\ g.result = "ok"
        BY <3>1 DEF Frame
      <3>. QED
        BY <3>2 DEF Executing, Unplanned, ToolPhases
    <2>2. CASE f.for = "approve"
      <3>1. g = [f EXCEPT !.phase = "save", !.seq = 0]
        BY <1>4, <2>2 DEF Save
      <3>2. g.phase = "save"
        BY <1>3, <3>1 DEF IsFrame
      <3>. QED
        BY <3>2 DEF Executing, Unplanned, ToolPhases
    <2>3. CASE f.for = "mcp"
      <3>1. g = Free
        BY <1>4, <2>3
      <3>. QED
        BY <3>1 DEF Free, Executing, Unplanned, ToolPhases
    <2>. QED
      BY <1>2, <1>3, <2>1, <2>2, <2>3 DEF Fits
  <1>6. Grown(turns, turns') /\ Brought(w, turns, turns')
    <2>1. CASE turns' = turns
      BY <1>2, <2>1, GrownSame DEF Brought
    <2>2. CASE turns' = [turns EXCEPT ![f.turn].results[f.at] = f.result] /\ t # 0
      <3>1. t \in DOMAIN turns
        BY <1>2, <1>3, <2>2 DEF Fits, ToolPhases
      <3>2. IsRow(turns[t])
        BY <1>2, <3>1 DEF IsTable
      <3>. DEFINE rs == [turns[t].results EXCEPT ![f.at] = f.result]
      <3>3. turns' = [turns EXCEPT ![t] = [turns[t] EXCEPT !.results = rs]]
        BY <2>2, <3>1
      <3>4. /\ DOMAIN rs = DOMAIN turns[t].results
            /\ \A i \in DOMAIN rs : rs[i] = IF i = f.at THEN f.result ELSE turns[t].results[i]
        OBVIOUS
      <3>. HIDE DEF rs
      <3>5. PICK r : r = [turns[t] EXCEPT !.results = rs]
        OBVIOUS
      <3>6. IsRow(r) /\ r.answer = turns[t].answer /\ r.results = rs
        BY <3>2, <3>5 DEF IsRow
      <3>7. IsTable(turns') /\ DOMAIN turns' = DOMAIN turns /\ turns'[t] = r
            /\ \A u \in DOMAIN turns \ {t} : turns'[u] = turns[u]
        BY <1>2, <3>1, <3>3, <3>5, <3>6, RowChanged
      <3>8. Grown(turns, turns')
        BY <1>2, <3>6, <3>7 DEF Grown
      <3>9. ASSUME NEW u \in DOMAIN turns', NEW i \in DOMAIN turns'[u].results
            PROVE  /\ u \in DOMAIN turns /\ turns'[u].answer = turns[u].answer
                   /\ \/ i \in DOMAIN turns[u].results /\ turns'[u].results[i] = turns[u].results[i]
                      \/ u = f.turn /\ i = f.at /\ turns'[u].results[i] = f.result
        <4>1. CASE u = t
          BY <3>1, <3>4, <3>6, <3>7, <3>9, <4>1
        <4>2. CASE u # t
          BY <3>7, <3>9, <4>2
        <4>. QED
          BY <4>1, <4>2
      <3>10. Brought(w, turns, turns')
        BY <1>2, <2>2, <3>9 DEF Brought
      <3>. QED
        BY <3>8, <3>10
    <2>. QED
      BY <1>1, <2>1, <2>2 DEF Recorded
  <1>. QED
    BY <1>2, <1>4, <1>5, <1>6, RowsSettled

-----------------------------------------------------------------------------
\* What requests owe to their calls is kept, whatever fails and however often
\* a turn is approved.
THEOREM Settling == Spec => []Settled
  <1>1. Init => Settled
    <2>. SUFFICES ASSUME Init PROVE Settled
      OBVIOUS
    <2>1. DOMAIN turns = {} /\ DOMAIN ran = {} /\ applied = {}
          /\ \A w \in Worker : work[w] = Free
      BY DEF Init
    <2>2. ~Executing(Free) /\ Unplanned(Free)
      BY DEF Free, Executing, Unplanned, ToolPhases
    <2>3. IsStore(store)
      BY DEF Init, IsStore
    <2>. QED
      BY <2>1, <2>2, <2>3 DEF Settled, Fulfilled, Counts, Outcome, Owed, Sole
  <1>2. Inv /\ Settled /\ [Next]_vars => Settled'
    <2>. SUFFICES ASSUME Inv, Settled, [Next]_vars PROVE Settled'
      OBVIOUS
    <2>1. CASE UNCHANGED vars
      BY <2>1 DEF vars, Settled
    <2>2. CASE UserEdit \/ Crash
      BY <2>2, UserEditSettled, CrashSettled
    <2>3. ASSUME NEW w \in Worker, SubmitTurn(w) \/ McpCall(w) \/ AppendOps(w)
          PROVE  Settled'
      BY <2>3, LoopSettled, AppendSettled
    <2>4. ASSUME NEW w \in Worker, Step(w)
          PROVE  Settled'
      BY <2>4, TurnSettled, LoopSettled, ReadSettled, ToolSettled, RecordSettled DEF Step
    <2>5. ASSUME NEW w \in Worker, Trouble(w)
          PROVE  Settled'
      BY <2>5, TurnSettled, LoopSettled, ToolSettled, RecordSettled DEF Trouble
    <2>6. ASSUME NEW w \in Worker, NEW t \in Turns, NEW i \in DOMAIN turns[t].answer,
                 Approve(w, t, i)
          PROVE  Settled'
      BY <2>6, LoopSettled
    <2>. QED
      BY <2>1, <2>2, <2>3, <2>4, <2>5, <2>6 DEF Next
  <1>. QED
    BY <1>1, <1>2, Invariance, PTL DEF Spec

\* An answer "ok" to a call that generates at once means that its run exists,
\* whatever the model asks for, whatever fails and whoever else is at work
\* (dispatch_upstream.go: created but not run is not reported as success).
THEOREM OkHasRun == Spec => []OkMeansRun
  <1>1. Settled => OkMeansRun
    BY DEF Settled, Fulfilled, Outcome, RunOf, OkMeansRun, Turns
  <1>. QED
    BY <1>1, Settling, PTL

\* A call that was executed once and answered with an error left the canvas as
\* it was, unless it was the run after its ops that failed: AppendOps applies
\* all of a call's ops or none, and nothing but a run follows them.
THEOREM ErrorsLeaveNothing == Spec => []ErrorsLeaveCanvas
  <1>1. Settled => ErrorsLeaveCanvas
    BY DEF Settled, Fulfilled, Outcome, ErrorsLeaveCanvas, Turns
  <1>. QED
    BY <1>1, Settling, PTL
=============================================================================
