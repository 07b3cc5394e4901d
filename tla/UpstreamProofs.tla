--------------------------- MODULE UpstreamProofs ---------------------------
(***************************************************************************)
(* Theorems about Upstream, for every set of requests, every upstream and  *)
(* every number of attempts and tries.                                     *)
(***************************************************************************)
EXTENDS Upstream, FiniteSetTheorems, WellFoundedInduction, TLAPS

(* Where the engine and the transport stand with their counts.             *)
Counts ==
    /\ attempt \in 1..MaxAttempts /\ try \in 0..MaxTries
    /\ phase \in {"send", "wait", "pause"} => try >= 1
    /\ phase = "invoke" => try = 0
    /\ phase = "backoff" => attempt < MaxAttempts

(* The calls that may be made for a request in all.                        *)
Calls(r) == {[attempt |-> a, try |-> t, key |-> Key(r, a)] :
                a \in 1..MaxAttempts, t \in 1..MaxTries}

Sending ==
    /\ sent \subseteq Calls(request) /\ served \subseteq sent
    /\ bills \in Nat

(* What the upstream keeps is the answer to the step's key, and it charged *)
(* for that answer only.                                                   *)
Charged ==
    HonoursKeys /\ request.adapter = "openai" =>
       \/ bills = 0 /\ kept = None
       \/ bills = 1 /\ kept # None /\ kept.key = "step"

Inv == Counts /\ Sending /\ Charged

-----------------------------------------------------------------------------
(* The client's steps leave the upstream alone, except that Send sends.    *)
LEMMA ClientCounts ==
    ASSUME Counts, Client \/ CancelRun
    PROVE  Counts' /\ request' = request
  <1>. USE LimitsAssumption
  <1>1. CASE Invoke
    BY <1>1 DEF Invoke, Counts, Fail
  <1>2. CASE Send
    BY <1>2 DEF Send, Counts, Fail
  <1>3. CASE Continue
    BY <1>3 DEF Continue, Counts, Fail
  <1>4. CASE Read
    <2>1. ASSUME NEW c, NEW after, Tried(c, after), phase = "wait" PROVE Counts' /\ request' = request
      BY <2>1 DEF Tried, Fail, Counts
    <2>2. CASE answer.status # "good"
      BY <1>4, <2>1, <2>2 DEF Read
    <2>3. CASE answer.status = "good" /\ answer.garbled /\ ~Raw(request)
      BY <1>4, <2>1, <2>3 DEF Read
    <2>4. CASE answer.status = "good" /\ ~(answer.garbled /\ ~Raw(request))
      BY <1>4, <2>4 DEF Read, Fail, Counts
    <2>. QED
      BY <2>2, <2>3, <2>4
  <1>5. CASE Break
    BY <1>5 DEF Break, Counts, Tried, Fail
  <1>6. CASE GiveUp
    BY <1>6 DEF GiveUp, Counts, Fail
  <1>7. CASE Record
    BY <1>7 DEF Record, Counts
  <1>8. CASE Again
    BY <1>8 DEF Again, Counts
  <1>9. CASE CancelRun
    BY <1>9 DEF CancelRun, client, Counts
  <1>. QED
    BY <1>1, <1>2, <1>3, <1>4, <1>5, <1>6, <1>7, <1>8, <1>9 DEF Client


LEMMA ClientSends ==
    ASSUME Client \/ CancelRun
    PROVE  /\ UNCHANGED <<served, kept, bills>>
           /\ \/ UNCHANGED sent
              \/ /\ phase = "send" /\ ~canceled
                 /\ sent' = sent \cup {[attempt |-> attempt, try |-> try,
                                        key |-> Key(request, attempt)]}
  BY DEF Client, CancelRun, Invoke, Send, Continue, Read, Break, GiveUp,
         Record, Again, upstream

LEMMA ExecuteServes ==
    ASSUME Execute
    PROVE  \E call \in sent \ served, body \in Executed(request) :
              LET known == HonoursKeys /\ call.key # None /\ kept # None
                           /\ kept.key = call.key
              IN  /\ served' = served \cup {call}
                  /\ bills' = IF known THEN bills ELSE bills + 1
                  /\ known => body = kept.body
                  /\ kept' = IF HonoursKeys /\ call.key # None
                             THEN [key |-> call.key, body |-> body] ELSE kept
                  /\ UNCHANGED <<request, attempt, try, phase, sent>>
  BY DEF Execute, client

LEMMA DeclineServes ==
    ASSUME Decline
    PROVE  /\ \E call \in sent \ served : served' = served \cup {call}
           /\ UNCHANGED <<request, attempt, try, phase, sent, kept, bills>>
  BY DEF Decline, client

-----------------------------------------------------------------------------
LEMMA InvInit == Init => Inv
  <1>. SUFFICES ASSUME Init PROVE Inv
    OBVIOUS
  <1>1. Counts
    BY LimitsAssumption DEF Init, Counts
  <1>2. Sending /\ Charged
    BY DEF Init, Sending, Charged
  <1>. QED
    BY <1>1, <1>2 DEF Inv

LEMMA InvStep == Inv /\ [Next]_vars => Inv'
  <1>. SUFFICES ASSUME Inv, [Next]_vars PROVE Inv'
    OBVIOUS
  <1>1. CASE Client \/ CancelRun
    <2>1. Counts' /\ request' = request
      BY <1>1, ClientCounts DEF Inv
    <2>2. Charged'
      BY <1>1, <2>1, ClientSends DEF Inv, Charged
    <2>3. Sending'
      <3>1. CASE UNCHANGED sent
        BY <1>1, <2>1, <3>1, ClientSends DEF Inv, Sending, Calls, Key
      <3>2. CASE /\ phase = "send"
                 /\ sent' = sent \cup {[attempt |-> attempt, try |-> try,
                                        key |-> Key(request, attempt)]}
        <4>1. attempt \in 1..MaxAttempts /\ try \in 1..MaxTries
          BY <3>2, LimitsAssumption DEF Inv, Counts
        <4>2. sent' \subseteq Calls(request)
          BY <3>2, <4>1 DEF Inv, Sending, Calls
        <4>3. Calls(request)' = Calls(request)
          BY <2>1 DEF Calls, Key
        <4>. QED
          BY <1>1, <3>2, <4>2, <4>3, ClientSends DEF Inv, Sending
      <3>. QED
        BY <1>1, <3>1, <3>2, ClientSends
    <2>. QED
      BY <2>1, <2>2, <2>3 DEF Inv
  <1>2. CASE Execute
    <2>. PICK call \in sent \ served, body \in Executed(request) :
           LET known == HonoursKeys /\ call.key # None /\ kept # None
                        /\ kept.key = call.key
           IN  /\ served' = served \cup {call}
               /\ bills' = IF known THEN bills ELSE bills + 1
               /\ known => body = kept.body
               /\ kept' = IF HonoursKeys /\ call.key # None
                          THEN [key |-> call.key, body |-> body] ELSE kept
               /\ UNCHANGED <<request, attempt, try, phase, sent>>
      BY <1>2, ExecuteServes
    <2>1. Counts' /\ Sending'
      BY DEF Inv, Counts, Sending, Calls, Key
    <2>2. Charged'
      <3>. SUFFICES ASSUME HonoursKeys, request.adapter = "openai"
                    PROVE  bills' = 1 /\ kept' # None /\ kept'.key = "step"
        BY DEF Charged
      <3>1. call.key = "step"
        BY DEF Inv, Sending, Calls, Key
      <3>2. kept' = [key |-> "step", body |-> body] /\ "step" # None
        BY <3>1, NoneAssumption
      <3>3. kept' # None
        BY <3>2, NoneAssumption DEF KeptOf, Executed
      <3>4. bills' = 1
        BY <3>1, <3>2 DEF Inv, Charged
      <3>. QED
        BY <3>2, <3>3, <3>4
    <2>. QED
      BY <2>1, <2>2 DEF Inv
  <1>3. CASE Decline
    BY <1>3, DeclineServes DEF Inv, Counts, Sending, Charged, Calls, Key
  <1>4. CASE UNCHANGED vars
    BY <1>4 DEF vars, Inv, Counts, Sending, Charged, Calls, Key
  <1>. QED
    BY <1>1, <1>2, <1>3, <1>4 DEF Next

LEMMA Invariant == Spec => []Inv
  BY InvInit, InvStep, PTL DEF Spec

(* However often the engine and the transport retry a step, and whatever   *)
(* is lost on the way, an upstream that honours the idempotency key of     *)
(* idempotency.go charges for the step once.                               *)
THEOREM KeyPaidOnce == Spec => []KeyedPaidOnce
  <1>1. Inv => KeyedPaidOnce
    BY DEF Inv, Charged, KeyedPaidOnce
  <1>. QED
    BY <1>1, Invariant, PTL

(* Once the run is canceled nothing more is sent, in whichever pause of    *)
(* the engine (engine.go) or the transport (transport.go) it was.          *)
THEOREM CancelSilences == Spec => CanceledSendsNothing
  <1>1. [Next]_vars => [canceled => sent' = sent]_vars
    BY ClientSends, ExecuteServes, DeclineServes DEF Next, vars
  <1>. QED
    BY <1>1, PTL DEF Spec, CanceledSendsNothing

-----------------------------------------------------------------------------
(* The calls that may be made are as many as attempts and tries allow.     *)
LEMMA CallsFinite ==
    ASSUME NEW r
    PROVE  /\ IsFiniteSet(Calls(r))
           /\ Cardinality(Calls(r)) <= MaxAttempts * MaxTries
  <1>. DEFINE P == (1..MaxAttempts) \X (1..MaxTries)
              f == [p \in P |-> [attempt |-> p[1], try |-> p[2],
                                key |-> Key(r, p[1])]]
  <1>1. /\ IsFiniteSet(1..MaxAttempts) /\ IsFiniteSet(1..MaxTries)
        /\ Cardinality(1..MaxAttempts) = MaxAttempts
        /\ Cardinality(1..MaxTries) = MaxTries
    BY FS_Interval, LimitsAssumption
  <1>2. IsFiniteSet(P) /\ Cardinality(P) = MaxAttempts * MaxTries
    <2>1. IsFiniteSet(P) /\ Cardinality(P) = Cardinality(1..MaxAttempts) * Cardinality(1..MaxTries)
      BY <1>1, FS_Product
    <2>. QED
      BY <1>1, <2>1
  <1>3. f \in Surjection(P, Calls(r))
    <2>1. f \in [P -> Calls(r)]
      BY DEF Calls
    <2>2. ASSUME NEW c \in Calls(r) PROVE \E p \in P : f[p] = c
      <3>1. PICK a \in 1..MaxAttempts, t \in 1..MaxTries :
              c = [attempt |-> a, try |-> t, key |-> Key(r, a)]
        BY DEF Calls
      <3>. WITNESS <<a, t>> \in P
      <3>. QED
        BY <3>1
    <2>. QED
      BY <2>1, <2>2 DEF Surjection
  <1>. HIDE DEF f, P
  <1>. QED
    BY <1>2, <1>3, FS_Surjection

(* Every execution that is charged for is the answer to a call of its own. *)
BilledCalls == IsFiniteSet(served) /\ bills <= Cardinality(served)

LEMMA BilledStep == Inv /\ BilledCalls /\ [Next]_vars => BilledCalls'
  <1>. SUFFICES ASSUME Inv, BilledCalls, [Next]_vars PROVE BilledCalls'
    OBVIOUS
  <1>1. ASSUME NEW call \in sent \ served, served' = served \cup {call}
        PROVE  IsFiniteSet(served') /\ Cardinality(served') = Cardinality(served) + 1
    BY <1>1, FS_AddElement DEF BilledCalls
  <1>2. Cardinality(served) \in Nat /\ bills \in Nat
    BY FS_CardinalityType DEF BilledCalls, Inv, Sending
  <1>3. CASE Client \/ CancelRun
    BY <1>3, ClientSends DEF BilledCalls
  <1>4. CASE Execute
    <2>1. PICK call \in sent \ served : served' = served \cup {call}
      BY <1>4, ExecuteServes
    <2>2. bills' \in {bills, bills + 1}
      BY <1>4, ExecuteServes
    <2>3. IsFiniteSet(served') /\ Cardinality(served') = Cardinality(served) + 1
      BY <1>1, <2>1
    <2>. QED
      BY <1>2, <2>2, <2>3 DEF BilledCalls
  <1>5. CASE Decline
    <2>1. PICK call \in sent \ served : served' = served \cup {call}
      BY <1>5, DeclineServes
    <2>2. IsFiniteSet(served') /\ Cardinality(served') = Cardinality(served) + 1
      BY <1>1, <2>1
    <2>. QED
      BY <1>2, <1>5, <2>2, DeclineServes DEF BilledCalls
  <1>6. CASE UNCHANGED vars
    BY <1>6 DEF vars, BilledCalls
  <1>. QED
    BY <1>3, <1>4, <1>5, <1>6 DEF Next

(* What a step can cost when the upstream keeps no keys: at most one       *)
(* charge for each try of each attempt (engine.go, transport.go).          *)
THEOREM CostIsBounded == Spec => []BoundedCost
  <1>1. Init => BilledCalls
    BY FS_EmptySet DEF Init, BilledCalls
  <1>2. Inv /\ BilledCalls => BoundedCost
    <2>. SUFFICES ASSUME Inv, BilledCalls PROVE BoundedCost
      OBVIOUS
    <2>1. Cardinality(served) <= Cardinality(Calls(request))
      BY CallsFinite, FS_Subset DEF Inv, Sending
    <2>2. Cardinality(served) \in Nat /\ Cardinality(Calls(request)) \in Nat
      BY CallsFinite, FS_CardinalityType DEF BilledCalls
    <2>3. MaxAttempts * MaxTries \in Nat /\ bills \in Nat
      BY LimitsAssumption DEF Inv, Sending
    <2>. HIDE DEF Inv
    <2>. QED
      BY <2>1, <2>2, <2>3, CallsFinite DEF BilledCalls, BoundedCost
  <1>. QED
    BY <1>1, <1>2, BilledStep, Invariant, PTL DEF Spec

-----------------------------------------------------------------------------
(* JSON values, all the way down: a list is a sequence of values of J, the  *)
(* fields of an object are values of J.                                     *)
Closed(J) ==
    \A v \in J : /\ v.kind = "list" => v.items \in Seq(J)
                 /\ v.kind = "object" => \A n \in DOMAIN v.fields : v.fields[n] \in J

(* A set of natural numbers has a least one.                                *)
LEMMA Least ==
    ASSUME NEW T \in SUBSET Nat, T # {}
    PROVE  \E i \in T : \A j \in T : i <= j
  <1>. DEFINE R == OpToRel(<, Nat)
  <1>1. IsWellFoundedOn(R, Nat)
    BY NatLessThanWellFounded
  <1>2. \A x, y \in Nat : x < y => <<x, y>> \in R
    BY DEF OpToRel
  <1>. HIDE DEF R
  <1>3. PICK i \in T : \A j \in T : ~ (<<j, i>> \in R)
    BY <1>1, WFMin
  <1>4. \A j \in T : ~ (j < i)
    BY <1>2, <1>3
  <1>. QED
    BY <1>4

Start(root) == [found |-> TRUE, value |-> root, field |-> ""]

(* LookupPath goes down the path one step after the other: that a function *)
(* of the positions does so exists for every path.                         *)
Walks(at, root, path, n) ==
    at = [i \in 0..n |->
            IF i = 0 THEN Start(root) ELSE StepInto(at[i - 1], path[i])]

LEMMA WalkExists ==
    ASSUME NEW root, NEW path, NEW n \in Nat
    PROVE  \E at : Walks(at, root, path, n)
  <1>. DEFINE Def(at, k) == Walks(at, root, path, k)
              T == {k \in Nat : ~ \E at : Def(at, k)}
  <1>. SUFFICES ASSUME T # {} PROVE FALSE
    OBVIOUS
  <1>1. PICK k \in T : \A j \in T : k <= j
    <2>1. T \in SUBSET Nat
      OBVIOUS
    <2>. HIDE DEF T
    <2>. QED
      BY <2>1, Least
  <1>. USE DEF Walks
  <1>2. k # 0
    <2>1. Def([i \in 0..0 |-> Start(root)], 0)
      OBVIOUS
    <2>. QED
      BY <2>1
  <1>3. PICK g : Def(g, k - 1)
    <2>. HIDE DEF Def
    <2>. QED
      BY <1>1, <1>2
  <1>4. Def([i \in 0..k |-> IF i = k THEN StepInto(g[k - 1], path[k]) ELSE g[i]], k)
    <2>. DEFINE h == [i \in 0..k |-> IF i = k THEN StepInto(g[k - 1], path[k]) ELSE g[i]]
    <2>0. k \in Nat /\ k # 0
      BY <1>1, <1>2
    <2>1. \A i \in 0..k : h[i] = IF i = 0 THEN Start(root) ELSE StepInto(h[i - 1], path[i])
      <3>. TAKE i \in 0..k
      <3>1. CASE i = k
        BY <3>1, <2>0
      <3>2. CASE i # k
        <4>1. i \in 0..(k-1) /\ h[i] = g[i]
          BY <3>2, <2>0
        <4>2. g[i] = IF i = 0 THEN Start(root) ELSE StepInto(g[i - 1], path[i])
          BY <4>1, <1>3
        <4>3. i # 0 => h[i-1] = g[i-1]
          BY <3>2, <2>0
        <4>. QED
          BY <4>1, <4>2, <4>3
      <3>. QED
        BY <3>1, <3>2
    <2>. QED
      BY <2>1
  <1>. HIDE DEF Def
  <1>. QED
    BY <1>1, <1>4

(* What is found at the end of a path is a JSON value again.               *)
LEMMA LookupFinds ==
    ASSUME NEW J, Closed(J), NEW root \in J, NEW path \in Seq(PathStep),
           LookupPath(root, path).found
    PROVE  LookupPath(root, path).value \in J
  <1>. DEFINE n == Len(path)
              at == CHOOSE f : Walks(f, root, path, n)
              InJ(a) == a.found => a.value \in J
  <1>0. n \in Nat /\ \A i \in 1..n : path[i] \in PathStep
    OBVIOUS
  <1>1. LookupPath(root, path) = at[n]
    BY DEF LookupPath, Walks, Start
  <1>2. Walks(at, root, path, n)
    <2>1. \E f : Walks(f, root, path, n)
      BY <1>0, WalkExists
    <2>. QED
      BY <2>1, Zenon
  <1>3. \A i \in 0..n : at[i] = IF i = 0 THEN Start(root) ELSE StepInto(at[i - 1], path[i])
    BY <1>2 DEF Walks
  <1>. HIDE DEF at, n
  <1>4. ASSUME NEW a, NEW s \in PathStep, InJ(a)
        PROVE  InJ(StepInto(a, s))
    <2>1. CASE ~a.found
      BY <2>1 DEF StepInto, NotFound
    <2>2. CASE a.found /\ "name" \in DOMAIN s
      BY <1>4, <2>2 DEF StepInto, NotFound, Closed
    <2>3. CASE a.found /\ "name" \notin DOMAIN s
      <3>1. s.index \in Nat
        BY <2>3 DEF PathStep
      <3>2. CASE a.value.kind = "list" /\ s.index < Len(a.value.items)
        <4>1. a.value.items \in Seq(J)
          BY <1>4, <2>3, <3>2 DEF Closed
        <4>2. a.value.items[s.index + 1] \in J
          BY <4>1, <3>1, <3>2
        <4>. QED
          BY <2>3, <3>2, <4>2 DEF StepInto
      <3>3. CASE ~(a.value.kind = "list" /\ s.index < Len(a.value.items))
        BY <2>3, <3>3 DEF StepInto, NotFound
      <3>. QED
        BY <3>2, <3>3
    <2>. QED
      BY <2>1, <2>2, <2>3
  <1>. DEFINE T == {i \in 0..n : ~InJ(at[i])}
  <1>5. T = {}
    <2>. SUFFICES ASSUME T # {} PROVE FALSE
      OBVIOUS
    <2>1. PICK k \in T : \A j \in T : k <= j
      <3>1. T \in SUBSET Nat
        BY <1>0
      <3>. HIDE DEF T
      <3>. QED
        BY <3>1, Least
    <2>2. k \in 1..n
      <3>1. InJ(at[0])
        <4>1. Start(root).value = root
          BY DEF Start
        <4>2. at[0] = Start(root)
          BY <1>0, <1>3
        <4>. QED
          BY <4>1, <4>2
      <3>2. k \in 0..n /\ ~InJ(at[k])
        BY <2>1
      <3>. HIDE DEF InJ
      <3>3. k # 0
        BY <3>1, <3>2
      <3>. QED
        BY <1>0, <3>2, <3>3
    <2>3. k - 1 \in 0..n /\ k - 1 \notin T
      BY <1>0, <2>1, <2>2
    <2>. HIDE DEF InJ
    <2>4. InJ(at[k - 1]) /\ at[k] = StepInto(at[k - 1], path[k])
      BY <1>0, <1>3, <2>2, <2>3
    <2>. QED
      BY <1>0, <1>4, <2>1, <2>2, <2>4
  <1>. QED
    BY <1>0, <1>1, <1>5

-----------------------------------------------------------------------------
(* What a JSON value is read as: nothing usable, or something to show.     *)
Shows(x) == x.assets > 0 \/ x.text \/ x.task

LEMMA Readings ==
    /\ Refusal.refused
    /\ ~AnAsset.refused /\ AnAsset.assets = 1
    /\ ~AText.refused /\ AText.assets = 0 /\ AText.text
    /\ ~ATask.refused /\ ATask.task
  BY DEF Refusal, AnAsset, AText, ATask, Nothing

LEMMA StringRead ==
    ASSUME NEW c, NEW field
    PROVE  StringInto(c, field) \in {Refusal, AnAsset, AText}
  BY DEF StringInto

LEMMA ScalarRead ==
    ASSUME NEW v, NEW field
    PROVE  ScalarInto(v, field) \in {Refusal, AnAsset, AText}
  BY StringRead DEF ScalarInto, ObjectInto

LEMMA ListRead ==
    ASSUME NEW J, NEW items \in Seq(J)
    PROVE  ListInto(items).refused \/ Shows(ListInto(items))
  <1>. DEFINE read(i) == ScalarInto(items[i], "")
              usable == {i \in DOMAIN items : ~read(i).refused}
              pictured == {i \in usable : read(i).assets > 0}
  <1>1. IsFiniteSet(DOMAIN items)
    BY FS_Interval
  <1>2. IsFiniteSet(pictured)
    BY <1>1, FS_Subset
  <1>3. CASE usable = {}
    BY <1>3, Readings DEF ListInto
  <1>4. ASSUME NEW i \in usable PROVE Shows(ListInto(items))
    <2>1. read(i) \in {AnAsset, AText}
      <3>1. ~read(i).refused /\ read(i) \in {Refusal, AnAsset, AText}
        BY ScalarRead
      <3>. HIDE DEF read
      <3>. QED
        BY <3>1, Readings
    <2>2. ListInto(items) = [Nothing EXCEPT !.assets = Cardinality(pictured),
                                            !.text = \E j \in usable : read(j).text]
      BY DEF ListInto
    <2>. HIDE DEF pictured, usable, read
    <2>3. /\ ListInto(items).assets = Cardinality(pictured)
          /\ ListInto(items).text = \E j \in usable : read(j).text
      BY <2>2 DEF Nothing, Refusal
    <2>4. CASE read(i) = AText
      BY <1>4, <2>3, <2>4, Readings DEF Shows
    <2>5. CASE read(i) = AnAsset
      <3>1. i \in pictured
        BY <1>4, <2>5, Readings DEF pictured
      <3>2. Cardinality(pictured) \in Nat /\ Cardinality(pictured) # 0
        BY <1>2, <3>1, FS_CardinalityType, FS_EmptySet
      <3>. QED
        BY <2>3, <3>2 DEF Shows
    <2>. QED
      BY <2>1, <2>4, <2>5
  <1>. QED
    BY <1>3, <1>4

(* An answer to a plan with a path is refused or shows something.          *)
LEMMA ResponseRead ==
    ASSUME NEW J, Closed(J), NEW out \in J, NEW p, p.responsePath \in Seq(PathStep)
    PROVE  BuildResponse(p, out).refused \/ Shows(BuildResponse(p, out))
  <1>. DEFINE at == LookupPath(out, p.responsePath)
  <1>1. CASE p.mode = "async"
    BY <1>1, Readings DEF BuildResponse, Shows
  <1>2. CASE p.mode # "async" /\ ~at.found
    BY <1>2, Readings DEF BuildResponse
  <1>3. CASE p.mode # "async" /\ at.found
    <2>1. at.value \in J
      BY <1>3, LookupFinds
    <2>2. BuildResponse(p, out) = ValueInto(at.value, at.field)
      BY <1>3 DEF BuildResponse
    <2>. HIDE DEF at
    <2>3. CASE at.value.kind = "list"
      BY <2>1, <2>2, <2>3, ListRead DEF ValueInto, Closed
    <2>4. CASE at.value.kind # "list"
      <3>1. BuildResponse(p, out) \in {Refusal, AnAsset, AText}
        BY <2>2, <2>4, ScalarRead DEF ValueInto
      <3>. QED
        BY <3>1, Readings DEF Shows
    <2>. QED
      BY <2>3, <2>4
  <1>. QED
    BY <1>1, <1>2, <1>3

-----------------------------------------------------------------------------
(* A scripted request is sent with a plan, what waits to be read is one of *)
(* the upstream's objects, and a good result shows something.              *)
Scripted ==
    request.adapter = "script" =>
       /\ request \in Requests
       /\ phase \in {"send", "wait", "pause"} => request.plan # None
       /\ phase = "pause" => class # "ok"
       /\ answer # None /\ answer.status = "good" => answer.body \in Objects
       /\ class = "ok" => Shows(result)

(* A body the script adapter reads as good shows something.                *)
LEMMA ScriptRead ==
    ASSUME NEW J, Closed(J), Objects \subseteq J, NEW r \in Requests,
           r.adapter = "script", r.plan # None, NEW body \in Objects,
           Reading(r, body).class = "ok"
    PROVE  Shows(Reading(r, body))
  <1>. DEFINE read == BuildResponse(r.plan, body)
  <1>1. read.refused \/ Shows(read)
    BY ResponseRead, PathsAssumption
  <1>2. Reading(r, body) = IF read.refused THEN Fails("permanent")
                           ELSE Succeeds(read.assets, read.text, read.task)
    BY DEF Reading, Script
  <1>. HIDE DEF read
  <1>3. Fails("permanent").class # "ok"
    BY DEF Fails, Succeeds
  <1>4. Shows(read) => Shows(Succeeds(read.assets, read.text, read.task))
    BY DEF Shows, Succeeds
  <1>. QED
    BY <1>1, <1>2, <1>3, <1>4

(* What a refusal or a failed try leaves behind is never a good result.    *)
LEMMA NeverOk ==
    /\ \A r : r.adapter = "script" /\ LocalRefusal(r) # None
               => ProviderError(LocalRefusal(r)) # "ok"
    /\ \A s : ClassOfStatus(s) # "ok"
  BY DEF LocalRefusal, PlanRefusal, ProviderError, ClassOfStatus

LEMMA ScriptedStep ==
    ASSUME NEW J, Closed(J), Objects \subseteq J
    PROVE  Scripted /\ [Next]_vars => Scripted'
  <1>. SUFFICES ASSUME Scripted, [Next]_vars, request'.adapter = "script"
                PROVE  Scripted'
    BY DEF Scripted
  <1>0. request' = request
    <2>1. CASE Client \/ CancelRun
      BY <2>1 DEF Client, CancelRun, Invoke, Send, Continue, Read, Tried, Break, GiveUp,
                  Record, Again, Fail, client
    <2>. QED
      BY <2>1, ExecuteServes, DeclineServes DEF Next, vars
  <1>1. ASSUME NEW c, ProviderError(c) # "ok", Fail(c), answer' \in {answer, None}
        PROVE  Scripted'
    BY <1>0, <1>1 DEF Scripted, Fail
  <1>2. ASSUME NEW c, NEW after, c # "ok", phase = "wait", Tried(c, after),
               answer' \in {answer, None}
        PROVE  Scripted'
    <2>1. CASE Fail(c)
      BY <1>1, <1>2, <2>1 DEF ProviderError
    <2>2. CASE ~Fail(c)
      BY <1>0, <1>2, <2>2 DEF Scripted, Tried
    <2>. QED
      BY <2>1, <2>2
  <1>3. CASE Invoke
    <2>1. CASE LocalRefusal(request) # None
      BY <1>0, <1>1, <1>3, <2>1, NeverOk DEF Invoke
    <2>2. CASE Fail("permanent")
      BY <1>1, <1>3, <2>2 DEF Invoke, ProviderError
    <2>3. CASE /\ LocalRefusal(request) = None /\ ~Fail("permanent")
      <3>1. request.plan # None
        BY <1>0, <2>3, NamesAssumption DEF LocalRefusal, PlanRefusal, Classes, Refusals
      <3>. QED
        BY <1>0, <1>3, <2>3, <3>1, NamesAssumption DEF Invoke, Scripted
    <2>. QED
      BY <2>1, <2>2, <2>3
  <1>4. CASE Send
    BY <1>0, <1>4, NamesAssumption DEF Send, Fail, ProviderError, Scripted
  <1>5. CASE Continue
    BY <1>0, <1>5 DEF Continue, Fail, ProviderError, Scripted
  <1>6. CASE Read
    <2>1. CASE answer.status # "good"
      BY <1>2, <1>6, <2>1, NeverOk DEF Read
    <2>2. CASE answer.status = "good" /\ answer.garbled /\ ~Raw(request)
      BY <1>2, <1>6, <2>2 DEF Read
    <2>3. CASE answer.status = "good" /\ ~(answer.garbled /\ ~Raw(request))
      <3>. DEFINE read == Reading(request, answer.body)
      <3>1. /\ answer' = None
            /\ IF read.class = "ok"
               THEN /\ result' = read /\ class' = "ok" /\ phase' = "done"
                    /\ UNCHANGED <<request, attempt, try>>
               ELSE Fail(read.class)
        BY <1>6, <2>3 DEF Read
      <3>2. read.class = "ok" => Shows(read)
        BY <1>0, <1>6, <2>3, ScriptRead DEF Scripted, Read
      <3>. HIDE DEF read
      <3>3. CASE read.class = "ok"
        BY <1>0, <3>1, <3>2, <3>3 DEF Scripted, Shows
      <3>4. CASE read.class # "ok"
        BY <1>1, <3>1, <3>4 DEF ProviderError
      <3>. QED
        BY <3>3, <3>4
    <2>. QED
      BY <2>1, <2>2, <2>3
  <1>7. CASE Break
    BY <1>2, <1>7 DEF Break
  <1>8. CASE GiveUp
    BY <1>1, <1>8 DEF GiveUp, ProviderError
  <1>9. CASE Record \/ Again \/ CancelRun
    BY <1>0, <1>9 DEF Record, Again, CancelRun, client, Scripted, Shows
  <1>10. CASE Execute
    <2>1. /\ UNCHANGED client
          /\ \E body \in Objects : \/ answer' = answer
                                   \/ \E g : answer' = Good(body, g)
                                   \/ \E status \in {"timeout", "down"} : answer' = Bad(status)
      BY <1>0, <1>10 DEF Execute, Executed, Deliver
    <2>. QED
      BY <1>0, <2>1 DEF client, Scripted, Good, Bad, Shows
  <1>11. CASE Decline
    <2>1. /\ UNCHANGED client
          /\ \/ answer' = answer
             \/ \E body \in Objects : answer' = Good(body, FALSE)
             \/ \E status \in Statuses : answer' = Bad(status)
      BY <1>0, <1>11 DEF Decline, Declined, Deliver
    <2>. QED
      BY <1>0, <2>1 DEF client, Scripted, Good, Bad, Shows, Statuses
  <1>12. CASE UNCHANGED vars
    BY <1>12 DEF vars, Scripted, Shows
  <1>. QED
    BY <1>3, <1>4, <1>5, <1>6, <1>7, <1>8, <1>9, <1>10, <1>11, <1>12 DEF Next, Client

(* A scripted step that succeeds has something to show, whatever JSON the  *)
(* upstream answers with and whatever path the script names (script.go).   *)
THEOREM ScriptedShows ==
    ASSUME NEW J, Objects \subseteq J, Closed(J)
    PROVE  Spec => []ScriptedHasResult
  <1>1. Init => Scripted
    BY NamesAssumption DEF Init, Scripted
  <1>2. Scripted => ScriptedHasResult
    BY DEF Scripted, Shows, ScriptedHasResult
  <1>. QED
    BY <1>1, <1>2, ScriptedStep, PTL DEF Spec

=============================================================================
