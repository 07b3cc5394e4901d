---------------------------- MODULE ProvidersProofs ----------------------------
(***************************************************************************)
(* What holds of credentials and their resolution, for any number of       *)
(* workspaces, providers, credentials, connections and generations.        *)
(*                                                                         *)
(* Typed and Begun give the shape of the state.  On them rest what a       *)
(* generation is pinned to (Pinned), what a cursor still has to look at    *)
(* (Looks), who saved a model (Saved), and how many connections the        *)
(* cursors hold (Pooled).                                                  *)
(***************************************************************************)
EXTENDS Providers, FiniteSetTheorems, TLAPS

\* Ids of providers belong to one workspace.  Nothing in the code keeps two
\* workspaces from creating the same; the rows of models and the lookup of
\* capabilities then mix them up.
IdsApart == \A k, l \in Creates : k[2] = l[2] => k = l

\* There are no more credentials than a resolution looks at.
AllLookedAt == MaxCredentials <= Limit

ProviderRow == [kind : Kind, declares : Declarable]

CredentialRow ==
  [at : Creates, priority : Priority, sealed : [form : {"envelope"}, key : Nat]]

ModelRow == [declares : SUBSET Capability, by : Workspace]

Phase == {"idle", "query", "rows", "found", "not found", "usable", "refused", "done"}

Call ==
  [phase : Phase, stage : Stage, asked : Filter \union {None}, left : SUBSET CredentialId,
   reason : Outcome, cred : CredentialId \union {None}, filled : CredentialId \union {None},
   checked : CredentialId \union {None}, told : Outcome \union {None}]

Typed ==
  /\ providers \in [Creates -> ProviderRow \union {None}]
  /\ \E n \in 0..MaxCredentials : credentials \in [1..n -> CredentialRow]
  /\ models \in [ProviderId \X Model -> ModelRow \union {None}]
  /\ mainKey \in Nat /\ changes \in 0..MaxChanges
  /\ calls \in [Request -> Call]
  /\ lastErr \in Outcome
  /\ fit \in [Request -> SUBSET CredentialId]

\* What a generation is about: its question, rows there are, a credential once
\* one is found, and the one it was accepted with once it was.
About(call) ==
  /\ call.phase # "idle" => call.asked \in Filter
  /\ call.left \subseteq Rows
  /\ call.cred \in Rows \union {None} /\ call.filled \in Rows \union {None}
  /\ call.phase \in {"found", "usable"} => call.cred \in Rows
  /\ call.stage # "preflight" => call.filled \in Rows
  /\ call.phase \in {"rows", "not found"} => call.reason # "found"

Begun == \A r \in Request : About(calls[r]) /\ fit[r] \subseteq Rows

\* A generation that is executed looks at no credential but the one it was
\* accepted with.
PinnedCall(call) ==
  call.stage = "execute" =>
    /\ call.phase = "rows" => call.left \subseteq {call.filled}
    /\ call.phase \in {"found", "usable"} => call.cred = call.filled

Pinned == \A r \in Request : PinnedCall(calls[r])

\* The credentials a resolution could have used all the time are usable now and
\* still to be looked at, until it has found one or has none left.
Looks ==
  \A r \in Request :
    /\ calls[r].phase = "rows" =>
         fit[r] \subseteq calls[r].left \intersect Usable(calls[r].asked.capability)
    /\ calls[r].phase = "not found" /\ calls[r].reason # "no connection" => fit[r] = {}
    /\ calls[r].phase = "found" =>
         \A c \in fit[r] : credentials[c].priority <= credentials[calls[r].cred].priority

\* A saved model is of a workspace that may create its provider.
Saved == \A k \in ProviderId \X Model : models[k] # None => <<models[k].by, k[1]>> \in Creates

\* The cursors hold no more connections than there are.
Holders == {r \in Request : Holds(r)}

Pooled == IsFiniteSet(Holders) /\ Cardinality(Holders) <= Connections

Tables == <<providers, credentials, models, mainKey, changes>>

-----------------------------------------------------------------------------
LEMMA NumbersTyped ==
  /\ Connections \in Nat /\ Limit \in Nat /\ MaxCredentials \in Nat /\ MaxChanges \in Nat
  /\ Connections > 0 /\ Limit > 0
  BY BoundsTyped

LEMMA RowsCounted ==
  ASSUME NEW n \in 0..MaxCredentials, credentials \in [1..n -> CredentialRow]
  PROVE  Rows = 1..n /\ IsFiniteSet(Rows) /\ Cardinality(Rows) = n
  <1>1. Rows = 1..n
    BY DEF Rows
  <1>2. n \in Nat
    BY NumbersTyped
  <1>3. IsFiniteSet(1..n) /\ Cardinality(1..n) = IF 1 > n THEN 0 ELSE n - 1 + 1
    BY <1>2, FS_Interval
  <1>. QED
    BY <1>1, <1>2, <1>3

LEMMA RowsTyped ==
  ASSUME Typed
  PROVE  /\ Rows \subseteq CredentialId /\ IsFiniteSet(Rows)
         /\ Cardinality(Rows) <= MaxCredentials /\ Cardinality(Rows) \in Nat
         /\ None \notin Rows
         /\ \A c \in Rows : credentials[c] \in CredentialRow
  <1>1. PICK n \in 0..MaxCredentials : credentials \in [1..n -> CredentialRow]
    BY DEF Typed
  <1>2. Rows = 1..n /\ IsFiniteSet(Rows) /\ Cardinality(Rows) = n
    BY <1>1, RowsCounted
  <1>3. 1..n \subseteq CredentialId
    BY NumbersTyped DEF CredentialId
  <1>. QED
    BY <1>1, <1>2, <1>3, InputsTyped, NumbersTyped

LEMMA CallTyped ==
  ASSUME Typed, NEW r \in Request
  PROVE  /\ calls[r] \in Call
         /\ calls[r].phase \in Phase /\ calls[r].stage \in Stage
         /\ calls[r].asked \in Filter \union {None} /\ calls[r].left \subseteq CredentialId
         /\ calls[r].reason \in Outcome /\ calls[r].cred \in CredentialId \union {None}
         /\ calls[r].filled \in CredentialId \union {None}
         /\ calls[r].checked \in CredentialId \union {None}
         /\ calls[r].told \in Outcome \union {None}
         /\ fit[r] \subseteq CredentialId
  <1>1. calls[r] \in Call /\ fit[r] \subseteq CredentialId
    BY DEF Typed
  <1>. QED
    BY <1>1 DEF Call

LEMMA IdleIsCall == Idle \in Call /\ Idle.phase = "idle" /\ Idle.stage = "preflight"
                    /\ Idle.left = {} /\ Idle.cred = None /\ Idle.filled = None
  BY DEF Idle, Call, Phase, Stage, Outcome

LEMMA IdleAbout == About(Idle) /\ PinnedCall(Idle)
  BY DEF Idle, About, PinnedCall

\* What is wanted is a filter, and from the acceptance on it is one credential.
LEMMA WantedIs ==
  ASSUME Typed, Begun, NEW r \in Request, calls[r].phase = "query"
  PROVE  /\ Matching(Wanted(calls[r])) \subseteq Rows
         /\ calls[r].stage = "execute" =>
              Matching(Wanted(calls[r])) \subseteq {calls[r].filled}
  <1>1. Matching(Wanted(calls[r])) \subseteq Rows
    BY DEF Matching
  <1>2. ASSUME calls[r].stage = "execute"
        PROVE  Matching(Wanted(calls[r])) \subseteq {calls[r].filled}
    <2>1. calls[r].asked \in Filter /\ calls[r].filled \in Rows
      BY <1>2 DEF Begun, About
    <2>2. calls[r].filled # None
      BY <2>1, RowsTyped
    <2>3. Wanted(calls[r]).credential = calls[r].filled
      BY <1>2, <2>1 DEF Wanted, Filter
    <2>. QED
      BY <2>2, <2>3 DEF Matching
  <1>. QED
    BY <1>1, <1>2

-----------------------------------------------------------------------------
(***************************************************************************)
(* What the steps do: a step of a generation changes its call alone, a     *)
(* change of the configuration adds rows or stops the generations.         *)
(***************************************************************************)
\* A step of a resolution.
ResolveKind(r) ==
  LET a == calls[r]
      b == calls'[r]
  IN  \/ /\ a.phase = "query" /\ b.phase = "rows" /\ Free > 0
         /\ \E S \in Candidates(Wanted(a)) : b.left = S
         /\ b.reason = "no rows" /\ b.cred = None
      \/ /\ a.phase = "rows"
         /\ \E c \in NextRows(a) :
              \/ b.phase = "found" /\ b.left = {} /\ b.cred = c /\ b.reason = a.reason
              \/ /\ \E declared \in Declared(c) :
                      a.asked.capability \notin declared \/ ~Opens(credentials[c].sealed)
                 /\ b.phase = "rows" /\ b.left = a.left \ {c} /\ b.cred = a.cred
                 /\ b.reason \in {"not declared", "not opened"}
      \/ /\ a.phase \in {"query", "rows"} /\ b.phase = "not found"
         /\ b.reason = "no connection" /\ b.left = {} /\ b.cred = None
      \/ /\ a.phase = "rows" /\ a.left = {} /\ b.phase = "not found"
         /\ b.left = {} /\ b.reason = a.reason /\ b.cred = a.cred
      \/ /\ a.phase \in {"found", "not found"}
         /\ b.phase = "usable" => a.phase = "found"
         /\ b.phase \in {"usable", "refused"} /\ b.left = a.left
         /\ b.cred = a.cred /\ b.reason \in Outcome

LEMMA Resolves ==
  ASSUME Typed, Begun, NEW r \in Request, Resolve(r)
  PROVE  /\ UNCHANGED Tables
         /\ calls' = [calls EXCEPT ![r] = calls'[r]] /\ calls'[r] \in Call
         /\ lastErr' \in Outcome
         /\ calls'[r].asked = calls[r].asked /\ calls'[r].stage = calls[r].stage
         /\ calls'[r].filled = calls[r].filled
         /\ ResolveKind(r)
  <1>. USE CallTyped, RowsTyped DEF Tables, Phase, Outcome
  <1>c. calls \in [Request -> Call]
    BY DEF Typed
  <1>l. lastErr \in Outcome
    BY DEF Typed
  <1>1. CASE Query(r)
    <2>1. PICK S \in Candidates(Wanted(calls[r])) :
            calls' = [calls EXCEPT ![r].phase = "rows", ![r].left = S,
                                   ![r].reason = "no rows", ![r].cred = None]
      BY <1>1 DEF Query
    <2>2. S \subseteq CredentialId
      BY <2>1 DEF Candidates, Matching
    <2>3. calls'[r] = [calls[r] EXCEPT !.phase = "rows", !.left = S,
                                       !.reason = "no rows", !.cred = None]
      BY <2>1, <1>c
    <2>4. calls' = [calls EXCEPT ![r] = calls'[r]]
      BY <2>1, <2>3, <1>c
    <2>5. calls'[r] \in Call
      BY <2>2, <2>3 DEF Call
    <2>6. /\ calls'[r].phase = "rows" /\ calls'[r].left = S
          /\ calls'[r].reason = "no rows" /\ calls'[r].cred = None
          /\ calls'[r].asked = calls[r].asked /\ calls'[r].stage = calls[r].stage
          /\ calls'[r].filled = calls[r].filled
      BY <2>3 DEF Call
    <2>. QED
      BY <1>1, <1>l, <2>4, <2>5, <2>6 DEF Query, ResolveKind
  <1>2. CASE Consider(r)
    <2>0. PICK c \in NextRows(calls[r]) : \E declared \in Declared(c) :
            LET why == IF calls[r].asked.capability \notin declared THEN "not declared"
                       ELSE IF ~Opens(credentials[c].sealed) THEN "not opened" ELSE "found"
            IN  calls' = IF why = "found"
                         THEN [calls EXCEPT ![r].phase = "found", ![r].left = {}, ![r].cred = c]
                         ELSE [calls EXCEPT ![r].left = @ \ {c}, ![r].reason = why]
      BY <1>2 DEF Consider
    <2>1. PICK declared \in Declared(c) :
            LET why == IF calls[r].asked.capability \notin declared THEN "not declared"
                       ELSE IF ~Opens(credentials[c].sealed) THEN "not opened" ELSE "found"
            IN  calls' = IF why = "found"
                         THEN [calls EXCEPT ![r].phase = "found", ![r].left = {}, ![r].cred = c]
                         ELSE [calls EXCEPT ![r].left = @ \ {c}, ![r].reason = why]
      BY <2>0
    <2>2. c \in CredentialId /\ calls[r].phase = "rows"
      BY <1>2 DEF Consider, NextRows
    <2>3. CASE /\ calls[r].asked.capability \in declared
               /\ Opens(credentials[c].sealed)
      <3>1. calls' = [calls EXCEPT ![r].phase = "found", ![r].left = {}, ![r].cred = c]
        BY <2>1, <2>3
      <3>2. calls'[r] = [calls[r] EXCEPT !.phase = "found", !.left = {}, !.cred = c]
        BY <3>1, <1>c
      <3>3. calls' = [calls EXCEPT ![r] = calls'[r]]
        BY <3>1, <3>2, <1>c
      <3>4. calls'[r] \in Call
        BY <2>2, <3>2 DEF Call
      <3>5. /\ calls'[r].phase = "found" /\ calls'[r].left = {} /\ calls'[r].cred = c
            /\ calls'[r].reason = calls[r].reason
            /\ calls'[r].asked = calls[r].asked /\ calls'[r].stage = calls[r].stage
            /\ calls'[r].filled = calls[r].filled
        BY <3>2 DEF Call
      <3>. QED
        BY <1>2, <1>l, <2>2, <3>3, <3>4, <3>5 DEF Consider, ResolveKind
    <2>4. CASE ~(/\ calls[r].asked.capability \in declared
                 /\ Opens(credentials[c].sealed))
      <3>1. PICK why \in {"not declared", "not opened"} :
              calls' = [calls EXCEPT ![r].left = @ \ {c}, ![r].reason = why]
        BY <2>1, <2>4
      <3>2. calls'[r] = [calls[r] EXCEPT !.left = @ \ {c}, !.reason = why]
        BY <3>1, <1>c
      <3>3. calls' = [calls EXCEPT ![r] = calls'[r]]
        BY <3>1, <3>2, <1>c
      <3>4. calls'[r] \in Call
        <4>1. why \in Outcome /\ calls[r].left \ {c} \subseteq CredentialId
          OBVIOUS
        <4>. QED
          BY <3>2, <4>1 DEF Call
      <3>5. /\ calls'[r].phase = "rows" /\ calls'[r].left = calls[r].left \ {c}
            /\ calls'[r].cred = calls[r].cred
            /\ calls'[r].reason \in {"not declared", "not opened"}
            /\ calls'[r].asked = calls[r].asked /\ calls'[r].stage = calls[r].stage
            /\ calls'[r].filled = calls[r].filled
        BY <2>2, <3>2 DEF Call
      <3>. QED
        BY <1>2, <1>l, <2>1, <2>2, <2>4, <3>3, <3>4, <3>5 DEF Consider, ResolveKind
    <2>. QED
      BY <2>3, <2>4
  <1>3. CASE Starve(r)
    <2>1. calls' = [calls EXCEPT ![r].phase = "not found", ![r].reason = "no connection",
                                 ![r].left = {}, ![r].cred = None]
      BY <1>3 DEF Starve
    <2>3. calls'[r] = [calls[r] EXCEPT !.phase = "not found", !.reason = "no connection",
                                       !.left = {}, !.cred = None]
      BY <2>1, <1>c
    <2>4. calls' = [calls EXCEPT ![r] = calls'[r]]
      BY <2>1, <2>3, <1>c
    <2>5. calls'[r] \in Call
      BY <2>3 DEF Call
    <2>6. /\ calls'[r].phase = "not found" /\ calls'[r].left = {}
          /\ calls'[r].reason = "no connection" /\ calls'[r].cred = None
          /\ calls'[r].asked = calls[r].asked /\ calls'[r].stage = calls[r].stage
          /\ calls'[r].filled = calls[r].filled
      BY <2>3 DEF Call
    <2>. QED
      BY <1>3, <1>l, <2>4, <2>5, <2>6 DEF Starve, ResolveKind
  <1>4. CASE Exhaust(r)
    <2>1. calls' = [calls EXCEPT ![r].phase = "not found"]
      BY <1>4 DEF Exhaust
    <2>3. calls'[r] = [calls[r] EXCEPT !.phase = "not found"]
      BY <2>1, <1>c
    <2>4. calls' = [calls EXCEPT ![r] = calls'[r]]
      BY <2>1, <2>3, <1>c
    <2>5. calls'[r] \in Call
      BY <2>3 DEF Call
    <2>6. /\ calls'[r].phase = "not found" /\ calls'[r].left = calls[r].left
          /\ calls'[r].reason = calls[r].reason /\ calls'[r].cred = calls[r].cred
          /\ calls'[r].asked = calls[r].asked /\ calls'[r].stage = calls[r].stage
          /\ calls'[r].filled = calls[r].filled
      BY <2>3 DEF Call
    <2>. QED
      BY <1>4, <1>l, <2>4, <2>5, <2>6 DEF Exhaust, ResolveKind
  <1>5. CASE Return(r)
    <2>0. lastErr' \in Outcome
      BY <1>5 DEF Return
    <2>1. PICK ph \in {"usable", "refused"} :
            /\ calls' = [calls EXCEPT ![r].phase = ph, ![r].reason = lastErr']
            /\ ph = "usable" => lastErr' = "found"
      BY <1>5 DEF Return
    <2>2. ph = "usable" => calls[r].phase = "found"
      BY <1>5, <2>1 DEF Return, Begun, About
    <2>3. calls'[r] = [calls[r] EXCEPT !.phase = ph, !.reason = lastErr']
      BY <2>1, <1>c
    <2>4. calls' = [calls EXCEPT ![r] = calls'[r]]
      BY <2>1, <2>3, <1>c
    <2>5. calls'[r] \in Call
      BY <2>0, <2>3 DEF Call
    <2>6. /\ calls'[r].phase = ph /\ calls'[r].left = calls[r].left
          /\ calls'[r].reason = lastErr' /\ calls'[r].cred = calls[r].cred
          /\ calls'[r].asked = calls[r].asked /\ calls'[r].stage = calls[r].stage
          /\ calls'[r].filled = calls[r].filled
      BY <2>3 DEF Call
    <2>. QED
      BY <1>5, <2>0, <2>2, <2>4, <2>5, <2>6 DEF Return, ResolveKind
  <1>. QED
    BY <1>1, <1>2, <1>3, <1>4, <1>5 DEF Resolve

\* The steps of the callers start a resolution or end the generation.
LEMMA CallersStep ==
  ASSUME Typed, Begun, NEW r \in Request,
         \/ \E want \in Filters : Submit(r, want)
         \/ Refuse(r) \/ Fill(r) \/ Validate(r) \/ RefusePlan(r) \/ Execute(r) \/ Forget(r)
  PROVE  /\ UNCHANGED Tables /\ UNCHANGED lastErr
         /\ calls' = [calls EXCEPT ![r] = calls'[r]] /\ calls'[r] \in Call
         /\ About(calls'[r])
         /\ calls'[r].phase \in {"query", "done", "idle"}
         /\ calls[r].phase \notin {"query", "rows"}
  <1>. USE CallTyped, RowsTyped, IdleIsCall, IdleAbout DEF Tables, Phase, Outcome, Stage
  <1>c. calls \in [Request -> Call]
    BY DEF Typed
  <1>a. About(calls[r])
    BY DEF Begun
  <1>1. ASSUME NEW want \in Filters, Submit(r, want)
        PROVE  /\ calls' = [calls EXCEPT ![r] = calls'[r]] /\ calls'[r] \in Call
               /\ About(calls'[r]) /\ calls'[r].phase = "query"
    <2>1. calls' = [calls EXCEPT ![r] = [Idle EXCEPT !.phase = "query", !.asked = want]]
      BY <1>1 DEF Submit
    <2>2. calls'[r] = [Idle EXCEPT !.phase = "query", !.asked = want] /\ want \in Filter
      BY <2>1, <1>c, InputsTyped
    <2>3. calls' = [calls EXCEPT ![r] = calls'[r]]
      BY <2>1, <2>2
    <2>4. calls'[r] \in Call
      BY <2>2 DEF Idle, Call
    <2>5. About(calls'[r]) /\ calls'[r].phase = "query"
      BY <2>2 DEF Idle, About
    <2>. QED
      BY <2>3, <2>4, <2>5
  <1>2. CASE Refuse(r)
    <2>1. calls' = [calls EXCEPT ![r] = [@ EXCEPT !.phase = "done", !.told = lastErr]]
      BY <1>2 DEF Refuse
    <2>2. calls'[r] = [calls[r] EXCEPT !.phase = "done", !.told = lastErr]
      BY <2>1, <1>c
    <2>3. lastErr \in Outcome
      BY DEF Typed
    <2>4. calls'[r] \in Call /\ About(calls'[r]) /\ calls'[r].phase = "done"
      <3>1. calls[r].phase = "refused"
        BY <1>2 DEF Refuse
      <3>2. calls'[r] \in Call
        BY <2>2, <2>3 DEF Call
      <3>3. /\ calls'[r].phase = "done" /\ calls'[r].asked = calls[r].asked
            /\ calls'[r].left = calls[r].left /\ calls'[r].cred = calls[r].cred
            /\ calls'[r].filled = calls[r].filled /\ calls'[r].stage = calls[r].stage
        BY <2>2 DEF Call
      <3>. QED
        BY <3>1, <3>2, <3>3, <1>a DEF About
    <2>5. calls' = [calls EXCEPT ![r] = calls'[r]]
      BY <2>1, <2>2
    <2>. QED
      BY <1>2, <2>4, <2>5 DEF Refuse
  <1>3. CASE Fill(r)
    <2>1. calls' = [calls EXCEPT ![r] =
            [Idle EXCEPT !.phase = "query", !.stage = "validate", !.asked = calls[r].asked,
                         !.filled = calls[r].cred]]
      BY <1>3 DEF Fill
    <2>2. calls'[r] = [Idle EXCEPT !.phase = "query", !.stage = "validate",
                         !.asked = calls[r].asked, !.filled = calls[r].cred]
      BY <2>1, <1>c
    <2>3. calls[r].phase = "usable"
      BY <1>3 DEF Fill
    <2>4. calls'[r] \in Call /\ About(calls'[r]) /\ calls'[r].phase = "query"
      BY <2>2, <2>3, <1>a DEF Idle, Call, About
    <2>5. calls' = [calls EXCEPT ![r] = calls'[r]]
      BY <2>1, <2>2
    <2>. QED
      BY <1>3, <2>3, <2>4, <2>5 DEF Fill
  <1>4. CASE Validate(r)
    <2>1. calls' = [calls EXCEPT ![r] = [@ EXCEPT !.phase = "query", !.stage = "execute",
                                                  !.checked = calls[r].cred, !.cred = None]]
      BY <1>4 DEF Validate
    <2>2. calls'[r] = [calls[r] EXCEPT !.phase = "query", !.stage = "execute",
                                       !.checked = calls[r].cred, !.cred = None]
      BY <2>1, <1>c
    <2>3. calls[r].phase \in {"usable", "refused"} /\ calls[r].stage = "validate"
      BY <1>4 DEF Validate
    <2>4. calls'[r] \in Call /\ About(calls'[r]) /\ calls'[r].phase = "query"
      BY <2>2, <2>3, <1>a DEF Call, About
    <2>5. calls' = [calls EXCEPT ![r] = calls'[r]]
      BY <2>1, <2>2
    <2>. QED
      BY <1>4, <2>3, <2>4, <2>5 DEF Validate
  <1>5. CASE RefusePlan(r) \/ Execute(r)
    <2>1. calls' = [calls EXCEPT ![r] = [@ EXCEPT !.phase = "done"]]
      BY <1>5 DEF RefusePlan, Execute
    <2>2. calls'[r] = [calls[r] EXCEPT !.phase = "done"]
      BY <2>1, <1>c
    <2>3. calls[r].phase \in {"usable", "refused"}
      BY <1>5 DEF RefusePlan, Execute
    <2>4. calls'[r] \in Call /\ About(calls'[r]) /\ calls'[r].phase = "done"
      BY <2>2, <2>3, <1>a DEF Call, About
    <2>5. calls' = [calls EXCEPT ![r] = calls'[r]]
      BY <2>1, <2>2
    <2>. QED
      BY <1>5, <2>3, <2>4, <2>5 DEF RefusePlan, Execute
  <1>6. CASE Forget(r)
    <2>1. calls' = [calls EXCEPT ![r] = Idle] /\ calls'[r] = Idle
      BY <1>6, <1>c DEF Forget
    <2>. QED
      BY <1>6, <2>1 DEF Forget
  <1>7. CASE \E want \in Filters : Submit(r, want)
    BY <1>1, <1>7 DEF Submit
  <1>. QED
    BY <1>2, <1>3, <1>4, <1>5, <1>6, <1>7

\* A change of the configuration keeps every row, its provider and its priority.
LEMMA ConfigureStep ==
  ASSUME Typed, Configure
  PROVE  /\ providers' \in [Creates -> ProviderRow \union {None}]
         /\ \E n \in 0..MaxCredentials : credentials' \in [1..n -> CredentialRow]
         /\ models' \in [ProviderId \X Model -> ModelRow \union {None}]
         /\ mainKey' \in Nat /\ changes' \in 0..MaxChanges
         /\ lastErr' \in Outcome
         /\ calls' = calls \/ calls' = [r \in Request |-> Idle]
         /\ Rows \subseteq Rows'
         /\ \A c \in Rows : /\ credentials'[c].at = credentials[c].at
                            /\ credentials'[c].priority = credentials[c].priority
  <1>. USE NumbersTyped
  <1>p. providers \in [Creates -> ProviderRow \union {None}]
    BY DEF Typed
  <1>m. models \in [ProviderId \X Model -> ModelRow \union {None}]
    BY DEF Typed
  <1>e. lastErr \in Outcome /\ mainKey \in Nat /\ changes \in 0..MaxChanges
    BY DEF Typed
  <1>n. PICK n \in 0..MaxCredentials : credentials \in [1..n -> CredentialRow]
    BY DEF Typed
  <1>r. Rows = 1..n /\ Cardinality(Rows) = n
    BY <1>n, RowsCounted
  <1>k. UNCHANGED credentials => Rows' = Rows
    BY DEF Rows
  <1>s. UNCHANGED credentials =>
          /\ \E i \in 0..MaxCredentials : credentials' \in [1..i -> CredentialRow]
          /\ Rows \subseteq Rows'
          /\ \A c \in Rows : credentials'[c] = credentials[c]
    BY <1>n, <1>k
  <1>h. Changes => changes' \in 0..MaxChanges
    BY <1>e DEF Changes
  <1>1. ASSUME NEW k \in Creates, NEW kind \in Kind, NEW declared \in Declarable,
               CreateProvider(k, kind, declared)
        PROVE  /\ providers' \in [Creates -> ProviderRow \union {None}]
               /\ changes' \in 0..MaxChanges
               /\ UNCHANGED <<credentials, models, mainKey, calls, lastErr>>
    <2>1. providers' = [providers EXCEPT ![k] =
            [kind |-> IF providers[k] = None THEN kind ELSE providers[k].kind,
             declares |-> declared]]
      BY <1>1 DEF CreateProvider
    <2>2. providers[k] \in ProviderRow \union {None}
      BY <1>p
    <2>3. (IF providers[k] = None THEN kind ELSE providers[k].kind) \in Kind
      BY <2>2 DEF ProviderRow
    <2>4. [kind |-> IF providers[k] = None THEN kind ELSE providers[k].kind,
           declares |-> declared] \in ProviderRow
      BY <2>3 DEF ProviderRow
    <2>. QED
      BY <1>1, <2>1, <2>4, <1>p, <1>h, <1>e DEF CreateProvider
  <1>2. ASSUME NEW k \in Creates, NEW p \in Priority, CreateCredential(k, p)
        PROVE  /\ \E i \in 0..MaxCredentials : credentials' \in [1..i -> CredentialRow]
               /\ Rows \subseteq Rows'
               /\ \A c \in Rows : credentials'[c] = credentials[c]
               /\ UNCHANGED <<providers, models, mainKey, changes, calls, lastErr>>
    <2>1. credentials' = [c \in 1..n + 1 |->
            IF c \in Rows THEN credentials[c]
            ELSE [at |-> k, priority |-> p, sealed |-> Seal]]
      BY <1>2, <1>r DEF CreateCredential
    <2>2. n + 1 \in 0..MaxCredentials
      BY <1>2, <1>r DEF CreateCredential
    <2>3. [at |-> k, priority |-> p, sealed |-> Seal] \in CredentialRow
      BY <1>e DEF CredentialRow, Seal
    <2>4. \A c \in Rows : credentials[c] \in CredentialRow
      BY <1>n, <1>r
    <2>5. credentials' \in [1..n + 1 -> CredentialRow]
      BY <2>1, <2>3, <2>4
    <2>6. Rows' = 1..n + 1
      BY <2>1 DEF Rows
    <2>7. \A c \in 1..n : c \in 1..n + 1
      OBVIOUS
    <2>. QED
      BY <1>2, <1>r, <2>1, <2>2, <2>5, <2>6, <2>7 DEF CreateCredential
  <1>3. ASSUME NEW w \in Workspace, NEW p \in ProviderId, NEW m \in Model,
               NEW given \in Declarable \union {{}}, SaveModel(w, p, m, given)
        PROVE  /\ models' \in [ProviderId \X Model -> ModelRow \union {None}]
               /\ changes' \in 0..MaxChanges
               /\ UNCHANGED <<providers, credentials, mainKey, calls, lastErr>>
    <2>1. PICK d : models' = [models EXCEPT ![<<p, m>>] = [declares |-> d, by |-> w]]
                   /\ d = IF given = {} THEN Guess[m] ELSE given
      BY <1>3 DEF SaveModel
    <2>2. d \in SUBSET Capability
      BY <2>1, InputsTyped
    <2>3. [declares |-> d, by |-> w] \in ModelRow
      BY <2>2 DEF ModelRow
    <2>. QED
      BY <1>3, <2>1, <2>3, <1>m, <1>h DEF SaveModel
  <1>4. CASE StartWithOtherKey
    <2>1. /\ UNCHANGED <<providers, credentials, models>> /\ mainKey' \in Nat
          /\ changes' \in 0..MaxChanges /\ lastErr' \in Outcome
          /\ calls' = [r \in Request |-> Idle]
      <3>1. Changes /\ mainKey' = mainKey + 1 /\ lastErr' = "found"
        BY <1>4 DEF StartWithOtherKey
      <3>2. calls' = [r \in Request |-> Idle]
        BY <1>4 DEF StartWithOtherKey
      <3>3. UNCHANGED <<providers, credentials, models>>
        BY <1>4 DEF StartWithOtherKey
      <3>4. mainKey' \in Nat
        BY <3>1, <1>e
      <3>. QED
        BY <3>1, <3>2, <3>3, <3>4, <1>h DEF Outcome
    <2>. QED
      BY <2>1, <1>p, <1>m, <1>s
  <1>5. CASE Rotate
    <2>1. credentials' = [c \in Rows |-> [credentials[c] EXCEPT !.sealed.key = mainKey + 1]]
      BY <1>5 DEF Rotate
    <2>2. ASSUME NEW c \in Rows
          PROVE  /\ [credentials[c] EXCEPT !.sealed.key = mainKey + 1] \in CredentialRow
                 /\ [credentials[c] EXCEPT !.sealed.key = mainKey + 1].at = credentials[c].at
                 /\ [credentials[c] EXCEPT !.sealed.key = mainKey + 1].priority
                      = credentials[c].priority
      <3>1. credentials[c] \in CredentialRow
        BY <1>n, <1>r
      <3>. QED
        BY <3>1, <1>e DEF CredentialRow
    <2>3. credentials' \in [1..n -> CredentialRow] /\ Rows' = Rows
      BY <2>1, <2>2, <1>r DEF Rows
    <2>. QED
      <3>1. Changes /\ mainKey' = mainKey + 1 /\ lastErr' = "found"
        BY <1>5 DEF Rotate
      <3>2. calls' = [r \in Request |-> Idle] /\ UNCHANGED <<providers, models>>
        BY <1>5 DEF Rotate
      <3>3. mainKey' \in Nat
        BY <3>1, <1>e
      <3>4. \A c \in Rows : /\ credentials'[c].at = credentials[c].at
                           /\ credentials'[c].priority = credentials[c].priority
        BY <2>1, <2>2
      <3>5. lastErr' \in Outcome
        BY <3>1 DEF Outcome
      <3>. QED
        BY <3>1, <3>2, <3>3, <3>4, <3>5, <2>3, <1>p, <1>m, <1>h
  <1>. QED
    <2>1. CASE \E k \in Creates, kind \in Kind, declared \in Declarable :
                CreateProvider(k, kind, declared)
      BY <1>1, <2>1, <1>m, <1>e, <1>s
    <2>2. CASE \E k \in Creates, p \in Priority : CreateCredential(k, p)
      BY <1>2, <2>2, <1>p, <1>m, <1>e
    <2>3. CASE \E w \in Workspace, p \in ProviderId, m \in Model,
                 given \in Declarable \union {{}} : SaveModel(w, p, m, given)
      BY <1>3, <2>3, <1>p, <1>e, <1>s
    <2>. QED
      BY <2>1, <2>2, <2>3, <1>4, <1>5 DEF Configure

\* Watch adds nothing but what the query of the resolution matched.
LEMMA WatchStep ==
  ASSUME Watch, NEW r \in Request
  PROVE  fit'[r] \subseteq fit[r] \union Matching(Wanted(calls[r]))
  BY DEF Watch

LEMMA OthersCalls ==
  ASSUME Typed, NEW r \in Request, calls' = [calls EXCEPT ![r] = calls'[r]],
         NEW q \in Request, q # r
  PROVE  calls'[q] = calls[q]
  BY DEF Typed

LEMMA GenerateStep ==
  ASSUME Typed, Begun, NEW r \in Request, Generate(r)
  PROVE  /\ UNCHANGED Tables /\ Rows' = Rows /\ lastErr' \in Outcome
         /\ calls' = [calls EXCEPT ![r] = calls'[r]] /\ calls'[r] \in Call
         /\ \A q \in Request : q # r => calls'[q] = calls[q]
         /\ \/ Resolve(r)
            \/ /\ About(calls'[r]) /\ calls'[r].phase \in {"query", "done", "idle"}
               /\ calls[r].phase \notin {"query", "rows"}
  <1>1. lastErr \in Outcome
    BY DEF Typed
  <1>2. CASE Resolve(r)
    BY <1>2, Resolves, OthersCalls DEF Tables, Rows
  <1>3. CASE ~Resolve(r)
    <2>1. \/ \E want \in Filters : Submit(r, want)
          \/ Refuse(r) \/ Fill(r) \/ Validate(r) \/ RefusePlan(r) \/ Execute(r) \/ Forget(r)
      BY <1>3 DEF Generate
    <2>. QED
      BY <2>1, <1>1, CallersStep, OthersCalls DEF Tables, Rows
  <1>. QED
    BY <1>2, <1>3

-----------------------------------------------------------------------------
(***************************************************************************)
(* The shape of the state.                                                 *)
(***************************************************************************)
LEMMA InitBase == Init => Typed /\ Begun
  <1>. SUFFICES ASSUME Init PROVE Typed /\ Begun
    OBVIOUS
  <1>1. credentials \in [1..0 -> CredentialRow] /\ 0 \in 0..MaxCredentials /\ Rows = {}
    BY NumbersTyped DEF Init, Rows
  <1>2. Typed
    BY <1>1, IdleIsCall, NumbersTyped DEF Init, Typed, Outcome
  <1>3. Begun
    BY IdleAbout DEF Init, Begun
  <1>. QED
    BY <1>2, <1>3

\* About looks at the state through its rows alone.
LEMMA AboutGrows ==
  ASSUME NEW call, About(call), Rows \subseteq Rows'
  PROVE  About(call)'
  BY DEF About

LEMMA ResolveAbout ==
  ASSUME Typed, Begun, NEW r \in Request, Resolve(r)
  PROVE  About(calls'[r])
  <1>1. About(calls[r]) /\ Matching(Wanted(calls[r])) \subseteq Rows
    BY DEF Begun, Matching
  <1>2. /\ calls'[r].asked = calls[r].asked /\ calls'[r].stage = calls[r].stage
        /\ calls'[r].filled = calls[r].filled
        /\ ResolveKind(r)
    BY Resolves
  <1>3. \A S \in Candidates(Wanted(calls[r])) : S \subseteq Rows
    BY <1>1 DEF Candidates
  <1>4. NextRows(calls[r]) \subseteq calls[r].left
    BY DEF NextRows
  <1>5. \A c \in NextRows(calls[r]) : c \in Rows
    BY <1>1, <1>4 DEF About
  <1>6. calls'[r].phase # "idle" => calls'[r].asked \in Filter
    BY <1>1, <1>2 DEF ResolveKind, About
  <1>7. /\ calls'[r].left \subseteq Rows /\ calls'[r].cred \in Rows \union {None}
        /\ calls'[r].phase \in {"found", "usable"} => calls'[r].cred \in Rows
    BY <1>1, <1>2, <1>3, <1>5 DEF ResolveKind, About
  <1>8. /\ calls'[r].filled \in Rows \union {None}
        /\ calls'[r].stage # "preflight" => calls'[r].filled \in Rows
    BY <1>1, <1>2 DEF About
  <1>9. calls'[r].phase \in {"rows", "not found"} => calls'[r].reason # "found"
    BY <1>1, <1>2 DEF ResolveKind, About
  <1>. QED
    BY <1>6, <1>7, <1>8, <1>9 DEF About

LEMMA NextBase == Typed /\ Begun /\ [Next]_vars => (Typed /\ Begun)'
  <1>. SUFFICES ASSUME Typed, Begun, [Next]_vars PROVE Typed' /\ Begun'
    OBVIOUS
  <1>0. calls \in [Request -> Call]
    BY DEF Typed
  <1>f. ASSUME Watch, Rows \subseteq Rows', Rows' \subseteq CredentialId
        PROVE  /\ fit' \in [Request -> SUBSET CredentialId]
               /\ \A r \in Request : fit'[r] \subseteq Rows'
    <2>1. \A r \in Request : fit'[r] \subseteq Rows
      BY <1>f, WatchStep DEF Begun, Matching
    <2>2. fit' = [r \in Request |-> fit'[r]]
      BY <1>f DEF Watch
    <2>. QED
      BY <1>f, <2>1, <2>2
  <1>1. CASE Configure /\ Watch
    <2>1. /\ \E n \in 0..MaxCredentials : credentials' \in [1..n -> CredentialRow]
          /\ Rows \subseteq Rows'
          /\ calls' = calls \/ calls' = [r \in Request |-> Idle]
      BY <1>1, ConfigureStep
    <2>2. Rows' \subseteq CredentialId
      <3>1. PICK n \in 0..MaxCredentials : credentials' \in [1..n -> CredentialRow]
        BY <2>1
      <3>. QED
        BY <3>1, NumbersTyped DEF Rows, CredentialId
    <2>3. calls' \in [Request -> Call]
      BY <2>1, <1>0, IdleIsCall
    <2>4. fit' \in [Request -> SUBSET CredentialId] /\ \A r \in Request : fit'[r] \subseteq Rows'
      BY <1>1, <1>f, <2>1, <2>2
    <2>5. ASSUME NEW r \in Request PROVE About(calls[r])'
      <3>1. calls'[r] = calls[r] \/ calls'[r] = Idle
        BY <2>1
      <3>2. About(calls'[r])
        BY <3>1, IdleAbout DEF Begun
      <3>. QED
        BY <3>2, <2>1 DEF About
    <2>6. Typed'
      BY <1>1, <2>3, <2>4, ConfigureStep DEF Typed
    <2>. QED
      BY <2>4, <2>5, <2>6 DEF Begun
  <1>2. ASSUME NEW r \in Request, Generate(r), Watch
        PROVE  Typed' /\ Begun'
    <2>1. /\ UNCHANGED Tables /\ Rows' = Rows /\ lastErr' \in Outcome
          /\ calls' = [calls EXCEPT ![r] = calls'[r]] /\ calls'[r] \in Call
          /\ \A q \in Request : q # r => calls'[q] = calls[q]
      BY <1>2, GenerateStep
    <2>2. About(calls'[r])
      BY <1>2, GenerateStep, ResolveAbout
    <2>3. \A q \in Request : About(calls'[q])
      BY <2>1, <2>2 DEF Begun
    <2>4. fit' \in [Request -> SUBSET CredentialId] /\ \A q \in Request : fit'[q] \subseteq Rows'
      BY <1>2, <1>f, <2>1, RowsTyped
    <2>5. calls' \in [Request -> Call]
      BY <2>1, <1>0
    <2>6. Typed'
      BY <2>1, <2>4, <2>5 DEF Typed, Tables
    <2>7. \A q \in Request : About(calls[q])'
      BY <2>1, <2>3 DEF About
    <2>. QED
      BY <2>4, <2>6, <2>7 DEF Begun
  <1>3. CASE UNCHANGED vars
    BY <1>3 DEF vars, Typed, Begun, About, Rows
  <1>. QED
    BY <1>1, <1>2, <1>3 DEF Next

-----------------------------------------------------------------------------
(***************************************************************************)
(* The credential of a generation, and the models of a workspace.          *)
(***************************************************************************)
LEMMA NextPinned == Typed /\ Begun /\ Pinned /\ [Next]_vars => Pinned'
  <1>. SUFFICES ASSUME Typed, Begun, Pinned, [Next]_vars, NEW q \in Request
                PROVE  PinnedCall(calls'[q])
    BY DEF Pinned, PinnedCall
  <1>0. PinnedCall(calls[q])
    BY DEF Pinned
  <1>1. CASE Configure
    BY <1>0, <1>1, ConfigureStep, IdleAbout
  <1>2. ASSUME NEW r \in Request, Generate(r)
        PROVE  PinnedCall(calls'[q])
    <2>1. CASE q # r
      BY <2>1, <1>0, <1>2, GenerateStep
    <2>2. CASE q = r /\ Resolve(r)
      <3>1. /\ calls'[r].stage = calls[r].stage /\ calls'[r].filled = calls[r].filled
            /\ ResolveKind(r)
        BY <2>2, Resolves
      <3>2. NextRows(calls[r]) \subseteq calls[r].left
        BY DEF NextRows
      <3>3. CASE calls[r].phase = "query"
        <4>1. calls[r].stage = "execute" =>
                \A S \in Candidates(Wanted(calls[r])) : S \subseteq {calls[r].filled}
          BY <3>3, WantedIs DEF Candidates
        <4>. QED
          BY <2>2, <3>1, <3>3, <4>1 DEF ResolveKind, PinnedCall
      <3>4. CASE calls[r].phase # "query"
        BY <1>0, <2>2, <3>1, <3>2, <3>4 DEF ResolveKind, PinnedCall
      <3>. QED
        BY <3>3, <3>4
    <2>3. CASE q = r /\ ~Resolve(r)
      BY <2>3, <1>2, GenerateStep DEF PinnedCall
    <2>. QED
      BY <2>1, <2>2, <2>3
  <1>3. CASE UNCHANGED vars
    BY <1>0, <1>3 DEF vars
  <1>. QED
    BY <1>1, <1>2, <1>3 DEF Next

\* A generation is executed with the credential it was accepted with, whatever is
\* created, changed, rotated or started anew meanwhile (preflightGenerate puts it
\* into the parameters of the run).
THEOREM AcceptedIsExecuted == Spec => []SameCredential
  <1>1. Init => Pinned
    BY IdleAbout DEF Init, Pinned
  <1>2. Pinned => SameCredential
    BY DEF Pinned, PinnedCall, SameCredential
  <1>. QED
    BY <1>1, <1>2, InitBase, NextBase, NextPinned, PTL DEF Spec

LEMMA NextSaved == Typed /\ Begun /\ Saved /\ [Next]_vars => Saved'
  <1>. SUFFICES ASSUME Typed, Begun, Saved, [Next]_vars PROVE Saved'
    OBVIOUS
  <1>m. models \in [ProviderId \X Model -> ModelRow \union {None}]
    BY DEF Typed
  <1>1. ASSUME NEW w \in Workspace, NEW p \in ProviderId, NEW m \in Model,
               NEW given \in Declarable \union {{}}, SaveModel(w, p, m, given)
        PROVE  Saved'
    <2>1. PICK d : models' = [models EXCEPT ![<<p, m>>] = [declares |-> d, by |-> w]]
      BY <1>1 DEF SaveModel
    <2>2. <<w, p>> \in Creates
      BY <1>1 DEF SaveModel, Exists
    <2>3. ASSUME NEW k \in ProviderId \X Model, models'[k] # None
          PROVE  <<models'[k].by, k[1]>> \in Creates
      <3>1. CASE k = <<p, m>>
        <4>1. models'[k] = [declares |-> d, by |-> w]
          BY <3>1, <2>1, <1>m
        <4>. QED
          BY <3>1, <4>1, <2>2
      <3>2. CASE k # <<p, m>>
        BY <2>1, <2>3, <3>2, <1>m DEF Saved
      <3>. QED
        BY <3>1, <3>2
    <2>. QED
      BY <2>3 DEF Saved
  <1>2. CASE UNCHANGED models
    BY <1>2 DEF Saved
  <1>3. CASE Configure
    BY <1>1, <1>2, <1>3
      DEF Configure, CreateProvider, CreateCredential, StartWithOtherKey, Rotate
  <1>4. ASSUME NEW r \in Request, Generate(r) PROVE UNCHANGED models
    BY <1>4, GenerateStep DEF Tables
  <1>. QED
    BY <1>2, <1>3, <1>4 DEF Next, vars

\* While no two workspaces use one id, the models listed for a workspace are
\* those it saved itself (SaveModels, ListModels).
THEOREM OwnModelsListed ==
  ASSUME IdsApart
  PROVE  Spec => []ModelsAreOwn
  <1>1. Init => Saved
    BY DEF Init, Saved
  <1>2. Saved => ModelsAreOwn
    <2>. SUFFICES ASSUME Saved,
                         NEW w \in Workspace, NEW c \in Capability,
                         NEW pair \in Listed(w, c), pair[2] # None
                  PROVE  models[pair].by = w
      BY DEF ModelsAreOwn
    <2>1. PICK p \in ProviderId, m \in Model :
            pair = <<p, m>> /\ models[<<p, m>>] # None /\ Exists(<<w, p>>)
      BY DEF Listed
    <2>2. <<w, p>> \in Creates
      BY <2>1 DEF Exists
    <2>3. <<models[pair].by, p>> \in Creates
      BY <2>1 DEF Saved
    <2>4. <<models[pair].by, p>> = <<w, p>>
      BY <2>2, <2>3 DEF IdsApart
    <2>. QED
      BY <2>4
  <1>. QED
    BY <1>1, <1>2, InitBase, NextBase, NextSaved, PTL DEF Spec

-----------------------------------------------------------------------------
(***************************************************************************)
(* What a resolution finds.                                                *)
(***************************************************************************)
LEMMA LessOfTwo ==
  ASSUME NEW m \in Nat, NEW n \in Nat, m <= n
  PROVE  Min({n, m}) = m
  <1>1. \A x \in {n, m} : (\A y \in {n, m} : x <= y) => x = m
    OBVIOUS
  <1>2. m \in {n, m} /\ \A y \in {n, m} : m <= y
    OBVIOUS
  <1>. QED
    BY <1>1, <1>2 DEF Min

\* While there are few credentials, the candidates are all that match.
LEMMA AllCandidates ==
  ASSUME AllLookedAt, Typed, NEW want, NEW S \in Candidates(want)
  PROVE  S = Matching(want)
  <1>1. Matching(want) \subseteq Rows /\ S \subseteq Matching(want)
    BY DEF Matching, Candidates
  <1>2. /\ IsFiniteSet(Matching(want)) /\ Cardinality(Matching(want)) \in Nat
        /\ Cardinality(Matching(want)) <= Limit
    <2>1. IsFiniteSet(Matching(want)) /\ Cardinality(Matching(want)) <= Cardinality(Rows)
      BY <1>1, RowsTyped, FS_Subset
    <2>2. Cardinality(Matching(want)) \in Nat
      BY <2>1, FS_CardinalityType
    <2>. QED
      BY <2>1, <2>2, RowsTyped, NumbersTyped DEF AllLookedAt
  <1>3. Cardinality(S) = Cardinality(Matching(want))
    BY <1>2, LessOfTwo, NumbersTyped DEF Candidates
  <1>. QED
    BY <1>1, <1>2, <1>3, FS_Subset

LEMMA UsableStays ==
  ASSUME UNCHANGED Tables, NEW capability
  PROVE  Usable(capability)' = Usable(capability)
  BY DEF Tables, Usable, Rows, Opens

\* What Watch makes of fit, by the phases of a call before and after.
LEMMA WatchCases ==
  ASSUME Watch, NEW r \in Request
  PROVE  /\ calls[r].phase = "query" /\ calls'[r].phase = "rows" =>
              fit'[r] = Matching(Wanted(calls[r]))
                          \intersect Usable(calls[r].asked.capability)
         /\ calls[r].phase = "rows" /\ calls'[r].phase \in {"rows", "found", "not found"} =>
              fit'[r] = fit[r] \intersect Usable(calls[r].asked.capability)'
         /\ calls[r].phase \in {"found", "not found"} /\ calls'[r].phase = calls[r].phase =>
              fit'[r] = fit[r]
  BY DEF Watch

\* A row that a resolution passes over was not usable: the capabilities it read
\* are those of the row's own provider.
LEMMA PassedOver ==
  ASSUME IdsApart, Typed, NEW capability, NEW c \in Rows, NEW declared \in Declared(c),
         capability \notin declared \/ ~Opens(credentials[c].sealed)
  PROVE  c \notin Usable(capability)
  <1>1. credentials[c].at \in Creates
    BY RowsTyped DEF CredentialRow
  <1>2. PICK l \in Creates : l[2] = credentials[c].at[2] /\ declared = providers[l].declares
    BY DEF Declared
  <1>3. l = credentials[c].at
    BY <1>1, <1>2 DEF IdsApart
  <1>. QED
    BY <1>2, <1>3 DEF Usable

LooksAt(r) ==
  /\ calls[r].phase = "rows" =>
       fit[r] \subseteq calls[r].left \intersect Usable(calls[r].asked.capability)
  /\ calls[r].phase = "not found" /\ calls[r].reason # "no connection" => fit[r] = {}
  /\ calls[r].phase = "found" =>
       \A c \in fit[r] : credentials[c].priority <= credentials[calls[r].cred].priority

\* A call that stands still is looked at as before.
LEMMA StillLooks ==
  ASSUME Typed, Begun, NEW r \in Request, LooksAt(r), Watch, calls'[r] = calls[r],
         \A c \in Rows : credentials'[c].priority = credentials[c].priority
  PROVE  LooksAt(r)'
  <1>1. CASE calls[r].phase = "rows"
    BY <1>1, WatchCases DEF LooksAt
  <1>2. CASE calls[r].phase = "not found"
    BY <1>2, WatchCases DEF LooksAt
  <1>3. CASE calls[r].phase = "found"
    <2>1. fit'[r] = fit[r] /\ fit[r] \subseteq Rows /\ calls[r].cred \in Rows
      BY <1>3, WatchCases DEF Begun, About
    <2>. QED
      BY <1>3, <2>1 DEF LooksAt
  <1>4. CASE calls[r].phase \notin {"rows", "found", "not found"}
    BY <1>4 DEF LooksAt
  <1>. QED
    BY <1>1, <1>2, <1>3, <1>4

LEMMA ResolveLooks ==
  ASSUME IdsApart, AllLookedAt, Typed, Begun, NEW r \in Request, LooksAt(r), Resolve(r), Watch
  PROVE  LooksAt(r)'
  <1>1. UNCHANGED Tables /\ calls'[r].asked = calls[r].asked /\ ResolveKind(r)
    BY Resolves
  <1>2. /\ Usable(calls[r].asked.capability)' = Usable(calls[r].asked.capability)
        /\ UNCHANGED credentials
    <2>1. calls'[r].asked.capability = calls[r].asked.capability
      BY <1>1
    <2>. QED
      BY <1>1, <2>1 DEF Tables, Usable, Rows, Opens
  <1>3. CASE calls[r].phase = "query" /\ calls'[r].phase = "rows"
    <2>1. calls'[r].left = Matching(Wanted(calls[r]))
      BY <1>1, <1>3, AllCandidates DEF ResolveKind
    <2>2. fit'[r] = Matching(Wanted(calls[r])) \intersect Usable(calls[r].asked.capability)
      BY <1>3, WatchCases
    <2>. QED
      BY <1>2, <1>3, <2>1, <2>2 DEF LooksAt
  <1>4. CASE calls[r].phase = "rows" /\ calls'[r].phase = "rows"
    <2>1. PICK c \in NextRows(calls[r]) :
            /\ \E declared \in Declared(c) :
                 \/ calls[r].asked.capability \notin declared
                 \/ ~Opens(credentials[c].sealed)
            /\ calls'[r].left = calls[r].left \ {c}
      BY <1>1, <1>4 DEF ResolveKind
    <2>2. c \in Rows
      BY <2>1 DEF NextRows, Begun, About
    <2>3. c \notin Usable(calls[r].asked.capability)
      BY <2>1, <2>2, PassedOver
    <2>4. fit'[r] = fit[r] \intersect Usable(calls[r].asked.capability)
      BY <1>2, <1>4, WatchCases
    <2>5. fit[r] \subseteq calls[r].left
      BY <1>4 DEF LooksAt
    <2>6. fit'[r] \subseteq calls'[r].left \intersect Usable(calls[r].asked.capability)
      BY <2>1, <2>3, <2>4, <2>5
    <2>. QED
      BY <1>2, <1>4, <2>6 DEF LooksAt
  <1>5. CASE calls[r].phase = "rows" /\ calls'[r].phase = "found"
    <2>1. calls'[r].cred \in NextRows(calls[r])
      BY <1>1, <1>5 DEF ResolveKind
    <2>2. fit'[r] \subseteq calls[r].left /\ calls[r].left \subseteq Rows
      BY <1>2, <1>5, WatchCases DEF LooksAt, Begun, About
    <2>3. \A d \in Rows : credentials[d].priority \in Int
      BY RowsTyped, InputsTyped DEF CredentialRow
    <2>4. \A d \in calls[r].left :
            credentials[d].priority <= credentials[calls'[r].cred].priority
      BY <2>1, <2>2, <2>3 DEF NextRows
    <2>. QED
      BY <1>2, <1>5, <2>2, <2>4 DEF LooksAt
  <1>6. CASE calls[r].phase = "rows" /\ calls'[r].phase = "not found"
    <2>1. calls[r].left = {} \/ calls'[r].reason = "no connection"
      BY <1>1, <1>6 DEF ResolveKind
    <2>2. fit'[r] \subseteq calls[r].left
      BY <1>2, <1>6, WatchCases DEF LooksAt
    <2>. QED
      BY <1>6, <2>1, <2>2 DEF LooksAt
  <1>7. CASE calls[r].phase \notin {"query", "rows"}
    <2>1. calls'[r].phase \in {"usable", "refused"}
      BY <1>1, <1>7 DEF ResolveKind
    <2>. QED
      BY <2>1 DEF LooksAt
  <1>8. CASE calls[r].phase = "query" /\ calls'[r].phase # "rows"
    <2>1. calls'[r].phase = "not found" /\ calls'[r].reason = "no connection"
      BY <1>1, <1>8 DEF ResolveKind
    <2>. QED
      BY <2>1 DEF LooksAt
  <1>9. calls[r].phase = "rows" => calls'[r].phase \in {"rows", "found", "not found"}
    BY <1>1 DEF ResolveKind
  <1>. QED
    BY <1>3, <1>4, <1>5, <1>6, <1>7, <1>8, <1>9

LEMMA NextLooks ==
  ASSUME IdsApart, AllLookedAt
  PROVE  Typed /\ Begun /\ Looks /\ [Next]_vars => Looks'
  <1>. SUFFICES ASSUME Typed, Begun, Looks, [Next]_vars, NEW q \in Request
                PROVE  LooksAt(q)'
    BY DEF Looks, LooksAt
  <1>0. LooksAt(q)
    BY DEF Looks, LooksAt
  <1>1. CASE Configure /\ Watch
    <2>1. /\ calls'[q] = calls[q] \/ calls'[q] = Idle
          /\ \A c \in Rows : credentials'[c].priority = credentials[c].priority
      BY <1>1, ConfigureStep
    <2>2. CASE calls'[q] = Idle
      BY <2>2, IdleIsCall DEF LooksAt
    <2>. QED
      BY <1>0, <1>1, <2>1, <2>2, StillLooks
  <1>2. ASSUME NEW r \in Request, Generate(r), Watch
        PROVE  LooksAt(q)'
    <2>1. UNCHANGED credentials
      BY <1>2, GenerateStep DEF Tables
    <2>2. CASE q # r
      BY <1>0, <1>2, <2>1, <2>2, GenerateStep, StillLooks
    <2>3. CASE q = r /\ Resolve(r)
      BY <1>0, <1>2, <2>3, ResolveLooks
    <2>4. CASE q = r /\ ~Resolve(r)
      <3>1. calls'[q].phase \in {"query", "done", "idle"}
        BY <1>2, <2>4, GenerateStep
      <3>. QED
        BY <3>1 DEF LooksAt
    <2>. QED
      BY <2>2, <2>3, <2>4
  <1>3. CASE UNCHANGED vars
    BY <1>0, <1>3 DEF vars, LooksAt, Usable, Rows, Opens
  <1>. QED
    BY <1>1, <1>2, <1>3 DEF Next

\* A resolution that got its connections refuses only if no credential that was
\* asked for could be used all the time, and takes one of the highest priority of
\* those that could, whatever others change between its queries (Resolve) - while
\* it looks at all credentials and ids are apart.
THEOREM ResolvedIsBest ==
  ASSUME IdsApart, AllLookedAt
  PROVE  Spec => []ResolveFinds
  <1>1. Init => Looks
    BY IdleIsCall DEF Init, Looks
  <1>2. Looks => ResolveFinds
    BY DEF Looks, ResolveFinds
  <1>. QED
    BY <1>1, <1>2, InitBase, NextBase, NextLooks, PTL DEF Spec

-----------------------------------------------------------------------------
(***************************************************************************)
(* The connections that cursors hold.                                      *)
(***************************************************************************)
LEMMA NextPooled == Typed /\ Begun /\ Pooled /\ [Next]_vars => Pooled'
  <1>. SUFFICES ASSUME Typed, Begun, Pooled, [Next]_vars PROVE Pooled'
    OBVIOUS
  <1>0. IsFiniteSet(Holders) /\ Cardinality(Holders) <= Connections /\ Cardinality(Holders) \in Nat
    BY FS_CardinalityType DEF Pooled
  <1>1. ASSUME Holders' \subseteq Holders PROVE Pooled'
    <2>1. IsFiniteSet(Holders') /\ Cardinality(Holders') <= Cardinality(Holders)
      BY <1>0, <1>1, FS_Subset
    <2>2. Cardinality(Holders') \in Nat
      BY <2>1, FS_CardinalityType
    <2>. QED
      BY <1>0, <2>1, <2>2, NumbersTyped DEF Pooled
  <1>2. CASE Configure
    <2>1. \A r \in Request : calls'[r] = calls[r] \/ calls'[r].phase = "idle"
      BY <1>2, ConfigureStep, IdleIsCall
    <2>. QED
      BY <2>1, <1>1 DEF Holders, Holds
  <1>3. ASSUME NEW r \in Request, Generate(r) PROVE Pooled'
    <2>1. \A q \in Request : q # r => calls'[q] = calls[q]
      BY <1>3, GenerateStep
    <2>2. CASE calls'[r].phase = "rows" => calls[r].phase = "rows"
      BY <1>1, <2>1, <2>2 DEF Holders, Holds
    <2>3. CASE calls'[r].phase = "rows" /\ calls[r].phase # "rows"
      <3>1. Resolve(r)
        BY <1>3, <2>3, GenerateStep
      <3>2. Free > 0
        BY <3>1, <2>3, Resolves DEF ResolveKind
      <3>3. Cardinality(Holders) < Connections
        BY <3>2, <1>0, NumbersTyped DEF Free, Holders
      <3>4. Holders' = Holders \union {r}
        BY <2>1, <2>3 DEF Holders, Holds
      <3>5. IsFiniteSet(Holders') /\ Cardinality(Holders') <= Cardinality(Holders) + 1
        BY <1>0, <3>4, FS_AddElement
      <3>6. Cardinality(Holders') \in Nat
        BY <3>5, FS_CardinalityType
      <3>. QED
        BY <1>0, <3>3, <3>5, <3>6, NumbersTyped DEF Pooled
    <2>. QED
      BY <2>2, <2>3
  <1>4. CASE UNCHANGED vars
    BY <1>1, <1>4 DEF vars, Holders, Holds
  <1>. QED
    BY <1>2, <1>3, <1>4 DEF Next

\* Tables and generations stay typed, what a generation names exists, and cursors
\* hold no more connections than the pool has (SetMaxOpenConns in platform.Open).
THEOREM ProvidersTyped == Spec => []TypeOK
  <1>1. Init => Pooled
    <2>. SUFFICES ASSUME Init PROVE Pooled
      OBVIOUS
    <2>1. Holders = {}
      BY IdleIsCall DEF Init, Holders, Holds
    <2>. QED
      BY <2>1, FS_EmptySet, NumbersTyped DEF Pooled
  <1>2. Typed /\ Begun /\ Pooled => TypeOK
    <2>. SUFFICES ASSUME Typed, Begun, Pooled PROVE TypeOK
      OBVIOUS
    <2>1. \A k \in Creates : providers[k] # None =>
            providers[k] \in [kind : Kind, declares : Declarable]
      BY DEF Typed, ProviderRow
    <2>2. Rows \subseteq CredentialId /\ \A c \in Rows : credentials[c].at \in Creates
      BY RowsTyped DEF CredentialRow
    <2>3. ASSUME NEW r \in Request
          PROVE  /\ calls[r].stage \in Stage /\ calls[r].reason \in Outcome
                 /\ calls[r].left \union fit[r] \subseteq Rows
                 /\ calls[r].cred \in Rows \union {None}
                 /\ calls[r].filled \in Rows \union {None}
      BY CallTyped DEF Begun, About
    <2>4. Free >= 0
      BY NumbersTyped, FS_CardinalityType DEF Pooled, Holders, Free
    <2>. QED
      BY <2>1, <2>2, <2>3, <2>4 DEF TypeOK, Typed
  <1>. QED
    BY <1>1, <1>2, InitBase, NextBase, NextPooled, PTL DEF Spec
==============================================================================
