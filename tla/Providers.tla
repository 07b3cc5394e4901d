----------------------------- MODULE Providers -----------------------------
(***************************************************************************)
(* Providers, their credentials and models (provider.Service), and how a   *)
(* generation gets its credential (CredentialResolver): three times, before*)
(* the run is accepted (preflightGenerate), to check what a script would   *)
(* send (ValidateProviderPlan) and when the engine executes the step.      *)
(*                                                                         *)
(* A resolution keeps the cursor over its candidates open, and with it one *)
(* connection of the pool, while it reads the capabilities of each over    *)
(* another.  Names, addresses, key kinds and limits are data that no decision*)
(* depends on.                                                             *)
(***************************************************************************)
EXTENDS Integers, FiniteSets, FiniteSetsExt

CONSTANTS
  Workspace, ProviderId, Model,
  Creates,         \* pairs of a workspace and a provider id it may create
  Kind,            \* protocols; that of providers with a script is "script"
  Registered,      \* those with an adapter
  Capability,
  Declarable,      \* the sets of capabilities users declare
  Guess,           \* GuessCapabilities: those of a model whose user gives none
  Priority,
  Request,         \* generations under way at the same time
  Filters,         \* what they ask for: capability, provider and credential
  Connections,     \* size of the pool (4 in the code)
  Limit,           \* candidates a resolution looks at (20 in the code)
  MaxCredentials,  \* bound of the model: credentials ever created
  MaxChanges,      \* bound of the model: providers changed, models saved, other keys
  None

CredentialId == 1..MaxCredentials

Filter == [capability : Capability, provider : ProviderId \union {None},
           credential : CredentialId \union {None}]

ASSUME InputsTyped ==
  /\ Creates \subseteq Workspace \X ProviderId
  /\ Registered \subseteq Kind
  /\ Declarable \subseteq SUBSET Capability /\ {} \notin Declarable
  /\ Guess \in [Model -> SUBSET Capability]
  /\ Priority \subseteq Int /\ Filters \subseteq Filter
  /\ None \notin ProviderId \union CredentialId \union Capability

ASSUME BoundsTyped ==
  /\ Connections \in Nat \ {0} /\ Limit \in Nat \ {0}
  /\ MaxCredentials \in Nat /\ MaxChanges \in Nat

VARIABLES
  providers,    \* table providers, by workspace and id
  credentials,  \* table provider_credentials, by id
  models,       \* table models, by provider id and model
  mainKey,      \* the main key the server runs with
  changes,      \* changes made so far
  calls,        \* the generation each request submits
  lastErr,      \* CredentialResolver.lastErr, one for all requests
  fit           \* ghost: credentials that a call could have used all the time

vars == <<providers, credentials, models, mainKey, changes, calls, lastErr, fit>>

Stage == {"preflight", "validate", "execute"}
Outcome == {"found", "no rows", "not declared", "not opened", "no connection", "no adapter"}

Idle == [phase |-> "idle", stage |-> "preflight", asked |-> None, left |-> {},
         reason |-> "no rows", cred |-> None, filled |-> None, checked |-> None,
         told |-> None]

Init ==
  /\ providers = [k \in Creates |-> None]
  /\ credentials = <<>>
  /\ models = [k \in ProviderId \X Model |-> None]
  /\ mainKey = 1
  /\ changes = 0
  /\ calls = [r \in Request |-> Idle]
  /\ lastErr = "found"
  /\ fit = [r \in Request |-> {}]

Rows == DOMAIN credentials

Exists(k) == k \in Creates /\ providers[k] # None

Changes == changes < MaxChanges /\ changes' = changes + 1

-----------------------------------------------------------------------------
(***************************************************************************)
(* Configuration.                                                          *)
(***************************************************************************)
\* CreateProvider: a second one with the id of the first updates it, except for
\* its kind.
CreateProvider(k, kind, declared) ==
  /\ IF providers[k] = None THEN UNCHANGED changes ELSE Changes
  /\ providers' = [providers EXCEPT ![k] =
       [kind |-> IF @ = None THEN kind ELSE @.kind, declares |-> declared]]
  /\ UNCHANGED <<credentials, models, mainKey, calls, lastErr>>

\* The text AESSecretStore makes of a secret, and what it makes of the text.
Seal == [form |-> "envelope", key |-> mainKey]

Opens(sealed) == sealed.form = "envelope" /\ sealed.key = mainKey

\* CreateCredential: only for a provider there is; one of kind script comes with
\* its script, the others with a secret.
CreateCredential(k, priority) ==
  /\ Exists(k)
  /\ Cardinality(Rows) < MaxCredentials
  /\ credentials' = [c \in 1..Cardinality(Rows) + 1 |->
       IF c \in Rows THEN credentials[c]
       ELSE [at |-> k, priority |-> priority, sealed |-> Seal]]
  /\ UNCHANGED <<providers, models, mainKey, changes, calls, lastErr>>

\* Mutation: the provider is not looked up in the workspace.
SaveAnyModel(w, p, m, given) ==
  /\ \E v \in Workspace : Exists(<<v, p>>)
  /\ Changes
  /\ models' = [models EXCEPT ![<<p, m>>] =
       [declares |-> IF given = {} THEN Guess[m] ELSE given, by |-> w]]
  /\ UNCHANGED <<providers, credentials, mainKey, calls, lastErr>>

\* SaveModels writes one row after the other: one it refuses ends it, and the
\* rows before that one stay.
SaveModel(w, p, m, given) ==
  /\ Exists(<<w, p>>)
  /\ Changes
  /\ models' = [models EXCEPT ![<<p, m>>] =
       [declares |-> IF given = {} THEN Guess[m] ELSE given, by |-> w]]
  /\ UNCHANGED <<providers, credentials, mainKey, calls, lastErr>>

\* ListModels: the saved models of the providers of the workspace; a provider
\* that declares a capability none of its models has stands for itself.
Listed(w, capability) ==
  LET of(p) == {m \in Model : models[<<p, m>>] # None
                               /\ capability \in models[<<p, m>>].declares}
      mine == {p \in ProviderId : Exists(<<w, p>>)}
  IN  {k \in mine \X Model : k[2] \in of(k[1])}
        \union {q \in mine : of(q) = {} /\ capability \in providers[<<w, q>>].declares}
                 \X {None}

\* Nothing at the start compares the key of the configuration with the rows.
StartWithOtherKey ==
  /\ Changes
  /\ mainKey' = mainKey + 1
  /\ calls' = [r \in Request |-> Idle]
  /\ lastErr' = "found"
  /\ UNCHANGED <<providers, credentials, models>>

\* RotateSecretKey opens what SealSecret sealed, a header before the text, and
\* stops at the first row it cannot open.
Rotates(sealed) == sealed.form = "header" /\ sealed.key = mainKey

Rotate ==
  /\ Changes
  /\ \A c \in Rows : Rotates(credentials[c].sealed)
  /\ credentials' = [c \in Rows |-> [credentials[c] EXCEPT !.sealed.key = mainKey + 1]]
  /\ mainKey' = mainKey + 1
  /\ calls' = [r \in Request |-> Idle]
  /\ lastErr' = "found"
  /\ UNCHANGED <<providers, models>>

-----------------------------------------------------------------------------
(***************************************************************************)
(* Resolve.                                                                *)
(***************************************************************************)
Holds(r) == calls[r].phase = "rows"

Free == Connections - Cardinality({r \in Request : Holds(r)})

\* Mutation: the credential is chosen anew among those of the provider.
WantedOfProvider(call) ==
  IF call.stage # "execute" THEN call.asked
  ELSE [call.asked EXCEPT !.provider = credentials[call.filled].at[2]]

\* Resolve(capability, providerId, credentialId): what is asked for, or what the
\* preflight put in its place.
Wanted(call) ==
  IF call.stage # "execute" THEN call.asked
  ELSE [call.asked EXCEPT !.provider = credentials[call.filled].at[2],
                          !.credential = call.filled]

Matching(want) ==
  {c \in Rows : want.provider \in {None, credentials[c].at[2]}
                /\ want.credential \in {None, c}}

\* The first Limit rows by priority; the order of equals is open.
Candidates(want) ==
  {S \in SUBSET Matching(want) :
     /\ Cardinality(S) = Min({Limit, Cardinality(Matching(want))})
     /\ \A c \in S, d \in Matching(want) \ S :
          credentials[c].priority >= credentials[d].priority}

Submit(r, want) ==
  /\ calls[r].phase = "idle"
  /\ calls' = [calls EXCEPT ![r] = [Idle EXCEPT !.phase = "query", !.asked = want]]
  /\ UNCHANGED <<providers, credentials, models, mainKey, changes, lastErr>>

Query(r) ==
  /\ calls[r].phase = "query" /\ Free > 0
  /\ \E S \in Candidates(Wanted(calls[r])) :
       calls' = [calls EXCEPT ![r].phase = "rows", ![r].left = S,
                              ![r].reason = "no rows", ![r].cred = None]
  /\ UNCHANGED <<providers, credentials, models, mainKey, changes, lastErr>>

\* Mutation: any row that is left.
AnyNext(call) == call.left

NextRows(call) ==
  {c \in call.left : \A d \in call.left : credentials[c].priority >= credentials[d].priority}

\* providerCapabilities asks for the id alone: with one id in several workspaces
\* it reads the row of any of them.
Declared(c) ==
  {providers[k].declares : k \in {l \in Creates : Exists(l) /\ l[2] = credentials[c].at[2]}}

\* The next candidate, whose capabilities are read over a second connection.
Consider(r) ==
  /\ calls[r].phase = "rows" /\ Free > 0
  /\ \E c \in NextRows(calls[r]) : \E declared \in Declared(c) :
       LET why == IF calls[r].asked.capability \notin declared THEN "not declared"
                  ELSE IF ~Opens(credentials[c].sealed) THEN "not opened" ELSE "found"
       IN  calls' = IF why = "found"
                    THEN [calls EXCEPT ![r].phase = "found", ![r].left = {}, ![r].cred = c]
                    ELSE [calls EXCEPT ![r].left = @ \ {c}, ![r].reason = why]
  /\ UNCHANGED <<providers, credentials, models, mainKey, changes, lastErr>>

\* After 5 s without a free connection; the cursor ends with the context.
Starve(r) ==
  /\ \/ calls[r].phase = "query"
     \/ calls[r].phase = "rows" /\ calls[r].left # {}
  /\ Free = 0
  /\ calls' = [calls EXCEPT ![r].phase = "not found", ![r].reason = "no connection",
                            ![r].left = {}, ![r].cred = None]
  /\ UNCHANGED <<providers, credentials, models, mainKey, changes, lastErr>>

Exhaust(r) ==
  /\ calls[r].phase = "rows" /\ calls[r].left = {}
  /\ calls' = [calls EXCEPT ![r].phase = "not found"]
  /\ UNCHANGED <<providers, credentials, models, mainKey, changes, lastErr>>

\* The adapter is the one of the kind of the provider.
HasAdapter(c) == providers[credentials[c].at].kind \in Registered

Return(r) ==
  /\ calls[r].phase \in {"found", "not found"}
  /\ lastErr' = IF calls[r].phase = "not found" THEN calls[r].reason
                ELSE IF HasAdapter(calls[r].cred) THEN "found" ELSE "no adapter"
  /\ calls' = [calls EXCEPT ![r].phase = IF lastErr' = "found" THEN "usable" ELSE "refused",
                            ![r].reason = lastErr']
  /\ UNCHANGED <<providers, credentials, models, mainKey, changes>>

-----------------------------------------------------------------------------
(***************************************************************************)
(* The callers of Resolve.                                                 *)
(***************************************************************************)
\* preflightGenerate refuses the generation, with the last reason there is.
Refuse(r) ==
  /\ calls[r].phase = "refused" /\ calls[r].stage = "preflight"
  /\ calls' = [calls EXCEPT ![r].phase = "done", ![r].told = lastErr]
  /\ UNCHANGED <<providers, credentials, models, mainKey, changes, lastErr>>

\* ... or puts the provider and the credential into its parameters.
Fill(r) ==
  /\ calls[r].phase = "usable" /\ calls[r].stage = "preflight"
  /\ calls' = [calls EXCEPT ![r] =
       [Idle EXCEPT !.phase = "query", !.stage = "validate", !.asked = calls[r].asked,
                    !.filled = calls[r].cred]]
  /\ UNCHANGED <<providers, credentials, models, mainKey, changes, lastErr>>

\* ValidateProviderPlan resolves what was asked for once more, and lets a failure
\* pass; the engine executes the run later.
Validate(r) ==
  /\ calls[r].phase \in {"usable", "refused"} /\ calls[r].stage = "validate"
  /\ calls' = [calls EXCEPT ![r].phase = "query", ![r].stage = "execute",
                            ![r].checked = calls[r].cred, ![r].cred = None]
  /\ UNCHANGED <<providers, credentials, models, mainKey, changes, lastErr>>

\* The script of the provider, as it is now, makes no request that may be sent.
RefusePlan(r) ==
  /\ calls[r].phase = "usable" /\ calls[r].stage = "validate"
  /\ providers[credentials[calls[r].cred].at].kind = "script"
  /\ calls' = [calls EXCEPT ![r].phase = "done"]
  /\ UNCHANGED <<providers, credentials, models, mainKey, changes, lastErr>>

\* runStep calls the adapter, or fails the step.
Execute(r) ==
  /\ calls[r].phase \in {"usable", "refused"} /\ calls[r].stage = "execute"
  /\ calls' = [calls EXCEPT ![r].phase = "done"]
  /\ UNCHANGED <<providers, credentials, models, mainKey, changes, lastErr>>

Forget(r) ==
  /\ calls[r].phase = "done"
  /\ calls' = [calls EXCEPT ![r] = Idle]
  /\ UNCHANGED <<providers, credentials, models, mainKey, changes, lastErr>>

-----------------------------------------------------------------------------
Configure ==
  \/ \E k \in Creates, kind \in Kind, declared \in Declarable :
       CreateProvider(k, kind, declared)
  \/ \E k \in Creates, p \in Priority : CreateCredential(k, p)
  \/ \E w \in Workspace, p \in ProviderId, m \in Model, given \in Declarable \union {{}} :
       SaveModel(w, p, m, given)
  \/ StartWithOtherKey \/ Rotate

Resolve(r) == Query(r) \/ Consider(r) \/ Starve(r) \/ Exhaust(r) \/ Return(r)

Generate(r) ==
  \/ \E want \in Filters : Submit(r, want)
  \/ Resolve(r)
  \/ Refuse(r) \/ Fill(r) \/ Validate(r) \/ RefusePlan(r) \/ Execute(r) \/ Forget(r)

\* Usable for a capability: its provider declares it and its secret opens.
Usable(capability) ==
  {c \in Rows : capability \in providers[credentials[c].at].declares
                /\ Opens(credentials[c].sealed)}

\* From the query of a resolution on, the matching credentials that stay usable.
Watch ==
  fit' = [r \in Request |->
    IF calls'[r].phase = "rows" /\ calls[r].phase = "query"
    THEN Matching(Wanted(calls[r])) \intersect Usable(calls[r].asked.capability)
    ELSE IF calls'[r].phase \in {"rows", "found", "not found"} /\ calls[r].phase = "rows"
    THEN fit[r] \intersect Usable(calls[r].asked.capability)'
    ELSE IF calls[r].phase = "query" /\ calls'[r].phase = "not found"
    THEN Matching(Wanted(calls[r])) \intersect Usable(calls[r].asked.capability)
    ELSE IF calls'[r].phase \in {"found", "not found"} THEN fit[r] ELSE {}]

Next == (Configure \/ \E r \in Request : Generate(r)) /\ Watch

Spec == Init /\ [][Next]_vars

-----------------------------------------------------------------------------
(***************************************************************************)
(* Properties.                                                             *)
(***************************************************************************)
\* Every variable has its type, and a connection is held by at most one cursor.
TypeOK ==
  /\ \A k \in Creates : providers[k] # None =>
       providers[k] \in [kind : Kind, declares : Declarable]
  /\ Rows \subseteq CredentialId
  /\ \A c \in Rows : credentials[c].at \in Creates
  /\ changes \in 0..MaxChanges
  /\ \A r \in Request :
       /\ calls[r].stage \in Stage /\ calls[r].reason \in Outcome
       /\ calls[r].left \union fit[r] \subseteq Rows
       /\ calls[r].cred \in Rows \union {None} /\ calls[r].filled \in Rows \union {None}
  /\ lastErr \in Outcome
  /\ Free >= 0

\* A resolution that got its connections ends without a credential only if none
\* that was asked for could be used all the time, and otherwise with one of the
\* highest priority of those that could, whatever others change meanwhile.
ResolveFinds ==
  \A r \in Request :
    /\ calls[r].phase = "not found" /\ calls[r].reason # "no connection" => fit[r] = {}
    /\ calls[r].phase = "found" =>
         \A c \in fit[r] : credentials[c].priority <= credentials[calls[r].cred].priority

\* A generation is executed with the credential it was accepted with, whatever
\* is created, changed and started anew meanwhile (preflightGenerate).
SameCredential ==
  \A r \in Request :
    calls[r].stage = "execute" /\ calls[r].phase \in {"found", "usable"}
      => calls[r].cred = calls[r].filled

\* The models a workspace lists for its providers are those it saved: another
\* one does not change them (SaveModels).
ModelsAreOwn ==
  \A w \in Workspace, c \in Capability : \A pair \in Listed(w, c) :
    pair[2] # None => models[pair].by = w

\* Not a property of the code: a resolution gets its connections, for the pool has
\* enough of them for queries that go on at the same time (platform.Open).
NeverStarved == \A r \in Request : calls[r].reason # "no connection"

\* Not a property of the code: the reason a refusal gives is its own
\* (CredentialResolver.LastError is that of the last request that resolved).
ReasonIsOwn ==
  \A r \in Request :
    calls[r].phase = "done" /\ calls[r].stage = "preflight" => calls[r].told = calls[r].reason

\* Not a property of the code: the script that is checked is the one executed.
CheckedIsExecuted ==
  \A r \in Request :
    calls[r].stage = "execute" /\ calls[r].phase = "usable" /\ calls[r].checked # None
      => calls[r].checked = calls[r].cred

\* Not a property of the code: a rotation with the present key is possible.
RotationPossible == \A c \in Rows : Opens(credentials[c].sealed) => Rotates(credentials[c].sealed)
=============================================================================
