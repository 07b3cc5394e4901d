---------------------------- MODULE SettingsStore ----------------------------
(***************************************************************************)
(* The settings of one workspace (workspace.Service): one JSON document in *)
(* column workspaces.settings that holds the preferences in plain text,    *)
(* the secrets encrypted with the main key, and the quota exec.Quota reads *)
(* from it.  Every change reads the document, changes its copy and writes  *)
(* the whole document back.                                                *)
(*                                                                         *)
(* A document written before this layout, or by an operator, has its       *)
(* entries at the top level; it is read as preferences, quota included.    *)
(***************************************************************************)
EXTENDS Naturals, Sequences

CONSTANTS
  Client,
  Key, SecretKey, Value, Limit, None,
  Refused,        \* a value validateDirect or the size limit refuses
  Reason,         \* the name of the text an export gives instead of the secrets
  Requests,       \* sequences of changes: of updateWorkspacePrefs and Import
  FirstRows,      \* the documents the workspace may start with
  Apart,          \* whether operators keep out of requests and old documents
  MaxLimits       \* bound of the model: times an operator sets the quota

ASSUME BoundsTyped == MaxLimits \in Nat /\ Apart \in BOOLEAN

\* What is sealed, the document, and the changes of a request.
Extras == UNION {[some -> Value \union {Reason}] : some \in SUBSET (SecretKey \union {Reason})}

Sealed == [key : {1, 2}, extra : Extras]

Document ==
  [wrapped : BOOLEAN, prefs : [Key -> Value \union {None}], nested : Limit \union {None},
   sealed : Sealed \union {None}, quota : Limit \union {None}]

Part ==
  [on : {"prefs"}, set : UNION {[some -> Value \union {Refused}] : some \in SUBSET Key}]
  \union
  [on : {"secrets"},
   set : UNION {[some -> Value \union {None, Refused, Reason}] :
                  some \in SUBSET (SecretKey \union {Reason})}]

ASSUME NamesApart ==
  /\ None \notin Value \union {Reason, Refused} /\ None \notin Sealed
  /\ Refused \notin Value \union {Reason}

ASSUME RequestsTyped == \A r \in Requests : r \in Seq(Part) /\ r # <<>>

\* A document of the old layout has no quota beside its preferences.
ASSUME FirstRowsTyped ==
  \A d \in FirstRows : d \in Document /\ d.sealed = None /\ (~d.wrapped => d.quota = None)

VARIABLES
  row,      \* column settings of the workspace
  deleted,  \* the workspace is soft-deleted
  mainKey,  \* the main key the server runs with
  call,     \* the request of each client: its changes, and the copy it works on
  limits    \* times the quota was set

vars == <<row, deleted, mainKey, call, limits>>

Idle == [phase |-> "idle", todo |-> <<>>, copy |-> None]

Init ==
  /\ row \in FirstRows
  /\ deleted = FALSE
  /\ mainKey = 1
  /\ call = [c \in Client |-> Idle]
  /\ limits = 0

Overlay(old, set) ==
  [k \in DOMAIN old \union DOMAIN set |-> IF k \in DOMAIN set THEN set[k] ELSE old[k]]

\* load: an unwrapped document becomes the preferences as it is.
load(doc) ==
  IF doc.wrapped THEN doc
  ELSE [doc EXCEPT !.wrapped = TRUE, !.nested = doc.quota, !.quota = None]

\* open: the secrets, if they were sealed with the present main key.
Opened(doc) ==
  IF doc.sealed # None /\ doc.sealed.key = mainKey THEN doc.sealed.extra ELSE <<>>

\* Update merges the preferences it is given into those of the copy.
Merged(doc, set) == [doc EXCEPT !.prefs = Overlay(doc.prefs, set)]

\* Mutation: the secrets it is given replace all.
ReplacedSecrets(doc, set) ==
  [doc EXCEPT !.sealed = [key |-> mainKey,
     extra |-> [k \in {j \in DOMAIN set : set[j] # None} |-> set[k]]]]

\* PutSecrets opens the secrets, sets or (with an empty value) removes those
\* it is given and seals them again.
PutSecrets(doc, set) ==
  LET all == Overlay(Opened(doc), set) IN
  [doc EXCEPT !.sealed = [key |-> mainKey,
     extra |-> [k \in {j \in DOMAIN all : all[j] # None} |-> all[k]]]]

Changed(doc, part) ==
  IF part.on = "prefs" THEN Merged(doc, part.set) ELSE PutSecrets(doc, part.set)

Acceptable(part) == \A k \in DOMAIN part.set : part.set[k] # Refused

Asks(c) ==
  /\ call[c].phase = "idle"
  /\ \E r \in Requests : call' = [call EXCEPT ![c] = [Idle EXCEPT !.phase = "load", !.todo = r]]
  /\ UNCHANGED <<row, deleted, mainKey, limits>>

\* Export without secrets: instead of them it gives a reason, in text.
File(prefs) ==
  << [on |-> "prefs", set |-> prefs],
     [on |-> "secrets", set |-> [k \in {Reason} |-> Reason]] >>

\* Import of such a file.
ImportsExport(c) ==
  /\ call[c].phase = "idle"
  /\ LET prefs == [k \in {j \in Key : row.prefs[j] # None} |-> row.prefs[k]]
     IN  call' = [call EXCEPT ![c] = [Idle EXCEPT !.phase = "load", !.todo = File(prefs)]]
  /\ UNCHANGED <<row, deleted, mainKey, limits>>

Loads(c) ==
  /\ call[c].phase = "load" /\ ~deleted
  /\ call' = [call EXCEPT ![c].phase = "save", ![c].copy = load(row)]
  /\ UNCHANGED <<row, deleted, mainKey, limits>>

\* Mutation: the row is written whether the workspace is deleted or not.
SavesAnyway(c) ==
  /\ call[c].phase = "save" /\ Acceptable(Head(call[c].todo))
  /\ row' = Changed(call[c].copy, Head(call[c].todo))
  /\ call' = [call EXCEPT ![c] = [Idle EXCEPT !.todo = Tail(call[c].todo),
       !.phase = IF Len(call[c].todo) = 1 THEN "idle" ELSE "load"]]
  /\ UNCHANGED <<deleted, mainKey, limits>>

Saves(c) ==
  /\ call[c].phase = "save" /\ ~deleted /\ Acceptable(Head(call[c].todo))
  /\ row' = Changed(call[c].copy, Head(call[c].todo))
  /\ call' = [call EXCEPT ![c] = [Idle EXCEPT !.todo = Tail(call[c].todo),
       !.phase = IF Len(call[c].todo) = 1 THEN "idle" ELSE "load"]]
  /\ UNCHANGED <<deleted, mainKey, limits>>

\* The workspace is not found, the change is refused, or a write fails; the
\* changes that came before stay.
Fails(c) ==
  /\ call[c].phase # "idle"
  /\ call' = [call EXCEPT ![c] = Idle]
  /\ UNCHANGED <<row, deleted, mainKey, limits>>

\* identity.DeleteWorkspace and RestoreWorkspace, as far as the row goes.
Hide == ~deleted /\ deleted' = TRUE /\ UNCHANGED <<row, mainKey, call, limits>>
Show == deleted /\ deleted' = FALSE /\ UNCHANGED <<row, mainKey, call, limits>>

\* An operator sets the quota in the document, in SQL (there is no interface).
SetQuota ==
  /\ limits < MaxLimits
  /\ Apart => row.wrapped /\ \A c \in Client : call[c].phase # "save"
  /\ \E q \in Limit : row' = [row EXCEPT !.quota = q]
  /\ limits' = limits + 1
  /\ UNCHANGED <<deleted, mainKey, call>>

\* `keys rotate` (RotateSecretKey), then a restart with the new key; it seals
\* credentials and plugin settings anew, and does not look at this column.
Rotate ==
  /\ mainKey = 1
  /\ mainKey' = 2
  /\ call' = [c \in Client |-> Idle]
  /\ UNCHANGED <<row, deleted, limits>>

Next ==
  \/ \E c \in Client : Asks(c) \/ ImportsExport(c) \/ Loads(c) \/ Saves(c) \/ Fails(c)
  \/ Hide \/ Show \/ SetQuota

Spec == Init /\ [][Next]_vars

\* With a rotation of the main key.
RotatingSpec == Init /\ [][Next \/ Rotate]_vars

(***************************************************************************)
(* Properties.                                                             *)
(***************************************************************************)
\* Every variable has its type; what is sealed names no key of the future.
TypeOK ==
  /\ row \in Document
  /\ row.sealed # None => row.sealed.key \in 1..mainKey
  /\ \A c \in Client :
       /\ call[c].phase \in {"idle", "load", "save"}
       /\ call[c].todo \in Seq(Part)
       /\ call[c].phase = "idle" <=> call[c].todo = <<>>
       /\ IF call[c].phase = "save" THEN call[c].copy \in Document ELSE call[c].copy = None
  /\ limits \in 0..MaxLimits

\* Service.Read: the preferences; the secrets that can be opened.
Shown == load(row).prefs

OpenedSecrets ==
  [k \in SecretKey |-> IF k \in DOMAIN Opened(row) THEN Opened(row)[k] ELSE None]

Promise == INSTANCE Settings WITH
  prefs <- Shown, secrets <- OpenedSecrets, quota <- row.quota,
  Requests <- Requests \union {File(p) : p \in UNION {[some -> Value] : some \in SUBSET Key}},
  asked <- [c \in Client |-> call[c].todo]

\* The document behaves like the cells of Settings: a change of a preference
\* keeps the others, the secrets and the quota, whatever layout the document
\* had, and a request that fails half-way keeps what it has changed
\* (Service.Update, PutSecrets, Import; applyQuotaSettings).
ImplementsSettings == Promise!SettingsSpec

\* The settings of a deleted workspace stay as they were, for the day it is
\* restored (Service.save), unless an operator sets the quota.
DeletedStays == [][deleted => row' = [row EXCEPT !.quota = row'.quota]]_vars

\* Nothing is kept as a secret that nobody gave as one (Service.Import of the
\* output of Service.Export).
SecretsWereGiven == row.sealed # None => DOMAIN row.sealed.extra \subseteq SecretKey
=============================================================================
