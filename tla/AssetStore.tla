----------------------------- MODULE AssetStore -----------------------------
(***************************************************************************)
(* The assets of the workspaces (asset.Service): rows of table assets that *)
(* name their content by its hash, references to them in table asset_refs, *)
(* and a blob store that holds each content once for all workspaces.       *)
(* Uploads and the collector (Service.GC) take one step per round trip to  *)
(* the database or the blob store; either may fail or stop in between.     *)
(*                                                                         *)
(* The clock is abstracted to what the collector asks of it: a deleted row *)
(* is "recent" until the grace period passes and "old" from then on.       *)
(***************************************************************************)
EXTENDS Naturals, FiniteSets

CONSTANTS
  Workspace, Content,  \* a content stands for its hash
  Uploader,            \* requests that may be under way at the same time
  Referrer,            \* canvases, prompts: refType and refId
  BatchSize,           \* rows the collector takes in one go (200 in the code)
  MaxAssets,           \* bound of the model: rows ever inserted
  MaxFailures,         \* bound of the model: requests and collections that fail
  None

ASSUME BoundsTyped == BatchSize \in Nat \ {0} /\ MaxAssets \in Nat /\ MaxFailures \in Nat

ASSUME NoneIsApart == None \notin Workspace \union Content \union 1..MaxAssets

VARIABLES
  assets,   \* table assets: its rows by id
  refs,     \* table asset_refs: pairs of an asset id and a referrer
  blobs,    \* the contents in the blob store
  made,     \* the last id given out
  call,     \* the upload of each uploader
  gc,       \* the collection under way
  lapsed,   \* contents one of whose references was removed within the grace period
  crossed,  \* contents uploaded while the collector was about to delete them
  failed    \* requests and collections that ended early

vars == <<assets, refs, blobs, made, call, gc, lapsed, crossed, failed>>

Id == 1..MaxAssets

Row == [ws : Workspace, hash : Content, deleted : {"no", "recent", "old"}]

Idle == [phase |-> "idle", ws |-> None, hash |-> None, id |-> None, removed |-> FALSE]

\* The ids still to be looked at, the one being looked at, and those that got
\* a reference since the collector counted theirs.
Resting == [phase |-> "next", todo |-> {}, at |-> None, hash |-> None, late |-> {}]

Init ==
  /\ assets = <<>>
  /\ refs = {}
  /\ blobs = {}
  /\ made = 0
  /\ call = [u \in Uploader |-> Idle]
  /\ gc = Resting
  /\ lapsed = {}
  /\ crossed = {}
  /\ failed = 0

Rows == DOMAIN assets

Referenced(id) == \E r \in Referrer : <<id, r>> \in refs

Of(ws, hash) == {id \in Rows : assets[id].ws = ws /\ assets[id].hash = hash}

LiveOf(ws, hash) == {id \in Of(ws, hash) : assets[id].deleted = "no"}

\* List: the assets a workspace shows.
Shown(ws) == {id \in Rows : assets[id].ws = ws /\ assets[id].deleted = "no"}

\* Get and Open: a row, deleted or not, whose content is in the store.
Readable(id) == id \in Rows /\ assets[id].hash \in blobs

\* Auxiliary: the collector found no other live row of the content it is at.
Doomed == IF gc.phase \in {"row", "blob"} THEN {gc.hash} ELSE {}

(***************************************************************************)
(* Uploads.                                                                *)
(***************************************************************************)
\* Upload looks for a live row of the content in the workspace.
Look(u) ==
  /\ call[u].phase = "idle"
  /\ \E ws \in Workspace, h \in Content :
       /\ call' = [call EXCEPT ![u] =
            [Idle EXCEPT !.ws = ws, !.hash = h,
               !.phase = IF LiveOf(ws, h) = {} THEN "put" ELSE "done",
               !.id = IF LiveOf(ws, h) = {} THEN None ELSE CHOOSE id \in LiveOf(ws, h) : TRUE]]
       /\ crossed' = crossed \union ({h} \intersect Doomed)
  /\ UNCHANGED <<assets, refs, blobs, made, gc, lapsed, failed>>

\* BlobStore.Put skips a content it has.
Put(u) ==
  /\ call[u].phase = "put"
  /\ blobs' = blobs \union {call[u].hash}
  /\ call' = [call EXCEPT ![u].phase = "insert"]
  /\ UNCHANGED <<assets, refs, made, gc, lapsed, crossed, failed>>

\* The insertion, with a unique index over workspace and hash.
Insert(u) ==
  /\ call[u].phase = "insert"
  /\ Of(call[u].ws, call[u].hash) = {}
  /\ made < MaxAssets
  /\ made' = made + 1
  /\ assets' = [id \in Rows \union {made'} |->
       IF id = made' THEN [ws |-> call[u].ws, hash |-> call[u].hash, deleted |-> "no"]
       ELSE assets[id]]
  /\ call' = [call EXCEPT ![u].phase = "done", ![u].id = made']
  /\ UNCHANGED <<refs, blobs, gc, lapsed, crossed, failed>>

Conflict(u) ==
  /\ call[u].phase = "insert"
  /\ Of(call[u].ws, call[u].hash) # {}
  /\ call' = [call EXCEPT ![u].phase = "again"]
  /\ UNCHANGED <<assets, refs, blobs, made, gc, lapsed, crossed, failed>>

\* After a conflict the row is read again, deleted or not; it may be gone.
ReadAgain(u) ==
  /\ call[u].phase = "again"
  /\ LET found == Of(call[u].ws, call[u].hash) IN
     call' = IF found = {} THEN [call EXCEPT ![u] = Idle]
             ELSE [call EXCEPT ![u].phase = "done", ![u].id = CHOOSE id \in found : TRUE]
  /\ UNCHANGED <<assets, refs, blobs, made, gc, lapsed, crossed, failed>>

Answer(u) ==
  /\ call[u].phase = "done"
  /\ call' = [call EXCEPT ![u] = Idle]
  /\ UNCHANGED <<assets, refs, blobs, made, gc, lapsed, crossed, failed>>

\* An upload ends at a failed write, a closed context or with its process.
UploadFails(u) ==
  /\ call[u].phase \in {"put", "insert", "again"}
  /\ failed < MaxFailures
  /\ failed' = failed + 1
  /\ call' = [call EXCEPT ![u] = Idle]
  /\ UNCHANGED <<assets, refs, blobs, made, gc, lapsed, crossed>>

(***************************************************************************)
(* References and deletion; AddRef does not look at the asset.             *)
(***************************************************************************)
AddRef(id, r) ==
  /\ id \in 1..made /\ <<id, r>> \notin refs
  /\ refs' = refs \union {<<id, r>>}
  /\ gc' = IF gc.at = id THEN [gc EXCEPT !.late = @ \union {id}] ELSE gc
  /\ UNCHANGED <<assets, blobs, made, call, lapsed, crossed, failed>>

RemoveRef(id, r) ==
  /\ <<id, r>> \in refs
  /\ refs' = refs \ {<<id, r>>}
  /\ lapsed' = lapsed \union {assets[i].hash : i \in {id} \intersect Rows}
  /\ UNCHANGED <<assets, blobs, made, call, gc, crossed, failed>>

\* A soft deletion, whatever refers to the asset.
Delete(id) ==
  /\ id \in Rows /\ assets[id].deleted = "no"
  /\ assets' = [assets EXCEPT ![id].deleted = "recent"]
  /\ call' = [u \in Uploader |->
       IF call[u].ws = assets[id].ws /\ call[u].hash = assets[id].hash
       THEN [call[u] EXCEPT !.removed = TRUE] ELSE call[u]]
  /\ UNCHANGED <<refs, blobs, made, gc, lapsed, crossed, failed>>

\* The grace period passes; no upload takes that long.
GracePasses ==
  /\ \A u \in Uploader : call[u].phase = "idle"
  /\ lapsed # {} \/ \E id \in Rows : assets[id].deleted = "recent"
  /\ assets' = [id \in Rows |->
       IF assets[id].deleted = "recent" THEN [assets[id] EXCEPT !.deleted = "old"]
       ELSE assets[id]]
  /\ lapsed' = {}
  /\ UNCHANGED <<refs, blobs, made, call, gc, crossed, failed>>

(***************************************************************************)
(* The collector.                                                          *)
(***************************************************************************)
Collectable == {id \in Rows : assets[id].deleted = "old" /\ ~Referenced(id)}

\* The rows whose deletion is older than the grace period and that nothing
\* refers to, BatchSize of them in no order.
Scan ==
  /\ gc = Resting
  /\ \E todo \in SUBSET Collectable :
       /\ todo # {}
       /\ \/ Cardinality(todo) = BatchSize
          \/ todo = Collectable /\ Cardinality(todo) < BatchSize
       /\ gc' = [Resting EXCEPT !.todo = todo]
  /\ UNCHANGED <<assets, refs, blobs, made, call, lapsed, crossed, failed>>

Skip == [gc EXCEPT !.phase = "next", !.at = None, !.hash = None, !.late = {}]

\* Mutation: the references are not counted again.
CountOnce ==
  /\ gc.phase = "next"
  /\ \E id \in gc.todo :
       gc' = [gc EXCEPT !.todo = @ \ {id}, !.phase = "share", !.at = id,
                        !.hash = assets[id].hash]
  /\ UNCHANGED <<assets, refs, blobs, made, call, lapsed, crossed, failed>>

\* The references of a candidate are counted again.
Count ==
  /\ gc.phase = "next"
  /\ \E id \in gc.todo :
       gc' = IF Referenced(id) THEN [gc EXCEPT !.todo = @ \ {id}]
             ELSE [gc EXCEPT !.todo = @ \ {id}, !.phase = "share", !.at = id,
                             !.hash = assets[id].hash]
  /\ UNCHANGED <<assets, refs, blobs, made, call, lapsed, crossed, failed>>

\* Mutation: sharers are looked for in the workspace only.
SharersNearby ==
  {id \in Rows \ {gc.at} : assets[id].hash = gc.hash /\ assets[id].deleted = "no"
                             /\ assets[id].ws = assets[gc.at].ws}

\* Rows of any workspace that still show the content.
Sharers ==
  {id \in Rows \ {gc.at} : assets[id].hash = gc.hash /\ assets[id].deleted = "no"}

Share ==
  /\ gc.phase = "share"
  /\ gc' = IF Sharers # {} THEN Skip ELSE [gc EXCEPT !.phase = "row"]
  /\ crossed' = IF Sharers = {} /\ \E u \in Uploader : call[u].hash = gc.hash
                THEN crossed \union {gc.hash} ELSE crossed
  /\ UNCHANGED <<assets, refs, blobs, made, call, lapsed, failed>>

\* Mutation: a row that is gone ends the collection of its content.
DeleteRowOnly ==
  /\ gc.phase = "row"
  /\ assets' = [id \in Rows \ {gc.at} |-> assets[id]]
  /\ gc' = Skip
  /\ UNCHANGED <<refs, blobs, made, call, lapsed, crossed, failed>>

DeleteRow ==
  /\ gc.phase = "row"
  /\ assets' = [id \in Rows \ {gc.at} |-> assets[id]]
  /\ gc' = [gc EXCEPT !.phase = "blob"]
  /\ UNCHANGED <<refs, blobs, made, call, lapsed, crossed, failed>>

DeleteBlob ==
  /\ gc.phase = "blob"
  /\ blobs' = blobs \ {gc.hash}
  /\ gc' = Skip
  /\ UNCHANGED <<assets, refs, made, call, lapsed, crossed, failed>>

\* An error of any step returns; the rows left over wait for the next call.
CollectionFails ==
  /\ gc # Resting
  /\ failed < MaxFailures
  /\ failed' = failed + 1
  /\ gc' = Resting
  /\ UNCHANGED <<assets, refs, blobs, made, call, lapsed, crossed>>

Next ==
  \/ \E u \in Uploader : Look(u) \/ Put(u) \/ Insert(u) \/ Conflict(u) \/ ReadAgain(u)
                           \/ Answer(u) \/ UploadFails(u)
  \/ \E id \in Id, r \in Referrer : AddRef(id, r) \/ RemoveRef(id, r)
  \/ \E id \in Id : Delete(id)
  \/ GracePasses
  \/ Scan \/ Count \/ Share \/ DeleteRow \/ DeleteBlob \/ CollectionFails

Spec == Init /\ [][Next]_vars

(***************************************************************************)
(* Properties.                                                             *)
(***************************************************************************)
\* Every variable has its type, and a workspace has one row per content.
TypeOK ==
  /\ Rows \subseteq 1..made /\ \A id \in Rows : assets[id] \in Row
  /\ \A a, b \in Rows :
       assets[a].ws = assets[b].ws /\ assets[a].hash = assets[b].hash => a = b
  /\ refs \subseteq (1..made) \X Referrer
  /\ blobs \subseteq Content
  /\ made \in 0..MaxAssets
  /\ \A u \in Uploader :
       /\ call[u].phase \in {"idle", "put", "insert", "again", "done"}
       /\ call[u].phase # "idle" => call[u].ws \in Workspace /\ call[u].hash \in Content
       /\ call[u].phase = "done" <=> call[u].id # None
       /\ call[u].id \in (1..made) \union {None}
  /\ gc.phase \in {"next", "share", "row", "blob"}
  /\ gc.todo \subseteq 1..made
  /\ gc.phase = "next" <=> gc.at = None
  /\ lapsed \subseteq Content /\ crossed \subseteq Content
  /\ failed \in 0..MaxFailures

\* An asset a workspace shows has its content in the store, whoever else
\* uploaded, deleted or collected the same content, and whatever failed;
\* except where an upload of the content ran while the collector had already
\* decided to delete it (Service.Upload, Service.GC).
LiveHasBlob ==
  \A ws \in Workspace : \A id \in Shown(ws) : Readable(id) \/ assets[id].hash \in crossed

\* A content nothing points to is left in the store only by a request or a
\* collection that failed half-way (Service.Upload writes the blob before the
\* row, Service.GC deletes it after).
OrphansOnlyByFailure ==
  failed = 0 /\ gc.phase # "blob" /\ (\A u \in Uploader : call[u].phase = "idle") =>
    blobs \subseteq {assets[id].hash : id \in Rows}

\* The collector removes only rows deleted longer than the grace period, and
\* one that is referenced only if the reference came after its second count
\* (Service.GC).
CollectsUnreferenced ==
  [][\A id \in Rows : id \notin Rows' =>
       assets[id].deleted = "old" /\ (Referenced(id) => id \in gc.late)]_vars

\* A reference takes the asset out of the collection under way (gc.go:37-38,
\* INV-4).
ReferenceSaves ==
  [][\A id \in Rows : id \notin Rows' => ~Referenced(id)]_vars

\* A content stays readable for the grace period after a reference to it was
\* removed (docs/design/11, INV-4).
RetainedAfterRemoval == lapsed \subseteq blobs \union crossed

\* An asset that is referenced is readable, deleted or not (service.go:117-118).
ReferencedIsReadable ==
  \A id \in Rows : Referenced(id) => Readable(id) \/ assets[id].hash \in crossed

\* The asset an upload answers with is one the workspace shows, unless it was
\* deleted while the upload ran (Service.Upload).
UploadedIsShown ==
  \A u \in Uploader : call[u].phase = "done" /\ ~call[u].removed =>
    call[u].id \in Shown(call[u].ws)
=============================================================================
