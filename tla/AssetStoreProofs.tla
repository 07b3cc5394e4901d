--------------------------- MODULE AssetStoreProofs ---------------------------
(***************************************************************************)
(* What holds of the asset store for every number of workspaces, contents, *)
(* uploads and referrers, and every size of a collection.                  *)
(***************************************************************************)
EXTENDS AssetStore, FiniteSetTheorems, TLAPS

Phases == {"idle", "put", "insert", "again", "done"}

Request ==
  [phase : Phases, ws : Workspace \union {None}, hash : Content \union {None},
   id : Nat \union {None}, removed : BOOLEAN]

Collection ==
  [phase : {"next", "share", "row", "blob"}, todo : SUBSET Nat, at : Nat \union {None},
   hash : Content \union {None}, late : SUBSET Nat]

Typed ==
  /\ made \in 0..MaxAssets
  /\ Rows \subseteq 1..made
  /\ assets \in [Rows -> Row]
  /\ call \in [Uploader -> Request]
  /\ \A u \in Uploader :
       call[u].phase # "idle" => call[u].ws \in Workspace /\ call[u].hash \in Content
  /\ gc \in Collection

\* The collector looks only at rows that were deleted before the grace period:
\* nothing shows such a row again and nobody else removes it.
Collecting ==
  /\ \A id \in gc.todo : id \in Rows /\ assets[id].deleted = "old"
  /\ gc.phase # "next" => gc.hash \in Content
  /\ gc.phase \in {"share", "row"} =>
       /\ gc.at \in Rows /\ gc.at \notin gc.todo
       /\ assets[gc.at].deleted = "old" /\ assets[gc.at].hash = gc.hash

\* A content that is about to be deleted is shown, or being uploaded, only if
\* the upload crossed the collection.
DoomedIsUnseen ==
  \A h \in Doomed :
    /\ \A id \in Rows : assets[id].hash = h /\ assets[id].deleted = "no" => h \in crossed
    /\ \A u \in Uploader : call[u].hash = h => h \in crossed

\* An upload that is about to insert its row has its content in the store.
InsertsStored ==
  \A u \in Uploader : call[u].phase = "insert" => call[u].hash \in blobs \union crossed

Inv == Typed /\ Collecting /\ DoomedIsUnseen /\ InsertsStored /\ LiveHasBlob

LEMMA InitInv == Init => Inv
<1> SUFFICES ASSUME Init PROVE Inv
  OBVIOUS
<1>1. Rows = {} /\ assets \in [Rows -> Row]
  BY DEF Init, Rows
<1>2. Idle \in Request /\ Idle.phase = "idle"
  BY DEF Idle, Request, Phases
<1>3. /\ Resting \in Collection /\ Resting.phase = "next" /\ Resting.todo = {}
  BY DEF Resting, Collection
<1>4. Typed
  BY <1>1, <1>2, <1>3, BoundsTyped DEF Init, Typed
<1> QED BY <1>1, <1>2, <1>3, <1>4 DEF Init, Inv, Collecting, DoomedIsUnseen, InsertsStored,
     LiveHasBlob, Doomed, Shown

LEMMA RowsAreIds ==
  ASSUME Inv
  PROVE  \A id \in Rows : id \in Nat /\ assets[id] \in Row
BY DEF Inv, Typed

LEMMA FoundIsId ==
  ASSUME Inv, NEW S \in SUBSET Rows, S # {}
  PROVE  (CHOOSE id \in S : TRUE) \in Nat
BY RowsAreIds

(***************************************************************************)
(* Uploads.                                                                *)
(***************************************************************************)
LEMMA LookStep ==
  ASSUME Inv, NEW u \in Uploader, Look(u)
  PROVE  Inv'
<1>1. PICK ws \in Workspace, h \in Content :
        /\ call' = [call EXCEPT ![u] =
            [Idle EXCEPT !.ws = ws, !.hash = h,
               !.phase = IF LiveOf(ws, h) = {} THEN "put" ELSE "done",
               !.id = IF LiveOf(ws, h) = {} THEN None ELSE CHOOSE id \in LiveOf(ws, h) : TRUE]]
        /\ crossed' = crossed \union ({h} \intersect Doomed)
  BY DEF Look
<1>2. UNCHANGED <<assets, blobs, made, gc>>
  BY DEF Look
<1> DEFINE found == CHOOSE id \in LiveOf(ws, h) : TRUE
           r == [Idle EXCEPT !.ws = ws, !.hash = h,
                   !.phase = IF LiveOf(ws, h) = {} THEN "put" ELSE "done",
                   !.id = IF LiveOf(ws, h) = {} THEN None ELSE found]
<1>3. LiveOf(ws, h) # {} => found \in Nat
  <2>1. LiveOf(ws, h) \in SUBSET Rows
    BY DEF LiveOf, Of
  <2> QED BY <2>1, FoundIsId
<1> HIDE DEF found
<1>4. r \in Request /\ r.phase \in {"put", "done"} /\ r.ws = ws /\ r.hash = h
  BY <1>3 DEF Idle, Request, Phases
<1>5. call' = [call EXCEPT ![u] = r]
  BY <1>1 DEF found
<1> HIDE DEF r
<1>6. Typed'
  BY <1>2, <1>4, <1>5 DEF Inv, Typed, Rows
<1>7. Collecting' /\ Doomed' = Doomed
  BY <1>2 DEF Inv, Collecting, Rows, Doomed
<1>8. DoomedIsUnseen'
  BY <1>1, <1>2, <1>4, <1>5, <1>7 DEF Inv, Typed, DoomedIsUnseen, Rows
<1>9. InsertsStored'
  BY <1>1, <1>2, <1>4, <1>5 DEF Inv, Typed, InsertsStored
<1>10. LiveHasBlob'
  BY <1>1, <1>2 DEF Inv, LiveHasBlob, Shown, Readable, Rows
<1> QED BY <1>6, <1>7, <1>8, <1>9, <1>10 DEF Inv

LEMMA PutStep ==
  ASSUME Inv, NEW u \in Uploader, Put(u)
  PROVE  Inv'
<1> DEFINE r == [call[u] EXCEPT !.phase = "insert"]
<1>1. call[u] \in Request /\ call[u].ws \in Workspace /\ call[u].hash \in Content
  BY DEF Inv, Typed, Put
<1>2. r \in Request /\ r.phase = "insert" /\ r.ws = call[u].ws /\ r.hash = call[u].hash
  BY <1>1 DEF Request, Phases
<1>3. /\ call' = [call EXCEPT ![u] = r] /\ blobs' = blobs \union {call[u].hash}
      /\ UNCHANGED <<assets, made, gc, crossed>>
  BY DEF Put, Inv, Typed
<1> HIDE DEF r
<1>4. Typed'
  BY <1>1, <1>2, <1>3 DEF Inv, Typed, Rows
<1>5. Collecting' /\ Doomed' = Doomed
  BY <1>3 DEF Inv, Collecting, Rows, Doomed
<1>6. DoomedIsUnseen'
  BY <1>2, <1>3, <1>5 DEF Inv, Typed, DoomedIsUnseen, Rows
<1>7. InsertsStored'
  BY <1>2, <1>3 DEF Inv, Typed, InsertsStored
<1>8. LiveHasBlob'
  BY <1>3 DEF Inv, LiveHasBlob, Shown, Readable, Rows
<1> QED BY <1>4, <1>5, <1>6, <1>7, <1>8 DEF Inv

\* The new row shows a content that was stored for it.
LEMMA InsertStep ==
  ASSUME Inv, NEW u \in Uploader, Insert(u)
  PROVE  Inv'
<1> DEFINE r == [call[u] EXCEPT !.phase = "done", !.id = made']
<1>1. /\ call[u] \in Request /\ call[u].ws \in Workspace /\ call[u].hash \in Content
      /\ call[u].phase = "insert" /\ made \in Nat /\ made' = made + 1 /\ made' \in 0..MaxAssets
      /\ made' \in Nat
      /\ call[u].hash \in blobs \union crossed
  BY BoundsTyped DEF Inv, Typed, Insert, InsertsStored
<1>2. /\ r \in Request /\ r.phase = "done" /\ r.ws = call[u].ws /\ r.hash = call[u].hash
  BY <1>1 DEF Request, Phases
<1>3. call' = [call EXCEPT ![u] = r] /\ UNCHANGED <<blobs, gc, crossed>>
  BY DEF Insert, Inv, Typed
<1> HIDE DEF r
<1>4. /\ Rows' = Rows \union {made'} /\ made' \notin Rows
      /\ \A id \in Rows : assets'[id] = assets[id]
      /\ assets'[made'] = [ws |-> call[u].ws, hash |-> call[u].hash, deleted |-> "no"]
      /\ assets' \in [Rows' -> Row]
  <2>1. made' \notin Rows
    BY <1>1 DEF Inv, Typed
  <2>2. [ws |-> call[u].ws, hash |-> call[u].hash, deleted |-> "no"] \in Row
    BY <1>1 DEF Row
  <2> QED BY <2>1, <2>2, RowsAreIds DEF Insert, Rows
<1>5. Typed'
  BY <1>1, <1>2, <1>3, <1>4 DEF Inv, Typed
<1>6. Collecting' /\ Doomed' = Doomed
  BY <1>3, <1>4 DEF Inv, Collecting, Doomed
<1>7. DoomedIsUnseen'
  <2>1. ASSUME NEW h \in Doomed', NEW id \in Rows', assets'[id].hash = h, assets'[id].deleted = "no"
        PROVE  h \in crossed'
    <3>1. CASE id = made'
      BY <1>3, <1>4, <1>6, <2>1, <3>1 DEF Inv, DoomedIsUnseen
    <3>2. CASE id \in Rows
      BY <1>3, <1>4, <1>6, <2>1, <3>2 DEF Inv, DoomedIsUnseen
    <3> QED BY <1>4, <3>1, <3>2
  <2>2. ASSUME NEW h \in Doomed', NEW v \in Uploader, call'[v].hash = h
        PROVE  h \in crossed'
    BY <1>2, <1>3, <1>6, <2>2 DEF Inv, Typed, DoomedIsUnseen
  <2> QED BY <2>1, <2>2 DEF DoomedIsUnseen
<1>8. InsertsStored'
  BY <1>2, <1>3 DEF Inv, Typed, InsertsStored
<1>9. LiveHasBlob'
  <2>1. ASSUME NEW ws \in Workspace, NEW id \in Rows', assets'[id].ws = ws, assets'[id].deleted = "no"
        PROVE  assets'[id].hash \in blobs' \union crossed'
    <3>1. CASE id = made'
      BY <1>1, <1>3, <1>4, <3>1
    <3>2. CASE id \in Rows
      BY <1>3, <1>4, <2>1, <3>2 DEF Inv, LiveHasBlob, Shown, Readable
    <3> QED BY <1>4, <3>1, <3>2
  <2> QED BY <2>1 DEF LiveHasBlob, Shown, Readable
<1> QED BY <1>5, <1>6, <1>7, <1>8, <1>9 DEF Inv

\* The other steps of an upload leave the store alone.
LEMMA UploadEndStep ==
  ASSUME Inv, NEW u \in Uploader,
         Conflict(u) \/ ReadAgain(u) \/ Answer(u) \/ UploadFails(u)
  PROVE  Inv'
<1> DEFINE found == Of(call[u].ws, call[u].hash)
<1>1. call[u] \in Request /\ call \in [Uploader -> Request] /\ Idle \in Request
  BY DEF Inv, Typed, Idle, Request, Phases
<1>2. found # {} => (CHOOSE id \in found : TRUE) \in Nat
  <2>1. found \in SUBSET Rows
    BY DEF Of
  <2> QED BY <2>1, FoundIsId
<1>3. PICK q \in Request :
        /\ call' = [call EXCEPT ![u] = q] /\ q.phase # "insert"
        /\ \/ q = Idle
           \/ q.hash = call[u].hash /\ q.ws = call[u].ws /\ call[u].phase # "idle"
  <2>1. CASE Conflict(u)
    <3> DEFINE q == [call[u] EXCEPT !.phase = "again"]
    <3>1. q \in Request /\ q.phase = "again" /\ q.hash = call[u].hash /\ q.ws = call[u].ws
      BY <1>1 DEF Request, Phases
    <3>2. call' = [call EXCEPT ![u] = q] /\ call[u].phase # "idle"
      BY <1>1, <2>1 DEF Conflict
    <3> QED BY <3>1, <3>2
  <2>2. CASE ReadAgain(u) /\ found # {}
    <3> DEFINE n == CHOOSE id \in found : TRUE
               q == [call[u] EXCEPT !.phase = "done", !.id = n]
    <3>1. n \in Nat /\ call' = [call EXCEPT ![u].phase = "done", ![u].id = n]
      BY <1>2, <2>2 DEF ReadAgain
    <3> HIDE DEF n
    <3>2. q \in Request /\ q.phase = "done" /\ q.hash = call[u].hash /\ q.ws = call[u].ws
      BY <1>1, <3>1 DEF Request, Phases
    <3>3. call' = [call EXCEPT ![u] = q] /\ call[u].phase # "idle"
      BY <1>1, <2>2, <3>1 DEF ReadAgain
    <3> QED BY <3>2, <3>3
  <2>3. CASE (ReadAgain(u) /\ found = {}) \/ Answer(u) \/ UploadFails(u)
    <3>1. call' = [call EXCEPT ![u] = Idle] /\ Idle.phase = "idle"
      BY <2>3 DEF ReadAgain, Answer, UploadFails, Idle
    <3> QED BY <1>1, <3>1
  <2> QED BY <2>1, <2>2, <2>3
<1>4. UNCHANGED <<assets, blobs, made, gc, crossed>>
  BY DEF Conflict, ReadAgain, Answer, UploadFails
<1>5. Idle.phase = "idle" /\ Idle.hash = None
  BY DEF Idle
<1>6. Typed'
  BY <1>3, <1>4, <1>5 DEF Inv, Typed, Rows
<1>7. Collecting' /\ Doomed' = Doomed
  BY <1>4 DEF Inv, Collecting, Rows, Doomed
<1>8. DoomedIsUnseen'
  <2>1. None \notin Doomed
    BY NoneIsApart DEF Inv, Collecting, Doomed
  <2> QED BY <1>1, <1>3, <1>4, <1>5, <1>7, <2>1 DEF Inv, DoomedIsUnseen, Rows
<1>9. InsertsStored'
  BY <1>1, <1>3, <1>4 DEF Inv, InsertsStored
<1>10. LiveHasBlob'
  BY <1>4 DEF Inv, LiveHasBlob, Shown, Readable, Rows
<1> QED BY <1>6, <1>7, <1>8, <1>9, <1>10 DEF Inv

(***************************************************************************)
(* References and deletion.                                                *)
(***************************************************************************)
LEMMA RefStep ==
  ASSUME Inv, NEW id \in Id, NEW r \in Referrer, AddRef(id, r) \/ RemoveRef(id, r)
  PROVE  Inv'
<1>1. UNCHANGED <<assets, blobs, made, call, crossed>>
  BY DEF AddRef, RemoveRef
<1>2. gc \in Collection /\ Id \subseteq Nat
  BY DEF Inv, Typed, Id
<1>3. /\ gc' \in Collection
      /\ gc'.phase = gc.phase /\ gc'.todo = gc.todo /\ gc'.at = gc.at /\ gc'.hash = gc.hash
  <2>1. CASE gc' = gc
    BY <1>2, <2>1
  <2>2. CASE gc' = [gc EXCEPT !.late = @ \union {id}]
    BY <1>2, <2>2 DEF Collection
  <2> QED BY <2>1, <2>2 DEF AddRef, RemoveRef
<1>4. Typed' /\ Collecting' /\ Doomed' = Doomed
  BY <1>1, <1>3 DEF Inv, Typed, Collecting, Rows, Doomed
<1> QED BY <1>1, <1>4 DEF Inv, DoomedIsUnseen, InsertsStored, LiveHasBlob, Shown, Readable, Rows

\* A deletion or the passing of the grace period only takes rows out of sight.
LEMMA HideStep ==
  ASSUME Inv, (\E id \in Id : Delete(id)) \/ GracePasses
  PROVE  Inv'
<1>1. UNCHANGED <<blobs, made, gc, crossed>>
  BY DEF Delete, GracePasses
<1>2. /\ Rows' = Rows /\ assets' \in [Rows' -> Row]
      /\ \A id \in Rows :
           /\ assets'[id].hash = assets[id].hash /\ assets'[id].ws = assets[id].ws
           /\ assets'[id].deleted = "no" => assets[id].deleted = "no"
           /\ assets[id].deleted = "old" => assets'[id].deleted = "old"
  <2>1. CASE \E id \in Id : Delete(id)
    <3>1. PICK d \in Id : Delete(d)
      BY <2>1
    <3>2. [assets[d] EXCEPT !.deleted = "recent"] \in Row /\ assets[d] \in Row
      BY <3>1, RowsAreIds DEF Delete, Row
    <3> QED BY <3>1, <3>2, RowsAreIds DEF Delete, Rows, Row
  <2>2. CASE GracePasses
    <3>1. \A id \in Rows : [assets[id] EXCEPT !.deleted = "old"] \in Row
      BY RowsAreIds DEF Row
    <3> QED BY <2>2, <3>1, RowsAreIds DEF GracePasses, Rows, Row
  <2> QED BY <2>1, <2>2
<1>3. /\ call' \in [Uploader -> Request]
      /\ \A u \in Uploader :
           /\ call'[u].phase = call[u].phase /\ call'[u].ws = call[u].ws
           /\ call'[u].hash = call[u].hash
  <2>1. call \in [Uploader -> Request]
    BY DEF Inv, Typed
  <2>2. \A u \in Uploader :
          LET q == [call[u] EXCEPT !.removed = TRUE] IN
          /\ q \in Request /\ q.phase = call[u].phase /\ q.ws = call[u].ws
          /\ q.hash = call[u].hash
    BY <2>1 DEF Request
  <2>3. CASE \E id \in Id : Delete(id)
    <3>1. PICK d \in Id : Delete(d)
      BY <2>3
    <3>2. call' = [u \in Uploader |->
            IF call[u].ws = assets[d].ws /\ call[u].hash = assets[d].hash
            THEN [call[u] EXCEPT !.removed = TRUE] ELSE call[u]]
      BY <3>1 DEF Delete
    <3> QED BY <2>1, <2>2, <3>2
  <2>4. CASE GracePasses
    BY <2>1, <2>4 DEF GracePasses
  <2> QED BY <2>3, <2>4
<1>4. Typed'
  BY <1>1, <1>2, <1>3 DEF Inv, Typed
<1>5. Collecting' /\ Doomed' = Doomed
  BY <1>1, <1>2 DEF Inv, Collecting, Doomed
<1>6. DoomedIsUnseen' /\ InsertsStored'
  BY <1>1, <1>2, <1>3, <1>5 DEF Inv, DoomedIsUnseen, InsertsStored
<1>7. LiveHasBlob'
  BY <1>1, <1>2 DEF Inv, LiveHasBlob, Shown, Readable
<1> QED BY <1>4, <1>5, <1>6, <1>7 DEF Inv

(***************************************************************************)
(* The collector.                                                          *)
(***************************************************************************)
LEMMA PickStep ==
  ASSUME Inv, Scan \/ Count \/ CollectionFails
  PROVE  Inv'
<1>1. UNCHANGED <<assets, blobs, made, call, crossed>>
  BY DEF Scan, Count, CollectionFails
<1>2. gc \in Collection /\ Resting \in Collection /\ Resting.phase = "next" /\ Resting.todo = {}
  BY DEF Inv, Typed, Resting, Collection
<1>3. gc' \in Collection /\ Collecting' /\ gc'.phase \in {"next", "share"}
  <2>1. CASE Scan
    <3>1. PICK todo \in SUBSET Collectable : gc' = [Resting EXCEPT !.todo = todo]
      BY <2>1 DEF Scan
    <3>2. gc' \in Collection /\ gc'.todo = todo /\ gc'.phase = "next"
      <4>1. todo \in SUBSET Nat
        BY RowsAreIds DEF Collectable
      <4> QED BY <1>2, <3>1, <4>1 DEF Collection
    <3> QED BY <1>1, <3>1, <3>2 DEF Collecting, Collectable, Rows
  <2>2. CASE Count
    <3>1. PICK id \in gc.todo :
            gc' = IF Referenced(id) THEN [gc EXCEPT !.todo = @ \ {id}]
                  ELSE [gc EXCEPT !.todo = @ \ {id}, !.phase = "share", !.at = id,
                                  !.hash = assets[id].hash]
      BY <2>2 DEF Count
    <3>2. /\ id \in Rows /\ id \in Nat /\ assets[id].deleted = "old" /\ assets[id].hash \in Content
          /\ gc.phase = "next"
      BY <2>2, RowsAreIds DEF Count, Inv, Collecting, Row
    <3>3. CASE Referenced(id)
      <4>1. gc' \in Collection /\ gc'.todo = gc.todo \ {id} /\ gc'.phase = "next"
        BY <1>2, <3>1, <3>2, <3>3 DEF Collection
      <4> QED BY <1>1, <4>1 DEF Inv, Collecting, Rows
    <3>4. CASE ~ Referenced(id)
      <4>1. /\ gc' \in Collection /\ gc'.todo = gc.todo \ {id} /\ gc'.phase = "share"
            /\ gc'.at = id /\ gc'.hash = assets[id].hash
        BY <1>2, <3>1, <3>2, <3>4 DEF Collection
      <4> QED BY <1>1, <3>2, <4>1 DEF Inv, Collecting, Rows
    <3> QED BY <3>3, <3>4
  <2>3. CASE CollectionFails
    <3>1. gc' = Resting
      BY <2>3 DEF CollectionFails
    <3> QED BY <1>2, <3>1 DEF Collecting
  <2> QED BY <2>1, <2>2, <2>3
<1>4. Doomed' = {}
  BY <1>3 DEF Doomed
<1>5. Typed'
  BY <1>1, <1>3 DEF Inv, Typed, Rows
<1> QED BY <1>1, <1>3, <1>4, <1>5 DEF Inv, DoomedIsUnseen, InsertsStored, LiveHasBlob, Shown,
     Readable, Rows

LEMMA SkipTyped ==
  ASSUME Inv
  PROVE  /\ Skip \in Collection /\ Skip.phase = "next" /\ Skip.todo = gc.todo
BY DEF Inv, Typed, Collection, Skip

\* No row shows the content, and uploads of it that are under way are noted.
LEMMA ShareStep ==
  ASSUME Inv, Share
  PROVE  Inv'
<1>1. UNCHANGED <<assets, blobs, made, call>> /\ crossed \subseteq crossed' /\ gc.phase = "share"
  BY DEF Share
<1>2. CASE Sharers # {}
  <2>1. gc' = Skip /\ gc' \in Collection /\ gc'.phase = "next" /\ gc'.todo = gc.todo
    BY <1>2, SkipTyped DEF Share
  <2>2. Doomed' = {}
    BY <2>1 DEF Doomed
  <2> QED BY <1>1, <2>1, <2>2 DEF Inv, Typed, Collecting, DoomedIsUnseen, InsertsStored,
       LiveHasBlob, Shown, Readable, Rows
<1>3. CASE Sharers = {}
  <2>1. /\ gc' = [gc EXCEPT !.phase = "row"]
        /\ crossed' = IF \E u \in Uploader : call[u].hash = gc.hash
                      THEN crossed \union {gc.hash} ELSE crossed
    BY <1>3 DEF Share
  <2>2. /\ gc' \in Collection /\ gc'.phase = "row" /\ gc'.todo = gc.todo /\ gc'.at = gc.at
        /\ gc'.hash = gc.hash
    BY <2>1 DEF Inv, Typed, Collection
  <2>3. Typed' /\ Collecting' /\ Doomed' = {gc.hash}
    BY <1>1, <2>2 DEF Inv, Typed, Collecting, Rows, Doomed
  <2>4. DoomedIsUnseen'
    BY <1>1, <1>3, <2>1, <2>3 DEF Inv, Collecting, DoomedIsUnseen, Sharers, Rows
  <2> QED BY <1>1, <2>3, <2>4 DEF Inv, InsertsStored, LiveHasBlob, Shown, Readable, Rows
<1> QED BY <1>2, <1>3

LEMMA DeleteRowStep ==
  ASSUME Inv, DeleteRow
  PROVE  Inv'
<1>1. /\ UNCHANGED <<blobs, made, call, crossed>> /\ gc.phase = "row"
      /\ gc' = [gc EXCEPT !.phase = "blob"]
  BY DEF DeleteRow
<1>2. /\ gc' \in Collection /\ gc'.phase = "blob" /\ gc'.todo = gc.todo /\ gc'.hash = gc.hash
  BY <1>1 DEF Inv, Typed, Collection
<1>3. /\ Rows' = Rows \ {gc.at} /\ \A id \in Rows' : assets'[id] = assets[id]
      /\ assets' \in [Rows' -> Row]
  BY RowsAreIds DEF DeleteRow, Rows
<1>4. Typed'
  BY <1>1, <1>2, <1>3 DEF Inv, Typed
<1>5. Collecting' /\ Doomed' = Doomed
  BY <1>1, <1>2, <1>3 DEF Inv, Collecting, Doomed
<1> QED BY <1>1, <1>3, <1>4, <1>5 DEF Inv, DoomedIsUnseen, InsertsStored, LiveHasBlob, Shown,
     Readable

LEMMA DeleteBlobStep ==
  ASSUME Inv, DeleteBlob
  PROVE  Inv'
<1>1. /\ UNCHANGED <<assets, made, call, crossed>> /\ gc.phase = "blob"
      /\ gc' = Skip /\ blobs' = blobs \ {gc.hash}
  BY DEF DeleteBlob
<1>2. gc' \in Collection /\ gc'.phase = "next" /\ gc'.todo = gc.todo
  BY <1>1, SkipTyped
<1>3. Doomed' = {} /\ Doomed = {gc.hash}
  BY <1>1, <1>2 DEF Doomed
<1>4. Typed' /\ Collecting' /\ DoomedIsUnseen'
  BY <1>1, <1>2, <1>3 DEF Inv, Typed, Collecting, DoomedIsUnseen, Rows
<1>5. InsertsStored'
  BY <1>1, <1>3 DEF Inv, DoomedIsUnseen, InsertsStored
<1>6. LiveHasBlob'
  BY <1>1, <1>3 DEF Inv, DoomedIsUnseen, LiveHasBlob, Shown, Readable, Rows
<1> QED BY <1>4, <1>5, <1>6 DEF Inv

LEMMA NextInv == Inv /\ [Next]_vars => Inv'
<1>1. ASSUME Inv, Next PROVE Inv'
  BY <1>1, LookStep, PutStep, InsertStep, UploadEndStep, RefStep, HideStep, PickStep, ShareStep,
     DeleteRowStep, DeleteBlobStep DEF Next
<1>2. ASSUME Inv, UNCHANGED vars PROVE Inv'
  BY <1>2 DEF vars, Inv, Typed, Collecting, DoomedIsUnseen, InsertsStored, LiveHasBlob, Shown,
     Readable, Rows, Doomed
<1> QED BY <1>1, <1>2

LEMMA AlwaysInv == Spec => []Inv
BY InitInv, NextInv, PTL DEF Spec

\* An asset that a workspace shows has its content, whatever is uploaded,
\* deleted and collected at the same time; except for uploads that crossed the
\* collection of their content.
THEOREM ShownHaveBlobs == Spec => []LiveHasBlob
<1>1. Inv => LiveHasBlob
  BY DEF Inv
<1> QED BY <1>1, AlwaysInv, PTL

-----------------------------------------------------------------------------
(***************************************************************************)
(* What the collector takes.  Its second count is taken when it picks a    *)
(* row; a reference that is added from then on is noted as late.           *)
(***************************************************************************)
CountedAgain ==
  gc.phase \in {"share", "row"} /\ Referenced(gc.at) => gc.at \in gc.late

LEMMA CountedAgainStep ==
  ASSUME Inv, CountedAgain, [Next]_vars
  PROVE  CountedAgain'
<1>0. gc \in Collection
  BY DEF Inv, Typed
<1>1. CASE \E id \in Id, r \in Referrer : AddRef(id, r)
  <2>1. PICK id \in Id, r \in Referrer : AddRef(id, r)
    BY <1>1
  <2>2. CASE gc.at = id
    BY <1>0, <2>1, <2>2 DEF AddRef, CountedAgain, Collection
  <2>3. CASE gc.at # id
    <3>1. gc' = gc /\ (Referenced(gc.at)' => Referenced(gc.at))
      BY <2>1, <2>3 DEF AddRef, Referenced
    <3> QED BY <3>1 DEF CountedAgain
  <2> QED BY <2>2, <2>3
<1>2. CASE \E id \in Id, r \in Referrer : RemoveRef(id, r)
  BY <1>2 DEF RemoveRef, CountedAgain, Referenced
<1>3. CASE Scan \/ DeleteBlob \/ CollectionFails \/ DeleteRow
  <2>1. gc'.phase \in {"next", "blob"}
    BY <1>0, <1>3, SkipTyped DEF Scan, DeleteBlob, CollectionFails, DeleteRow, Resting, Collection
  <2> QED BY <2>1 DEF CountedAgain
<1>4. CASE Count
  <2>1. PICK id \in gc.todo :
          gc' = IF Referenced(id) THEN [gc EXCEPT !.todo = @ \ {id}]
                ELSE [gc EXCEPT !.todo = @ \ {id}, !.phase = "share", !.at = id,
                                !.hash = assets[id].hash]
    BY <1>4 DEF Count
  <2>2. refs' = refs /\ gc.phase = "next"
    BY <1>4 DEF Count
  <2>3. CASE Referenced(id)
    <3>1. gc'.phase = "next"
      BY <1>0, <2>1, <2>2, <2>3 DEF Collection
    <3> QED BY <3>1 DEF CountedAgain
  <2>4. CASE ~ Referenced(id)
    <3>1. gc'.at = id
      BY <1>0, <2>1, <2>4 DEF Collection
    <3> QED BY <2>2, <2>4, <3>1 DEF CountedAgain, Referenced
  <2> QED BY <2>3, <2>4
<1>5. CASE Share
  <2>1. gc'.phase \in {"next", "row"} /\ (gc'.phase = "row" => gc'.at = gc.at /\ gc'.late = gc.late)
    BY <1>0, <1>5, SkipTyped DEF Share, Collection
  <2>2. refs' = refs /\ gc.phase = "share"
    BY <1>5 DEF Share
  <2> QED BY <2>1, <2>2 DEF CountedAgain, Referenced
<1>6. CASE UNCHANGED <<gc, refs>>
  BY <1>6 DEF CountedAgain, Referenced
<1>7. CASE \E u \in Uploader : Look(u) \/ Put(u) \/ Insert(u) \/ Conflict(u) \/ ReadAgain(u)
                              \/ Answer(u) \/ UploadFails(u)
  BY <1>6, <1>7 DEF Look, Put, Insert, Conflict, ReadAgain, Answer, UploadFails
<1>8. CASE (\E id \in Id : Delete(id)) \/ GracePasses \/ UNCHANGED vars
  BY <1>6, <1>8 DEF Delete, GracePasses, vars
<1> QED BY <1>1, <1>2, <1>3, <1>4, <1>5, <1>7, <1>8 DEF Next

\* Only the collector removes a row, and it removes the one it is at.
LEMMA OnlyCollected ==
  ASSUME Inv, CountedAgain, [Next]_vars, NEW id \in Rows, id \notin Rows'
  PROVE  assets[id].deleted = "old" /\ (Referenced(id) => id \in gc.late)
<1>1. DeleteRow
  <2>1. ASSUME UNCHANGED assets PROVE FALSE
    BY <2>1 DEF Rows
  <2>2. CASE \E u \in Uploader : Insert(u)
    BY <2>2 DEF Insert, Rows
  <2>3. CASE \E i \in Id : Delete(i)
    BY <2>3 DEF Delete, Rows
  <2>4. CASE GracePasses
    BY <2>4 DEF GracePasses, Rows
  <2>5. CASE \E u \in Uploader : Look(u) \/ Put(u) \/ Conflict(u) \/ ReadAgain(u)
                                \/ Answer(u) \/ UploadFails(u)
    BY <2>1, <2>5 DEF Look, Put, Conflict, ReadAgain, Answer, UploadFails
  <2>6. CASE \E i \in Id, r \in Referrer : AddRef(i, r) \/ RemoveRef(i, r)
    BY <2>1, <2>6 DEF AddRef, RemoveRef
  <2>7. CASE Scan \/ Count \/ Share \/ DeleteBlob \/ CollectionFails \/ UNCHANGED vars
    BY <2>1, <2>7 DEF Scan, Count, Share, DeleteBlob, CollectionFails, vars
  <2> QED BY <2>2, <2>3, <2>4, <2>5, <2>6, <2>7 DEF Next
<1>2. id = gc.at /\ gc.phase = "row"
  BY <1>1 DEF DeleteRow, Rows
<1> QED BY <1>2 DEF Inv, Collecting, CountedAgain

\* INV-4, as far as the code goes: the collector takes only rows deleted
\* before the grace period, and a referenced one only if the reference came
\* after its second count.
THEOREM TakesUnreferenced == Spec => CollectsUnreferenced
<1>1. Init => CountedAgain
  BY DEF Init, CountedAgain, Resting
<1>2. Inv /\ CountedAgain /\ [Next]_vars =>
        [\A id \in Rows : id \notin Rows' =>
           assets[id].deleted = "old" /\ (Referenced(id) => id \in gc.late)]_vars
  BY OnlyCollected
<1>3. Inv /\ CountedAgain /\ [Next]_vars => CountedAgain'
  BY CountedAgainStep
<1> QED BY <1>1, <1>2, <1>3, AlwaysInv, PTL DEF Spec, CollectsUnreferenced

-----------------------------------------------------------------------------
(***************************************************************************)
(* Contents nothing points to.  As long as nothing fails, a content in the *)
(* store belongs to a row, to an upload that will insert one, or to the    *)
(* collection that is about to delete it.                                  *)
(***************************************************************************)
Owned(h) ==
  \/ \E id \in Rows : assets[id].hash = h
  \/ \E u \in Uploader : call[u].phase = "insert" /\ call[u].hash = h
  \/ gc.phase = "blob" /\ gc.hash = h

BlobsOwned == failed = 0 => \A h \in blobs : Owned(h)

LEMMA BlobsOwnedStep ==
  ASSUME Inv, failed \in Nat, BlobsOwned, [Next]_vars
  PROVE  failed' \in Nat /\ BlobsOwned'
<1>0. call \in [Uploader -> Request] /\ gc \in Collection
  BY DEF Inv, Typed
<1>1. CASE UNCHANGED <<assets, blobs, call, gc, failed>>
  BY <1>1 DEF BlobsOwned, Owned, Rows
<1>2. CASE CollectionFails \/ \E u \in Uploader : UploadFails(u)
  BY <1>2 DEF CollectionFails, UploadFails, BlobsOwned
<1>3. ASSUME NEW u \in Uploader, Look(u) PROVE failed' \in Nat /\ BlobsOwned'
  <2>1. /\ UNCHANGED <<assets, blobs, gc, failed>> /\ call[u].phase = "idle"
        /\ \A v \in Uploader \ {u} : call'[v] = call[v]
    BY <1>0, <1>3 DEF Look
  <2> QED BY <2>1 DEF BlobsOwned, Owned, Rows
<1>4. ASSUME NEW u \in Uploader, Put(u) PROVE failed' \in Nat /\ BlobsOwned'
  <2>1. /\ UNCHANGED <<assets, gc, failed>> /\ blobs' = blobs \union {call[u].hash}
        /\ \A v \in Uploader \ {u} : call'[v] = call[v]
        /\ call'[u].phase = "insert" /\ call'[u].hash = call[u].hash /\ call[u].phase = "put"
    BY <1>0, <1>4 DEF Put, Request
  <2> QED BY <2>1 DEF BlobsOwned, Owned, Rows
<1>5. ASSUME NEW u \in Uploader, Insert(u) PROVE failed' \in Nat /\ BlobsOwned'
  <2>1. /\ UNCHANGED <<blobs, gc, failed>>
        /\ \A v \in Uploader \ {u} : call'[v] = call[v]
    BY <1>0, <1>5 DEF Insert
  <2>2. made' \notin Rows
    BY <1>5 DEF Insert, Inv, Typed
  <2>3. /\ Rows' = Rows \union {made'} /\ \A id \in Rows : assets'[id] = assets[id]
        /\ assets'[made'].hash = call[u].hash
    BY <1>5, <2>2 DEF Insert, Rows
  <2> QED BY <2>1, <2>3 DEF BlobsOwned, Owned
<1>6. ASSUME NEW u \in Uploader, Conflict(u) PROVE failed' \in Nat /\ BlobsOwned'
  <2>1. /\ UNCHANGED <<assets, blobs, gc, failed>>
        /\ \A v \in Uploader \ {u} : call'[v] = call[v]
        /\ \E id \in Rows : assets[id].hash = call[u].hash
    BY <1>0, <1>6 DEF Conflict, Of
  <2> QED BY <2>1 DEF BlobsOwned, Owned, Rows
<1>7. ASSUME NEW u \in Uploader, ReadAgain(u) \/ Answer(u) PROVE failed' \in Nat /\ BlobsOwned'
  <2>1. /\ UNCHANGED <<assets, blobs, gc, failed>> /\ call[u].phase \in {"again", "done"}
        /\ \A v \in Uploader \ {u} : call'[v] = call[v]
    BY <1>0, <1>7 DEF ReadAgain, Answer
  <2> QED BY <2>1 DEF BlobsOwned, Owned, Rows
<1>8. CASE (\E id \in Id : Delete(id)) \/ GracePasses
  <2>1. /\ UNCHANGED <<blobs, gc, failed>> /\ Rows' = Rows
        /\ \A id \in Rows : assets'[id].hash = assets[id].hash
    BY <1>8, RowsAreIds DEF Delete, GracePasses, Rows, Row
  <2>2. \A u \in Uploader : call'[u].phase = call[u].phase /\ call'[u].hash = call[u].hash
    <3>1. \A u \in Uploader : LET q == [call[u] EXCEPT !.removed = TRUE] IN
                               q.phase = call[u].phase /\ q.hash = call[u].hash
      BY <1>0 DEF Request
    <3>2. CASE \E id \in Id : Delete(id)
      <4>1. PICK d \in Id : Delete(d)
        BY <3>2
      <4>2. call' = [u \in Uploader |->
              IF call[u].ws = assets[d].ws /\ call[u].hash = assets[d].hash
              THEN [call[u] EXCEPT !.removed = TRUE] ELSE call[u]]
        BY <4>1 DEF Delete
      <4> QED BY <3>1, <4>2
    <3>3. CASE GracePasses
      BY <3>3 DEF GracePasses
    <3> QED BY <1>8, <3>2, <3>3
  <2> QED BY <2>1, <2>2 DEF BlobsOwned, Owned
<1>9. CASE Scan \/ Count \/ Share \/ \E id \in Id, r \in Referrer : AddRef(id, r) \/ RemoveRef(id, r)
  <2>1. UNCHANGED <<assets, blobs, call, failed>>
    BY <1>9 DEF Scan, Count, Share, AddRef, RemoveRef
  <2>2. gc.phase = "blob" => gc'.phase = "blob" /\ gc'.hash = gc.hash
    BY <1>0, <1>9 DEF Scan, Count, Share, AddRef, RemoveRef, Resting, Collection
  <2> QED BY <2>1, <2>2 DEF BlobsOwned, Owned, Rows
<1>10. CASE DeleteRow
  <2>1. /\ UNCHANGED <<blobs, call, failed>> /\ gc.phase = "row" /\ assets[gc.at].hash = gc.hash
        /\ gc'.phase = "blob" /\ gc'.hash = gc.hash
    BY <1>0, <1>10 DEF DeleteRow, Inv, Collecting, Collection
  <2>2. Rows' = Rows \ {gc.at} /\ \A id \in Rows' : assets'[id] = assets[id]
    BY <1>10 DEF DeleteRow, Rows
  <2> QED BY <2>1, <2>2 DEF BlobsOwned, Owned
<1>11. CASE DeleteBlob
  <2>1. UNCHANGED <<assets, call, failed>> /\ blobs' = blobs \ {gc.hash}
    BY <1>11 DEF DeleteBlob
  <2> QED BY <2>1 DEF BlobsOwned, Owned, Rows
<1> QED BY <1>1, <1>2, <1>3, <1>4, <1>5, <1>6, <1>7, <1>8, <1>9, <1>10, <1>11 DEF Next, vars

\* While no request and no collection has failed, the store holds at rest
\* only contents of rows.
THEOREM NoOrphans == Spec => []OrphansOnlyByFailure
<1>1. Init => failed \in Nat /\ BlobsOwned
  BY DEF Init, BlobsOwned
<1>2. Inv /\ (failed \in Nat /\ BlobsOwned) /\ [Next]_vars => (failed \in Nat /\ BlobsOwned)'
  BY BlobsOwnedStep
<1>3. BlobsOwned => OrphansOnlyByFailure
  BY DEF BlobsOwned, Owned, OrphansOnlyByFailure
<1> QED BY <1>1, <1>2, <1>3, AlwaysInv, PTL DEF Spec
==============================================================================
