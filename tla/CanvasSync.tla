------------------------------ MODULE CanvasSync ------------------------------
(***************************************************************************)
(* The synchronisation of a canvas page with the server (useCanvasSync.ts, *)
(* kernel.ts, sse.ts, CanvasPage.tsx; MemoryBus and the SSE handler): edits*)
(* are applied at once and sent in batches, one request at a time; the     *)
(* server commits a batch, merges it or refuses it; the edits of everybody *)
(* come back as events.                                                    *)
(*                                                                         *)
(* An edit gives a field of the canvas a new value, such as a title.  The  *)
(* server is one process, and a request to it is atomic: how it gets there *)
(* is the subject of CanvasLog, whose clients send the version they have   *)
(* seen.  What they have seen is the subject here.                         *)
(***************************************************************************)
EXTENDS Integers, SequencesExt, FiniteSetsExt

CONSTANTS
  Client,        \* pages that show the canvas
  Field,
  Buffer,        \* events an unread subscription holds (256 in the code)
  MaxEdits,      \* bound: edits made on all the pages
  MaxTroubles,   \* bound: requests and connections that break, and times a page
                 \* reads the canvas again by itself
  None

ASSUME BoundsTyped ==
  /\ Buffer \in Nat \ {0} /\ MaxEdits \in Nat /\ MaxTroubles \in Nat

VARIABLES
  log,       \* the server: the batches of edits it committed; their number is the version
  page,      \* the kernel of a page: the version it names and what it shows
  pending,   \* the edits of the kernel that were not sent yet
  due,       \* whether a flush is scheduled for the next frame
  left,      \* what that flush sends, if it is of a kernel since replaced, or None
  flushing,  \* whether a request is under way, as the page sees it
  requests,  \* the requests under way
  failed,    \* the edits of requests that failed
  stream,    \* the event stream of a page
  reread,    \* the version of the canvas that a page has read again, or None
  used,      \* edits made on each page; troubles so far, and whether one was a loss
  astray     \* ghost: the pages that missed events or lost edits since they last got
             \* the whole document

vars == <<log, page, pending, due, left, flushing, requests, failed, stream, reread,
          used, astray>>

Edit == [by : Client, n : 1..MaxEdits, field : Field]

Version == Len(log)

\* The edits committed up to a version, in order.
Prefix(v) == FlattenSeq(SubSeq(log, 1, v))
Committed == Prefix(Version)

Init ==
  /\ log = <<>>
  /\ page = [c \in Client |-> [version |-> 0, view |-> <<>>, loaded |-> 0]]
  /\ pending = [c \in Client |-> <<>>]
  /\ due = [c \in Client |-> FALSE]
  /\ left = [c \in Client |-> None]
  /\ flushing = [c \in Client |-> FALSE]
  /\ requests = [c \in Client |-> {}]
  /\ failed = [c \in Client |-> {}]
  /\ stream = [c \in Client |-> [on |-> FALSE, queue |-> <<>>]]
  /\ reread = [c \in Client |-> None]
  /\ used = [edits |-> [c \in Client |-> 0], troubles |-> 0, lost |-> FALSE]
  /\ astray = {}

-----------------------------------------------------------------------------
(***************************************************************************)
(* Edits and the requests that carry them.                                 *)
(***************************************************************************)
\* dispatch applies an edit and queues it; the page schedules a flush.
Dispatch(c, f) ==
  LET e == [by |-> c, n |-> used.edits[c] + 1, field |-> f] IN
  /\ SumFunction(used.edits) < MaxEdits
  /\ used' = [used EXCEPT !.edits[c] = @ + 1]
  /\ page' = [page EXCEPT ![c].view = Append(@, e)]
  /\ pending' = [pending EXCEPT ![c] = Append(@, e)]
  /\ due' = [due EXCEPT ![c] = TRUE]
  /\ UNCHANGED <<log, left, flushing, requests, failed, stream, reread, astray>>

\* What a flush takes and sends: the queue of the kernel it was scheduled for.
Outgoing(c) ==
  IF left[c] # None THEN left[c]
  ELSE [base |-> page[c].version, edits |-> pending[c], own |-> TRUE]

Request(c) ==
  [base |-> Outgoing(c).base, edits |-> Outgoing(c).edits, own |-> Outgoing(c).own,
   phase |-> "sent", version |-> None, rebased |-> FALSE]

Send(c) ==
  /\ due[c] /\ Outgoing(c).edits # <<>>
  /\ due' = [due EXCEPT ![c] = FALSE]
  /\ left' = [left EXCEPT ![c] = None]
  /\ flushing' = [flushing EXCEPT ![c] = TRUE]
  /\ requests' = [requests EXCEPT ![c] = @ \union {Request(c)}]
  /\ pending' = [pending EXCEPT ![c] = IF left[c] = None THEN <<>> ELSE @]
  /\ UNCHANGED <<log, page, failed, stream, reread, used, astray>>

\* Mutation: a request does not wait for the one before it.
FlushUnguarded(c) == Send(c)

\* doFlush takes the queue and sends it with the version of the document.
Flush(c) == ~flushing[c] /\ Send(c)

\* doFlush finds nothing to send, or a request under way: the flush is over.
FlushNothing(c) ==
  /\ due[c] /\ (flushing[c] \/ Outgoing(c).edits = <<>>)
  /\ due' = [due EXCEPT ![c] = FALSE]
  /\ left' = [left EXCEPT ![c] = None]
  /\ UNCHANGED <<log, page, pending, flushing, requests, failed, stream, reread, used, astray>>

Fields(edits) == {edits[i].field : i \in DOMAIN edits}

Missed(r) == Fields(FlattenSeq(SubSeq(log, r.base + 1, Version)))

\* What the subscriptions hold after a batch is published: a full one takes
\* what it has room for.
Published(edits) ==
  [c \in Client |->
     IF stream[c].on
     THEN [stream[c] EXCEPT !.queue =
             @ \o SubSeq(edits, 1, IF Buffer - Len(@) < Len(edits)
                                    THEN Buffer - Len(@) ELSE Len(edits))]
     ELSE stream[c]]

Unheard(c, edits) ==
  ~stream[c].on \/ Len(stream[c].queue) + Len(edits) > Buffer

\* The server commits a batch, merged over what the page missed or not.
Commit(c, r) ==
  /\ r.phase = "sent"
  /\ Fields(r.edits) \intersect Missed(r) = {}
  /\ log' = Append(log, r.edits)
  /\ stream' = Published(r.edits)
  /\ requests' = [requests EXCEPT ![c] = (@ \ {r}) \union
       {[r EXCEPT !.phase = "done", !.version = Version + 1,
                  !.rebased = r.base # Version]}]
  /\ astray' = astray \union {d \in Client : Unheard(d, r.edits)}
  /\ UNCHANGED <<page, pending, due, left, flushing, failed, reread, used>>

\* The same field was changed meanwhile: 409.
Conflict(c, r) ==
  /\ r.phase = "sent"
  /\ Fields(r.edits) \intersect Missed(r) # {}
  /\ requests' = [requests EXCEPT ![c] = (@ \ {r}) \union {[r EXCEPT !.phase = "conflict"]}]
  /\ UNCHANGED <<log, page, pending, due, left, flushing, failed, stream, reread, used, astray>>

\* The page reads the canvas after a conflict.
ReadAgain(c, r) ==
  /\ r.phase = "conflict"
  /\ requests' = [requests EXCEPT ![c] = (@ \ {r}) \union
       {[r EXCEPT !.phase = "read", !.version = Version]}]
  /\ UNCHANGED <<log, page, pending, due, left, flushing, failed, stream, reread, used, astray>>

Adrift(c, yes) == astray' = IF yes THEN astray \union {c} ELSE astray \ {c}

\* The stream still brings all that was committed after version v.
Complete(c, v) ==
  /\ stream[c].on
  /\ IsSuffix(stream[c].queue, Committed)
  /\ Len(Prefix(v)) + Len(stream[c].queue) >= Len(Committed)

\* applyAuthoritative: the document of a version replaces the whole kernel.
\* Events after that version which were delivered already, or lost, are missing
\* from it and do not come again.
ApplyAuthoritative(c, v) ==
  /\ page' = [page EXCEPT ![c].version = v, ![c].view = Prefix(v)]
  /\ pending' = [pending EXCEPT ![c] = <<>>]
  /\ Adrift(c, ~Complete(c, v))

Done(c, r) ==
  /\ requests' = [requests EXCEPT ![c] = @ \ {r}]
  /\ flushing' = [flushing EXCEPT ![c] = FALSE]

\* Mutation: the document of a merged batch is not looked at.
SucceedIgnoring(c, r) ==
  /\ r.phase = "done"
  /\ Done(c, r)
  /\ failed' = [failed EXCEPT ![c] = {}]
  /\ page' = [page EXCEPT ![c].version = IF r.own THEN r.version ELSE @]
  /\ UNCHANGED <<log, pending, due, left, stream, reread, used, astray>>

\* The answer arrives: commitVersion, and the document if the batch was merged.
\* A kernel that was replaced since is not the one that is told.
Succeed(c, r) ==
  /\ r.phase = "done"
  /\ Done(c, r)
  /\ failed' = [failed EXCEPT ![c] = {}]
  /\ IF r.own /\ r.rebased
     THEN ApplyAuthoritative(c, r.version)
     ELSE /\ page' = [page EXCEPT ![c].version = IF r.own THEN r.version ELSE @]
          /\ UNCHANGED <<pending, astray>>
  /\ UNCHANGED <<log, due, left, stream, reread, used>>

\* The canvas that was read after a conflict arrives; the user is told.
Resync(c, r) ==
  /\ r.phase = "read"
  /\ Done(c, r)
  /\ IF r.own THEN ApplyAuthoritative(c, r.version)
              ELSE UNCHANGED <<page, pending, astray>>
  /\ UNCHANGED <<log, due, left, failed, stream, reread, used>>

Lose(c) ==
  /\ used.troubles < MaxTroubles
  /\ used' = [used EXCEPT !.troubles = @ + 1, !.lost = TRUE]
  /\ Adrift(c, TRUE)

\* A request fails before it reaches the server, or its answer is lost: the
\* page keeps the edits apart.
Fail(c, r) ==
  /\ r.phase \in {"sent", "done"}
  /\ Lose(c)
  /\ Done(c, r)
  /\ failed' = [failed EXCEPT ![c] = @ \union ToSet(r.edits)]
  /\ UNCHANGED <<log, page, pending, due, left, stream, reread>>

\* The read after a conflict fails: the page shows "offline".
FailResync(c, r) ==
  /\ r.phase \in {"conflict", "read"}
  /\ Lose(c)
  /\ Done(c, r)
  /\ UNCHANGED <<log, page, pending, due, left, failed, stream, reread>>

\* Mutation: the edits of failed requests are queued again.
OnlineResends(c) ==
  /\ failed[c] # {}
  /\ pending' = [pending EXCEPT ![c] = SetToSeq(failed[c]) \o @]
  /\ failed' = [failed EXCEPT ![c] = {}]
  /\ due' = [due EXCEPT ![c] = TRUE]
  /\ UNCHANGED <<log, page, left, flushing, requests, stream, reread, used, astray>>

\* The browser is online again: a flush is scheduled.
Online(c) ==
  /\ used.lost /\ ~due[c]
  /\ due' = [due EXCEPT ![c] = TRUE]
  /\ UNCHANGED <<log, page, pending, left, flushing, requests, failed, stream, reread, used, astray>>

-----------------------------------------------------------------------------
(***************************************************************************)
(* Events.  A subscription starts at the present: what the client names as *)
(* the last event it saw is not read.                                      *)
(***************************************************************************)
Subscribe(c) ==
  /\ ~stream[c].on
  /\ stream' = [stream EXCEPT ![c].on = TRUE]
  /\ UNCHANGED <<log, page, pending, due, left, flushing, requests, failed, reread, used, astray>>

\* The connection ends: by the network, by its 30 minutes, or because the page
\* was rendered again; the events that were under way are lost.
Disconnect(c) ==
  /\ stream[c].on /\ used.troubles < MaxTroubles
  /\ stream' = [stream EXCEPT ![c] = [on |-> FALSE, queue |-> <<>>]]
  /\ used' = [used EXCEPT !.troubles = @ + 1, !.lost = TRUE]
  /\ Adrift(c, c \in astray \/ stream[c].queue # <<>>)
  /\ UNCHANGED <<log, page, pending, due, left, flushing, requests, failed, reread>>

\* Mutation: own edits are not applied again.
DeliverOthers(c) ==
  /\ stream[c].queue # <<>>
  /\ stream' = [stream EXCEPT ![c].queue = Tail(@)]
  /\ page' = [page EXCEPT ![c].view =
       IF Head(stream[c].queue).by = c THEN @ ELSE Append(@, Head(stream[c].queue))]
  /\ UNCHANGED <<log, pending, due, left, flushing, requests, failed, reread, used, astray>>

\* applyRemote: the edit is applied, also when it is the page's own (the kernel
\* of the page has no localActor); the version stays as it is.
Deliver(c) ==
  /\ stream[c].queue # <<>>
  /\ stream' = [stream EXCEPT ![c].queue = Tail(@)]
  /\ page' = [page EXCEPT ![c].view = Append(@, Head(stream[c].queue))]
  /\ UNCHANGED <<log, pending, due, left, flushing, requests, failed, reread, used, astray>>

\* The query of the page reads the canvas again (the window got the focus).
Reread(c) ==
  /\ reread[c] = None /\ used.troubles < MaxTroubles
  /\ reread' = [reread EXCEPT ![c] = Version]
  /\ used' = [used EXCEPT !.troubles = @ + 1]
  /\ UNCHANGED <<log, page, pending, due, left, flushing, requests, failed, stream, astray>>

\* It arrives: a document that differs from the last one read gets a kernel, and
\* an event stream, of its own.  The queue of the old kernel goes with it, unless
\* a flush of it was scheduled.
Rebuild(c) ==
  LET v == reread[c] IN
  /\ v # None
  /\ reread' = [reread EXCEPT ![c] = None]
  /\ IF v = page[c].loaded
     THEN UNCHANGED <<page, pending, left, requests, stream, astray>>
     ELSE /\ page' = [page EXCEPT ![c] = [version |-> v, view |-> Prefix(v), loaded |-> v]]
          /\ pending' = [pending EXCEPT ![c] = <<>>]
          /\ left' = [left EXCEPT ![c] =
               IF due[c] THEN [Outgoing(c) EXCEPT !.own = FALSE] ELSE None]
          /\ requests' = [requests EXCEPT ![c] = {[r EXCEPT !.own = FALSE] : r \in @}]
          /\ stream' = [stream EXCEPT ![c] = [on |-> FALSE, queue |-> <<>>]]
          /\ Adrift(c, v < Version)
  /\ UNCHANGED <<log, due, flushing, failed, used>>

-----------------------------------------------------------------------------
Respond(c) ==
  \E r \in requests[c] : Commit(c, r) \/ Conflict(c, r)

Receive(c) ==
  \E r \in requests[c] :
    ReadAgain(c, r) \/ Succeed(c, r) \/ Resync(c, r) \/ Fail(c, r) \/ FailResync(c, r)

Next ==
  \E c \in Client :
    \/ \E f \in Field : Dispatch(c, f)
    \/ Flush(c) \/ FlushNothing(c) \/ Respond(c) \/ Receive(c) \/ Online(c)
    \/ Subscribe(c) \/ Disconnect(c) \/ Deliver(c) \/ Reread(c) \/ Rebuild(c)

Spec == Init /\ [][Next]_vars

-----------------------------------------------------------------------------
TypeOK ==
  /\ log \in Seq(Seq(Edit))
  /\ \A c \in Client :
       /\ page[c].version \in 0..Version /\ page[c].loaded \in 0..Version
       /\ page[c].view \in Seq(Edit) /\ pending[c] \in Seq(Edit)
       /\ failed[c] \subseteq Edit
       /\ stream[c].queue \in BoundedSeq(Edit, Buffer)
       /\ left[c] # None => left[c].edits \in Seq(Edit) /\ ~left[c].own /\ due[c]
       /\ Cardinality(requests[c]) <= 1 /\ (flushing[c] <=> requests[c] # {})

\* An edit reaches the canvas once at most, whatever request or answer is lost:
\* relative moves and new nodes must not be applied twice (ATK-12, "no repeats").
AtMostOnce == IsInjective(Committed)

\* The edits of a page are committed in the order in which they were made.
CommitsInOrder ==
  \A i, j \in DOMAIN Committed :
    i < j /\ Committed[i].by = Committed[j].by => Committed[i].n < Committed[j].n

\* A page has been shown every edit up to the version it names as its base.  The
\* server relies on it: it looks for conflicts only behind the base (service.go
\* AppendOps), so that what the page has not seen could be overwritten silently.
VersionIsSeen ==
  \A c \in Client : ToSet(Prefix(page[c].version)) \subseteq ToSet(page[c].view)

Settled(c) ==
  /\ pending[c] = <<>> /\ left[c] = None /\ requests[c] = {}
  /\ stream[c].on /\ stream[c].queue = <<>>

LastOn(edits, f) ==
  LET on == {i \in DOMAIN edits : edits[i].field = f}
  IN  IF on = {} THEN None ELSE edits[CHOOSE i \in on : \A j \in on : j <= i]

Agrees(c) == \A f \in Field : LastOn(page[c].view, f) = LastOn(Committed, f)

\* When a page has nothing more to send or to hear, and nothing went astray since
\* it last got the whole document, it shows what the server has: own edits,
\* their echoes and the edits of others may have come in any order.
ShowsCanvas == \A c \in Client : Settled(c) /\ c \notin astray => Agrees(c)

-----------------------------------------------------------------------------
(***************************************************************************)
(* What the comments say and the page does not keep.                       *)
(***************************************************************************)
\* The edits of a failed request are kept until they are committed
\* (useCanvasSync.ts doFlush: kept, to be sent again; no edit is lost).
FailedAreKept ==
  [][\A c \in Client : failed'[c] # failed[c] =>
       failed[c] \subseteq failed'[c] \union ToSet(Committed)]_vars

\* Edits that wait are going to be sent: a flush is scheduled or a request is
\* under way (useCanvasSync.ts: edit, next frame, POST).
PendingIsScheduled ==
  \A c \in Client : pending[c] # <<>> => due[c] \/ flushing[c]

\* Edits leave the queue in a request, or by the canvas that is read again after a
\* conflict, of which the user is told (useCanvasSync.ts: no edit is dropped
\* silently).
PendingIsSent ==
  [][\A c \in Client :
       LET sent == UNION {ToSet(r.edits) : r \in requests'[c]}
       IN  \/ ToSet(pending[c]) \subseteq
                ToSet(pending'[c]) \union sent
                  \union (IF left'[c] = None THEN {} ELSE ToSet(left'[c].edits))
           \/ \E r \in requests[c] : r.phase = "read"]_vars
==============================================================================
