------------------------- MODULE SettingsStoreProofs -------------------------
(***************************************************************************)
(* Theorems about SettingsStore: for all keys, values, documents and       *)
(* requests, the JSON document of a workspace keeps to Settings as long as *)
(* one client at a time changes it and operators stay out of its way, and  *)
(* a deleted workspace keeps its settings whoever is at work.              *)
(***************************************************************************)
EXTENDS SettingsStore, SequenceTheorems, TLAPS

CallType ==
  [phase : {"idle", "load", "save"}, todo : Seq(Part), copy : Document \union {None}]

Typed ==
  /\ row \in Document
  /\ mainKey = 1
  /\ call \in [Client -> CallType]
  /\ \A c \in Client :
       /\ call[c].phase = "idle" <=> call[c].todo = <<>>
       /\ call[c].phase = "save" => call[c].copy \in Document

\* With one client and operators who keep out of its requests, the copy a
\* request works on is what is stored.
Fresh ==
  /\ ~row.wrapped => row.quota = None
  /\ \A c \in Client : call[c].phase = "save" => call[c].copy = load(row)

-----------------------------------------------------------------------------
(***************************************************************************)
(* The operations on a document.                                           *)
(***************************************************************************)
LEMMA LoadTyped ==
  ASSUME NEW d \in Document
  PROVE  load(d) \in Document /\ load(d).wrapped
  BY DEF load, Document

LEMMA OverlayPrefs ==
  ASSUME NEW old \in [Key -> Value \union {None}], NEW part \in Part,
         part.on = "prefs", Acceptable(part)
  PROVE  Overlay(old, part.set) \in [Key -> Value \union {None}]
  <1>1. PICK some \in SUBSET Key : part.set \in [some -> Value \union {Refused}]
    BY DEF Part
  <1>. QED
    BY <1>1 DEF Overlay, Acceptable

LEMMA OpenedTyped ==
  ASSUME NEW d \in Document
  PROVE  /\ DOMAIN Opened(d) \subseteq SecretKey \union {Reason}
         /\ \A k \in DOMAIN Opened(d) : Opened(d)[k] \in Value \union {Reason}
  <1>1. CASE d.sealed # None /\ d.sealed.key = mainKey
    <2>1. d.sealed.extra \in Extras
      BY <1>1 DEF Document, Sealed
    <2>. QED
      BY <1>1, <2>1 DEF Opened, Extras
  <1>2. CASE ~(d.sealed # None /\ d.sealed.key = mainKey)
    BY <1>2 DEF Opened
  <1>. QED
    BY <1>1, <1>2

\* What PutSecrets seals.
Resealed(d, set) ==
  LET all == Overlay(Opened(d), set)
  IN  [k \in {j \in DOMAIN all : all[j] # None} |-> all[k]]

LEMMA ResealedTyped ==
  ASSUME NEW d \in Document, NEW part \in Part, part.on = "secrets", Acceptable(part),
         mainKey = 1
  PROVE  /\ PutSecrets(d, part.set) =
              [d EXCEPT !.sealed = [key |-> mainKey, extra |-> Resealed(d, part.set)]]
         /\ [key |-> mainKey, extra |-> Resealed(d, part.set)] \in Sealed
  <1>. DEFINE all  == Overlay(Opened(d), part.set)
              kept == {j \in DOMAIN all : all[j] # None}
  <1>1. /\ DOMAIN part.set \subseteq SecretKey \union {Reason}
        /\ \A k \in DOMAIN part.set : part.set[k] \in Value \union {None, Reason}
    BY DEF Part, Acceptable
  <1>2. /\ DOMAIN all \subseteq SecretKey \union {Reason}
        /\ \A k \in DOMAIN all : all[k] \in Value \union {None, Reason}
    BY <1>1, OpenedTyped DEF Overlay
  <1>3. kept \in SUBSET (SecretKey \union {Reason}) /\ \A k \in kept : all[k] \in Value \union {Reason}
    BY <1>2
  <1>4. Resealed(d, part.set) = [k \in kept |-> all[k]]
    BY DEF Resealed
  <1>. HIDE DEF all, kept
  <1>5. Resealed(d, part.set) \in [kept -> Value \union {Reason}]
    BY <1>3, <1>4
  <1>6. Resealed(d, part.set) \in Extras
    BY <1>3, <1>5 DEF Extras
  <1>. QED
    BY <1>6 DEF Sealed, PutSecrets, Resealed

LEMMA ChangedTyped ==
  ASSUME NEW d \in Document, NEW part \in Part, Acceptable(part), mainKey = 1
  PROVE  Changed(d, part) \in Document
  <1>1. CASE part.on = "prefs"
    <2>1. Overlay(d.prefs, part.set) \in [Key -> Value \union {None}]
      BY <1>1, OverlayPrefs DEF Document
    <2>2. Changed(d, part) = [d EXCEPT !.prefs = Overlay(d.prefs, part.set)]
      BY <1>1 DEF Changed, Merged
    <2>. QED
      BY <2>1, <2>2 DEF Document
  <1>2. CASE part.on = "secrets"
    <2>. DEFINE new == [key |-> mainKey, extra |-> Resealed(d, part.set)]
    <2>1. new \in Sealed /\ PutSecrets(d, part.set) = [d EXCEPT !.sealed = new]
      BY <1>2, ResealedTyped
    <2>2. Changed(d, part) = PutSecrets(d, part.set)
      BY <1>2 DEF Changed
    <2>. HIDE DEF new
    <2>. QED
      BY <2>1, <2>2 DEF Document
  <1>. QED
    BY <1>1, <1>2 DEF Part

\* What a file without secrets asks for.
Files == UNION {[some -> Value] : some \in SUBSET Key}

Given == [k \in {j \in Key : row.prefs[j] # None} |-> row.prefs[k]]

LEMMA FileTyped ==
  ASSUME NEW prefs \in Files
  PROVE  File(prefs) \in Seq(Part) /\ File(prefs) # <<>>
  <1>. DEFINE a == [on |-> "prefs", set |-> prefs]
              b == [on |-> "secrets", set |-> [k \in {Reason} |-> Reason]]
  <1>1. PICK some \in SUBSET Key : prefs \in [some -> Value]
    BY DEF Files
  <1>2. prefs \in [some -> Value \union {Refused}]
    BY <1>1
  <1>3. a \in Part
    BY <1>2 DEF Part
  <1>4. [k \in {Reason} |-> Reason] \in [{Reason} -> Value \union {None, Refused, Reason}]
    OBVIOUS
  <1>5. {Reason} \in SUBSET (SecretKey \union {Reason})
    OBVIOUS
  <1>6. b \in Part
    BY <1>4, <1>5 DEF Part
  <1>7. File(prefs) = <<a, b>>
    BY DEF File
  <1>. HIDE DEF a, b
  <1>. QED
    BY <1>3, <1>6, <1>7

LEMMA GivenTyped ==
  ASSUME row \in Document
  PROVE  Given \in Files
  <1>. DEFINE some == {j \in Key : row.prefs[j] # None}
  <1>1. row.prefs \in [Key -> Value \union {None}]
    BY DEF Document
  <1>2. Given \in [some -> Value] /\ some \in SUBSET Key
    BY <1>1 DEF Given
  <1>. HIDE DEF some
  <1>. QED
    BY <1>2 DEF Files

-----------------------------------------------------------------------------
(***************************************************************************)
(* Typing.                                                                 *)
(***************************************************************************)
\* The call of a client after it saved a part.
Rest(c) ==
  [Idle EXCEPT !.todo = Tail(call[c].todo),
               !.phase = IF Len(call[c].todo) = 1 THEN "idle" ELSE "load"]

LEMMA TailEmpty ==
  ASSUME NEW S, NEW s \in Seq(S), s # <<>>
  PROVE  Tail(s) \in Seq(S) /\ Head(s) \in S /\ (Len(s) = 1 <=> Tail(s) = <<>>)
  <1>1. /\ Head(s) \in S /\ Tail(s) \in Seq(S) /\ Len(Tail(s)) = Len(s) - 1
    BY HeadTailProperties
  <1>2. Len(s) \in Nat \ {0}
    BY EmptySeq
  <1>3. Len(Tail(s)) = 0 <=> Tail(s) = <<>>
    BY <1>1, EmptySeq
  <1>. QED
    BY <1>1, <1>2, <1>3

LEMMA CallStays ==
  ASSUME Typed, NEW c \in Client, NEW r \in CallType, call' = [call EXCEPT ![c] = r],
         r.phase = "idle" <=> r.todo = <<>>, r.phase = "save" => r.copy \in Document,
         row' \in Document, mainKey' = 1
  PROVE  Typed'
  BY DEF Typed

LEMMA TypedStep == Typed /\ [Next]_vars => Typed'
  <1>. SUFFICES ASSUME Typed, [Next]_vars PROVE Typed'
    OBVIOUS
  <1>. Idle \in CallType /\ Idle.todo = <<>> /\ Idle.phase = "idle" /\ Idle.copy = None
    BY EmptySeq DEF Idle, CallType
  <1>1. ASSUME NEW c \in Client, Asks(c) PROVE Typed'
    <2>1. PICK r \in Requests : call' = [call EXCEPT ![c] = [Idle EXCEPT !.phase = "load", !.todo = r]]
      BY <1>1 DEF Asks
    <2>. DEFINE n == [Idle EXCEPT !.phase = "load", !.todo = r]
    <2>2. n \in CallType /\ n.phase = "load" /\ n.todo # <<>>
      BY RequestsTyped DEF CallType
    <2>. HIDE DEF n
    <2>. QED
      BY <1>1, <2>1, <2>2, CallStays DEF Asks, Typed, n
  <1>2. ASSUME NEW c \in Client, ImportsExport(c) PROVE Typed'
    <2>. DEFINE n == [Idle EXCEPT !.phase = "load", !.todo = File(Given)]
    <2>1. call' = [call EXCEPT ![c] = n]
      BY <1>2 DEF ImportsExport, Given
    <2>2. n \in CallType /\ n.phase = "load" /\ n.todo # <<>>
      BY FileTyped, GivenTyped DEF CallType, Typed
    <2>. HIDE DEF n
    <2>. QED
      BY <1>2, <2>1, <2>2, CallStays DEF ImportsExport, Typed
  <1>3. ASSUME NEW c \in Client, Loads(c) PROVE Typed'
    <2>. DEFINE n == [call[c] EXCEPT !.phase = "save", !.copy = load(row)]
    <2>1. call' = [call EXCEPT ![c] = n]
      BY <1>3 DEF Loads, Typed
    <2>2. n \in CallType /\ n.phase = "save" /\ n.todo # <<>> /\ n.copy \in Document
      BY <1>3, LoadTyped DEF CallType, Typed, Loads
    <2>. HIDE DEF n
    <2>. QED
      BY <1>3, <2>1, <2>2, CallStays DEF Loads, Typed
  <1>4. ASSUME NEW c \in Client, Saves(c) PROVE Typed'
    <2>1. call[c].todo \in Seq(Part) /\ call[c].todo # <<>> /\ call[c].copy \in Document
      BY <1>4 DEF Saves, Typed, CallType
    <2>2. row' \in Document
      BY <1>4, <2>1, TailEmpty, ChangedTyped DEF Saves, Typed
    <2>3. Rest(c) \in CallType /\ Rest(c).phase # "save" /\ (Rest(c).phase = "idle" <=> Rest(c).todo = <<>>)
      BY <2>1, TailEmpty DEF Rest, CallType
    <2>4. call' = [call EXCEPT ![c] = Rest(c)]
      BY <1>4 DEF Saves, Rest
    <2>. QED
      BY <1>4, <2>2, <2>3, <2>4, CallStays DEF Saves, Typed
  <1>5. ASSUME NEW c \in Client, Fails(c) PROVE Typed'
    BY <1>5, CallStays DEF Fails, Typed
  <1>6. CASE SetQuota
    BY <1>6 DEF SetQuota, Typed, Document
  <1>7. CASE Hide \/ Show \/ UNCHANGED vars
    BY <1>7 DEF Hide, Show, vars, Typed
  <1>. QED
    BY <1>1, <1>2, <1>3, <1>4, <1>5, <1>6, <1>7 DEF Next

LEMMA TypedInit == Init => Typed
  <1>. Idle \in CallType /\ Idle.todo = <<>> /\ Idle.phase = "idle"
    BY EmptySeq DEF Idle, CallType
  <1>. QED
    BY FirstRowsTyped DEF Init, Typed

LEMMA TypedAlways == Spec => []Typed
  BY TypedInit, TypedStep, PTL DEF Spec

(* The settings of a deleted workspace change only by an operator's SQL    *)
(* (Service.save: WHERE deleted_at = ''), with any number of clients.      *)
THEOREM DeletedSettingsStay == Spec => DeletedStays
  <1>1. Typed /\ [Next]_vars => [deleted => row' = [row EXCEPT !.quota = row'.quota]]_vars
    <2>. SUFFICES ASSUME Typed, Next, deleted
                  PROVE  row' = [row EXCEPT !.quota = row'.quota]
      OBVIOUS
    <2>1. CASE UNCHANGED row
      BY <2>1 DEF Typed, Document
    <2>2. CASE SetQuota
      BY <2>2 DEF SetQuota, Typed, Document
    <2>. QED
      BY <2>1, <2>2 DEF Next, Asks, ImportsExport, Loads, Saves, Fails, Hide, Show
  <1>. QED
    BY <1>1, TypedAlways, PTL DEF Spec, DeletedStays

-----------------------------------------------------------------------------
(***************************************************************************)
(* The refinement.                                                         *)
(***************************************************************************)
LEMMA ChangedWrapped ==
  ASSUME NEW d \in Document, NEW part \in Part, Acceptable(part), mainKey = 1
  PROVE  Changed(d, part).wrapped = d.wrapped /\ Changed(d, part).quota = d.quota
  BY DEF Changed, Merged, PutSecrets, Document

LEMMA FreshStep ==
  ASSUME NEW one, Client = {one}, Apart, Typed, Fresh, [Next]_vars
  PROVE  Fresh'
  <1>1. ASSUME NEW c \in Client, Asks(c) \/ ImportsExport(c) \/ Fails(c) PROVE Fresh'
    <2>1. call'[c].phase # "save"
      <3>1. CASE Asks(c)
        BY <3>1 DEF Asks, Idle, Typed
      <3>2. CASE ImportsExport(c) \/ Fails(c)
        <4>1. Idle.phase = "idle" /\ \A f : [Idle EXCEPT !.phase = "load", !.todo = f].phase = "load"
          BY DEF Idle
        <4>2. PICK n : call' = [call EXCEPT ![c] = n] /\ n.phase \in {"load", "idle"}
          <5>1. CASE ImportsExport(c)
            <6>. DEFINE n == [Idle EXCEPT !.phase = "load", !.todo = File(Given)]
            <6>1. call' = [call EXCEPT ![c] = n] /\ n.phase = "load"
              BY <4>1, <5>1 DEF ImportsExport, Given
            <6>. QED
              BY <6>1
          <5>2. CASE Fails(c)
            BY <4>1, <5>2 DEF Fails
          <5>. QED
            BY <3>2, <5>1, <5>2
        <4>. QED
          BY <4>2 DEF Typed
      <3>. QED
        BY <1>1, <3>1, <3>2
    <2>2. row' = row /\ load(row)' = load(row)
      BY <1>1 DEF Asks, ImportsExport, Fails, load
    <2>. QED
      BY <2>1, <2>2 DEF Fresh, Typed
  <1>2. ASSUME NEW c \in Client, Loads(c) PROVE Fresh'
    BY <1>2 DEF Loads, Fresh, Typed, CallType
  <1>3. ASSUME NEW c \in Client, Saves(c) PROVE Fresh'
    <2>1. call[c].todo \in Seq(Part) /\ call[c].todo # <<>> /\ call[c].copy \in Document
      BY <1>3 DEF Saves, Typed, CallType
    <2>2. call[c].copy.wrapped
      BY <1>3, LoadTyped DEF Saves, Fresh, Typed
    <2>3. row'.wrapped
      BY <1>3, <2>1, <2>2, TailEmpty, ChangedWrapped DEF Saves, Typed
    <2>4. call'[c].phase # "save"
      BY <1>3 DEF Saves, Typed, Idle
    <2>. QED
      BY <2>3, <2>4 DEF Fresh
  <1>4. CASE SetQuota
    BY <1>4 DEF SetQuota, Fresh, Typed, Document
  <1>5. CASE Hide \/ Show \/ UNCHANGED vars
    BY <1>5 DEF Hide, Show, vars, Fresh, load
  <1>. QED
    BY <1>1, <1>2, <1>3, <1>4, <1>5 DEF Next

LEMMA Refines ==
  ASSUME NEW one, Client = {one}, Typed, Fresh, [Next]_vars
  PROVE  [Promise!SettingsNext]_<<Promise!cells, [c \in Client |-> call[c].todo]>>
  <1>. DEFINE asked == [c \in Client |-> call[c].todo]
              some  == Requests \union {File(p) : p \in Files}
  <1>0. row.prefs \in [Key -> Value \union {None}] /\ Shown = row.prefs
    BY DEF Typed, Document, Shown, load
  <1>1. ASSUME NEW c \in Client, Asks(c) PROVE Promise!Ask(c)
    <2>1. PICK r \in Requests : call' = [call EXCEPT ![c] = [Idle EXCEPT !.phase = "load", !.todo = r]]
      BY <1>1 DEF Asks
    <2>2. asked' = [asked EXCEPT ![c] = r]
      BY <2>1 DEF Typed, Idle
    <2>3. UNCHANGED <<Shown, OpenedSecrets, row>>
      BY <1>1 DEF Asks, Shown, OpenedSecrets, Opened, load
    <2>4. asked[c] = <<>>
      BY <1>1 DEF Asks, Typed
    <2>. QED
      BY <2>2, <2>3, <2>4 DEF Promise!Ask, Promise!cells
  <1>2. ASSUME NEW c \in Client, ImportsExport(c) PROVE Promise!Ask(c)
    <2>1. call' = [call EXCEPT ![c] = [Idle EXCEPT !.phase = "load", !.todo = File(Given)]]
      BY <1>2 DEF ImportsExport, Given
    <2>2. asked' = [asked EXCEPT ![c] = File(Given)]
      BY <2>1 DEF Typed, Idle
    <2>3. UNCHANGED <<Shown, OpenedSecrets, row>>
      BY <1>2 DEF ImportsExport, Shown, OpenedSecrets, Opened, load
    <2>4. asked[c] = <<>>
      BY <1>2 DEF ImportsExport, Typed
    <2>5. File(Given) \in {File(p) : p \in Files}
      BY GivenTyped DEF Typed
    <2>. QED
      BY <2>2, <2>3, <2>4, <2>5 DEF Promise!Ask, Promise!cells, Files
  <1>3. ASSUME NEW c \in Client, Loads(c)
        PROVE  UNCHANGED <<Promise!cells, asked>>
    <2>1. asked' = asked
      BY <1>3 DEF Loads, Typed, CallType
    <2>. QED
      BY <1>3, <2>1 DEF Loads, Promise!cells, Shown, OpenedSecrets, Opened, load
  <1>4. ASSUME NEW c \in Client, Saves(c) PROVE Promise!Change(c)
    <2>. DEFINE part == Head(call[c].todo)
                copy == call[c].copy
    <2>1. call[c].todo \in Seq(Part) /\ call[c].todo # <<>> /\ copy \in Document /\ copy = load(row)
      BY <1>4 DEF Saves, Typed, CallType, Fresh
    <2>2. part \in Part /\ Acceptable(part) /\ row' = Changed(copy, part) /\ mainKey' = 1 /\ mainKey = 1
      BY <1>4, <2>1, TailEmpty DEF Saves, Typed
    <2>3. asked[c] # <<>> /\ asked' = [asked EXCEPT ![c] = Tail(@)] /\ Head(asked[c]) = part
      BY <1>4, <2>1 DEF Saves, Typed, Idle
    <2>4. row'.quota = row.quota
      <3>1. row'.quota = copy.quota
        BY <2>1, <2>2, ChangedWrapped
      <3>2. copy.quota = IF row.wrapped THEN row.quota ELSE None
        BY <2>1 DEF load, Typed, Document
      <3>. QED
        BY <3>1, <3>2 DEF Fresh
    <2>5. copy.sealed = row.sealed /\ copy.prefs = row.prefs /\ Opened(copy) = Opened(row)
      BY <2>1 DEF load, Typed, Document, Opened
    <2>6. Shown' = row'.prefs
      BY <2>2, ChangedTyped DEF Shown, load, Document
    <2>7. CASE part.on = "prefs"
      <3>1. row'.prefs = Overlay(row.prefs, part.set) /\ row'.sealed = row.sealed
        BY <2>1, <2>2, <2>5, <2>7 DEF Changed, Merged, Document
      <3>2. DOMAIN part.set \subseteq Key
        BY <2>2, <2>7 DEF Part
      <3>3. Shown' = Promise!Overlaid(Shown, part.set)
        BY <1>0, <2>6, <3>1, <3>2 DEF Overlay, Promise!Overlaid
      <3>4. OpenedSecrets' = OpenedSecrets
        BY <2>2, <3>1 DEF OpenedSecrets, Opened
      <3>. HIDE DEF part
      <3>. QED
        BY <2>3, <2>4, <2>7, <3>3, <3>4 DEF Promise!Change
    <2>8. CASE part.on = "secrets"
      <3>. DEFINE all == Overlay(Opened(row), part.set)
      <3>1. /\ row'.prefs = row.prefs
            /\ row'.sealed = [key |-> mainKey, extra |-> Resealed(copy, part.set)]
            /\ row'.sealed # None
        <4>. DEFINE new == [key |-> mainKey, extra |-> Resealed(copy, part.set)]
        <4>1. new \in Sealed /\ PutSecrets(copy, part.set) = [copy EXCEPT !.sealed = new]
          BY <2>1, <2>2, <2>8, ResealedTyped
        <4>2. row' = PutSecrets(copy, part.set)
          BY <2>2, <2>8 DEF Changed
        <4>3. new # None
          BY <4>1, NamesApart
        <4>. HIDE DEF new, part, copy
        <4>4. row'.prefs = copy.prefs /\ row'.sealed = new
          BY <2>1, <4>1, <4>2 DEF Document
        <4>. QED
          BY <2>5, <4>3, <4>4 DEF new
      <3>2. Opened(row)' = Resealed(copy, part.set)
        BY <2>2, <3>1 DEF Opened
      <3>3. Resealed(copy, part.set) = [k \in {j \in DOMAIN all : all[j] # None} |-> all[k]]
        BY <2>5 DEF Resealed
      <3>4. DOMAIN all = DOMAIN Opened(row) \union DOMAIN part.set
        BY DEF Overlay
      <3>5. \A k \in DOMAIN all : all[k] = IF k \in DOMAIN part.set THEN part.set[k] ELSE Opened(row)[k]
        BY DEF Overlay
      <3>6. OpenedSecrets' = [k \in SecretKey |-> IF k \in DOMAIN all THEN all[k] ELSE None]
        <4>. HIDE DEF all
        <4>. QED
          BY <3>2, <3>3 DEF OpenedSecrets
      <3>7. OpenedSecrets' = Promise!Overlaid(OpenedSecrets, part.set)
        <4>. HIDE DEF all, part
        <4>. QED
          BY <3>4, <3>5, <3>6 DEF OpenedSecrets, Promise!Overlaid
      <3>8. Shown' = Shown
        BY <1>0, <2>6, <3>1
      <3>. HIDE DEF part
      <3>. QED
        BY <2>3, <2>4, <2>8, <3>7, <3>8 DEF Promise!Change
    <2>. QED
      BY <2>2, <2>7, <2>8 DEF Part
  <1>5. ASSUME NEW c \in Client, Fails(c) PROVE Promise!GiveUp(c)
    <2>1. asked[c] # <<>> /\ asked' = [asked EXCEPT ![c] = <<>>]
      BY <1>5 DEF Fails, Typed, Idle
    <2>. QED
      BY <1>5, <2>1 DEF Fails, Promise!GiveUp, Promise!cells, Shown, OpenedSecrets, Opened, load
  <1>6. CASE SetQuota
    <2>1. row'.quota \in Limit /\ row'.prefs = row.prefs /\ row'.sealed = row.sealed /\ row' \in Document
      BY <1>6 DEF SetQuota, Typed, Document
    <2>2. Shown' = Shown /\ OpenedSecrets' = OpenedSecrets
      BY <1>0, <1>6, <2>1 DEF SetQuota, Shown, OpenedSecrets, Opened, load, Document
    <2>3. asked' = asked
      BY <1>6 DEF SetQuota
    <2>. QED
      BY <2>1, <2>2, <2>3 DEF Promise!SetLimit, Promise!SettingsNext
  <1>7. CASE Hide \/ Show \/ UNCHANGED vars
    BY <1>7 DEF Hide, Show, vars, Promise!cells, Shown, OpenedSecrets, Opened, load
  <1>. HIDE DEF asked
  <1>. QED
    BY <1>1, <1>2, <1>3, <1>4, <1>5, <1>6, <1>7 DEF Next, Promise!SettingsNext, asked

(* As long as one client at a time is at work and operators keep out of    *)
(* requests and old documents, the JSON document that Service.Update,      *)
(* PutSecrets and Import read, change and write whole behaves like         *)
(* separate cells: no change of one loses another.                         *)
THEOREM OneClientIsSafe ==
  ASSUME NEW one, Client = {one}, Apart
  PROVE  Spec => ImplementsSettings
  <1>1. Init => Promise!SettingsInit
    <2>. SUFFICES ASSUME Init PROVE Promise!SettingsInit
      OBVIOUS
    <2>1. row \in Document /\ row.sealed = None
      BY FirstRowsTyped DEF Init
    <2>2. Shown \in [Key -> Value \union {None}]
      BY <2>1, LoadTyped DEF Shown, Document
    <2>3. OpenedSecrets = [k \in SecretKey |-> None]
      BY <2>1 DEF OpenedSecrets, Opened
    <2>4. row.quota \in Limit \union {None}
      BY <2>1 DEF Document
    <2>5. [c \in Client |-> call[c].todo] = [c \in Client |-> <<>>]
      BY DEF Init, Idle
    <2>. QED
      BY <2>2, <2>3, <2>4, <2>5 DEF Promise!SettingsInit
  <1>2. Init => Typed /\ Fresh
    BY TypedInit, FirstRowsTyped DEF Init, Fresh, Idle
  <1>3. Typed /\ Fresh /\ [Next]_vars => Typed' /\ Fresh'
    BY TypedStep, FreshStep
  <1>4. Typed /\ Fresh /\ [Next]_vars
          => [Promise!SettingsNext]_<<Promise!cells, [c \in Client |-> call[c].todo]>>
    BY Refines
  <1>. QED
    BY <1>1, <1>2, <1>3, <1>4, PTL DEF Spec, ImplementsSettings, Promise!SettingsSpec

=============================================================================
