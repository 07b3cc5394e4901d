--------------------------- MODULE CanvasSyncProofs ---------------------------
(***************************************************************************)
(* What holds of the pages that show a canvas, for every number of pages   *)
(* and fields, every buffer of the event streams and every number of edits *)
(* and troubles.                                                           *)
(*                                                                         *)
(* Four invariants, each inductive together with the ones before it: the   *)
(* shape of the state (Base), what a page has told the server and what it  *)
(* has yet to tell (Ordered), what it shows of the version it names        *)
(* (Shown), and what the page and its event stream add up to (Tracks).     *)
(***************************************************************************)
EXTENDS CanvasSync, SequenceTheorems, WellFoundedInduction, TLAPS
-----------------------------------------------------------------------------
(***************************************************************************)
(* Induction over data goes by least counterexamples.                      *)
(***************************************************************************)
LEMMA Smallest ==
  ASSUME NEW T \in SUBSET Nat, T # {}
  PROVE  \E i \in T : \A j \in T : i <= j
  <1> DEFINE R == OpToRel(<, Nat)
  <1>1. IsWellFoundedOn(R, Nat)
    BY NatLessThanWellFounded
  <1>2. \A x, y \in Nat : x < y => <<x, y>> \in R
    BY DEF OpToRel
  <1> HIDE DEF R
  <1>3. PICK i \in T : \A j \in T : ~ (<<j, i>> \in R)
    BY <1>1, WFMin
  <1>4. \A j \in T : ~ (j < i)
    BY <1>2, <1>3
  <1>. QED
    BY <1>4

LEMMA Largest ==
  ASSUME NEW n \in Nat, NEW T \in SUBSET (1..n), T # {}
  PROVE  \E i \in T : \A j \in T : j <= i
  <1> DEFINE U == {n - i : i \in T}
  <1>1. U \in SUBSET Nat /\ U # {}
    <2>1. \A i \in T : i \in 1..n
      OBVIOUS
    <2>2. \A i \in T : n - i \in Nat
      BY <2>1
    <2>3. PICK i : i \in T
      OBVIOUS
    <2>4. n - i \in U
      BY <2>3
    <2>. QED
      BY <2>2, <2>4
  <1>2. PICK k \in U : \A j \in U : k <= j
    <2> HIDE DEF U
    <2>. QED
      BY <1>1, Smallest
  <1>3. PICK i \in T : k = n - i
    OBVIOUS
  <1>4. \A j \in T : n - i <= n - j
    BY <1>2, <1>3
  <1>. QED
    BY <1>4

-----------------------------------------------------------------------------
(***************************************************************************)
(* A batch more is its edits more.                                         *)
(***************************************************************************)
\* The partial results of FlattenSeq.
Flattens(f, s, n) == f = [i \in 1..n |-> IF i = 1 THEN s[i] ELSE f[i - 1] \o s[i]]

LEMMA FlattensEach ==
  ASSUME NEW f, NEW s, NEW n \in Nat, Flattens(f, s, n), NEW i \in 1..n
  PROVE  f[i] = IF i = 1 THEN s[i] ELSE f[i - 1] \o s[i]
  BY DEF Flattens

LEMMA FlattensExists ==
  ASSUME NEW s, NEW n \in Nat
  PROVE  \E f : Flattens(f, s, n)
  <1> DEFINE T == {m \in Nat : ~ \E f : Flattens(f, s, m)}
  <1>1. SUFFICES ASSUME T # {} PROVE FALSE
    OBVIOUS
  <1>2. PICK m \in T : \A j \in T : m <= j
    <2>1. T \in SUBSET Nat
      OBVIOUS
    <2> HIDE DEF T
    <2>. QED
      BY <1>1, <2>1, Smallest
  <1>3. m # 0
    <2>1. Flattens([i \in 1..0 |-> s], s, 0)
      BY DEF Flattens
    <2>. QED
      BY <2>1
  <1>4. m - 1 \in Nat /\ m - 1 \notin T
    BY <1>2, <1>3
  <1>5. PICK g : Flattens(g, s, m - 1)
    BY <1>4
  <1> DEFINE h == [i \in 1..m |-> IF i = m THEN (IF m = 1 THEN s[m] ELSE g[m - 1] \o s[m])
                                           ELSE g[i]]
  <1>6. \A i \in 1..m : h[i] = IF i = 1 THEN s[i] ELSE h[i - 1] \o s[i]
    <2>1. ASSUME NEW i \in 1..m, i # m
          PROVE  h[i] = IF i = 1 THEN s[i] ELSE h[i - 1] \o s[i]
      <3>1. i \in 1..(m - 1)
        BY <2>1
      <3>2. g[i] = IF i = 1 THEN s[i] ELSE g[i - 1] \o s[i]
        BY <1>4, <1>5, <3>1, FlattensEach
      <3>3. h[i] = g[i] /\ (i # 1 => h[i - 1] = g[i - 1])
        BY <2>1
      <3>. QED
        BY <3>2, <3>3
    <2>2. m \in 1..m /\ (m # 1 => h[m - 1] = g[m - 1])
      BY <1>3
    <2>. QED
      BY <2>1, <2>2
  <1>7. Flattens(h, s, m)
    <2>1. h = [i \in 1..m |-> h[i]]
      OBVIOUS
    <2> HIDE DEF h
    <2>. QED
      BY <1>6, <2>1 DEF Flattens
  <1>. QED
    BY <1>7

LEMMA FlattensAlike ==
  ASSUME NEW s, NEW t, NEW m \in Nat, NEW n \in Nat, NEW f, NEW g,
         Flattens(f, s, m), Flattens(g, t, n), \A i \in 1..m : s[i] = t[i], m <= n
  PROVE  \A i \in 1..m : f[i] = g[i]
  <1> DEFINE T == {i \in 1..m : f[i] # g[i]}
  <1>1. SUFFICES ASSUME T # {} PROVE FALSE
    OBVIOUS
  <1>2. PICK k \in T : \A j \in T : k <= j
    <2>1. T \in SUBSET Nat
      OBVIOUS
    <2> HIDE DEF T
    <2>. QED
      BY <1>1, <2>1, Smallest
  <1>3. k \in 1..m /\ k \in 1..n /\ f[k] # g[k]
    OBVIOUS
  <1>4. k # 1 => f[k - 1] = g[k - 1]
    BY <1>2, <1>3
  <1>5. /\ f[k] = IF k = 1 THEN s[k] ELSE f[k - 1] \o s[k]
        /\ g[k] = IF k = 1 THEN t[k] ELSE g[k - 1] \o t[k]
    BY <1>3, FlattensEach
  <1>. QED
    BY <1>3, <1>4, <1>5

LEMMA FlattensTyped ==
  ASSUME NEW S, NEW s, NEW n \in Nat, \A i \in 1..n : s[i] \in Seq(S), NEW f, Flattens(f, s, n)
  PROVE  \A i \in 1..n : f[i] \in Seq(S)
  <1> DEFINE T == {i \in 1..n : f[i] \notin Seq(S)}
  <1>1. SUFFICES ASSUME T # {} PROVE FALSE
    OBVIOUS
  <1>2. PICK k \in T : \A j \in T : k <= j
    <2>1. T \in SUBSET Nat
      OBVIOUS
    <2> HIDE DEF T
    <2>. QED
      BY <1>1, <2>1, Smallest
  <1>3. k \in 1..n /\ f[k] \notin Seq(S) /\ s[k] \in Seq(S)
    OBVIOUS
  <1>4. k # 1 => f[k - 1] \in Seq(S)
    BY <1>2, <1>3
  <1>5. f[k] = IF k = 1 THEN s[k] ELSE f[k - 1] \o s[k]
    BY <1>3, FlattensEach
  <1>. QED
    BY <1>3, <1>4, <1>5, ConcatProperties

LEMMA FlattenIs ==
  ASSUME NEW s, Len(s) \in Nat \ {0}
  PROVE  \E f : Flattens(f, s, Len(s)) /\ FlattenSeq(s) = f[Len(s)]
  <1>1. \E f : Flattens(f, s, Len(s))
    BY FlattensExists
  <1> DEFINE flatten == CHOOSE f : f = [i \in 1..Len(s) |-> IF i = 1 THEN s[i] ELSE f[i - 1] \o s[i]]
  <1>2. Flattens(flatten, s, Len(s))
    BY <1>1 DEF Flattens
  <1>3. FlattenSeq(s) = flatten[Len(s)]
    BY DEF FlattenSeq
  <1>. QED
    BY <1>2, <1>3

LEMMA FlattenTyped ==
  ASSUME NEW S, NEW s \in Seq(Seq(S))
  PROVE  FlattenSeq(s) \in Seq(S)
  <1>1. CASE Len(s) = 0
    BY <1>1, EmptySeq DEF FlattenSeq
  <1>2. CASE Len(s) # 0
    <2>1. PICK f : Flattens(f, s, Len(s)) /\ FlattenSeq(s) = f[Len(s)]
      BY <1>2, FlattenIs
    <2>2. \A i \in 1..Len(s) : s[i] \in Seq(S)
      BY ElementOfSeq
    <2>. QED
      BY <1>2, <2>1, <2>2, FlattensTyped
  <1>. QED
    BY <1>1, <1>2

LEMMA FlattenAppend ==
  ASSUME NEW S, NEW s \in Seq(Seq(S)), NEW b \in Seq(S)
  PROVE  FlattenSeq(Append(s, b)) = FlattenSeq(s) \o b
  <1> DEFINE t == Append(s, b)
             n == Len(s)
  <1>1. n \in Nat /\ Len(t) = n + 1 /\ t[n + 1] = b /\ \A i \in 1..n : t[i] = s[i]
    BY AppendProperties, LenProperties
  <1>2. PICK g : Flattens(g, t, n + 1) /\ FlattenSeq(t) = g[n + 1]
    <2> HIDE DEF t
    <2>. QED
      BY <1>1, FlattenIs
  <1> HIDE DEF t
  <1>3. g[n + 1] = IF n + 1 = 1 THEN b ELSE g[n] \o b
    <2>1. n + 1 \in 1..(n + 1) /\ (n + 1) - 1 = n
      BY <1>1
    <2>. QED
      BY <1>1, <1>2, <2>1, FlattensEach
  <1>4. CASE n = 0
    <2>1. s = <<>> /\ FlattenSeq(s) = <<>>
      BY <1>4, EmptySeq DEF FlattenSeq
    <2>. QED
      BY <1>2, <1>3, <1>4, <2>1, ConcatEmptySeq DEF t
  <1>5. CASE n # 0
    <2>1. PICK f : Flattens(f, s, n) /\ FlattenSeq(s) = f[n]
      BY <1>1, <1>5, FlattenIs
    <2>2. f[n] = g[n]
      <3>1. n + 1 \in Nat /\ n <= n + 1 /\ \A i \in 1..n : s[i] = t[i]
        BY <1>1
      <3>2. \A i \in 1..n : f[i] = g[i]
        <4> HIDE DEF n
        <4>1. ASSUME NEW p \in Nat, n <= p, Flattens(g, t, p) PROVE \A i \in 1..n : f[i] = g[i]
          <5>1. n \in Nat /\ Flattens(f, s, n)
            BY <1>1, <2>1
          <5>. QED
            BY <3>1, <4>1, <5>1, FlattensAlike
        <4>. QED
          BY <1>2, <3>1, <4>1
      <3>. QED
        BY <1>1, <1>5, <3>2
    <2>. QED
      BY <1>1, <1>2, <1>3, <1>5, <2>1, <2>2 DEF t
  <1>. QED
    BY <1>4, <1>5

-----------------------------------------------------------------------------
(***************************************************************************)
(* The edits up to a version.                                              *)
(***************************************************************************)
\* Prefix(v) as a function of the log.
UpTo(s, v) == FlattenSeq(SubSeq(s, 1, v))

LEMMA FirstTyped ==
  ASSUME NEW S, NEW s \in Seq(S), NEW v \in 0..Len(s)
  PROVE  /\ SubSeq(s, 1, v) \in Seq(S) /\ Len(SubSeq(s, 1, v)) = v
         /\ \A i \in 1..v : SubSeq(s, 1, v)[i] = s[i]
  <1>1. \A i \in 1..v : s[i] \in S
    BY ElementOfSeq, LenProperties
  <1>2. v \in Int /\ v - 1 + 1 = v
    BY LenProperties
  <1>. QED
    BY <1>1, <1>2, SubSeqProperties

LEMMA FirstAppend ==
  ASSUME NEW S, NEW s \in Seq(S), NEW b \in S, NEW v \in 0..Len(s)
  PROVE  SubSeq(Append(s, b), 1, v) = SubSeq(s, 1, v)
  <1> DEFINE t == Append(s, b)
  <1>1. t \in Seq(S) /\ Len(t) = Len(s) + 1 /\ \A i \in 1..Len(s) : t[i] = s[i]
    BY AppendProperties
  <1> HIDE DEF t
  <1>2. v \in 0..Len(t) /\ v \in Nat /\ Len(s) \in Nat
    BY <1>1, LenProperties
  <1>3. /\ SubSeq(t, 1, v) \in Seq(S) /\ Len(SubSeq(t, 1, v)) = v
        /\ \A i \in 1..v : SubSeq(t, 1, v)[i] = t[i]
    BY <1>1, <1>2, FirstTyped
  <1>4. /\ SubSeq(s, 1, v) \in Seq(S) /\ Len(SubSeq(s, 1, v)) = v
        /\ \A i \in 1..v : SubSeq(s, 1, v)[i] = s[i]
    BY FirstTyped
  <1>5. \A i \in 1..v : t[i] = s[i]
    BY <1>1, <1>2
  <1>6. SubSeq(t, 1, v) = SubSeq(s, 1, v)
    BY <1>3, <1>4, <1>5, SeqEqual
  <1>. QED
    BY <1>6 DEF t

LEMMA UpToTyped ==
  ASSUME NEW S, NEW s \in Seq(Seq(S)), NEW v \in 0..Len(s)
  PROVE  UpTo(s, v) \in Seq(S)
  BY FirstTyped, FlattenTyped DEF UpTo

LEMMA UpToAll ==
  ASSUME NEW S, NEW s \in Seq(Seq(S))
  PROVE  UpTo(s, Len(s)) = FlattenSeq(s)
  BY SubSeqFull DEF UpTo

LEMMA UpToNone ==
  ASSUME NEW s
  PROVE  UpTo(s, 0) = <<>>
  <1>1. SubSeq(s, 1, 0) = <<>>
    BY SubSeqEmpty
  <1>. QED
    BY <1>1, EmptySeq DEF UpTo, FlattenSeq

\* What is committed later leaves what was committed before.
LEMMA UpToAppend ==
  ASSUME NEW S, NEW s \in Seq(Seq(S)), NEW b \in Seq(S)
  PROVE  /\ \A v \in 0..Len(s) : UpTo(Append(s, b), v) = UpTo(s, v)
         /\ UpTo(Append(s, b), Len(s) + 1) = UpTo(s, Len(s)) \o b
  <1>1. \A v \in 0..Len(s) : UpTo(Append(s, b), v) = UpTo(s, v)
    BY FirstAppend DEF UpTo
  <1>2. Append(s, b) \in Seq(Seq(S)) /\ Len(Append(s, b)) = Len(s) + 1
    BY AppendProperties
  <1>3. UpTo(Append(s, b), Len(s) + 1) = FlattenSeq(Append(s, b))
    BY <1>2, UpToAll
  <1>. QED
    BY <1>1, <1>3, FlattenAppend, UpToAll

LEMMA UpToStep ==
  ASSUME NEW S, NEW s \in Seq(Seq(S)), NEW v \in 1..Len(s)
  PROVE  UpTo(s, v) = UpTo(s, v - 1) \o s[v]
  <1>1. Len(s) \in Nat /\ v - 1 \in 0..Len(s) /\ v \in 0..Len(s) /\ s[v] \in Seq(S)
    BY LenProperties, ElementOfSeq
  <1> DEFINE t == SubSeq(s, 1, v - 1)
  <1>2. t \in Seq(Seq(S)) /\ Len(t) = v - 1 /\ \A i \in 1..(v - 1) : t[i] = s[i]
    BY <1>1, FirstTyped
  <1> HIDE DEF t
  <1>3. /\ Append(t, s[v]) \in Seq(Seq(S)) /\ Len(Append(t, s[v])) = v
        /\ \A i \in 1..v : Append(t, s[v])[i] = s[i]
    <2>1. /\ Append(t, s[v]) \in Seq(Seq(S)) /\ Len(Append(t, s[v])) = Len(t) + 1
          /\ Append(t, s[v])[Len(t) + 1] = s[v]
          /\ \A i \in 1..Len(t) : Append(t, s[v])[i] = t[i]
      BY <1>1, <1>2, AppendProperties
    <2>. QED
      BY <1>1, <1>2, <2>1
  <1>4. SubSeq(s, 1, v) = Append(t, s[v])
    <2>1. /\ SubSeq(s, 1, v) \in Seq(Seq(S)) /\ Len(SubSeq(s, 1, v)) = v
          /\ \A i \in 1..v : SubSeq(s, 1, v)[i] = s[i]
      BY <1>1, FirstTyped
    <2>. QED
      BY <1>3, <2>1, SeqEqual
  <1>. QED
    BY <1>1, <1>2, <1>4, FlattenAppend DEF UpTo, t

\* The edits up to a version are the first ones of all.
LEMMA UpToBefore ==
  ASSUME NEW S, NEW s \in Seq(Seq(S)), NEW v \in 0..Len(s)
  PROVE  \E rest \in Seq(S) : UpTo(s, Len(s)) = UpTo(s, v) \o rest
  <1> DEFINE Split(w) == \E rest \in Seq(S) : UpTo(s, w) = UpTo(s, v) \o rest
             T == {w \in v..Len(s) : ~Split(w)}
  <1>0. v \in Nat /\ Len(s) \in Nat /\ v <= Len(s)
    BY LenProperties
  <1>1. UpTo(s, v) \in Seq(S)
    BY UpToTyped
  <1>2. Split(v)
    BY <1>1, ConcatEmptySeq, EmptySeq
  <1>3. ASSUME NEW k \in (v + 1)..Len(s), Split(k - 1)
        PROVE  Split(k)
    <2>1. PICK rest \in Seq(S) : UpTo(s, k - 1) = UpTo(s, v) \o rest
      BY <1>3
    <2>2. k \in 1..Len(s)
      BY <1>0
    <2>3. UpTo(s, k) = (UpTo(s, v) \o rest) \o s[k] /\ s[k] \in Seq(S)
      BY <2>1, <2>2, UpToStep, ElementOfSeq
    <2> HIDE DEF Split
    <2>4. (UpTo(s, v) \o rest) \o s[k] = UpTo(s, v) \o (rest \o s[k])
      <3>1. \A a, b, c \in Seq(S) : (a \o b) \o c = a \o (b \o c)
        BY ConcatAssociative
      <3>. QED
        BY <1>1, <2>1, <2>3, <3>1
    <2>5. rest \o s[k] \in Seq(S)
      BY <2>3, ConcatProperties
    <2>. QED
      BY <2>3, <2>4, <2>5 DEF Split
  <1> HIDE DEF Split
  <1>4. T = {}
    <2>1. SUFFICES ASSUME T # {} PROVE FALSE
      OBVIOUS
    <2>2. PICK k \in T : \A j \in T : k <= j
      <3>1. T \in SUBSET Nat
        BY <1>0
      <3> HIDE DEF T
      <3>. QED
        BY <2>1, <3>1, Smallest
    <2>3. k \in v..Len(s) /\ ~Split(k) /\ k # v
      BY <1>2
    <2>4. k \in (v + 1)..Len(s) /\ k - 1 \in v..Len(s)
      BY <1>0, <2>3
    <2>5. Split(k - 1)
      BY <1>0, <2>2, <2>4
    <2>. QED
      BY <1>3, <2>3, <2>4, <2>5
  <1>5. Len(s) \in v..Len(s)
    BY <1>0
  <1>6. Split(Len(s))
    BY <1>4, <1>5
  <1>. QED
    BY <1>6 DEF Split

-----------------------------------------------------------------------------
(***************************************************************************)
(* The edits, and the fields, of sequences put together.                   *)
(***************************************************************************)
LEMMA ConcatContents ==
  ASSUME NEW S, NEW s \in Seq(S), NEW t \in Seq(S)
  PROVE  /\ ToSet(s \o t) = ToSet(s) \union ToSet(t)
         /\ Fields(s \o t) = Fields(s) \union Fields(t)
  <1> DEFINE u == s \o t
  <1>1. /\ u \in Seq(S) /\ Len(u) = Len(s) + Len(t)
        /\ \A i \in 1..(Len(s) + Len(t)) : u[i] = IF i <= Len(s) THEN s[i] ELSE t[i - Len(s)]
    BY ConcatProperties
  <1> HIDE DEF u
  <1>2. /\ Len(s) \in Nat /\ Len(t) \in Nat
        /\ DOMAIN s = 1..Len(s) /\ DOMAIN t = 1..Len(t) /\ DOMAIN u = 1..(Len(s) + Len(t))
    BY <1>1, LenProperties
  <1>3. \A i \in DOMAIN s : i \in DOMAIN u /\ u[i] = s[i]
    BY <1>1, <1>2
  <1>4. \A i \in DOMAIN t : i + Len(s) \in DOMAIN u /\ u[i + Len(s)] = t[i]
    BY <1>1, <1>2
  <1>5. \A i \in DOMAIN u : (i \in DOMAIN s /\ u[i] = s[i])
                            \/ (i - Len(s) \in DOMAIN t /\ u[i] = t[i - Len(s)])
    BY <1>1, <1>2
  <1>6. ToSet(u) = ToSet(s) \union ToSet(t)
    BY <1>3, <1>4, <1>5 DEF ToSet
  <1>7. Fields(u) = Fields(s) \union Fields(t)
    BY <1>3, <1>4, <1>5 DEF Fields
  <1>. QED
    BY <1>6, <1>7 DEF u

LEMMA AppendContents ==
  ASSUME NEW S, NEW s \in Seq(S), NEW e \in S
  PROVE  /\ ToSet(Append(s, e)) = ToSet(s) \union {e}
         /\ Fields(Append(s, e)) = Fields(s) \union {e.field}
  <1>1. Append(s, e) = s \o <<e>> /\ <<e>> \in Seq(S)
    BY AppendIsConcat
  <1>2. ToSet(<<e>>) = {e} /\ Fields(<<e>>) = {e.field}
    BY DEF ToSet, Fields
  <1>3. \A t \in Seq(S) : /\ ToSet(s \o t) = ToSet(s) \union ToSet(t)
                          /\ Fields(s \o t) = Fields(s) \union Fields(t)
    BY ConcatContents
  <1>4. /\ ToSet(s \o <<e>>) = ToSet(s) \union ToSet(<<e>>)
        /\ Fields(s \o <<e>>) = Fields(s) \union Fields(<<e>>)
    BY <1>1, <1>3
  <1>. QED
    BY <1>1, <1>2, <1>4

\* The last edit of a field is the one that none of the field follows.
LEMMA LastOnIs ==
  ASSUME NEW S, NEW s \in Seq(S), NEW f, NEW i \in 1..Len(s), s[i].field = f,
         \A j \in 1..Len(s) : s[j].field = f => j <= i
  PROVE  LastOn(s, f) = s[i]
  <1> DEFINE on == {j \in DOMAIN s : s[j].field = f}
  <1>1. i \in on /\ \A j \in on : j <= i
    BY LenProperties
  <1>2. \A k \in on : (\A j \in on : j <= k) => k = i
    BY <1>1, LenProperties
  <1> HIDE DEF on
  <1>3. (CHOOSE k \in on : \A j \in on : j <= k) = i
    BY <1>1, <1>2
  <1>. QED
    BY <1>1, <1>3 DEF LastOn, on

LEMMA LastOnAt ==
  ASSUME NEW S, NEW s \in Seq(S), NEW f \in Fields(s)
  PROVE  \E i \in 1..Len(s) :
           /\ LastOn(s, f) = s[i] /\ s[i].field = f
           /\ \A j \in 1..Len(s) : s[j].field = f => j <= i
  <1> DEFINE T == {j \in 1..Len(s) : s[j].field = f}
  <1>1. T \in SUBSET (1..Len(s)) /\ T # {} /\ Len(s) \in Nat
    BY LenProperties DEF Fields
  <1>2. PICK i \in T : \A j \in T : j <= i
    <2> HIDE DEF T
    <2>. QED
      BY <1>1, Largest
  <1>3. i \in 1..Len(s) /\ s[i].field = f /\ \A j \in 1..Len(s) : s[j].field = f => j <= i
    BY <1>2
  <1>4. LastOn(s, f) = s[i]
    BY <1>3, LastOnIs
  <1>. QED
    BY <1>3, <1>4

LEMMA LastOnNothing ==
  ASSUME NEW s, NEW f, f \notin Fields(s)
  PROVE  LastOn(s, f) = None
  BY DEF LastOn, Fields

LEMMA LastOnConcat ==
  ASSUME NEW S, NEW s \in Seq(S), NEW t \in Seq(S), NEW f
  PROVE  LastOn(s \o t, f) = IF f \in Fields(t) THEN LastOn(t, f) ELSE LastOn(s, f)
  <1> DEFINE u == s \o t
  <1>1. /\ u \in Seq(S) /\ Len(u) = Len(s) + Len(t)
        /\ \A i \in 1..(Len(s) + Len(t)) : u[i] = IF i <= Len(s) THEN s[i] ELSE t[i - Len(s)]
    BY ConcatProperties
  <1>2. Fields(u) = Fields(s) \union Fields(t)
    BY ConcatContents
  <1> HIDE DEF u
  <1>3. /\ Len(s) \in Nat /\ Len(t) \in Nat
        /\ DOMAIN s = 1..Len(s) /\ DOMAIN t = 1..Len(t)
    BY LenProperties
  <1>4. CASE f \in Fields(t)
    <2>1. PICK i \in 1..Len(t) : /\ LastOn(t, f) = t[i] /\ t[i].field = f
                                 /\ \A j \in 1..Len(t) : t[j].field = f => j <= i
      BY <1>4, LastOnAt
    <2>2. i + Len(s) \in 1..Len(u) /\ u[i + Len(s)] = t[i]
      BY <1>1, <1>3
    <2>3. ASSUME NEW j \in 1..Len(u), u[j].field = f PROVE j <= i + Len(s)
      <3>1. CASE j > Len(s)
        <4>1. j - Len(s) \in 1..Len(t) /\ u[j] = t[j - Len(s)]
          BY <1>1, <1>3, <3>1
        <4>2. j - Len(s) <= i
          BY <2>1, <2>3, <4>1
        <4>. QED
          BY <1>3, <4>2
      <3>. QED
        BY <1>3, <3>1
    <2>4. LastOn(u, f) = u[i + Len(s)]
      BY <1>1, <2>1, <2>2, <2>3, LastOnIs
    <2>. QED
      BY <1>4, <2>1, <2>2, <2>4 DEF u
  <1>5. CASE f \notin Fields(t) /\ f \in Fields(s)
    <2>1. PICK i \in 1..Len(s) : /\ LastOn(s, f) = s[i] /\ s[i].field = f
                                 /\ \A j \in 1..Len(s) : s[j].field = f => j <= i
      BY <1>5, LastOnAt
    <2>2. i \in 1..Len(u) /\ u[i] = s[i]
      BY <1>1, <1>3
    <2>3. ASSUME NEW j \in 1..Len(u), u[j].field = f PROVE j <= i
      <3>1. CASE j > Len(s)
        <4>1. j - Len(s) \in DOMAIN t /\ t[j - Len(s)].field = f
          BY <1>1, <1>3, <2>3, <3>1
        <4>. QED
          BY <1>5, <4>1 DEF Fields
      <3>2. CASE j <= Len(s)
        BY <1>1, <1>3, <2>1, <2>3, <3>2
      <3>. QED
        BY <1>3, <3>1, <3>2
    <2>4. LastOn(u, f) = u[i]
      BY <1>1, <2>1, <2>2, <2>3, LastOnIs
    <2>. QED
      BY <1>5, <2>1, <2>2, <2>4 DEF u
  <1>6. CASE f \notin Fields(t) /\ f \notin Fields(s)
    BY <1>2, <1>6, LastOnNothing DEF u
  <1>. QED
    BY <1>4, <1>5, <1>6

\* A suffix is what follows the rest.
LEMMA SuffixSplits ==
  ASSUME NEW S, NEW s \in Seq(S), NEW t \in Seq(S), IsSuffix(s, t)
  PROVE  \E a \in Seq(S) : t = a \o s
  <1> DEFINE k == Len(t) - Len(s)
             r == Reverse(s)
             q == Reverse(t)
  <1>1. Len(s) \in Nat /\ Len(t) \in Nat /\ DOMAIN s = 1..Len(s) /\ DOMAIN t = 1..Len(t)
    BY LenProperties
  <1>2. /\ r \in Seq(S) /\ Len(r) = Len(s) /\ \A i \in 1..Len(s) : r[i] = s[Len(s) - i + 1]
        /\ q \in Seq(S) /\ Len(q) = Len(t) /\ \A i \in 1..Len(t) : q[i] = t[Len(t) - i + 1]
    <2>1. \A i \in 1..Len(s) : s[Len(s) - i + 1] \in S
      BY <1>1, ElementOfSeq
    <2>2. \A i \in 1..Len(t) : t[Len(t) - i + 1] \in S
      BY <1>1, ElementOfSeq
    <2>3. r = [i \in 1..Len(s) |-> s[Len(s) - i + 1]] /\ q = [i \in 1..Len(t) |-> t[Len(t) - i + 1]]
      BY DEF Reverse
    <2> HIDE DEF r, q
    <2>. QED
      BY <1>1, <2>1, <2>2, <2>3
  <1>3. Len(r) <= Len(q) /\ SubSeq(r, 1, Len(r)) = SubSeq(q, 1, Len(r))
    BY DEF IsSuffix, IsPrefix
  <1>4. SubSeq(r, 1, Len(r)) = r
    BY <1>2, SubSeqFull
  <1>5. \A i \in 1..Len(s) : r[i] = q[i]
    <2> HIDE DEF r, q
    <2>1. Len(s) \in 0..Len(q)
      BY <1>1, <1>2, <1>3
    <2>2. \A i \in 1..Len(s) : SubSeq(q, 1, Len(s))[i] = q[i]
      BY <1>2, <2>1, FirstTyped
    <2>. QED
      BY <1>2, <1>3, <1>4, <2>2
  <1>6. \A i \in 1..Len(s) : s[i] = t[k + i]
    <2> HIDE DEF r, q
    <2>1. TAKE i \in 1..Len(s)
    <2>2. Len(s) - i + 1 \in 1..Len(s) /\ Len(s) - i + 1 \in 1..Len(t)
      BY <1>1, <1>2, <1>3
    <2>3. r[Len(s) - i + 1] = s[i] /\ q[Len(s) - i + 1] = t[k + i]
      BY <1>1, <1>2, <2>2
    <2>. QED
      BY <1>5, <2>2, <2>3
  <1> DEFINE a == SubSeq(t, 1, k)
  <1>7. k \in 0..Len(t)
    BY <1>1, <1>2, <1>3
  <1>8. a \in Seq(S) /\ Len(a) = k /\ \A i \in 1..k : a[i] = t[i]
    <2> HIDE DEF k
    <2>. QED
      BY <1>7, FirstTyped
  <1> HIDE DEF a
  <1>9. /\ a \o s \in Seq(S) /\ Len(a \o s) = Len(a) + Len(s)
        /\ \A i \in 1..(Len(a) + Len(s)) : (a \o s)[i] = IF i <= Len(a) THEN a[i] ELSE s[i - Len(a)]
    BY <1>8, ConcatProperties
  <1>10. ASSUME NEW i \in 1..Len(t) PROVE (a \o s)[i] = t[i]
    <2>1. i \in 1..(Len(a) + Len(s)) /\ k \in Nat
      BY <1>1, <1>7, <1>8
    <2>2. CASE i <= Len(a)
      BY <1>8, <1>9, <2>1, <2>2
    <2>3. CASE ~(i <= Len(a))
      <3>1. i - k \in 1..Len(s) /\ k + (i - k) = i
        BY <1>1, <1>8, <2>1, <2>3
      <3>2. s[i - k] = t[i]
        <4> HIDE DEF k
        <4>1. s[i - k] = t[k + (i - k)]
          BY <1>6, <3>1
        <4>. QED
          BY <3>1, <4>1
      <3>. QED
        BY <1>8, <1>9, <2>1, <2>3, <3>2
    <2>. QED
      BY <2>2, <2>3
  <1>11. Len(a \o s) = Len(t)
    BY <1>1, <1>7, <1>8, <1>9
  <1>12. t = a \o s
    BY <1>9, <1>10, <1>11, SeqEqual
  <1>. QED
    BY <1>8, <1>12

-----------------------------------------------------------------------------
(***************************************************************************)
(* The state of the pages.                                                 *)
(***************************************************************************)
\* An edit that some page made; its number has no bound here.
Made == [by : Client, n : Nat, field : Field]

Phase == {"sent", "done", "conflict", "read"}

\* A request, in any of its phases.
RequestOf == [base : Nat, edits : Seq(Made), own : BOOLEAN, phase : Phase,
              version : Nat \union {None}, rebased : BOOLEAN]

\* What the flush of a replaced kernel is going to send.
Parcel == [base : Nat, edits : Seq(Made), own : {FALSE}]

Typed ==
  /\ log \in Seq(Seq(Made))
  /\ page \in [Client -> [version : 0..Version, view : Seq(Made), loaded : 0..Version]]
  /\ pending \in [Client -> Seq(Made)]
  /\ due \in [Client -> BOOLEAN] /\ flushing \in [Client -> BOOLEAN]
  /\ left \in [Client -> Parcel \union {None}]
  /\ requests \in [Client -> SUBSET RequestOf]
  /\ failed \in [Client -> SUBSET Made]
  /\ stream \in [Client -> [on : BOOLEAN, queue : Seq(Made)]]
  /\ reread \in [Client -> 0..Version \union {None}]
  /\ used \in [edits : [Client -> Nat], troubles : Nat, lost : BOOLEAN]
  /\ astray \subseteq Client

\* A page has one request at most, and knows whether it has.
Alone ==
  \A c \in Client :
    /\ \A r, q \in requests[c] : r = q
    /\ flushing[c] <=> requests[c] # {}

\* The answer to a committed batch names the version that the batch became.
Answered ==
  \A c \in Client : \A r \in requests[c] :
    /\ r.phase = "done" => /\ r.version \in 1..Version /\ log[r.version] = r.edits
                           /\ (r.rebased <=> r.base # r.version - 1)
    /\ r.phase = "read" => r.version \in 0..Version

\* The edits s are of page c, in the order they were made, and younger than all
\* that page told.
Follows(c, s, told, top) ==
  \A i \in DOMAIN s :
    /\ s[i].by = c /\ s[i].n <= top
    /\ \A j \in DOMAIN s : i < j => s[i].n < s[j].n
    /\ \A e \in ToSet(told) : e.by = c => e.n < s[i].n

Before(s, t) == \A d \in ToSet(s), e \in ToSet(t) : d.n < e.n

\* Told, under way, left by a replaced kernel, pending: each younger than the last.
InLine ==
  \A c \in Client :
    /\ \A e \in ToSet(Committed) : e.by = c => e.n <= used.edits[c]
    /\ Follows(c, pending[c], Committed, used.edits[c])
    /\ left[c] # None => /\ Follows(c, left[c].edits, Committed, used.edits[c])
                         /\ Before(left[c].edits, pending[c])
    /\ \A r \in requests[c] : r.phase = "sent" =>
         /\ Follows(c, r.edits, Committed, used.edits[c])
         /\ Before(r.edits, pending[c])
         /\ left[c] # None => Before(r.edits, left[c].edits)

\* A page shows the version it names and the edits it has yet to send; a request
\* of the kernel it has was sent over that version.
Sees(c) ==
  /\ ToSet(UpTo(log, page[c].version)) \subseteq ToSet(page[c].view)
  /\ ToSet(pending[c]) \subseteq ToSet(page[c].view)
  /\ \A r \in requests[c] : r.own =>
       r.base = page[c].version /\ ToSet(r.edits) \subseteq ToSet(page[c].view)

Shown == \A c \in Client : Sees(c)

\* The fields of the edits that a page shows and the server does not have.
Owes(c) ==
  Fields(pending[c]) \union
    UNION {Fields(r.edits) : r \in {q \in requests[c] : q.own /\ q.phase # "done"}}

\* A page that nothing was lost for is going to show the canvas.
Tracked(c) ==
  /\ ~stream[c].on => stream[c].queue = <<>>
  /\ c \notin astray => \A f \in Field :
       f \in Owes(c) \/ LastOn(page[c].view \o stream[c].queue, f) = LastOn(Committed, f)

Tracks == \A c \in Client : Tracked(c)

Base == Typed /\ Alone /\ Answered

-----------------------------------------------------------------------------
LEMMA RequestTyped ==
  ASSUME Typed, NEW c \in Client, NEW r \in requests[c]
  PROVE  /\ r \in RequestOf /\ r.edits \in Seq(Made) /\ r.base \in Nat /\ r.own \in BOOLEAN
         /\ r.phase \in Phase /\ r.rebased \in BOOLEAN
  <1>1. r \in RequestOf
    BY DEF Typed
  <1>. QED
    BY <1>1 DEF RequestOf

LEMMA VersionIsNat ==
  ASSUME Typed
  PROVE  Version \in Nat /\ Version \in 0..Version
  BY LenProperties DEF Typed, Version

LEMMA CommitGrows ==
  ASSUME Typed, NEW c \in Client, NEW r \in requests[c], log' = Append(log, r.edits)
  PROVE  /\ log' \in Seq(Seq(Made)) /\ Version' = Version + 1
         /\ Committed' = Committed \o r.edits
         /\ \A v \in 0..Version : UpTo(log', v) = UpTo(log, v)
         /\ log'[Version + 1] = r.edits
         /\ \A v \in 1..Version : log'[v] = log[v]
  <1>1. log \in Seq(Seq(Made)) /\ r.edits \in Seq(Made)
    BY RequestTyped DEF Typed
  <1>2. /\ log' \in Seq(Seq(Made)) /\ Len(log') = Len(log) + 1
        /\ log'[Len(log) + 1] = r.edits
        /\ \A v \in 1..Len(log) : log'[v] = log[v]
    BY <1>1, AppendProperties
  <1>3. /\ \A v \in 0..Len(log) : UpTo(log', v) = UpTo(log, v)
        /\ UpTo(log', Len(log) + 1) = UpTo(log, Len(log)) \o r.edits
    BY <1>1, UpToAppend
  <1>4. Committed' = UpTo(log', Len(log) + 1) /\ Committed = UpTo(log, Len(log))
    BY <1>2 DEF Committed, Prefix, Version, UpTo
  <1>. QED
    BY <1>2, <1>3, <1>4 DEF Version

LEMMA CommittedTyped ==
  ASSUME Typed
  PROVE  Committed \in Seq(Made) /\ \A v \in 0..Version : Prefix(v) \in Seq(Made)
  <1>1. log \in Seq(Seq(Made)) /\ Version \in 0..Version
    BY VersionIsNat DEF Typed
  <1>2. \A v \in 0..Version : UpTo(log, v) \in Seq(Made)
    BY <1>1, UpToTyped DEF Version
  <1>. QED
    BY <1>1, <1>2 DEF Committed, Prefix, UpTo

-----------------------------------------------------------------------------
LEMMA InitBase == Init => Base
  <1>. SUFFICES ASSUME Init PROVE Base
    OBVIOUS
  <1>1. Version = 0 /\ 0 \in 0..Version
    BY EmptySeq DEF Init, Version
  <1>2. Typed
    BY <1>1, EmptySeq DEF Init, Typed, Made
  <1>. QED
    BY <1>2 DEF Init, Base, Alone, Answered

LEMMA DispatchBase ==
  ASSUME Base, NEW c \in Client, NEW f \in Field, Dispatch(c, f)
  PROVE  Base'
  <1> DEFINE e == [by |-> c, n |-> used.edits[c] + 1, field |-> f]
  <1>1. Typed
    BY DEF Base
  <1>2. used.edits[c] \in Nat /\ e \in Made
    BY <1>1 DEF Typed, Made
  <1>3. Append(page[c].view, e) \in Seq(Made) /\ Append(pending[c], e) \in Seq(Made)
    BY <1>1, <1>2, AppendProperties DEF Typed
  <1> HIDE DEF e
  <1>4. /\ page' = [page EXCEPT ![c].view = Append(@, e)]
        /\ pending' = [pending EXCEPT ![c] = Append(@, e)]
    BY DEF Dispatch, e
  <1>5. page' \in [Client -> [version : 0..Version, view : Seq(Made), loaded : 0..Version]]
    BY <1>1, <1>3, <1>4 DEF Typed
  <1>6. pending' \in [Client -> Seq(Made)] /\ due' \in [Client -> BOOLEAN]
    BY <1>1, <1>3, <1>4 DEF Typed, Dispatch
  <1>7. used' \in [edits : [Client -> Nat], troubles : Nat, lost : BOOLEAN]
    <2>1. used \in [edits : [Client -> Nat], troubles : Nat, lost : BOOLEAN]
      BY <1>1 DEF Typed
    <2>2. used' = [used EXCEPT !.edits = [used.edits EXCEPT ![c] = used.edits[c] + 1]]
      BY DEF Dispatch
    <2>. QED
      BY <2>1, <2>2
  <1>8. Typed'
    BY <1>1, <1>5, <1>6, <1>7 DEF Dispatch, Typed, Version
  <1>. QED
    BY <1>8 DEF Base, Dispatch, Alone, Answered, Version

LEMMA SentRequest ==
  ASSUME Typed, NEW c \in Client
  PROVE  /\ Request(c) \in RequestOf /\ Request(c).phase = "sent"
         /\ Request(c).base = Outgoing(c).base /\ Request(c).edits = Outgoing(c).edits
         /\ Request(c).own = Outgoing(c).own
         /\ left[c] # None => Outgoing(c) = left[c] /\ left[c] \in Parcel
         /\ left[c] = None => Outgoing(c) = [base |-> page[c].version, edits |-> pending[c],
                                             own |-> TRUE]
  <1>1. Outgoing(c).base \in Nat /\ Outgoing(c).edits \in Seq(Made) /\ Outgoing(c).own \in BOOLEAN
    <2>1. CASE left[c] = None
      BY <2>1, VersionIsNat DEF Typed, Outgoing
    <2>2. CASE left[c] # None
      <3>1. left[c] \in Parcel
        BY <2>2 DEF Typed
      <3>. QED
        BY <2>2, <3>1 DEF Parcel, Outgoing
    <2>. QED
      BY <2>1, <2>2
  <1>2. Request(c) \in RequestOf
    BY <1>1 DEF Request, RequestOf, Phase
  <1>. QED
    BY <1>2 DEF Typed, Request, Outgoing

LEMMA FlushBase ==
  ASSUME Base, NEW c \in Client, Flush(c)
  PROVE  Base'
  <1>1. Typed /\ requests[c] = {}
    BY DEF Base, Alone, Flush
  <1>2. Request(c) \in RequestOf /\ Request(c).phase = "sent"
    BY <1>1, SentRequest
  <1>3. Typed'
    BY <1>1, <1>2, EmptySeq DEF Flush, Send, Typed, Version
  <1>4. requests' = [requests EXCEPT ![c] = {Request(c)}]
    BY <1>1 DEF Flush, Send
  <1>. QED
    BY <1>1, <1>2, <1>3, <1>4 DEF Base, Flush, Send, Typed, Alone, Answered, Version

\* The one request of a page becomes another.
LEMMA Becomes ==
  ASSUME Base, NEW c \in Client, NEW r \in requests[c], NEW q \in RequestOf,
         requests' = [requests EXCEPT ![c] = (@ \ {r}) \union {q}]
  PROVE  /\ requests' = [requests EXCEPT ![c] = {q}]
         /\ requests' \in [Client -> SUBSET RequestOf]
         /\ UNCHANGED flushing => Alone'
  <1>1. requests[c] = {r}
    BY DEF Base, Alone
  <1>2. requests \in [Client -> SUBSET RequestOf]
    BY DEF Base, Typed
  <1>3. requests' = [requests EXCEPT ![c] = {q}]
    BY <1>1
  <1>4. requests' \in [Client -> SUBSET RequestOf]
    BY <1>2, <1>3
  <1>5. requests'[c] = {q} /\ \A d \in Client : d # c => requests'[d] = requests[d]
    BY <1>2, <1>3
  <1>6. UNCHANGED flushing => Alone'
    BY <1>1, <1>5 DEF Base, Alone
  <1>. QED
    BY <1>3, <1>4, <1>6

\* The answer to a request that was committed over version v.
DoneOver(r, v) == [r EXCEPT !.phase = "done", !.version = v + 1, !.rebased = r.base # v]

LEMMA DoneRequest ==
  ASSUME NEW r \in RequestOf, NEW v \in Nat
  PROVE  /\ DoneOver(r, v) \in RequestOf /\ DoneOver(r, v).phase = "done"
         /\ DoneOver(r, v).version = v + 1 /\ DoneOver(r, v).edits = r.edits
         /\ DoneOver(r, v).base = r.base /\ DoneOver(r, v).own = r.own
         /\ DoneOver(r, v).rebased <=> r.base # v
  <1>1. \A b \in BOOLEAN, w \in Nat :
          [r EXCEPT !.phase = "done", !.version = w, !.rebased = b] \in RequestOf
    BY DEF RequestOf, Phase
  <1>2. (r.base # v) \in BOOLEAN /\ v + 1 \in Nat
    OBVIOUS
  <1>3. DoneOver(r, v) \in RequestOf
    BY <1>1, <1>2, Zenon DEF DoneOver
  <1>4. /\ DoneOver(r, v).phase = "done" /\ DoneOver(r, v).version = v + 1
        /\ DoneOver(r, v).edits = r.edits /\ DoneOver(r, v).base = r.base
        /\ DoneOver(r, v).own = r.own
    BY DEF RequestOf, DoneOver
  <1>5. DoneOver(r, v).rebased <=> r.base # v
    BY DEF RequestOf, DoneOver
  <1>. QED
    BY <1>3, <1>4, <1>5

LEMMA CommitBase ==
  ASSUME Base, NEW c \in Client, NEW r \in requests[c], Commit(c, r)
  PROVE  Base'
  <1> DEFINE q == DoneOver(r, Version)
  <1>1. Typed /\ r \in RequestOf /\ Version \in Nat /\ r.base \in Nat
    BY RequestTyped, VersionIsNat DEF Base
  <1>2. /\ q \in RequestOf /\ q.phase = "done" /\ q.version = Version + 1 /\ q.edits = r.edits
        /\ q.base = r.base /\ (q.rebased <=> r.base # Version)
    BY <1>1, DoneRequest
  <1>3. /\ log' \in Seq(Seq(Made)) /\ Version' = Version + 1 /\ log'[Version + 1] = r.edits
        /\ \A v \in 1..Version : log'[v] = log[v]
    BY <1>1, CommitGrows DEF Commit
  <1>4. requests' = [requests EXCEPT ![c] = (@ \ {r}) \union {q}]
    BY DEF Commit, DoneOver
  <1> HIDE DEF q
  <1>5. /\ requests' = [requests EXCEPT ![c] = {q}]
        /\ requests' \in [Client -> SUBSET RequestOf] /\ Alone'
    <2>1. UNCHANGED flushing
      BY DEF Commit
    <2>. QED
      BY <1>2, <1>4, <2>1, Becomes
  <1>6. stream' \in [Client -> [on : BOOLEAN, queue : Seq(Made)]]
    <2>1. SUFFICES ASSUME NEW d \in Client
                   PROVE  Published(r.edits)[d] \in [on : BOOLEAN, queue : Seq(Made)]
      BY DEF Commit, Published
    <2>2. stream[d].queue \in Seq(Made) /\ stream[d] \in [on : BOOLEAN, queue : Seq(Made)]
          /\ r.edits \in Seq(Made)
      BY <1>1, RequestTyped DEF Typed
    <2> DEFINE room == IF Buffer - Len(stream[d].queue) < Len(r.edits)
                       THEN Buffer - Len(stream[d].queue) ELSE Len(r.edits)
    <2>3. SubSeq(r.edits, 1, room) \in Seq(Made)
      <3>1. Len(r.edits) \in Nat /\ Len(stream[d].queue) \in Nat
        BY <2>2, LenProperties
      <3>2. room \in Int /\ room <= Len(r.edits)
        BY <3>1, BoundsTyped
      <3> HIDE DEF room
      <3>3. \A i \in 1..room : r.edits[i] \in Made
        BY <2>2, <3>1, <3>2, ElementOfSeq
      <3>. QED
        BY <3>2, <3>3, SubSeqProperties
    <2>4. stream[d].queue \o SubSeq(r.edits, 1, room) \in Seq(Made)
      <3> HIDE DEF room
      <3>. QED
        BY <2>2, <2>3, ConcatProperties
    <2>. QED
      BY <2>2, <2>4 DEF Published
  <1>7. 0..Version \subseteq 0..(Version + 1)
    BY <1>1
  <1>8. Typed'
    BY <1>1, <1>3, <1>5, <1>6, <1>7 DEF Commit, Typed
  <1>9. Answered'
    <2>1. ASSUME NEW d \in Client, d # c, NEW p \in requests[d]
          PROVE  /\ p.phase = "done" => /\ p.version \in 1..Version' /\ log'[p.version] = p.edits
                                        /\ (p.rebased <=> p.base # p.version - 1)
                 /\ p.phase = "read" => p.version \in 0..Version'
      <3>1. /\ p.phase = "done" => /\ p.version \in 1..Version /\ log[p.version] = p.edits
                                   /\ (p.rebased <=> p.base # p.version - 1)
            /\ p.phase = "read" => p.version \in 0..Version
        BY DEF Base, Answered
      <3>2. 1..Version \subseteq 1..(Version + 1) /\ 0..Version \subseteq 0..(Version + 1)
        BY <1>1
      <3>. QED
        BY <1>3, <3>1, <3>2
    <2>2. q.version \in 1..Version' /\ log'[q.version] = q.edits /\ (q.rebased <=> q.base # q.version - 1)
      BY <1>1, <1>2, <1>3
    <2>3. requests'[c] = {q} /\ \A d \in Client : d # c => requests'[d] = requests[d]
      BY <1>5
    <2>. QED
      BY <1>2, <2>1, <2>2, <2>3 DEF Answered
  <1>. QED
    BY <1>5, <1>8, <1>9 DEF Base

LEMMA ConflictBase ==
  ASSUME Base, NEW c \in Client, NEW r \in requests[c], Conflict(c, r) \/ ReadAgain(c, r)
  PROVE  Base'
  <1>1. Typed /\ r \in RequestOf /\ Version \in Nat /\ Version \in 0..Version
    BY RequestTyped, VersionIsNat DEF Base
  <1>2. PICK q \in RequestOf :
          /\ requests' = [requests EXCEPT ![c] = (@ \ {r}) \union {q}]
          /\ q.phase = "conflict" \/ (q.phase = "read" /\ q.version \in 0..Version)
    <2>1. CASE Conflict(c, r)
      <3>1. [r EXCEPT !.phase = "conflict"] \in RequestOf
        BY <1>1 DEF RequestOf, Phase
      <3>. QED
        BY <1>1, <2>1, <3>1 DEF Conflict, RequestOf
    <2>2. CASE ReadAgain(c, r)
      <3>1. [r EXCEPT !.phase = "read", !.version = Version] \in RequestOf
        BY <1>1 DEF RequestOf, Phase
      <3>. QED
        BY <1>1, <2>2, <3>1 DEF ReadAgain, RequestOf
    <2>. QED
      BY <2>1, <2>2
  <1>3. /\ requests' = [requests EXCEPT ![c] = {q}]
        /\ requests' \in [Client -> SUBSET RequestOf] /\ Alone'
    BY <1>2, Becomes DEF Conflict, ReadAgain
  <1>4. Typed' /\ UNCHANGED log
    BY <1>1, <1>3 DEF Conflict, ReadAgain, Typed, Version
  <1>5. Answered'
    <2>1. requests'[c] = {q} /\ \A d \in Client : d # c => requests'[d] = requests[d]
      BY <1>1, <1>3 DEF Typed
    <2>. QED
      BY <1>2, <1>4, <2>1 DEF Base, Answered, Version
  <1>. QED
    BY <1>3, <1>4, <1>5 DEF Base

LEMMA UsedTyped ==
  ASSUME Typed, \/ used' = [used EXCEPT !.troubles = @ + 1, !.lost = TRUE]
                \/ used' = [used EXCEPT !.troubles = @ + 1]
  PROVE  used' \in [edits : [Client -> Nat], troubles : Nat, lost : BOOLEAN]
         /\ used'.edits = used.edits
  <1>1. used \in [edits : [Client -> Nat], troubles : Nat, lost : BOOLEAN]
    BY DEF Typed
  <1>2. used.edits \in [Client -> Nat] /\ used.troubles \in Nat /\ used.lost \in BOOLEAN
    BY <1>1
  <1>3. \/ used' = [edits |-> used.edits, troubles |-> used.troubles + 1, lost |-> TRUE]
        \/ used' = [edits |-> used.edits, troubles |-> used.troubles + 1, lost |-> used.lost]
    BY <1>1
  <1>4. used.troubles + 1 \in Nat
    BY <1>2
  <1>5. \A edits \in [Client -> Nat], troubles \in Nat, lost \in BOOLEAN :
          /\ [edits |-> edits, troubles |-> troubles, lost |-> lost]
               \in [edits : [Client -> Nat], troubles : Nat, lost : BOOLEAN]
          /\ [edits |-> edits, troubles |-> troubles, lost |-> lost].edits = edits
    OBVIOUS
  <1>. QED
    BY <1>2, <1>3, <1>4, <1>5, Zenon

\* The request of a page is over.
LEMMA Over ==
  ASSUME Base, NEW c \in Client, NEW r \in requests[c], Done(c, r), UNCHANGED log
  PROVE  /\ requests' = [requests EXCEPT ![c] = {}]
         /\ requests' \in [Client -> SUBSET RequestOf] /\ flushing' \in [Client -> BOOLEAN]
         /\ Alone' /\ Answered'
  <1>1. requests[c] = {r}
    BY DEF Base, Alone
  <1>2. requests \in [Client -> SUBSET RequestOf] /\ flushing \in [Client -> BOOLEAN]
    BY DEF Base, Typed
  <1>3. requests' = [requests EXCEPT ![c] = {}] /\ flushing' = [flushing EXCEPT ![c] = FALSE]
    BY <1>1 DEF Done
  <1>4. requests' \in [Client -> SUBSET RequestOf] /\ flushing' \in [Client -> BOOLEAN]
    BY <1>2, <1>3
  <1>5. /\ requests'[c] = {} /\ \A d \in Client : d # c => requests'[d] = requests[d]
        /\ ~flushing'[c] /\ \A d \in Client : d # c => flushing'[d] = flushing[d]
    BY <1>2, <1>3
  <1>6. Alone'
    BY <1>5 DEF Base, Alone
  <1>7. Answered'
    BY <1>5 DEF Base, Answered, Version
  <1>. QED
    BY <1>3, <1>4, <1>6, <1>7

LEMMA Replaced ==
  ASSUME Typed, NEW c \in Client, NEW v \in 0..Version, ApplyAuthoritative(c, v)
  PROVE  /\ page' \in [Client -> [version : 0..Version, view : Seq(Made), loaded : 0..Version]]
         /\ pending' \in [Client -> Seq(Made)] /\ astray' \subseteq Client
         /\ page'[c].version = v /\ page'[c].view = Prefix(v) /\ pending'[c] = <<>>
         /\ \A d \in Client : d # c => page'[d] = page[d] /\ pending'[d] = pending[d]
  <1>1. Prefix(v) \in Seq(Made)
    BY CommittedTyped
  <1>2. /\ page \in [Client -> [version : 0..Version, view : Seq(Made), loaded : 0..Version]]
        /\ pending \in [Client -> Seq(Made)] /\ astray \subseteq Client
    BY DEF Typed
  <1>3. /\ page' = [page EXCEPT ![c].version = v, ![c].view = Prefix(v)]
        /\ pending' = [pending EXCEPT ![c] = <<>>]
        /\ Adrift(c, ~Complete(c, v))
    BY DEF ApplyAuthoritative
  <1>4. page' \in [Client -> [version : 0..Version, view : Seq(Made), loaded : 0..Version]]
    BY <1>1, <1>2, <1>3
  <1>5. pending' \in [Client -> Seq(Made)]
    BY <1>2, <1>3, EmptySeq
  <1>6. astray' \subseteq Client
    BY <1>2, <1>3 DEF Adrift
  <1>7. /\ page'[c].version = v /\ page'[c].view = Prefix(v) /\ pending'[c] = <<>>
        /\ \A d \in Client : d # c => page'[d] = page[d] /\ pending'[d] = pending[d]
    BY <1>2, <1>3
  <1>. QED
    BY <1>4, <1>5, <1>6, <1>7

LEMMA SucceedBase ==
  ASSUME Base, NEW c \in Client, NEW r \in requests[c], Succeed(c, r)
  PROVE  Base'
  <1>1. Typed /\ r.version \in 0..Version
    BY DEF Base, Answered, Succeed
  <1>2. /\ requests' \in [Client -> SUBSET RequestOf] /\ flushing' \in [Client -> BOOLEAN]
        /\ Alone' /\ Answered'
    BY Over DEF Succeed
  <1>3. /\ page' \in [Client -> [version : 0..Version, view : Seq(Made), loaded : 0..Version]]
        /\ pending' \in [Client -> Seq(Made)] /\ astray' \subseteq Client
    <2>1. CASE r.own /\ r.rebased
      BY <1>1, <2>1, Replaced DEF Succeed
    <2>2. CASE ~(r.own /\ r.rebased)
      <3>1. /\ page' = [page EXCEPT ![c].version = IF r.own THEN r.version ELSE @]
            /\ UNCHANGED <<pending, astray>>
        BY <2>2 DEF Succeed
      <3>. QED
        BY <1>1, <3>1 DEF Typed
    <2>. QED
      BY <2>1, <2>2
  <1>4. failed' \in [Client -> SUBSET Made]
    BY <1>1 DEF Succeed, Typed
  <1>. QED
    BY <1>1, <1>2, <1>3, <1>4 DEF Base, Typed, Succeed, Version

LEMMA ResyncBase ==
  ASSUME Base, NEW c \in Client, NEW r \in requests[c], Resync(c, r)
  PROVE  Base'
  <1>1. Typed /\ r.version \in 0..Version
    BY DEF Base, Answered, Resync
  <1>2. /\ requests' \in [Client -> SUBSET RequestOf] /\ flushing' \in [Client -> BOOLEAN]
        /\ Alone' /\ Answered'
    BY Over DEF Resync
  <1>3. /\ page' \in [Client -> [version : 0..Version, view : Seq(Made), loaded : 0..Version]]
        /\ pending' \in [Client -> Seq(Made)] /\ astray' \subseteq Client
    <2>1. CASE r.own
      BY <1>1, <2>1, Replaced DEF Resync
    <2>2. CASE ~r.own
      BY <1>1, <2>2 DEF Resync, Typed
    <2>. QED
      BY <2>1, <2>2
  <1>. QED
    BY <1>1, <1>2, <1>3 DEF Base, Typed, Resync, Version

LEMMA FailBase ==
  ASSUME Base, NEW c \in Client, NEW r \in requests[c], Fail(c, r) \/ FailResync(c, r)
  PROVE  Base'
  <1>1. Typed /\ r.edits \in Seq(Made)
    BY RequestTyped DEF Base
  <1>2. /\ requests' \in [Client -> SUBSET RequestOf] /\ flushing' \in [Client -> BOOLEAN]
        /\ Alone' /\ Answered'
    BY Over DEF Fail, FailResync
  <1>3. ToSet(r.edits) \subseteq Made
    BY <1>1, ElementOfSeq, LenProperties DEF ToSet
  <1>4. failed' \in [Client -> SUBSET Made]
    <2>1. failed' = [failed EXCEPT ![c] = @ \union ToSet(r.edits)] \/ failed' = failed
      BY DEF Fail, FailResync
    <2>2. failed \in [Client -> SUBSET Made]
      BY <1>1 DEF Typed
    <2>3. failed[c] \union ToSet(r.edits) \in SUBSET Made
      BY <1>3, <2>2
    <2>. QED
      BY <2>1, <2>2, <2>3
  <1>5. used' \in [edits : [Client -> Nat], troubles : Nat, lost : BOOLEAN] /\ astray' \subseteq Client
    <2>1. /\ used' = [used EXCEPT !.troubles = @ + 1, !.lost = TRUE]
          /\ astray' = astray \union {c}
      BY DEF Fail, FailResync, Lose, Adrift
    <2>. QED
      BY <1>1, <2>1, UsedTyped DEF Typed
  <1>. QED
    BY <1>1, <1>2, <1>4, <1>5 DEF Base, Typed, Fail, FailResync, Version

LEMMA EventsBase ==
  ASSUME Base, NEW c \in Client,
         \/ FlushNothing(c) \/ Online(c) \/ Subscribe(c) \/ Disconnect(c) \/ Deliver(c) \/ Reread(c)
  PROVE  Base'
  <1>1. Typed
    BY DEF Base
  <1>2. UNCHANGED <<log, requests, flushing>>
    BY DEF FlushNothing, Online, Subscribe, Disconnect, Deliver, Reread
  <1>3. Alone' /\ Answered'
    BY <1>2 DEF Base, Alone, Answered, Version
  <1>4. CASE FlushNothing(c) \/ Online(c)
    BY <1>1, <1>3, <1>4 DEF FlushNothing, Online, Typed, Base, Version
  <1>5. CASE Subscribe(c)
    BY <1>1, <1>3, <1>5 DEF Subscribe, Typed, Base, Version
  <1>6. CASE Disconnect(c)
    <2>1. stream' \in [Client -> [on : BOOLEAN, queue : Seq(Made)]]
      BY <1>1, <1>6, EmptySeq DEF Disconnect, Typed
    <2>2. used' \in [edits : [Client -> Nat], troubles : Nat, lost : BOOLEAN] /\ astray' \subseteq Client
      <3>1. /\ used' = [used EXCEPT !.troubles = @ + 1, !.lost = TRUE]
            /\ astray' \in {astray \union {c}, astray \ {c}}
        BY <1>6 DEF Disconnect, Adrift
      <3>. QED
        BY <1>1, <3>1, UsedTyped DEF Typed
    <2>. QED
      BY <1>1, <1>3, <1>6, <2>1, <2>2 DEF Disconnect, Typed, Base, Version
  <1>7. CASE Deliver(c)
    <2>1. /\ stream[c].queue \in Seq(Made) /\ stream[c].queue # <<>> /\ page[c].view \in Seq(Made)
          /\ stream' = [stream EXCEPT ![c].queue = Tail(@)]
          /\ page' = [page EXCEPT ![c].view = Append(@, Head(stream[c].queue))]
      BY <1>1, <1>7 DEF Deliver, Typed
    <2>2. /\ Tail(stream[c].queue) \in Seq(Made)
          /\ Append(page[c].view, Head(stream[c].queue)) \in Seq(Made)
      BY <2>1, HeadTailProperties, AppendProperties
    <2>3. stream' \in [Client -> [on : BOOLEAN, queue : Seq(Made)]]
      BY <1>1, <2>1, <2>2 DEF Typed
    <2>4. page' \in [Client -> [version : 0..Version, view : Seq(Made), loaded : 0..Version]]
      BY <1>1, <2>1, <2>2 DEF Typed
    <2>. QED
      BY <1>1, <1>3, <1>7, <2>3, <2>4 DEF Deliver, Typed, Base, Version
  <1>8. CASE Reread(c)
    <2>1. reread' \in [Client -> 0..Version \union {None}]
      BY <1>1, <1>8, VersionIsNat DEF Reread, Typed
    <2>2. used' \in [edits : [Client -> Nat], troubles : Nat, lost : BOOLEAN]
      <3>1. used' = [used EXCEPT !.troubles = @ + 1]
        BY <1>8 DEF Reread
      <3>. QED
        BY <1>1, <3>1, UsedTyped
    <2>. QED
      BY <1>1, <1>3, <1>8, <2>1, <2>2 DEF Reread, Typed, Base, Version
  <1>. QED
    BY <1>4, <1>5, <1>6, <1>7, <1>8

\* The requests of a kernel that was replaced.
Disowned(S) == {[r EXCEPT !.own = FALSE] : r \in S}

LEMMA DisownedAre ==
  ASSUME NEW S \in SUBSET RequestOf
  PROVE  /\ Disowned(S) \in SUBSET RequestOf
         /\ \A q \in Disowned(S) : \E r \in S :
              /\ q = [r EXCEPT !.own = FALSE]
              /\ ~q.own /\ q.edits = r.edits /\ q.phase = r.phase /\ q.base = r.base
              /\ q.version = r.version /\ (q.rebased <=> r.rebased)
         /\ Disowned(S) = {} <=> S = {}
  <1>1. ASSUME NEW r \in S
        PROVE  LET q == [r EXCEPT !.own = FALSE] IN
               /\ q \in RequestOf
               /\ ~q.own /\ q.edits = r.edits /\ q.phase = r.phase /\ q.base = r.base
               /\ q.version = r.version /\ (q.rebased <=> r.rebased)
    <2> DEFINE q == [r EXCEPT !.own = FALSE]
    <2>1. r \in RequestOf
      OBVIOUS
    <2>2. q \in RequestOf
      BY <2>1 DEF RequestOf
    <2>3. /\ ~q.own /\ q.edits = r.edits /\ q.phase = r.phase /\ q.base = r.base
          /\ q.version = r.version /\ q.rebased = r.rebased
      BY <2>1 DEF RequestOf
    <2>. QED
      BY <2>2, <2>3
  <1>2. Disowned(S) \in SUBSET RequestOf
    BY <1>1 DEF Disowned
  <1>3. ASSUME NEW q \in Disowned(S)
        PROVE  \E r \in S :
              /\ q = [r EXCEPT !.own = FALSE]
              /\ ~q.own /\ q.edits = r.edits /\ q.phase = r.phase /\ q.base = r.base
              /\ q.version = r.version /\ (q.rebased <=> r.rebased)
    <2>1. PICK r \in S : q = [r EXCEPT !.own = FALSE]
      BY DEF Disowned
    <2>. QED
      BY <1>1, <2>1
  <1>4. Disowned(S) = {} <=> S = {}
    BY DEF Disowned
  <1>. QED
    BY <1>2, <1>3, <1>4

LEMMA RebuildBase ==
  ASSUME Base, NEW c \in Client, Rebuild(c)
  PROVE  Base'
  <1> DEFINE v == reread[c]
  <1>1. Typed /\ v \in 0..Version /\ UNCHANGED log
    BY DEF Base, Typed, Rebuild
  <1>2. reread' \in [Client -> 0..Version \union {None}]
    BY <1>1 DEF Typed, Rebuild
  <1>3. CASE v = page[c].loaded
    BY <1>1, <1>2, <1>3 DEF Rebuild, Base, Typed, Alone, Answered, Version
  <1>4. CASE v # page[c].loaded
    <2>1. /\ page' = [page EXCEPT ![c] = [version |-> v, view |-> Prefix(v), loaded |-> v]]
          /\ pending' = [pending EXCEPT ![c] = <<>>]
          /\ left' = [left EXCEPT ![c] =
               IF due[c] THEN [Outgoing(c) EXCEPT !.own = FALSE] ELSE None]
          /\ requests' = [requests EXCEPT ![c] = Disowned(@)]
          /\ stream' = [stream EXCEPT ![c] = [on |-> FALSE, queue |-> <<>>]]
          /\ Adrift(c, v < Version)
      BY <1>4 DEF Rebuild, Disowned
    <2>2. page' \in [Client -> [version : 0..Version, view : Seq(Made), loaded : 0..Version]]
      <3>1. Prefix(v) \in Seq(Made)
        BY <1>1, CommittedTyped
      <3>. QED
        BY <1>1, <2>1, <3>1 DEF Typed
    <2>3. [Outgoing(c) EXCEPT !.own = FALSE] \in Parcel
      <3>1. Outgoing(c) \in [base : Nat, edits : Seq(Made), own : BOOLEAN]
        <4>1. CASE left[c] # None
          BY <1>1, <4>1, SentRequest DEF Parcel
        <4>2. CASE left[c] = None
          <5>1. page[c].version \in Nat /\ pending[c] \in Seq(Made)
            BY <1>1, VersionIsNat DEF Typed
          <5>2. Outgoing(c) = [base |-> page[c].version, edits |-> pending[c], own |-> TRUE]
            BY <4>2 DEF Outgoing
          <5>. QED
            BY <5>1, <5>2
        <4>. QED
          BY <4>1, <4>2
      <3>. QED
        BY <3>1 DEF Parcel
    <2>4. left' \in [Client -> Parcel \union {None}]
      BY <1>1, <2>1, <2>3 DEF Typed
    <2>5. requests[c] \in SUBSET RequestOf /\ requests \in [Client -> SUBSET RequestOf]
      BY <1>1 DEF Typed
    <2>6. /\ requests' \in [Client -> SUBSET RequestOf] /\ requests'[c] = Disowned(requests[c])
          /\ \A d \in Client : d # c => requests'[d] = requests[d]
      BY <2>1, <2>5, DisownedAre
    <2>7. /\ pending' \in [Client -> Seq(Made)] /\ astray' \subseteq Client
          /\ stream' \in [Client -> [on : BOOLEAN, queue : Seq(Made)]]
      BY <1>1, <2>1, EmptySeq DEF Typed, Adrift
    <2>8. Typed'
      BY <1>1, <1>2, <2>2, <2>4, <2>6, <2>7 DEF Rebuild, Typed, Version
    <2>9. Alone'
      <3>1. \A r, q \in requests'[c] : r = q
        <4>1. \A r, q \in requests[c] : r = q
          BY DEF Base, Alone
        <4>. QED
          BY <2>6, <4>1 DEF Disowned
      <3>2. flushing'[c] <=> requests'[c] # {}
        BY <2>5, <2>6, DisownedAre DEF Base, Alone, Rebuild
      <3>. QED
        BY <2>6, <3>1, <3>2 DEF Base, Alone, Rebuild
    <2>10. Answered'
      <3>1. ASSUME NEW q \in requests'[c]
            PROVE  /\ q.phase = "done" => /\ q.version \in 1..Version /\ log[q.version] = q.edits
                                          /\ (q.rebased <=> q.base # q.version - 1)
                   /\ q.phase = "read" => q.version \in 0..Version
        <4>1. PICK r \in requests[c] :
                /\ q.edits = r.edits /\ q.phase = r.phase /\ q.base = r.base
                /\ q.version = r.version /\ (q.rebased <=> r.rebased)
          BY <2>5, <2>6, DisownedAre
        <4>. QED
          BY <4>1 DEF Base, Answered
      <3>. QED
        BY <1>1, <2>6, <3>1 DEF Base, Answered, Version
    <2>. QED
      BY <2>8, <2>9, <2>10 DEF Base
  <1>. QED
    BY <1>3, <1>4

LEMMA NextBase == Base /\ [Next]_vars => Base'
  <1>. SUFFICES ASSUME Base, [Next]_vars PROVE Base'
    OBVIOUS
  <1>1. CASE UNCHANGED vars
    BY <1>1 DEF vars, Base, Typed, Alone, Answered, Version
  <1>2. CASE Next
    <2>1. PICK c \in Client :
            \/ \E f \in Field : Dispatch(c, f)
            \/ Flush(c) \/ FlushNothing(c) \/ Respond(c) \/ Receive(c) \/ Online(c)
            \/ Subscribe(c) \/ Disconnect(c) \/ Deliver(c) \/ Reread(c) \/ Rebuild(c)
      BY <1>2 DEF Next
    <2>2. CASE Respond(c)
      BY <2>2, CommitBase, ConflictBase DEF Respond
    <2>3. CASE Receive(c)
      BY <2>3, ConflictBase, SucceedBase, ResyncBase, FailBase DEF Receive
    <2>. QED
      BY <2>1, <2>2, <2>3, DispatchBase, FlushBase, EventsBase, RebuildBase
  <1>. QED
    BY <1>1, <1>2

-----------------------------------------------------------------------------
(***************************************************************************)
(* Edits are committed in the order in which a page makes them: a batch is *)
(* told once, and what waits behind it is younger.                         *)
(***************************************************************************)
\* What CommitsInOrder says of a sequence.
InOrder(s) == \A i, j \in DOMAIN s : i < j /\ s[i].by = s[j].by => s[i].n < s[j].n

\* What a page has told the server is in order, and so is what it has yet to tell.
Ordered == InLine /\ InOrder(Committed)

LEMMA MadeNumbered ==
  ASSUME NEW s \in Seq(Made)
  PROVE  /\ \A i \in DOMAIN s : s[i].n \in Nat
         /\ \A d \in ToSet(s) : d.n \in Nat
  <1>1. \A d \in Made : d.n \in Nat
    BY DEF Made
  <1>2. \A i \in DOMAIN s : s[i] \in Made
    BY ElementOfSeq, LenProperties
  <1>. QED
    BY <1>1, <1>2 DEF ToSet

LEMMA InitOrdered == Init => Ordered
  <1>. SUFFICES ASSUME Init PROVE Ordered
    OBVIOUS
  <1>1. Committed = <<>>
    <2>1. log = <<>> /\ Version = 0
      BY EmptySeq DEF Init, Version
    <2>2. Committed = UpTo(log, 0)
      BY <2>1 DEF Committed, Prefix, UpTo
    <2>. QED
      BY <2>2, UpToNone
  <1>2. ToSet(Committed) = {}
    BY <1>1 DEF ToSet
  <1>. QED
    BY <1>1, <1>2 DEF Init, Ordered, InLine, InOrder, Follows, Before, ToSet

LEMMA EmptyFollows ==
  ASSUME NEW c, NEW told, NEW top, NEW s
  PROVE  Follows(c, <<>>, told, top) /\ Before(s, <<>>)
  BY DEF Follows, Before, ToSet

\* Nothing new is said.
LEMMA OrderedKept ==
  ASSUME Ordered, UNCHANGED log, used'.edits = used.edits,
         \A c \in Client :
           /\ pending'[c] = pending[c] \/ pending'[c] = <<>>
           /\ left'[c] = left[c] \/ left'[c] = None
           /\ \A r \in requests'[c] : r.phase = "sent" =>
                \E q \in requests[c] : q.phase = "sent" /\ q.edits = r.edits
  PROVE  Ordered'
  <1>1. Committed' = Committed
    BY DEF Committed, Prefix, Version
  <1>2. ASSUME NEW c \in Client
        PROVE  /\ \A e \in ToSet(Committed) : e.by = c => e.n <= used.edits[c]
               /\ Follows(c, pending'[c], Committed, used.edits[c])
               /\ left'[c] # None => /\ Follows(c, left'[c].edits, Committed, used.edits[c])
                                     /\ Before(left'[c].edits, pending'[c])
               /\ \A r \in requests'[c] : r.phase = "sent" =>
                    /\ Follows(c, r.edits, Committed, used.edits[c])
                    /\ Before(r.edits, pending'[c])
                    /\ left'[c] # None => Before(r.edits, left'[c].edits)
    BY EmptyFollows DEF Ordered, InLine
  <1>. QED
    BY <1>1, <1>2 DEF Ordered, InLine

LEMMA DispatchOrdered ==
  ASSUME Base, Ordered, NEW c \in Client, NEW f \in Field, Dispatch(c, f)
  PROVE  Ordered'
  <1> DEFINE top == used.edits[c]
             e == [by |-> c, n |-> top + 1, field |-> f]
  <1>1. Typed
    BY DEF Base
  <1>2. top \in Nat /\ e \in Made /\ pending[c] \in Seq(Made) /\ e.by = c /\ e.n = top + 1
    <2>1. used \in [edits : [Client -> Nat], troubles : Nat, lost : BOOLEAN]
      BY <1>1 DEF Typed
    <2>2. top \in Nat /\ top + 1 \in Nat
      BY <2>1
    <2>. QED
      BY <1>1, <2>2 DEF Typed, Made
  <1>3. /\ pending' = [pending EXCEPT ![c] = Append(@, e)]
        /\ used' = [used EXCEPT !.edits = [used.edits EXCEPT ![c] = top + 1]]
        /\ UNCHANGED <<log, left, requests>>
    BY DEF Dispatch
  <1> HIDE DEF e, top
  <1>4. /\ pending'[c] = Append(pending[c], e) /\ used'.edits[c] = top + 1
        /\ \A d \in Client : d # c => pending'[d] = pending[d] /\ used'.edits[d] = used.edits[d]
    <2>1. used \in [edits : [Client -> Nat], troubles : Nat, lost : BOOLEAN]
      BY <1>1 DEF Typed
    <2>2. used'.edits = [used.edits EXCEPT ![c] = top + 1] /\ used.edits \in [Client -> Nat]
      BY <1>3, <2>1
    <2>. QED
      BY <1>1, <1>3, <2>2 DEF Typed
  <1>5. Committed' = Committed
    BY <1>3 DEF Committed, Prefix, Version
  <1>6. \A s \in Seq(Made) : Follows(c, s, Committed, top) => Follows(c, s, Committed, top + 1)
    <2> SUFFICES ASSUME NEW s \in Seq(Made), Follows(c, s, Committed, top)
                 PROVE  Follows(c, s, Committed, top + 1)
      OBVIOUS
    <2>1. \A i \in DOMAIN s : s[i].n \in Nat
      BY MadeNumbered
    <2>2. \A i \in DOMAIN s : s[i].n <= top + 1
      BY <1>2, <2>1 DEF Follows
    <2>. QED
      BY <2>2 DEF Follows
  <1>7. \A s \in Seq(Made) : Follows(c, s, Committed, top) => \A d \in ToSet(s) : d.n < top + 1
    <2> SUFFICES ASSUME NEW s \in Seq(Made), Follows(c, s, Committed, top), NEW i \in DOMAIN s
                 PROVE  s[i].n < top + 1
      BY DEF ToSet
    <2>1. s[i].n \in Nat /\ s[i].n <= top
      BY MadeNumbered DEF Follows
    <2>. QED
      BY <1>2, <2>1
  <1>8. /\ \A d \in ToSet(Committed) : d.by = c => d.n <= top
        /\ Follows(c, pending[c], Committed, top)
        /\ left[c] # None => /\ Follows(c, left[c].edits, Committed, top)
                             /\ Before(left[c].edits, pending[c])
        /\ \A r \in requests[c] : r.phase = "sent" =>
             /\ Follows(c, r.edits, Committed, top)
             /\ Before(r.edits, pending[c])
             /\ left[c] # None => Before(r.edits, left[c].edits)
    BY DEF Ordered, InLine, top
  <1>9. \A d \in ToSet(Committed) : d.n \in Nat
    <2>1. Committed \in Seq(Made)
      BY <1>1, CommittedTyped
    <2>. QED
      BY <2>1, MadeNumbered
  <1>10. Follows(c, Append(pending[c], e), Committed, top + 1)
    <2> DEFINE p == Append(pending[c], e)
               k == Len(pending[c])
    <2>1. /\ p \in Seq(Made) /\ Len(p) = k + 1 /\ p[k + 1] = e /\ k \in Nat
          /\ \A i \in 1..k : p[i] = pending[c][i]
          /\ DOMAIN p = 1..(k + 1) /\ DOMAIN pending[c] = 1..k
      BY <1>2, AppendProperties, LenProperties
    <2>2. \A i \in 1..k : pending[c][i].n <= top /\ pending[c][i].n \in Nat
      BY <1>2, <1>8, <2>1, MadeNumbered DEF Follows
    <2> HIDE DEF p, k
    <2>3. ASSUME NEW i \in DOMAIN p
          PROVE  /\ p[i].by = c /\ p[i].n <= top + 1
                 /\ \A j \in DOMAIN p : i < j => p[i].n < p[j].n
                 /\ \A d \in ToSet(Committed) : d.by = c => d.n < p[i].n
      <3>1. CASE i = k + 1
        <4>1. p[i] = e
          BY <2>1, <3>1
        <4>. QED
          BY <1>2, <1>8, <1>9, <2>1, <3>1, <4>1
      <3>2. CASE i # k + 1
        <4>1. i \in 1..k /\ p[i] = pending[c][i] /\ i \in DOMAIN pending[c]
          BY <2>1, <3>2
        <4>2. /\ p[i].by = c /\ p[i].n <= top /\ p[i].n \in Nat
              /\ \A j \in 1..k : i < j => p[i].n < pending[c][j].n
              /\ \A d \in ToSet(Committed) : d.by = c => d.n < p[i].n
          BY <1>8, <2>1, <2>2, <4>1 DEF Follows
        <4>3. ASSUME NEW j \in DOMAIN p, i < j PROVE p[i].n < p[j].n
          <5>1. CASE j = k + 1
            BY <1>2, <2>1, <4>2, <5>1
          <5>2. CASE j # k + 1
            BY <2>1, <4>2, <4>3, <5>2
          <5>. QED
            BY <5>1, <5>2
        <4>. QED
          BY <1>2, <4>2, <4>3
      <3>. QED
        BY <3>1, <3>2
    <2>. QED
      BY <2>3 DEF Follows, p
  <1>11. \A s \in Seq(Made) : Follows(c, s, Committed, top) /\ Before(s, pending[c])
                              => Before(s, Append(pending[c], e))
    <2>1. ToSet(Append(pending[c], e)) = ToSet(pending[c]) \union {e}
      BY <1>2, AppendContents
    <2>. QED
      BY <1>2, <1>7, <2>1 DEF Before
  <1>12. /\ left[c] # None => left[c].edits \in Seq(Made)
         /\ \A r \in requests[c] : r.edits \in Seq(Made)
    BY <1>1, RequestTyped DEF Typed, Parcel
  <1>13. ASSUME NEW d \in Client
         PROVE  /\ \A x \in ToSet(Committed) : x.by = d => x.n <= used'.edits[d]
                /\ Follows(d, pending'[d], Committed, used'.edits[d])
                /\ left[d] # None => /\ Follows(d, left[d].edits, Committed, used'.edits[d])
                                     /\ Before(left[d].edits, pending'[d])
                /\ \A r \in requests[d] : r.phase = "sent" =>
                     /\ Follows(d, r.edits, Committed, used'.edits[d])
                     /\ Before(r.edits, pending'[d])
                     /\ left[d] # None => Before(r.edits, left[d].edits)
    <2>1. CASE d # c
      BY <1>4, <2>1 DEF Ordered, InLine
    <2>2. CASE d = c
      <3>1. \A x \in ToSet(Committed) : x.by = c => x.n <= top + 1
        BY <1>2, <1>8, <1>9
      <3>2. left[c] # None => /\ Follows(c, left[c].edits, Committed, top + 1)
                              /\ Before(left[c].edits, Append(pending[c], e))
        BY <1>6, <1>8, <1>11, <1>12
      <3>3. \A r \in requests[c] : r.phase = "sent" =>
                     /\ Follows(c, r.edits, Committed, top + 1)
                     /\ Before(r.edits, Append(pending[c], e))
        BY <1>6, <1>8, <1>11, <1>12
      <3>. QED
        BY <1>4, <1>8, <1>10, <2>2, <3>1, <3>2, <3>3
    <2>. QED
      BY <2>1, <2>2
  <1>. QED
    BY <1>3, <1>5, <1>13 DEF Ordered, InLine

LEMMA FlushOrdered ==
  ASSUME Base, Ordered, NEW c \in Client, Flush(c)
  PROVE  Ordered'
  <1> DEFINE q == Request(c)
  <1>1. Typed /\ requests[c] = {}
    BY DEF Base, Alone, Flush
  <1>2. /\ requests' = [requests EXCEPT ![c] = {q}] /\ left' = [left EXCEPT ![c] = None]
        /\ pending' = [pending EXCEPT ![c] = IF left[c] = None THEN <<>> ELSE @]
        /\ UNCHANGED <<log, used>>
    BY <1>1 DEF Flush, Send
  <1>3. /\ q.edits = Outgoing(c).edits
        /\ left[c] # None => Outgoing(c) = left[c]
        /\ left[c] = None => Outgoing(c).edits = pending[c]
    BY <1>1, SentRequest
  <1> HIDE DEF q
  <1>4. /\ requests'[c] = {q} /\ left'[c] = None
        /\ pending'[c] = (IF left[c] = None THEN <<>> ELSE pending[c])
        /\ \A d \in Client : d # c => /\ requests'[d] = requests[d] /\ left'[d] = left[d]
                                      /\ pending'[d] = pending[d]
    BY <1>1, <1>2 DEF Typed
  <1>5. Committed' = Committed
    BY <1>2 DEF Committed, Prefix, Version
  <1>6. /\ Follows(c, q.edits, Committed, used.edits[c]) /\ Before(q.edits, pending'[c])
        /\ Follows(c, pending'[c], Committed, used.edits[c])
    BY <1>3, <1>4, EmptyFollows DEF Ordered, InLine
  <1>7. ASSUME NEW d \in Client
        PROVE  /\ \A x \in ToSet(Committed) : x.by = d => x.n <= used.edits[d]
               /\ Follows(d, pending'[d], Committed, used.edits[d])
               /\ left'[d] # None => /\ Follows(d, left'[d].edits, Committed, used.edits[d])
                                     /\ Before(left'[d].edits, pending'[d])
               /\ \A r \in requests'[d] : r.phase = "sent" =>
                    /\ Follows(d, r.edits, Committed, used.edits[d])
                    /\ Before(r.edits, pending'[d])
                    /\ left'[d] # None => Before(r.edits, left'[d].edits)
    <2>1. CASE d # c
      BY <1>4, <2>1 DEF Ordered, InLine
    <2>2. CASE d = c
      BY <1>4, <1>6, <2>2 DEF Ordered, InLine
    <2>. QED
      BY <2>1, <2>2
  <1>. QED
    BY <1>2, <1>5, <1>7 DEF Ordered, InLine

\* What is told next follows what was told, and what waits behind it follows both.
LEMMA TellsNext ==
  ASSUME NEW told \in Seq(Made), NEW s \in Seq(Made), NEW c, NEW top \in Nat,
         InOrder(told), Follows(c, s, told, top), \A e \in ToSet(told) : e.by = c => e.n <= top
  PROVE  /\ InOrder(told \o s)
         /\ \A e \in ToSet(told \o s) : e.by = c => e.n <= top
         /\ \A t \in Seq(Made) : Follows(c, t, told, top) /\ Before(s, t)
                                 => Follows(c, t, told \o s, top)
         /\ \A d, t, up : d # c => /\ Follows(d, t, told, up) => Follows(d, t, told \o s, up)
                                   /\ \A e \in ToSet(told \o s) : e.by = d => e \in ToSet(told)
  <1> DEFINE u == told \o s
  <1>1. /\ u \in Seq(Made) /\ Len(u) = Len(told) + Len(s)
        /\ \A i \in 1..(Len(told) + Len(s)) :
             u[i] = IF i <= Len(told) THEN told[i] ELSE s[i - Len(told)]
    BY ConcatProperties
  <1>2. /\ Len(told) \in Nat /\ Len(s) \in Nat
        /\ DOMAIN told = 1..Len(told) /\ DOMAIN s = 1..Len(s) /\ DOMAIN u = 1..Len(u)
    BY <1>1, LenProperties
  <1>3. ToSet(u) = ToSet(told) \union ToSet(s)
    BY ConcatContents
  <1> HIDE DEF u
  <1>4. \A e \in ToSet(s) : e.by = c /\ e.n <= top
    BY DEF Follows, ToSet
  <1>5. InOrder(u)
    <2>1. SUFFICES ASSUME NEW i \in DOMAIN u, NEW j \in DOMAIN u, i < j, u[i].by = u[j].by
                   PROVE  u[i].n < u[j].n
      BY DEF InOrder
    <2>2. CASE j <= Len(told)
      <3>1. i \in DOMAIN told /\ j \in DOMAIN told /\ u[i] = told[i] /\ u[j] = told[j]
        BY <1>1, <1>2, <2>1, <2>2
      <3>. QED
        BY <2>1, <3>1 DEF InOrder
    <2>3. CASE j > Len(told) /\ i <= Len(told)
      <3>1. i \in DOMAIN told /\ u[i] = told[i] /\ j - Len(told) \in DOMAIN s
            /\ u[j] = s[j - Len(told)]
        BY <1>1, <1>2, <2>1, <2>3
      <3>2. u[i] \in ToSet(told) /\ u[j].by = c
        BY <3>1 DEF ToSet, Follows
      <3>. QED
        BY <2>1, <3>1, <3>2 DEF Follows
    <2>4. CASE i > Len(told)
      <3>1. /\ i - Len(told) \in DOMAIN s /\ u[i] = s[i - Len(told)]
            /\ j - Len(told) \in DOMAIN s /\ u[j] = s[j - Len(told)]
            /\ i - Len(told) < j - Len(told)
        BY <1>1, <1>2, <2>1, <2>4
      <3>. QED
        BY <3>1 DEF Follows
    <2>. QED
      BY <1>1, <1>2, <2>1, <2>2, <2>3, <2>4
  <1>6. \A t \in Seq(Made) : Follows(c, t, told, top) /\ Before(s, t) => Follows(c, t, u, top)
    <2> SUFFICES ASSUME NEW t \in Seq(Made), Follows(c, t, told, top), Before(s, t),
                        NEW i \in DOMAIN t
                 PROVE  /\ t[i].by = c /\ t[i].n <= top
                        /\ \A j \in DOMAIN t : i < j => t[i].n < t[j].n
                        /\ \A e \in ToSet(u) : e.by = c => e.n < t[i].n
      BY DEF Follows
    <2>1. t[i] \in ToSet(t)
      BY DEF ToSet
    <2>2. \A e \in ToSet(u) : e.by = c => e.n < t[i].n
      BY <1>3, <2>1 DEF Before, Follows
    <2>. QED
      BY <2>2 DEF Follows
  <1>7. \A d, t, up : d # c => /\ Follows(d, t, told, up) => Follows(d, t, u, up)
                               /\ \A e \in ToSet(u) : e.by = d => e \in ToSet(told)
    <2> SUFFICES ASSUME NEW d, NEW t, NEW up, d # c
                 PROVE  /\ Follows(d, t, told, up) => Follows(d, t, u, up)
                        /\ \A e \in ToSet(u) : e.by = d => e \in ToSet(told)
      OBVIOUS
    <2>1. \A e \in ToSet(u) : e.by = d => e \in ToSet(told)
      BY <1>3, <1>4
    <2>. QED
      BY <2>1 DEF Follows
  <1>. QED
    BY <1>3, <1>4, <1>5, <1>6, <1>7 DEF u

LEMMA CommitOrdered ==
  ASSUME Base, Ordered, NEW c \in Client, NEW r \in requests[c], Commit(c, r)
  PROVE  Ordered'
  <1> DEFINE q == DoneOver(r, Version)
             top == used.edits[c]
  <1>1. Typed /\ r \in RequestOf /\ r.edits \in Seq(Made) /\ Version \in Nat
    BY RequestTyped, VersionIsNat DEF Base
  <1>2. q \in RequestOf /\ q.phase = "done"
    BY <1>1, DoneRequest
  <1>3. /\ requests' = [requests EXCEPT ![c] = (@ \ {r}) \union {q}]
        /\ log' = Append(log, r.edits) /\ UNCHANGED <<pending, left, used>> /\ r.phase = "sent"
    BY DEF Commit, DoneOver
  <1> HIDE DEF q
  <1>4. requests'[c] = {q} /\ \A d \in Client : d # c => requests'[d] = requests[d]
    <2>1. requests' = [requests EXCEPT ![c] = {q}]
      BY <1>2, <1>3, Becomes
    <2>. QED
      BY <1>1, <2>1 DEF Typed
  <1>5. Committed' = Committed \o r.edits /\ Committed \in Seq(Made)
    BY <1>1, <1>3, CommitGrows, CommittedTyped
  <1>6. top \in Nat
    <2>1. used \in [edits : [Client -> Nat], troubles : Nat, lost : BOOLEAN]
      BY <1>1 DEF Typed
    <2>. QED
      BY <2>1
  <1>7. /\ InOrder(Committed) /\ \A e \in ToSet(Committed) : e.by = c => e.n <= top
        /\ Follows(c, pending[c], Committed, top)
        /\ left[c] # None => /\ Follows(c, left[c].edits, Committed, top)
                             /\ Before(left[c].edits, pending[c])
        /\ Follows(c, r.edits, Committed, top) /\ Before(r.edits, pending[c])
        /\ left[c] # None => Before(r.edits, left[c].edits)
    BY <1>3 DEF Ordered, InLine
  <1> HIDE DEF top
  <1>8. /\ InOrder(Committed')
        /\ \A e \in ToSet(Committed') : e.by = c => e.n <= top
        /\ \A t \in Seq(Made) : Follows(c, t, Committed, top) /\ Before(r.edits, t)
                                => Follows(c, t, Committed', top)
        /\ \A d, t, up : d # c => /\ Follows(d, t, Committed, up) => Follows(d, t, Committed', up)
                                  /\ \A e \in ToSet(Committed') : e.by = d => e \in ToSet(Committed)
    <2> DEFINE u == Committed \o r.edits
    <2>1. /\ InOrder(u)
          /\ \A e \in ToSet(u) : e.by = c => e.n <= top
          /\ \A t \in Seq(Made) : Follows(c, t, Committed, top) /\ Before(r.edits, t)
                                  => Follows(c, t, u, top)
          /\ \A d, t, up : d # c => /\ Follows(d, t, Committed, up) => Follows(d, t, u, up)
                                    /\ \A e \in ToSet(u) : e.by = d => e \in ToSet(Committed)
      BY <1>1, <1>5, <1>6, <1>7, TellsNext
    <2>2. Committed' = u
      BY <1>5
    <2> HIDE DEF u
    <2>. QED
      BY <2>1, <2>2
  <1>9. pending[c] \in Seq(Made) /\ (left[c] # None => left[c].edits \in Seq(Made))
    BY <1>1 DEF Typed, Parcel
  <1>10. ASSUME NEW d \in Client
         PROVE  /\ \A x \in ToSet(Committed') : x.by = d => x.n <= used.edits[d]
                /\ Follows(d, pending[d], Committed', used.edits[d])
                /\ left[d] # None => /\ Follows(d, left[d].edits, Committed', used.edits[d])
                                     /\ Before(left[d].edits, pending[d])
                /\ \A p \in requests'[d] : p.phase = "sent" =>
                     /\ Follows(d, p.edits, Committed', used.edits[d])
                     /\ Before(p.edits, pending[d])
                     /\ left[d] # None => Before(p.edits, left[d].edits)
    <2>1. CASE d # c
      BY <1>4, <1>8, <2>1 DEF Ordered, InLine
    <2>2. CASE d = c
      BY <1>2, <1>4, <1>7, <1>8, <1>9, <2>2 DEF top
    <2>. QED
      BY <2>1, <2>2
  <1>. QED
    BY <1>3, <1>8, <1>10 DEF Ordered, InLine

LEMMA RebuildOrdered ==
  ASSUME Base, Ordered, NEW c \in Client, Rebuild(c)
  PROVE  Ordered'
  <1>1. Typed /\ UNCHANGED <<log, used>>
    BY DEF Base, Rebuild
  <1>2. CASE reread[c] = page[c].loaded
    BY <1>1, <1>2, OrderedKept DEF Rebuild
  <1>3. CASE reread[c] # page[c].loaded
    <2> DEFINE o == [Outgoing(c) EXCEPT !.own = FALSE]
    <2>1. /\ pending' = [pending EXCEPT ![c] = <<>>]
          /\ left' = [left EXCEPT ![c] = IF due[c] THEN o ELSE None]
          /\ requests' = [requests EXCEPT ![c] = Disowned(@)]
      BY <1>3 DEF Rebuild, Disowned
    <2>2. /\ left[c] # None => o.edits = left[c].edits
          /\ left[c] = None => o.edits = pending[c]
      <3>1. CASE left[c] # None
        <4>1. left[c] \in Parcel /\ Outgoing(c) = left[c]
          BY <1>1, <3>1, SentRequest
        <4>. QED
          BY <3>1, <4>1 DEF Parcel
      <3>2. CASE left[c] = None
        BY <3>2 DEF Outgoing
      <3>. QED
        BY <3>1, <3>2
    <2> HIDE DEF o
    <2>3. /\ pending'[c] = <<>> /\ left'[c] = (IF due[c] THEN o ELSE None)
          /\ requests'[c] = Disowned(requests[c])
          /\ \A d \in Client : d # c => /\ requests'[d] = requests[d] /\ left'[d] = left[d]
                                        /\ pending'[d] = pending[d]
      BY <1>1, <2>1 DEF Typed
    <2>4. Committed' = Committed
      BY <1>1 DEF Committed, Prefix, Version
    <2>5. Follows(c, o.edits, Committed, used.edits[c])
      BY <2>2 DEF Ordered, InLine
    <2>6. ASSUME NEW q \in requests'[c], q.phase = "sent"
          PROVE  Follows(c, q.edits, Committed, used.edits[c]) /\ Before(q.edits, o.edits)
      <3>1. requests[c] \in SUBSET RequestOf
        BY <1>1 DEF Typed
      <3>2. PICK r \in requests[c] : q.edits = r.edits /\ q.phase = r.phase
        BY <2>3, <3>1, DisownedAre
      <3>. QED
        BY <2>2, <2>6, <3>2 DEF Ordered, InLine
    <2>7. ASSUME NEW d \in Client
          PROVE  /\ \A x \in ToSet(Committed) : x.by = d => x.n <= used.edits[d]
                 /\ Follows(d, pending'[d], Committed, used.edits[d])
                 /\ left'[d] # None => /\ Follows(d, left'[d].edits, Committed, used.edits[d])
                                       /\ Before(left'[d].edits, pending'[d])
                 /\ \A r \in requests'[d] : r.phase = "sent" =>
                      /\ Follows(d, r.edits, Committed, used.edits[d])
                      /\ Before(r.edits, pending'[d])
                      /\ left'[d] # None => Before(r.edits, left'[d].edits)
      <3>1. CASE d # c
        BY <2>3, <3>1 DEF Ordered, InLine
      <3>2. CASE d = c
        BY <2>3, <2>5, <2>6, <3>2, EmptyFollows DEF Ordered, InLine
      <3>. QED
        BY <3>1, <3>2
    <2>. QED
      BY <1>1, <2>4, <2>7 DEF Ordered, InLine
  <1>. QED
    BY <1>2, <1>3

LEMMA AnswerOrdered ==
  ASSUME Base, Ordered, NEW c \in Client, NEW r \in requests[c],
         \/ Conflict(c, r) \/ ReadAgain(c, r) \/ Succeed(c, r) \/ Resync(c, r)
         \/ Fail(c, r) \/ FailResync(c, r)
  PROVE  Ordered'
  <1>1. Typed /\ r \in RequestOf
    BY RequestTyped DEF Base
  <1>2. UNCHANGED <<log, left>>
    BY DEF Conflict, ReadAgain, Succeed, Resync, Fail, FailResync
  <1>3. used'.edits = used.edits
    <2>1. UNCHANGED used \/ used' = [used EXCEPT !.troubles = @ + 1, !.lost = TRUE]
      BY DEF Conflict, ReadAgain, Succeed, Resync, Fail, FailResync, Lose
    <2>. QED
      BY <1>1, <2>1, UsedTyped
  <1>4. \A d \in Client : pending'[d] = pending[d] \/ pending'[d] = <<>>
    <2>1. UNCHANGED pending \/ pending' = [pending EXCEPT ![c] = <<>>]
      BY DEF Conflict, ReadAgain, Succeed, Resync, Fail, FailResync, ApplyAuthoritative
    <2>. QED
      BY <1>1, <2>1 DEF Typed
  <1>5. \A d \in Client : \A p \in requests'[d] : p.phase = "sent" =>
          \E q \in requests[d] : q.phase = "sent" /\ q.edits = p.edits
    <2>1. CASE Conflict(c, r) \/ ReadAgain(c, r)
      <3>1. PICK q : q.phase # "sent" /\ requests' = [requests EXCEPT ![c] = (@ \ {r}) \union {q}]
        <4>1. [r EXCEPT !.phase = "conflict"].phase = "conflict"
              /\ [r EXCEPT !.phase = "read", !.version = Version].phase = "read"
          BY <1>1 DEF RequestOf
        <4>. QED
          BY <2>1, <4>1 DEF Conflict, ReadAgain
      <3>. QED
        BY <1>1, <3>1 DEF Typed
    <2>2. CASE Succeed(c, r) \/ Resync(c, r) \/ Fail(c, r) \/ FailResync(c, r)
      <3>1. requests' = [requests EXCEPT ![c] = @ \ {r}]
        BY <2>2 DEF Succeed, Resync, Fail, FailResync, Done
      <3>. QED
        BY <1>1, <3>1 DEF Typed
    <2>. QED
      BY <2>1, <2>2
  <1>. QED
    BY <1>2, <1>3, <1>4, <1>5, OrderedKept

LEMMA EventsOrdered ==
  ASSUME Base, Ordered, NEW c \in Client,
         \/ FlushNothing(c) \/ Online(c) \/ Subscribe(c) \/ Disconnect(c) \/ Deliver(c) \/ Reread(c)
  PROVE  Ordered'
  <1>1. Typed
    BY DEF Base
  <1>2. UNCHANGED <<log, requests, pending>>
    BY DEF FlushNothing, Online, Subscribe, Disconnect, Deliver, Reread
  <1>3. used'.edits = used.edits
    <2>1. \/ UNCHANGED used \/ used' = [used EXCEPT !.troubles = @ + 1, !.lost = TRUE]
          \/ used' = [used EXCEPT !.troubles = @ + 1]
      BY DEF FlushNothing, Online, Subscribe, Disconnect, Deliver, Reread
    <2>. QED
      BY <1>1, <2>1, UsedTyped
  <1>4. \A d \in Client : left'[d] = left[d] \/ left'[d] = None
    <2>1. UNCHANGED left \/ left' = [left EXCEPT ![c] = None]
      BY DEF FlushNothing, Online, Subscribe, Disconnect, Deliver, Reread
    <2>. QED
      BY <1>1, <2>1 DEF Typed
  <1>. QED
    BY <1>2, <1>3, <1>4, OrderedKept

LEMMA NextOrdered == Base /\ Ordered /\ [Next]_vars => Ordered'
  <1>. SUFFICES ASSUME Base, Ordered, [Next]_vars PROVE Ordered'
    OBVIOUS
  <1>1. CASE UNCHANGED vars
    BY <1>1, OrderedKept DEF vars
  <1>2. CASE Next
    <2>1. PICK c \in Client :
            \/ \E f \in Field : Dispatch(c, f)
            \/ Flush(c) \/ FlushNothing(c) \/ Respond(c) \/ Receive(c) \/ Online(c)
            \/ Subscribe(c) \/ Disconnect(c) \/ Deliver(c) \/ Reread(c) \/ Rebuild(c)
      BY <1>2 DEF Next
    <2>2. CASE Respond(c)
      BY <2>2, CommitOrdered, AnswerOrdered DEF Respond
    <2>3. CASE Receive(c)
      BY <2>3, AnswerOrdered DEF Receive
    <2>. QED
      BY <2>1, <2>2, <2>3, DispatchOrdered, FlushOrdered, EventsOrdered, RebuildOrdered
  <1>. QED
    BY <1>1, <1>2

\* The server commits the edits of a page in the order in which they were made,
\* although requests fail, answers are lost and kernels are replaced (doFlush).
THEOREM EditsCommitInOrder == Spec => []CommitsInOrder
  <1>1. Base /\ Ordered => CommitsInOrder
    BY DEF Ordered, InOrder, CommitsInOrder
  <1>. QED
    BY <1>1, InitBase, NextBase, InitOrdered, NextOrdered, PTL DEF Spec

\* No edit is committed twice: two edits of one page have different numbers, and
\* those of two pages differ (doFlush sends no batch again).
THEOREM EditsCommitOnce == Spec => []AtMostOnce
  <1>1. Base /\ Ordered => AtMostOnce
    <2> SUFFICES ASSUME Base, Ordered, NEW i \in DOMAIN Committed, NEW j \in DOMAIN Committed,
                        Committed[i] = Committed[j], i # j
                 PROVE  FALSE
      BY DEF AtMostOnce, IsInjective
    <2>1. Committed \in Seq(Made)
      BY CommittedTyped DEF Base
    <2>2. Committed[i].n \in Nat /\ i \in Nat /\ j \in Nat
      BY <2>1, MadeNumbered, LenProperties
    <2>3. i < j \/ j < i
      BY <2>2
    <2>4. Committed[i].n < Committed[i].n
      BY <2>3 DEF Ordered, InOrder
    <2>. QED
      BY <2>2, <2>4
  <1>. QED
    BY <1>1, InitBase, NextBase, InitOrdered, NextOrdered, PTL DEF Spec

-----------------------------------------------------------------------------
(***************************************************************************)
(* What a page shows of the version it names.  A batch that was committed  *)
(* over the version of the page is on the page already, so that the next   *)
(* version has nothing the page does not show.                             *)
(***************************************************************************)
LEMMA SeesKept ==
  ASSUME NEW c \in Client, Sees(c),
         UpTo(log', page[c].version) = UpTo(log, page[c].version),
         page'[c].version = page[c].version,
         ToSet(page[c].view) \subseteq ToSet(page'[c].view),
         ToSet(pending'[c]) \subseteq ToSet(page'[c].view),
         \A q \in requests'[c] : q.own =>
           \/ \E r \in requests[c] : r.own /\ q.base = r.base /\ q.edits = r.edits
           \/ q.base = page[c].version /\ ToSet(q.edits) \subseteq ToSet(page[c].view)
  PROVE  Sees(c)'
  BY DEF Sees

LEMMA SeesSame ==
  ASSUME NEW c \in Client, Sees(c), UNCHANGED <<log, page[c], pending[c], requests[c]>>
  PROVE  Sees(c)'
  BY DEF Sees

LEMMA EmptyContents == ToSet(<<>>) = {}
  BY DEF ToSet

LEMMA InitShown == Init => Shown
  <1>1. ToSet(UpTo(log, 0)) = {}
    BY UpToNone, EmptyContents
  <1>. QED
    BY <1>1, EmptyContents DEF Init, Shown, Sees

LEMMA DispatchShown ==
  ASSUME Base, Shown, NEW c \in Client, NEW f \in Field, Dispatch(c, f)
  PROVE  Shown'
  <1> DEFINE e == [by |-> c, n |-> used.edits[c] + 1, field |-> f]
  <1>1. Typed /\ UNCHANGED <<log, requests>>
    BY DEF Base, Dispatch
  <1>2. e \in Made /\ page[c].view \in Seq(Made) /\ pending[c] \in Seq(Made)
    <2>1. used \in [edits : [Client -> Nat], troubles : Nat, lost : BOOLEAN]
      BY <1>1 DEF Typed
    <2>2. used.edits[c] + 1 \in Nat
      BY <2>1
    <2>. QED
      BY <1>1, <2>2 DEF Typed, Made
  <1>3. /\ page' = [page EXCEPT ![c].view = Append(@, e)]
        /\ pending' = [pending EXCEPT ![c] = Append(@, e)]
    BY DEF Dispatch
  <1> HIDE DEF e
  <1>4. /\ page'[c].version = page[c].version /\ page'[c].view = Append(page[c].view, e)
        /\ pending'[c] = Append(pending[c], e)
        /\ \A d \in Client : d # c => page'[d] = page[d] /\ pending'[d] = pending[d]
    BY <1>1, <1>3 DEF Typed
  <1>5. /\ ToSet(page'[c].view) = ToSet(page[c].view) \union {e}
        /\ ToSet(pending'[c]) = ToSet(pending[c]) \union {e}
    BY <1>2, <1>4, AppendContents
  <1>6. Sees(c)'
    BY <1>1, <1>4, <1>5, SeesKept DEF Shown, Sees
  <1>7. \A d \in Client : d # c => Sees(d)'
    BY <1>1, <1>4, SeesSame DEF Shown
  <1>. QED
    BY <1>6, <1>7 DEF Shown

LEMMA FlushShown ==
  ASSUME Base, Shown, NEW c \in Client, Flush(c)
  PROVE  Shown'
  <1> DEFINE q == Request(c)
  <1>1. Typed /\ requests[c] = {}
    BY DEF Base, Alone, Flush
  <1>2. /\ requests' = [requests EXCEPT ![c] = {q}]
        /\ pending' = [pending EXCEPT ![c] = IF left[c] = None THEN <<>> ELSE @]
        /\ UNCHANGED <<log, page>>
    BY <1>1 DEF Flush, Send
  <1>3. q.own => q.base = page[c].version /\ q.edits = pending[c]
    <2>1. CASE left[c] = None
      BY <1>1, <2>1, SentRequest
    <2>2. CASE left[c] # None
      <3>1. left[c] \in Parcel /\ q.own = left[c].own
        BY <1>1, <2>2, SentRequest
      <3>. QED
        BY <3>1 DEF Parcel
    <2>. QED
      BY <2>1, <2>2
  <1> HIDE DEF q
  <1>4. /\ requests'[c] = {q} /\ (pending'[c] = <<>> \/ pending'[c] = pending[c])
        /\ \A d \in Client : d # c => requests'[d] = requests[d] /\ pending'[d] = pending[d]
    BY <1>1, <1>2 DEF Typed
  <1>5. Sees(c)'
    BY <1>2, <1>3, <1>4, EmptyContents, SeesKept DEF Shown, Sees
  <1>6. \A d \in Client : d # c => Sees(d)'
    BY <1>2, <1>4, SeesSame DEF Shown
  <1>. QED
    BY <1>5, <1>6 DEF Shown

LEMMA CommitShown ==
  ASSUME Base, Shown, NEW c \in Client, NEW r \in requests[c], Commit(c, r)
  PROVE  Shown'
  <1> DEFINE q == DoneOver(r, Version)
  <1>1. Typed /\ r \in RequestOf /\ Version \in Nat /\ UNCHANGED <<page, pending>>
    BY RequestTyped, VersionIsNat DEF Base, Commit
  <1>2. q \in RequestOf /\ q.edits = r.edits /\ q.base = r.base /\ q.own = r.own
    BY <1>1, DoneRequest
  <1>3. requests' = [requests EXCEPT ![c] = (@ \ {r}) \union {q}] /\ log' = Append(log, r.edits)
    BY DEF Commit, DoneOver
  <1> HIDE DEF q
  <1>4. requests'[c] = {q} /\ \A d \in Client : d # c => requests'[d] = requests[d]
    <2>1. requests' = [requests EXCEPT ![c] = {q}]
      BY <1>2, <1>3, Becomes
    <2>. QED
      BY <1>1, <2>1 DEF Typed
  <1>5. \A v \in 0..Version : UpTo(log', v) = UpTo(log, v)
    BY <1>1, <1>3, CommitGrows
  <1>6. ASSUME NEW d \in Client PROVE Sees(d)'
    <2>1. page[d].version \in 0..Version
      BY <1>1 DEF Typed
    <2>2. UpTo(log', page[d].version) = UpTo(log, page[d].version)
      BY <1>5, <2>1
    <2>3. \A p \in requests'[d] : p.own =>
            \E o \in requests[d] : o.own /\ p.base = o.base /\ p.edits = o.edits
      BY <1>2, <1>4
    <2>. QED
      BY <1>1, <2>2, <2>3, SeesKept DEF Shown, Sees
  <1>. QED
    BY <1>6 DEF Shown

\* The document of a version shows all the edits up to it.
LEMMA ReplacedSees ==
  ASSUME Typed, NEW c \in Client, NEW v \in 0..Version, ApplyAuthoritative(c, v),
         requests'[c] = {}, UNCHANGED log
  PROVE  Sees(c)'
  <1>1. page'[c].version = v /\ page'[c].view = UpTo(log, v) /\ pending'[c] = <<>>
    BY Replaced DEF Prefix, UpTo
  <1>. QED
    BY <1>1, EmptyContents DEF Sees

LEMMA SucceedShown ==
  ASSUME Base, Shown, NEW c \in Client, NEW r \in requests[c], Succeed(c, r)
  PROVE  Shown'
  <1>1. Typed /\ log \in Seq(Seq(Made)) /\ r \in RequestOf /\ r.edits \in Seq(Made)
        /\ UNCHANGED log
    BY RequestTyped DEF Base, Typed, Succeed
  <1>2. requests'[c] = {} /\ \A d \in Client : d # c => requests'[d] = requests[d]
    <2>1. requests' = [requests EXCEPT ![c] = {}]
      BY <1>1, Over DEF Succeed
    <2>. QED
      BY <1>1, <2>1 DEF Typed
  <1>3. /\ r.version \in 1..Version /\ r.version \in 0..Version /\ log[r.version] = r.edits
        /\ (r.rebased <=> r.base # r.version - 1)
    BY DEF Base, Answered, Succeed
  <1>4. CASE r.own /\ r.rebased
    <2>1. ApplyAuthoritative(c, r.version)
      BY <1>4 DEF Succeed
    <2>2. Sees(c)'
      BY <1>1, <1>2, <1>3, <2>1, ReplacedSees
    <2>3. \A d \in Client : d # c => page'[d] = page[d] /\ pending'[d] = pending[d]
      BY <1>1, <1>3, <2>1, Replaced
    <2>4. \A d \in Client : d # c => Sees(d)'
      BY <1>1, <1>2, <2>3, SeesSame DEF Shown
    <2>. QED
      BY <2>2, <2>4 DEF Shown
  <1>5. CASE r.own /\ ~r.rebased
    <2>1. page' = [page EXCEPT ![c].version = r.version] /\ UNCHANGED pending
      BY <1>5 DEF Succeed
    <2>2. /\ page'[c].version = r.version /\ page'[c].view = page[c].view
          /\ \A d \in Client : d # c => page'[d] = page[d]
      BY <1>1, <2>1 DEF Typed
    <2>3. /\ page[c].version = r.version - 1
          /\ ToSet(r.edits) \subseteq ToSet(page[c].view)
          /\ ToSet(UpTo(log, r.version - 1)) \subseteq ToSet(page[c].view)
          /\ ToSet(pending[c]) \subseteq ToSet(page[c].view)
      BY <1>3, <1>5 DEF Shown, Sees
    <2>4. UpTo(log, r.version) = UpTo(log, r.version - 1) \o r.edits
      BY <1>1, <1>3, UpToStep DEF Version
    <2>5. UpTo(log, r.version - 1) \in Seq(Made)
      BY <1>1, <1>3, UpToTyped DEF Version
    <2>6. ToSet(UpTo(log, r.version)) = ToSet(UpTo(log, r.version - 1)) \union ToSet(r.edits)
      BY <1>1, <2>4, <2>5, ConcatContents
    <2>7. Sees(c)'
      BY <1>1, <1>2, <2>1, <2>2, <2>3, <2>6 DEF Sees
    <2>8. \A d \in Client : d # c => Sees(d)'
      BY <1>1, <1>2, <2>1, <2>2, SeesSame DEF Shown
    <2>. QED
      BY <2>7, <2>8 DEF Shown
  <1>6. CASE ~r.own
    <2>1. \A d \in Client : page'[d] = page[d] /\ pending'[d] = pending[d]
      BY <1>1, <1>6 DEF Succeed, Typed
    <2>2. \A d \in Client : \A q \in requests'[d] : q \in requests[d]
      BY <1>2
    <2>. QED
      BY <1>1, <2>1, <2>2 DEF Shown, Sees
  <1>. QED
    BY <1>4, <1>5, <1>6

LEMMA ResyncShown ==
  ASSUME Base, Shown, NEW c \in Client, NEW r \in requests[c], Resync(c, r)
  PROVE  Shown'
  <1>1. Typed /\ UNCHANGED log /\ r.version \in 0..Version
    BY DEF Base, Answered, Resync
  <1>2. requests'[c] = {} /\ \A d \in Client : d # c => requests'[d] = requests[d]
    <2>1. requests' = [requests EXCEPT ![c] = {}]
      BY <1>1, Over DEF Resync
    <2>. QED
      BY <1>1, <2>1 DEF Typed
  <1>3. CASE r.own
    <2>1. ApplyAuthoritative(c, r.version)
      BY <1>3 DEF Resync
    <2>2. Sees(c)'
      BY <1>1, <1>2, <2>1, ReplacedSees
    <2>3. \A d \in Client : d # c => page'[d] = page[d] /\ pending'[d] = pending[d]
      BY <1>1, <2>1, Replaced
    <2>4. \A d \in Client : d # c => Sees(d)'
      BY <1>1, <1>2, <2>3, SeesSame DEF Shown
    <2>. QED
      BY <2>2, <2>4 DEF Shown
  <1>4. CASE ~r.own
    <2>1. UNCHANGED <<page, pending>>
      BY <1>4 DEF Resync
    <2>2. \A d \in Client : \A q \in requests'[d] : q \in requests[d]
      BY <1>2
    <2>. QED
      BY <1>1, <2>1, <2>2 DEF Shown, Sees
  <1>. QED
    BY <1>3, <1>4

LEMMA AnswerShown ==
  ASSUME Base, Shown, NEW c \in Client, NEW r \in requests[c],
         Conflict(c, r) \/ ReadAgain(c, r) \/ Fail(c, r) \/ FailResync(c, r)
  PROVE  Shown'
  <1>1. Typed /\ r \in RequestOf /\ UNCHANGED <<log, page, pending>>
    BY RequestTyped DEF Base, Conflict, ReadAgain, Fail, FailResync
  <1>2. \A d \in Client : \A p \in requests'[d] : p.own =>
          \E q \in requests[d] : q.own /\ p.base = q.base /\ p.edits = q.edits
    <2>1. CASE Conflict(c, r) \/ ReadAgain(c, r)
      <3>1. PICK q : /\ q.own = r.own /\ q.base = r.base /\ q.edits = r.edits
                     /\ requests' = [requests EXCEPT ![c] = (@ \ {r}) \union {q}]
        <4>1. \A q \in {[r EXCEPT !.phase = "conflict"], [r EXCEPT !.phase = "read", !.version = Version]} :
                q.own = r.own /\ q.base = r.base /\ q.edits = r.edits
          BY <1>1 DEF RequestOf
        <4>. QED
          BY <2>1, <4>1 DEF Conflict, ReadAgain
      <3>. QED
        BY <1>1, <3>1 DEF Typed
    <2>2. CASE Fail(c, r) \/ FailResync(c, r)
      <3>1. requests' = [requests EXCEPT ![c] = @ \ {r}]
        BY <2>2 DEF Fail, FailResync, Done
      <3>. QED
        BY <1>1, <3>1 DEF Typed
    <2>. QED
      BY <2>1, <2>2
  <1>. QED
    BY <1>1, <1>2, SeesKept DEF Shown, Sees

LEMMA EventsShown ==
  ASSUME Base, Shown, NEW c \in Client,
         \/ FlushNothing(c) \/ Online(c) \/ Subscribe(c) \/ Disconnect(c) \/ Deliver(c) \/ Reread(c)
  PROVE  Shown'
  <1>1. Typed /\ UNCHANGED <<log, requests, pending>>
    BY DEF Base, FlushNothing, Online, Subscribe, Disconnect, Deliver, Reread
  <1>2. CASE UNCHANGED page
    BY <1>1, <1>2, SeesSame DEF Shown
  <1>3. CASE Deliver(c)
    <2>1. /\ stream[c].queue \in Seq(Made) /\ stream[c].queue # <<>> /\ page[c].view \in Seq(Made)
          /\ page' = [page EXCEPT ![c].view = Append(@, Head(stream[c].queue))]
      BY <1>1, <1>3 DEF Deliver, Typed
    <2>2. Head(stream[c].queue) \in Made
      BY <2>1, HeadTailProperties
    <2>3. ToSet(page[c].view) \subseteq ToSet(Append(page[c].view, Head(stream[c].queue)))
      BY <2>1, <2>2, AppendContents
    <2>4. /\ page'[c].version = page[c].version
          /\ page'[c].view = Append(page[c].view, Head(stream[c].queue))
          /\ \A d \in Client : d # c => page'[d] = page[d]
      BY <1>1, <2>1 DEF Typed
    <2>5. Sees(c)'
      BY <1>1, <2>3, <2>4, SeesKept DEF Shown, Sees
    <2>6. \A d \in Client : d # c => Sees(d)'
      BY <1>1, <2>4, SeesSame DEF Shown
    <2>. QED
      BY <2>5, <2>6 DEF Shown
  <1>. QED
    BY <1>2, <1>3 DEF FlushNothing, Online, Subscribe, Disconnect, Reread

LEMMA RebuildShown ==
  ASSUME Base, Shown, NEW c \in Client, Rebuild(c)
  PROVE  Shown'
  <1> DEFINE v == reread[c]
  <1>1. Typed /\ v \in 0..Version /\ UNCHANGED log
    BY DEF Base, Typed, Rebuild
  <1>2. CASE v = page[c].loaded
    BY <1>1, <1>2, SeesSame DEF Rebuild, Shown
  <1>3. CASE v # page[c].loaded
    <2>1. /\ page' = [page EXCEPT ![c] = [version |-> v, view |-> Prefix(v), loaded |-> v]]
          /\ pending' = [pending EXCEPT ![c] = <<>>]
          /\ requests' = [requests EXCEPT ![c] = Disowned(@)]
      BY <1>3 DEF Rebuild, Disowned
    <2>2. /\ page'[c].version = v /\ page'[c].view = UpTo(log, v) /\ pending'[c] = <<>>
          /\ requests'[c] = Disowned(requests[c])
          /\ \A d \in Client : d # c => /\ page'[d] = page[d] /\ pending'[d] = pending[d]
                                        /\ requests'[d] = requests[d]
      BY <1>1, <2>1 DEF Typed, Prefix, UpTo
    <2>3. \A q \in requests'[c] : ~q.own
      <3>1. requests[c] \in SUBSET RequestOf
        BY <1>1 DEF Typed
      <3>. QED
        BY <2>2, <3>1, DisownedAre
    <2>4. Sees(c)'
      BY <1>1, <2>2, <2>3, EmptyContents DEF Sees
    <2>5. \A d \in Client : d # c => Sees(d)'
      BY <1>1, <2>2, SeesSame DEF Shown
    <2>. QED
      BY <2>4, <2>5 DEF Shown
  <1>. QED
    BY <1>2, <1>3

LEMMA NextShown == Base /\ Shown /\ [Next]_vars => Shown'
  <1>. SUFFICES ASSUME Base, Shown, [Next]_vars PROVE Shown'
    OBVIOUS
  <1>1. CASE UNCHANGED vars
    BY <1>1, SeesSame DEF vars, Shown
  <1>2. CASE Next
    <2>1. PICK c \in Client :
            \/ \E f \in Field : Dispatch(c, f)
            \/ Flush(c) \/ FlushNothing(c) \/ Respond(c) \/ Receive(c) \/ Online(c)
            \/ Subscribe(c) \/ Disconnect(c) \/ Deliver(c) \/ Reread(c) \/ Rebuild(c)
      BY <1>2 DEF Next
    <2>2. CASE Respond(c)
      BY <2>2, CommitShown, AnswerShown DEF Respond
    <2>3. CASE Receive(c)
      BY <2>3, SucceedShown, ResyncShown, AnswerShown DEF Receive
    <2>. QED
      BY <2>1, <2>2, <2>3, DispatchShown, FlushShown, EventsShown, RebuildShown
  <1>. QED
    BY <1>1, <1>2

\* A page has been shown every edit of the version it names as the base of its
\* next request, on which the search for conflicts of AppendOps relies.
THEOREM VersionsAreSeen == Spec => []VersionIsSeen
  <1>1. Shown => VersionIsSeen
    BY DEF Shown, Sees, VersionIsSeen, Prefix, UpTo
  <1>. QED
    BY <1>1, InitBase, NextBase, InitShown, NextShown, PTL DEF Spec

-----------------------------------------------------------------------------
(***************************************************************************)
(* What the page shows, followed by what its stream still brings, has the  *)
(* same last edits as the canvas, except for fields of which the page has  *)
(* edits to send.                                                          *)
(***************************************************************************)
LEMMA OwedAre ==
  ASSUME NEW c, NEW f
  PROVE  f \in Owes(c) <=>
           \/ f \in Fields(pending[c])
           \/ \E r \in requests[c] : r.own /\ r.phase # "done" /\ f \in Fields(r.edits)
  BY DEF Owes

LEMMA OwesKept ==
  ASSUME NEW c, pending'[c] = pending[c],
         \A r \in requests[c] : r.own /\ r.phase # "done" =>
           \E q \in requests'[c] : q.own /\ q.phase # "done" /\ q.edits = r.edits
  PROVE  Owes(c) \subseteq Owes(c)'
  BY DEF Owes

LEMMA TrackedKept ==
  ASSUME NEW c \in Client, Tracked(c), UNCHANGED log, c \notin astray' => c \notin astray,
         page'[c].view \o stream'[c].queue = page[c].view \o stream[c].queue,
         ~stream'[c].on => stream'[c].queue = <<>>,
         Owes(c) \subseteq Owes(c)'
  PROVE  Tracked(c)'
  <1>1. Committed' = Committed
    BY DEF Committed, Prefix, Version
  <1>2. ASSUME c \notin astray', NEW f \in Field, ~(f \in Owes(c)')
        PROVE  LastOn(page'[c].view \o stream'[c].queue, f) = LastOn(Committed', f)
    <2>1. LastOn(page[c].view \o stream[c].queue, f) = LastOn(Committed, f)
      BY <1>2 DEF Tracked
    <2>. QED
      BY <1>1, <2>1
  <1>. QED
    BY <1>2 DEF Tracked

LEMMA TrackedSame ==
  ASSUME NEW c \in Client, Tracked(c), c \notin astray' => c \notin astray,
         UNCHANGED <<log, page[c].view, pending[c], requests[c], stream[c]>>
  PROVE  Tracked(c)'
  <1>1. Owes(c) \subseteq Owes(c)'
    BY OwesKept
  <1>. QED
    BY <1>1, TrackedKept DEF Tracked

LEMMA InitTracks == Init => Tracks
  <1>. SUFFICES ASSUME Init, NEW c \in Client PROVE Tracked(c)
    BY DEF Tracks
  <1>1. Committed = <<>>
    <2>1. log = <<>> /\ Version = 0
      BY EmptySeq DEF Init, Version
    <2>2. Committed = UpTo(log, 0)
      BY <2>1 DEF Committed, Prefix, UpTo
    <2>. QED
      BY <2>2, UpToNone
  <1>2. page[c].view = <<>> /\ stream[c].queue = <<>>
    BY DEF Init
  <1>3. <<>> \o <<>> = <<>>
    BY ConcatEmptySeq, EmptySeq
  <1>. QED
    BY <1>1, <1>2, <1>3 DEF Tracked

LEMMA ShownTyped ==
  ASSUME Typed, NEW c \in Client
  PROVE  /\ page[c].view \in Seq(Made) /\ pending[c] \in Seq(Made)
         /\ stream[c].queue \in Seq(Made) /\ stream[c].on \in BOOLEAN
  BY DEF Typed

LEMMA DispatchTracks ==
  ASSUME Base, Tracks, NEW c \in Client, NEW f \in Field, Dispatch(c, f)
  PROVE  Tracks'
  <1> DEFINE e == [by |-> c, n |-> used.edits[c] + 1, field |-> f]
  <1>1. Typed /\ UNCHANGED <<log, requests, stream, astray>>
    BY DEF Base, Dispatch
  <1>2. e \in Made /\ e.field = f
    <2>1. used \in [edits : [Client -> Nat], troubles : Nat, lost : BOOLEAN]
      BY <1>1 DEF Typed
    <2>2. used.edits[c] + 1 \in Nat
      BY <2>1
    <2>. QED
      BY <2>2 DEF Made
  <1>3. /\ page' = [page EXCEPT ![c].view = Append(@, e)]
        /\ pending' = [pending EXCEPT ![c] = Append(@, e)]
    BY DEF Dispatch
  <1> HIDE DEF e
  <1>4. /\ page'[c].view = Append(page[c].view, e) /\ pending'[c] = Append(pending[c], e)
        /\ \A d \in Client : d # c => page'[d] = page[d] /\ pending'[d] = pending[d]
    BY <1>1, <1>3 DEF Typed
  <1>5. /\ page[c].view \in Seq(Made) /\ pending[c] \in Seq(Made) /\ stream[c].queue \in Seq(Made)
        /\ Append(page[c].view, e) \in Seq(Made)
    BY <1>1, <1>2, ShownTyped, AppendProperties
  <1>6. Fields(pending'[c]) = Fields(pending[c]) \union {f}
    BY <1>2, <1>4, <1>5, AppendContents
  <1>7. Committed' = Committed
    BY <1>1 DEF Committed, Prefix, Version
  <1>8. ASSUME c \notin astray', NEW g \in Field, ~(g \in Owes(c)')
        PROVE  LastOn(page'[c].view \o stream'[c].queue, g) = LastOn(Committed', g)
    <2>1. g # f /\ ~(g \in Owes(c))
      BY <1>1, <1>6, <1>8 DEF Owes
    <2>2. LastOn(Append(page[c].view, e), g) = LastOn(page[c].view, g)
      <3>1. Append(page[c].view, e) = page[c].view \o <<e>> /\ <<e>> \in Seq(Made)
        BY <1>2, <1>5, AppendIsConcat
      <3>2. g \notin Fields(<<e>>)
        BY <1>2, <2>1 DEF Fields
      <3>3. LastOn(page[c].view \o <<e>>, g)
              = IF g \in Fields(<<e>>) THEN LastOn(<<e>>, g) ELSE LastOn(page[c].view, g)
        BY <1>5, <3>1, LastOnConcat
      <3>. QED
        BY <3>1, <3>2, <3>3
    <2>3. LastOn(Append(page[c].view, e) \o stream[c].queue, g)
            = LastOn(page[c].view \o stream[c].queue, g)
      <3>1. \A s, t \in Seq(Made) :
              LastOn(s \o t, g) = IF g \in Fields(t) THEN LastOn(t, g) ELSE LastOn(s, g)
        BY LastOnConcat
      <3>2. /\ LastOn(Append(page[c].view, e) \o stream[c].queue, g)
                 = IF g \in Fields(stream[c].queue) THEN LastOn(stream[c].queue, g)
                   ELSE LastOn(Append(page[c].view, e), g)
            /\ LastOn(page[c].view \o stream[c].queue, g)
                 = IF g \in Fields(stream[c].queue) THEN LastOn(stream[c].queue, g)
                   ELSE LastOn(page[c].view, g)
        BY <1>5, <3>1
      <3>. QED
        BY <2>2, <3>2
    <2>4. LastOn(page[c].view \o stream[c].queue, g) = LastOn(Committed, g)
      BY <1>1, <1>8, <2>1 DEF Tracks, Tracked
    <2>. QED
      BY <1>1, <1>4, <1>7, <2>3, <2>4
  <1>9. Tracked(c)'
    BY <1>1, <1>8 DEF Tracks, Tracked
  <1>10. \A d \in Client : d # c => Tracked(d)'
    BY <1>1, <1>4, TrackedSame DEF Tracks
  <1>. QED
    BY <1>9, <1>10 DEF Tracks

LEMMA FlushTracks ==
  ASSUME Base, Tracks, NEW c \in Client, Flush(c)
  PROVE  Tracks'
  <1> DEFINE q == Request(c)
  <1>1. Typed /\ requests[c] = {}
    BY DEF Base, Alone, Flush
  <1>2. /\ requests' = [requests EXCEPT ![c] = {q}]
        /\ pending' = [pending EXCEPT ![c] = IF left[c] = None THEN <<>> ELSE @]
        /\ UNCHANGED <<log, page, stream, astray>>
    BY <1>1 DEF Flush, Send
  <1>3. q.phase = "sent" /\ (left[c] = None => q.own /\ q.edits = pending[c])
    BY <1>1, SentRequest
  <1> HIDE DEF q
  <1>4. /\ requests'[c] = {q} /\ (left[c] # None => pending'[c] = pending[c])
        /\ \A d \in Client : d # c => requests'[d] = requests[d] /\ pending'[d] = pending[d]
    BY <1>1, <1>2 DEF Typed
  <1>5. Owes(c) \subseteq Owes(c)'
    <2>1. CASE left[c] # None
      BY <1>1, <1>4, <2>1, OwesKept
    <2>2. CASE left[c] = None
      <3>1. \A f \in Owes(c) : f \in Fields(q.edits)
        BY <1>1, <1>3, <2>2, OwedAre
      <3>. QED
        BY <1>3, <1>4, <2>2, <3>1 DEF Owes
    <2>. QED
      BY <2>1, <2>2
  <1>6. Tracked(c)'
    BY <1>2, <1>5, TrackedKept DEF Tracks, Tracked
  <1>7. \A d \in Client : d # c => Tracked(d)'
    BY <1>2, <1>4, TrackedSame DEF Tracks
  <1>. QED
    BY <1>6, <1>7 DEF Tracks

\* A subscription with room hears the whole batch.
LEMMA HeardWhole ==
  ASSUME Typed, NEW d \in Client, NEW edits \in Seq(Made), ~Unheard(d, edits)
  PROVE  Published(edits)[d].queue = stream[d].queue \o edits
  <1>1. /\ stream[d].on /\ stream[d].queue \in Seq(Made)
        /\ stream[d] \in [on : BOOLEAN, queue : Seq(Made)]
    BY DEF Unheard, Typed
  <1>2. /\ Len(stream[d].queue) \in Nat /\ Len(edits) \in Nat /\ Buffer \in Nat
        /\ Len(stream[d].queue) + Len(edits) <= Buffer
    BY <1>1, LenProperties, BoundsTyped DEF Unheard
  <1>3. (IF Buffer - Len(stream[d].queue) < Len(edits)
         THEN Buffer - Len(stream[d].queue) ELSE Len(edits)) = Len(edits)
    BY <1>2
  <1>4. SubSeq(edits, 1, Len(edits)) = edits
    BY SubSeqFull
  <1>5. Published(edits)[d] = [stream[d] EXCEPT !.queue = @ \o edits]
    BY <1>1, <1>3, <1>4 DEF Published
  <1>. QED
    BY <1>1, <1>5

LEMMA CommitTracks ==
  ASSUME Base, Tracks, NEW c \in Client, NEW r \in requests[c], Commit(c, r)
  PROVE  Tracks'
  <1> DEFINE q == DoneOver(r, Version)
  <1>1. Typed /\ r \in RequestOf /\ r.edits \in Seq(Made) /\ Version \in Nat
        /\ UNCHANGED <<page, pending>> /\ requests[c] = {r}
    BY RequestTyped, VersionIsNat DEF Base, Alone, Commit
  <1>2. q \in RequestOf /\ q.phase = "done"
    BY <1>1, DoneRequest
  <1>3. /\ requests' = [requests EXCEPT ![c] = (@ \ {r}) \union {q}]
        /\ log' = Append(log, r.edits) /\ stream' = Published(r.edits)
        /\ astray' = astray \union {d \in Client : Unheard(d, r.edits)}
    BY DEF Commit, DoneOver
  <1> HIDE DEF q
  <1>4. requests'[c] = {q} /\ \A d \in Client : d # c => requests'[d] = requests[d]
    <2>1. requests' = [requests EXCEPT ![c] = {q}]
      BY <1>2, <1>3, Becomes
    <2>. QED
      BY <1>1, <2>1 DEF Typed
  <1>5. Committed' = Committed \o r.edits /\ Committed \in Seq(Made)
    BY <1>1, <1>3, CommitGrows, CommittedTyped
  <1>6. ASSUME NEW d \in Client, NEW f \in Field, f \in Owes(d), ~(f \in Owes(d)')
        PROVE  f \in Fields(r.edits)
    <2>1. pending'[d] = pending[d]
      BY <1>1
    <2>2. f \notin Fields(pending[d])
      BY <1>6, <2>1 DEF Owes
    <2>3. PICK p \in requests[d] : p.own /\ p.phase # "done" /\ f \in Fields(p.edits)
      BY <1>6, <2>2, OwedAre
    <2>4. d = c
      <3>1. ASSUME d # c PROVE FALSE
        <4>1. p \in requests'[d]
          BY <1>4, <2>3, <3>1
        <4>2. f \in Owes(d)'
          BY <2>3, <4>1 DEF Owes
        <4>. QED
          BY <1>6, <4>2
      <3>. QED
        BY <3>1
    <2>. QED
      BY <1>1, <2>3, <2>4
  <1>7. ASSUME NEW d \in Client PROVE Tracked(d)'
    <2>1. ~stream'[d].on => stream'[d].queue = <<>>
      <3>1. stream[d] \in [on : BOOLEAN, queue : Seq(Made)]
        BY <1>1 DEF Typed
      <3>2. stream[d].on => stream'[d].on
        BY <1>3, <3>1 DEF Published
      <3>3. ~stream[d].on => stream'[d] = stream[d]
        BY <1>3 DEF Published
      <3>. QED
        BY <3>2, <3>3 DEF Tracks, Tracked
    <2>2. ASSUME d \notin astray', NEW f \in Field, ~(f \in Owes(d)')
          PROVE  LastOn(page'[d].view \o stream'[d].queue, f) = LastOn(Committed', f)
      <3>1. d \notin astray /\ ~Unheard(d, r.edits)
        BY <1>3, <2>2
      <3>2. stream'[d].queue = stream[d].queue \o r.edits
        BY <1>1, <1>3, <3>1, HeardWhole
      <3>3. page[d].view \in Seq(Made) /\ stream[d].queue \in Seq(Made)
        BY <1>1, ShownTyped
      <3>4. page'[d].view \o stream'[d].queue = (page[d].view \o stream[d].queue) \o r.edits
        <4>1. \A x, y, z \in Seq(Made) : (x \o y) \o z = x \o (y \o z)
          BY ConcatAssociative
        <4>2. (page[d].view \o stream[d].queue) \o r.edits
                = page[d].view \o (stream[d].queue \o r.edits)
          BY <1>1, <3>3, <4>1
        <4>3. page'[d].view = page[d].view
          BY <1>1
        <4>. QED
          BY <3>2, <4>2, <4>3
      <3> DEFINE seen == page[d].view \o stream[d].queue
      <3>5. seen \in Seq(Made)
        BY <3>3, ConcatProperties
      <3>6. f \notin Fields(r.edits) => LastOn(seen, f) = LastOn(Committed, f)
        BY <1>6, <2>2, <3>1 DEF Tracks, Tracked
      <3> HIDE DEF seen
      <3>7. LastOn(seen \o r.edits, f) = LastOn(Committed \o r.edits, f)
        <4>1. \A s \in Seq(Made) : LastOn(s \o r.edits, f) =
                 IF f \in Fields(r.edits) THEN LastOn(r.edits, f) ELSE LastOn(s, f)
          BY <1>1, LastOnConcat
        <4>2. CASE f \in Fields(r.edits)
          BY <1>5, <3>5, <4>1, <4>2
        <4>3. CASE f \notin Fields(r.edits)
          <5>1. LastOn(seen \o r.edits, f) = LastOn(seen, f)
            BY <3>5, <4>1, <4>3
          <5>2. LastOn(Committed \o r.edits, f) = LastOn(Committed, f)
            BY <1>5, <4>1, <4>3
          <5>. QED
            BY <3>6, <4>3, <5>1, <5>2
        <4>. QED
          BY <4>2, <4>3
      <3>. QED
        BY <1>5, <3>4, <3>7 DEF seen
    <2>. QED
      BY <2>1, <2>2 DEF Tracked
  <1>. QED
    BY <1>7 DEF Tracks

\* Of two ends of a sequence, the longer has the fields of the shorter.
LEMMA EndsNest ==
  ASSUME NEW S, NEW a \in Seq(S), NEW s \in Seq(S), NEW p \in Seq(S), NEW t \in Seq(S),
         a \o s = p \o t, Len(p) + Len(s) >= Len(p \o t)
  PROVE  Fields(t) \subseteq Fields(s)
  <1>1. /\ Len(a \o s) = Len(a) + Len(s) /\ Len(p \o t) = Len(p) + Len(t)
        /\ \A i \in 1..(Len(a) + Len(s)) : (a \o s)[i] = IF i <= Len(a) THEN a[i] ELSE s[i - Len(a)]
        /\ \A i \in 1..(Len(p) + Len(t)) : (p \o t)[i] = IF i <= Len(p) THEN p[i] ELSE t[i - Len(p)]
    BY ConcatProperties
  <1>2. /\ Len(a) \in Nat /\ Len(s) \in Nat /\ Len(p) \in Nat /\ Len(t) \in Nat
        /\ DOMAIN s = 1..Len(s) /\ DOMAIN t = 1..Len(t)
    BY LenProperties
  <1>3. Len(a) + Len(s) = Len(p) + Len(t) /\ Len(p) >= Len(a)
    BY <1>1, <1>2
  <1>4. ASSUME NEW i \in DOMAIN t
        PROVE  (i + Len(p)) - Len(a) \in DOMAIN s /\ s[(i + Len(p)) - Len(a)] = t[i]
    <2> DEFINE j == i + Len(p)
    <2>1. j \in 1..(Len(a) + Len(s)) /\ j \in 1..(Len(p) + Len(t)) /\ j > Len(p) /\ j > Len(a)
          /\ j - Len(p) = i /\ j - Len(a) \in DOMAIN s
      BY <1>2, <1>3
    <2>2. (p \o t)[j] = t[i] /\ (a \o s)[j] = s[j - Len(a)]
      <3> HIDE DEF j
      <3>. QED
        BY <1>1, <1>2, <2>1
    <2>. QED
      BY <2>1, <2>2
  <1>. QED
    BY <1>4 DEF Fields

\* The document of a version, and a stream that brings the rest.
LEMMA ReplacedTracks ==
  ASSUME Typed, NEW c \in Client, Tracked(c), NEW v \in 0..Version, ApplyAuthoritative(c, v),
         UNCHANGED <<log, stream>>
  PROVE  Tracked(c)'
  <1> DEFINE queue == stream[c].queue
  <1>1. /\ log \in Seq(Seq(Made)) /\ queue \in Seq(Made)
        /\ Prefix(v) \in Seq(Made) /\ Committed \in Seq(Made)
    BY CommittedTyped DEF Typed
  <1>2. page'[c].view = Prefix(v) /\ Committed' = Committed
    BY Replaced DEF Committed, Prefix, Version
  <1>3. ASSUME c \notin astray', NEW f \in Field
        PROVE  LastOn(Prefix(v) \o queue, f) = LastOn(Committed, f)
    <2>1. Complete(c, v)
      BY <1>3 DEF ApplyAuthoritative, Adrift
    <2>2. PICK rest \in Seq(Made) : Committed = Prefix(v) \o rest
      <3>1. PICK rest \in Seq(Made) : UpTo(log, Len(log)) = UpTo(log, v) \o rest
        BY <1>1, UpToBefore DEF Version
      <3>. QED
        BY <3>1 DEF UpTo, Committed, Prefix, Version
    <2>3. PICK a \in Seq(Made) : Committed = a \o queue
      BY <1>1, <2>1, SuffixSplits DEF Complete
    <2>4. Len(Prefix(v)) + Len(queue) >= Len(Committed)
      BY <2>1 DEF Complete
    <2> HIDE DEF queue
    <2>5. Fields(rest) \subseteq Fields(queue)
      <3>1. a \o queue = Prefix(v) \o rest
            /\ Len(Prefix(v)) + Len(queue) >= Len(Prefix(v) \o rest)
        BY <2>2, <2>3, <2>4
      <3>. QED
        BY <1>1, <3>1, EndsNest
    <2>6. LastOn(Prefix(v) \o queue, f)
            = IF f \in Fields(queue) THEN LastOn(queue, f) ELSE LastOn(Prefix(v), f)
      BY <1>1, LastOnConcat
    <2>7. CASE f \in Fields(queue)
      <3>1. LastOn(a \o queue, f)
              = IF f \in Fields(queue) THEN LastOn(queue, f) ELSE LastOn(a, f)
        BY <1>1, LastOnConcat
      <3>. QED
        BY <2>3, <2>6, <2>7, <3>1
    <2>8. CASE f \notin Fields(queue)
      <3>1. LastOn(Prefix(v) \o rest, f)
              = IF f \in Fields(rest) THEN LastOn(rest, f) ELSE LastOn(Prefix(v), f)
        BY <1>1, LastOnConcat
      <3>. QED
        BY <2>2, <2>5, <2>6, <2>8, <3>1
    <2>. QED
      BY <2>7, <2>8
  <1>. QED
    BY <1>2, <1>3 DEF Tracked

LEMMA ReplacedOthers ==
  ASSUME Typed, NEW c \in Client, NEW v \in 0..Version, ApplyAuthoritative(c, v)
  PROVE  \A d \in Client : d # c => /\ page'[d] = page[d] /\ pending'[d] = pending[d]
                                    /\ d \notin astray' => d \notin astray
  <1>1. astray' \in {astray \union {c}, astray \ {c}}
    BY DEF ApplyAuthoritative, Adrift
  <1>. QED
    BY <1>1, Replaced

LEMMA AnswerTracks ==
  ASSUME Base, Tracks, NEW c \in Client, NEW r \in requests[c], Succeed(c, r) \/ Resync(c, r)
  PROVE  Tracks'
  <1>1. Typed /\ UNCHANGED <<log, stream>> /\ requests[c] = {r} /\ r.version \in 0..Version
    BY DEF Base, Alone, Answered, Succeed, Resync
  <1>2. requests'[c] = {} /\ \A d \in Client : d # c => requests'[d] = requests[d]
    <2>1. requests' = [requests EXCEPT ![c] = {}]
      BY <1>1, Over DEF Succeed, Resync
    <2>. QED
      BY <1>1, <2>1 DEF Typed
  <1>3. CASE ApplyAuthoritative(c, r.version)
    <2>1. Tracked(c)'
      BY <1>1, <1>3, ReplacedTracks DEF Tracks
    <2>2. \A d \in Client : d # c => /\ page'[d] = page[d] /\ pending'[d] = pending[d]
                                     /\ d \notin astray' => d \notin astray
      BY <1>1, <1>3, ReplacedOthers
    <2>3. \A d \in Client : d # c => Tracked(d)'
      BY <1>1, <1>2, <2>2, TrackedSame DEF Tracks
    <2>. QED
      BY <2>1, <2>3 DEF Tracks
  <1>4. CASE ~ApplyAuthoritative(c, r.version)
    <2>1. UNCHANGED <<pending, astray>> /\ ~(r.own /\ r.phase # "done")
          /\ \A d \in Client : page'[d].view = page[d].view
      <3>1. CASE Succeed(c, r)
        <4>1. /\ page' = [page EXCEPT ![c].version = IF r.own THEN r.version ELSE @]
              /\ UNCHANGED <<pending, astray>> /\ r.phase = "done"
          BY <1>4, <3>1 DEF Succeed
        <4>. QED
          BY <1>1, <4>1 DEF Typed
      <3>2. CASE Resync(c, r)
        BY <1>4, <3>2 DEF Resync
      <3>. QED
        BY <3>1, <3>2
    <2>2. Owes(c) \subseteq Owes(c)'
      BY <1>1, <2>1, OwesKept
    <2>3. Tracked(c)'
      BY <1>1, <2>1, <2>2, TrackedKept DEF Tracks, Tracked
    <2>4. \A d \in Client : d # c => Tracked(d)'
      BY <1>1, <1>2, <2>1, TrackedSame DEF Tracks
    <2>. QED
      BY <2>3, <2>4 DEF Tracks
  <1>. QED
    BY <1>3, <1>4

LEMMA TroubleTracks ==
  ASSUME Base, Tracks, NEW c \in Client, NEW r \in requests[c],
         Conflict(c, r) \/ ReadAgain(c, r) \/ Fail(c, r) \/ FailResync(c, r)
  PROVE  Tracks'
  <1>1. Typed /\ r \in RequestOf /\ requests[c] = {r} /\ UNCHANGED <<log, page, pending, stream>>
    BY RequestTyped DEF Base, Alone, Conflict, ReadAgain, Fail, FailResync
  <1>2. CASE Conflict(c, r) \/ ReadAgain(c, r)
    <2>1. PICK q : /\ q.own = r.own /\ q.edits = r.edits /\ q.phase # "done"
                   /\ requests' = [requests EXCEPT ![c] = (@ \ {r}) \union {q}]
      <3>1. \A q \in {[r EXCEPT !.phase = "conflict"], [r EXCEPT !.phase = "read", !.version = Version]} :
              q.own = r.own /\ q.edits = r.edits /\ q.phase # "done"
        BY <1>1 DEF RequestOf
      <3>. QED
        BY <1>2, <3>1 DEF Conflict, ReadAgain
    <2>2. requests'[c] = {q} /\ \A d \in Client : d # c => requests'[d] = requests[d]
      BY <1>1, <2>1 DEF Typed
    <2>3. UNCHANGED astray
      BY <1>2 DEF Conflict, ReadAgain
    <2>4. Owes(c) \subseteq Owes(c)'
      BY <1>1, <2>1, <2>2, OwesKept
    <2>5. Tracked(c)'
      BY <1>1, <2>3, <2>4, TrackedKept DEF Tracks, Tracked
    <2>6. \A d \in Client : d # c => Tracked(d)'
      BY <1>1, <2>2, <2>3, TrackedSame DEF Tracks
    <2>. QED
      BY <2>5, <2>6 DEF Tracks
  <1>3. CASE Fail(c, r) \/ FailResync(c, r)
    <2>1. astray' = astray \union {c} /\ requests' = [requests EXCEPT ![c] = @ \ {r}]
      BY <1>3 DEF Fail, FailResync, Lose, Adrift, Done
    <2>2. \A d \in Client : d # c => requests'[d] = requests[d]
      BY <1>1, <2>1 DEF Typed
    <2>3. Tracked(c)'
      BY <1>1, <2>1 DEF Tracks, Tracked
    <2>4. \A d \in Client : d # c => Tracked(d)'
      BY <1>1, <2>1, <2>2, TrackedSame DEF Tracks
    <2>. QED
      BY <2>3, <2>4 DEF Tracks
  <1>. QED
    BY <1>2, <1>3

LEMMA EventsTrack ==
  ASSUME Base, Tracks, NEW c \in Client,
         \/ FlushNothing(c) \/ Online(c) \/ Subscribe(c) \/ Disconnect(c) \/ Deliver(c) \/ Reread(c)
  PROVE  Tracks'
  <1>1. Typed /\ UNCHANGED <<log, requests, pending>> /\ stream[c].queue \in Seq(Made)
        /\ page[c].view \in Seq(Made)
    BY ShownTyped DEF Base, FlushNothing, Online, Subscribe, Disconnect, Deliver, Reread
  <1>2. Owes(c) \subseteq Owes(c)'
    BY <1>1, OwesKept
  <1>3. CASE FlushNothing(c) \/ Online(c) \/ Reread(c)
    BY <1>1, <1>3, TrackedSame DEF FlushNothing, Online, Reread, Tracks
  <1>4. CASE Subscribe(c)
    <2>1. /\ stream'[c].on /\ stream'[c].queue = stream[c].queue /\ UNCHANGED <<page, astray>>
          /\ \A d \in Client : d # c => stream'[d] = stream[d]
      BY <1>1, <1>4 DEF Subscribe, Typed
    <2>2. Tracked(c)'
      BY <1>1, <1>2, <2>1, TrackedKept DEF Tracks, Tracked
    <2>3. \A d \in Client : d # c => Tracked(d)'
      BY <1>1, <2>1, TrackedSame DEF Tracks
    <2>. QED
      BY <2>2, <2>3 DEF Tracks
  <1>5. CASE Disconnect(c)
    <2>1. /\ stream'[c].queue = <<>> /\ UNCHANGED page
          /\ \A d \in Client : d # c => stream'[d] = stream[d]
      BY <1>1, <1>5 DEF Disconnect, Typed
    <2>2. /\ c \notin astray' => c \notin astray /\ stream[c].queue = <<>>
          /\ \A d \in Client : d # c => (d \notin astray' => d \notin astray)
      BY <1>5 DEF Disconnect, Adrift
    <2>3. Tracked(c)'
      <3>1. CASE c \in astray'
        BY <2>1, <3>1 DEF Tracked
      <3>2. CASE c \notin astray'
        BY <1>1, <1>2, <2>1, <2>2, <3>2, TrackedKept DEF Tracks, Tracked
      <3>. QED
        BY <3>1, <3>2
    <2>4. \A d \in Client : d # c => Tracked(d)'
      BY <1>1, <2>1, <2>2, TrackedSame DEF Tracks
    <2>. QED
      BY <2>3, <2>4 DEF Tracks
  <1>6. CASE Deliver(c)
    <2> DEFINE q == stream[c].queue
    <2>1. q # <<>> /\ UNCHANGED astray
      BY <1>6 DEF Deliver
    <2>2. /\ stream'[c].queue = Tail(q) /\ stream'[c].on = stream[c].on
          /\ page'[c].view = Append(page[c].view, Head(q))
          /\ \A d \in Client : d # c => stream'[d] = stream[d] /\ page'[d] = page[d]
      BY <1>1, <1>6 DEF Deliver, Typed
    <2> HIDE DEF q
    <2>3. Head(q) \in Made /\ Tail(q) \in Seq(Made) /\ q = <<Head(q)>> \o Tail(q)
      BY <1>1, <2>1, HeadTailProperties DEF q
    <2>4. Append(page[c].view, Head(q)) \o Tail(q) = page[c].view \o q
      <3>1. \A x, y, z \in Seq(Made) : (x \o y) \o z = x \o (y \o z)
        BY ConcatAssociative
      <3>2. Append(page[c].view, Head(q)) = page[c].view \o <<Head(q)>> /\ <<Head(q)>> \in Seq(Made)
        BY <1>1, <2>3, AppendIsConcat
      <3>3. (page[c].view \o <<Head(q)>>) \o Tail(q) = page[c].view \o (<<Head(q)>> \o Tail(q))
        BY <1>1, <2>3, <3>1, <3>2
      <3>. QED
        BY <2>3, <3>2, <3>3
    <2>5. stream[c].on
      BY <2>1 DEF Tracks, Tracked, q
    <2>6. Tracked(c)'
      BY <1>1, <1>2, <2>1, <2>2, <2>4, <2>5, TrackedKept DEF Tracks, q
    <2>7. \A d \in Client : d # c => Tracked(d)'
      BY <1>1, <2>1, <2>2, TrackedSame DEF Tracks
    <2>. QED
      BY <2>6, <2>7 DEF Tracks
  <1>. QED
    BY <1>3, <1>4, <1>5, <1>6

LEMMA RebuildTracks ==
  ASSUME Base, Tracks, NEW c \in Client, Rebuild(c)
  PROVE  Tracks'
  <1> DEFINE v == reread[c]
  <1>1. Typed /\ v \in 0..Version /\ UNCHANGED log /\ Version \in Nat
    BY VersionIsNat DEF Base, Typed, Rebuild
  <1>2. CASE v = page[c].loaded
    BY <1>1, <1>2, TrackedSame DEF Rebuild, Tracks
  <1>3. CASE v # page[c].loaded
    <2>1. /\ page' = [page EXCEPT ![c] = [version |-> v, view |-> Prefix(v), loaded |-> v]]
          /\ pending' = [pending EXCEPT ![c] = <<>>]
          /\ requests' = [requests EXCEPT ![c] = Disowned(@)]
          /\ stream' = [stream EXCEPT ![c] = [on |-> FALSE, queue |-> <<>>]]
          /\ Adrift(c, v < Version)
      BY <1>3 DEF Rebuild, Disowned
    <2>2. /\ page'[c].view = Prefix(v) /\ stream'[c].queue = <<>>
          /\ \A d \in Client : d # c => /\ page'[d] = page[d] /\ pending'[d] = pending[d]
                                        /\ requests'[d] = requests[d] /\ stream'[d] = stream[d]
      BY <1>1, <2>1 DEF Typed
    <2>3. /\ c \notin astray' => v = Version
          /\ \A d \in Client : d # c => (d \notin astray' => d \notin astray)
      BY <1>1, <2>1 DEF Adrift
    <2>4. Committed \o <<>> = Committed /\ Committed' = Committed
      <3>1. Committed \in Seq(Made)
        BY <1>1, CommittedTyped
      <3>2. Committed' = Committed
        BY <1>1 DEF Committed, Prefix, Version
      <3>. QED
        BY <3>1, <3>2, ConcatEmptySeq
    <2>5. c \notin astray' => page'[c].view \o stream'[c].queue = Committed'
      BY <2>2, <2>3, <2>4 DEF Committed
    <2>6. Tracked(c)'
      BY <2>2, <2>5 DEF Tracked
    <2>7. \A d \in Client : d # c => Tracked(d)'
      BY <1>1, <2>2, <2>3, TrackedSame DEF Tracks
    <2>. QED
      BY <2>6, <2>7 DEF Tracks
  <1>. QED
    BY <1>2, <1>3

LEMMA NextTracks == Base /\ Tracks /\ [Next]_vars => Tracks'
  <1>. SUFFICES ASSUME Base, Tracks, [Next]_vars PROVE Tracks'
    OBVIOUS
  <1>1. CASE UNCHANGED vars
    BY <1>1, TrackedSame DEF vars, Tracks
  <1>2. CASE Next
    <2>1. PICK c \in Client :
            \/ \E f \in Field : Dispatch(c, f)
            \/ Flush(c) \/ FlushNothing(c) \/ Respond(c) \/ Receive(c) \/ Online(c)
            \/ Subscribe(c) \/ Disconnect(c) \/ Deliver(c) \/ Reread(c) \/ Rebuild(c)
      BY <1>2 DEF Next
    <2>2. CASE Respond(c)
      BY <2>2, CommitTracks, TroubleTracks DEF Respond
    <2>3. CASE Receive(c)
      BY <2>3, AnswerTracks, TroubleTracks DEF Receive
    <2>. QED
      BY <2>1, <2>2, <2>3, DispatchTracks, FlushTracks, EventsTrack, RebuildTracks
  <1>. QED
    BY <1>1, <1>2

\* A settled page for which nothing was lost shows the canvas of the server,
\* whatever the order of its own edits, their echoes and those of others.
THEOREM PagesShowCanvas == Spec => []ShowsCanvas
  <1>1. Base /\ Tracks => ShowsCanvas
    <2> SUFFICES ASSUME Base, Tracks, NEW c \in Client, Settled(c), c \notin astray, NEW f \in Field
                 PROVE  LastOn(page[c].view, f) = LastOn(Committed, f)
      BY DEF ShowsCanvas, Agrees
    <2>1. ~(f \in Owes(c))
      BY OwedAre DEF Settled, Fields
    <2>2. page[c].view \in Seq(Made)
      BY ShownTyped DEF Base
    <2>3. page[c].view \o stream[c].queue = page[c].view
      BY <2>2, ConcatEmptySeq DEF Settled
    <2>. QED
      BY <2>1, <2>3 DEF Tracks, Tracked
  <1>. QED
    BY <1>1, InitBase, NextBase, InitTracks, NextTracks, PTL DEF Spec
===============================================================================
