---------------------------- MODULE SenderProofs ----------------------------
(***************************************************************************)
(* Theorems about the identifiers of tasks (module TaskConfig) and about   *)
(* the sender (module Sender), for all configurations, streams, formats    *)
(* and numbers of tasks, and any order in which they come and go.          *)
(***************************************************************************)
EXTENDS Sender, SequenceTheorems, WellFoundedInduction, TLAPS

-----------------------------------------------------------------------------
(* Identifiers.                                                            *)

LEMMA WithoutEqual ==
    ASSUME NEW c, NEW d, NEW removed, Without(c, removed) = Without(d, removed)
    PROVE  /\ DOMAIN c \ removed = DOMAIN d \ removed
           /\ \A f \in DOMAIN c \ removed : c[f] = d[f]
<1>1. DOMAIN Without(c, removed) = DOMAIN c \ removed
      /\ DOMAIN Without(d, removed) = DOMAIN d \ removed
  BY DEF Without
<1>2. ASSUME NEW f \in DOMAIN c \ removed PROVE c[f] = d[f]
  <2>1. Without(c, removed)[f] = c[f]
    BY DEF Without
  <2>2. f \in DOMAIN d \ removed
    BY <1>1
  <2>3. Without(d, removed)[f] = d[f]
    BY <2>2 DEF Without
  <2> QED BY <2>1, <2>3
<1> QED BY <1>1, <1>2

\* The IDs of a task's nodes nest: equal nodes have equal nodes above them.
THEOREM SharedNodesShareParents ==
    \A c, d \in RawConfig : LevelsNest(c, d)
BY DEF LevelsNest, ProcessorID, FilterID, InputID

\* Equal IDs mean equal fields of that level, so that the first task's
\* configuration serves them all (MergeSenderConfig, MergeProcessorsConfig).
THEOREM SharedNodesAgree ==
    \A c, d \in RawConfig : LevelsAgree(c, d)
<1> SUFFICES ASSUME NEW c \in RawConfig, NEW d \in RawConfig
             PROVE  LevelsAgree(c, d)
  OBVIOUS
<1>1. ASSUME SenderID(c) = SenderID(d), NEW f \in SenderFields
      PROVE  /\ f \in DOMAIN c <=> f \in DOMAIN d
             /\ f \in DOMAIN c => c[f] = d[f]
  <2>1. f \notin {"dataid"}
    BY TaskConfigAssumption
  <2>2. /\ DOMAIN c \ {"dataid"} = DOMAIN d \ {"dataid"}
        /\ \A g \in DOMAIN c \ {"dataid"} : c[g] = d[g]
    BY <1>1, WithoutEqual DEF SenderID
  <2> QED BY <2>1, <2>2
<1>2. ASSUME ProcessorID(c) = ProcessorID(d),
             NEW f \in ProcessorFields \ SenderFields
      PROVE  /\ f \in DOMAIN c <=> f \in DOMAIN d
             /\ f \in DOMAIN c => c[f] = d[f]
  <2>1. f \notin {"dataid"}
    BY TaskConfigAssumption
  <2>2. /\ DOMAIN SenderID(c) = DOMAIN c \ {"dataid"}
        /\ DOMAIN SenderID(d) = DOMAIN d \ {"dataid"}
    BY DEF SenderID, Without
  <2>3. /\ DOMAIN SenderID(c) \ SenderFields = DOMAIN SenderID(d) \ SenderFields
        /\ \A g \in DOMAIN SenderID(c) \ SenderFields : SenderID(c)[g] = SenderID(d)[g]
    BY <1>2, WithoutEqual DEF ProcessorID
  <2>4. f \in DOMAIN c <=> f \in DOMAIN d
    BY <2>1, <2>2, <2>3
  <2>5. ASSUME f \in DOMAIN c PROVE c[f] = d[f]
    <3>1. SenderID(c)[f] = c[f] /\ SenderID(d)[f] = d[f]
      BY <2>1, <2>4, <2>5 DEF SenderID, Without
    <3>2. f \in DOMAIN SenderID(c) \ SenderFields
      BY <2>1, <2>2, <2>5
    <3> QED BY <3>1, <3>2, <2>3
  <2> QED BY <2>4, <2>5
<1> QED BY <1>1, <1>2 DEF LevelsAgree

\* No two tasks of a sender have the same data ID.
THEOREM SendersTellTasksApart ==
    \A c, d \in Tasked : DataIdTellsTask(c, d)
<1> SUFFICES ASSUME NEW c \in Tasked, NEW d \in Tasked,
                    SenderID(c) = SenderID(d), c["dataid"] = d["dataid"]
             PROVE  c = d
  BY DEF DataIdTellsTask
<1>1. "dataid" \in DOMAIN c /\ "dataid" \in DOMAIN d
  BY DEF Tasked
<1>2. /\ DOMAIN c \ {"dataid"} = DOMAIN d \ {"dataid"}
      /\ \A g \in DOMAIN c \ {"dataid"} : c[g] = d[g]
  BY WithoutEqual DEF SenderID
<1>3. DOMAIN c = DOMAIN d
  BY <1>1, <1>2
<1>4. \A g \in DOMAIN c : c[g] = d[g]
  BY <1>2
<1>5. c = [f \in DOMAIN c |-> c[f]] /\ d = [f \in DOMAIN d |-> d[f]]
  BY DEF Tasked, RawConfig
<1> QED BY <1>3, <1>4, <1>5

\* GetTasks finds the same tasks whatever the order of the files.
THEOREM LoadOrderIrrelevant ==
    \A c, d \in RawConfig : \A S : \A tasks \in [S -> RawConfig] :
        LoadOrder(tasks, c, d)
<1> SUFFICES ASSUME NEW c \in RawConfig, NEW d \in RawConfig, NEW S,
                    NEW tasks \in [S -> RawConfig]
             PROVE  Put(Put(tasks, c), d) = Put(Put(tasks, d), c)
  BY DEF LoadOrder
<1>1. CASE ID(c) = ID(d)
  <2>1. c = d
    BY <1>1 DEF ID
  <2> QED BY <2>1
<1>2. CASE ID(c) # ID(d)
  <2>1. ASSUME NEW x \in RawConfig, NEW y \in RawConfig, ID(x) # ID(y)
        PROVE  Put(Put(tasks, x), y) =
                 [i \in S \cup {ID(x), ID(y)} |->
                    IF i = ID(y) THEN y ELSE IF i = ID(x) THEN x ELSE tasks[i]]
    <3>1. DOMAIN Put(tasks, x) = S \cup {ID(x)}
      BY DEF Put
    <3>2. \A i \in S \cup {ID(x)} :
             Put(tasks, x)[i] = IF i = ID(x) THEN x ELSE tasks[i]
      BY DEF Put
    <3>3. (S \cup {ID(x)}) \cup {ID(y)} = S \cup {ID(x), ID(y)}
      OBVIOUS
    <3> QED BY <2>1, <3>1, <3>2, <3>3 DEF Put
  <2>2. /\ Put(Put(tasks, c), d) =
             [i \in S \cup {ID(c), ID(d)} |->
                IF i = ID(d) THEN d ELSE IF i = ID(c) THEN c ELSE tasks[i]]
        /\ Put(Put(tasks, d), c) =
             [i \in S \cup {ID(d), ID(c)} |->
                IF i = ID(c) THEN c ELSE IF i = ID(d) THEN d ELSE tasks[i]]
    BY <1>2, <2>1
  <2>3. S \cup {ID(c), ID(d)} = S \cup {ID(d), ID(c)}
    OBVIOUS
  <2> QED BY <1>2, <2>2, <2>3
<1> QED BY <1>1, <1>2

-----------------------------------------------------------------------------
(* Lists of texts, one after the other.                                    *)

\* The defining equation of FlattenSeq's loop, up to the n-th sequence.
Flattened(h, seqs, n) ==
    h = [i \in 1 .. n |-> IF i = 1 THEN seqs[i] ELSE h[i - 1] \o seqs[i]]

\* There is a function with that equation; otherwise there were a smallest n
\* for which there is none.
LEMMA FlattenedExists ==
    ASSUME NEW seqs, NEW n \in Nat
    PROVE  \E h : Flattened(h, seqs, n)
<1> DEFINE Missing == {m \in Nat : ~\E h : Flattened(h, seqs, m)}
<1>1. SUFFICES ASSUME Missing # {} PROVE FALSE
  OBVIOUS
<1>2. Missing \subseteq Nat
  OBVIOUS
<1>3. PICK m \in Missing : \A k \in Missing : ~(<<k, m>> \in OpToRel(<, Nat))
  <2> HIDE DEF Missing
  <2> QED BY <1>1, <1>2, NatLessThanWellFounded, WFMin
<1>4. m \in Nat
  BY <1>2
<1>5. m # 0
  <2>1. Flattened([i \in 1 .. 0 |-> <<>>], seqs, 0)
    BY DEF Flattened
  <2> QED BY <2>1
<1>6. m - 1 \in Nat /\ m - 1 < m
  BY <1>4, <1>5
<1>7. m - 1 \notin Missing
  <2> HIDE DEF Missing
  <2>1. m - 1 \in Missing => ~(m - 1 < m)
    BY <1>3, <1>4, <1>6 DEF OpToRel
  <2> QED BY <1>6, <2>1
<1>8. PICK h : Flattened(h, seqs, m - 1)
  BY <1>6, <1>7
<1> DEFINE g == [i \in 1 .. m |-> IF i # m THEN h[i]
                                  ELSE IF m = 1 THEN seqs[1] ELSE h[m - 1] \o seqs[m]]
<1>9. ASSUME NEW i \in 1 .. m
      PROVE  g[i] = IF i = 1 THEN seqs[i] ELSE g[i - 1] \o seqs[i]
  <2>1. \A j \in 1 .. m - 1 : h[j] = IF j = 1 THEN seqs[j] ELSE h[j - 1] \o seqs[j]
    BY <1>8 DEF Flattened
  <2>2. CASE i = m /\ m # 1
    <3>1. m - 1 \in 1 .. m /\ m - 1 # m
      BY <1>4, <2>2
    <3>2. g[m - 1] = h[m - 1] /\ g[m] = h[m - 1] \o seqs[m]
      BY <2>2, <3>1
    <3> QED BY <2>2, <3>2
  <2>3. CASE i = m /\ m = 1
    BY <2>3
  <2>4. CASE i # m
    <3>1. i \in 1 .. m - 1
      BY <1>4, <2>4
    <3>2. g[i] = h[i]
      BY <2>4
    <3>3. CASE i = 1
      BY <2>1, <3>1, <3>2, <3>3
    <3>4. CASE i # 1
      <4>1. i - 1 \in 1 .. m /\ i - 1 # m
        BY <3>1, <3>4, <1>4
      <4>2. g[i - 1] = h[i - 1]
        BY <4>1
      <4> QED BY <2>1, <3>1, <3>2, <3>4, <4>2
    <3> QED BY <3>3, <3>4
  <2> QED BY <2>2, <2>3, <2>4
<1>10. Flattened(g, seqs, m)
  <2>1. g = [i \in 1 .. m |-> g[i]]
    OBVIOUS
  <2> HIDE DEF g
  <2> QED BY <1>9, <2>1 DEF Flattened
<1> QED BY <1>3, <1>10

\* What FlattenSeq computes, sequence by sequence.
LEMMA FlattenTurns ==
    ASSUME NEW S, NEW seqs \in Seq(S), seqs # <<>>
    PROVE  \E h : /\ FlattenSeq(seqs) = h[Len(seqs)]
                  /\ h[1] = seqs[1]
                  /\ \A i \in 2 .. Len(seqs) : h[i] = h[i - 1] \o seqs[i]
<1>1. Len(seqs) \in Nat /\ Len(seqs) # 0 /\ 1 \in 1 .. Len(seqs)
  OBVIOUS
<1> DEFINE h == CHOOSE h : Flattened(h, seqs, Len(seqs))
<1>2. FlattenSeq(seqs) = h[Len(seqs)]
  BY <1>1 DEF FlattenSeq, Flattened
<1>3. Flattened(h, seqs, Len(seqs))
  BY <1>1, FlattenedExists
<1> HIDE DEF h
<1>4. \A i \in 1 .. Len(seqs) : h[i] = IF i = 1 THEN seqs[i] ELSE h[i - 1] \o seqs[i]
  BY <1>3 DEF Flattened
<1>5. \A i \in 2 .. Len(seqs) : i \in 1 .. Len(seqs) /\ i # 1
  BY <1>1
<1> QED BY <1>1, <1>2, <1>4, <1>5

LEMMA FlattenEmpty == FlattenSeq(<<>>) = <<>>
BY DEF FlattenSeq

\* Sequences over a set, one after the other, are a sequence over that set.
LEMMA FlattenTyped ==
    ASSUME NEW S, NEW seqs \in Seq(Seq(S))
    PROVE  FlattenSeq(seqs) \in Seq(S)
<1>1. CASE seqs = <<>>
  <2>1. <<>> \in Seq(S)
    BY EmptySeq
  <2> QED BY <1>1, <2>1, FlattenEmpty
<1>2. CASE seqs # <<>>
  <2>1. PICK h : /\ FlattenSeq(seqs) = h[Len(seqs)]
                 /\ h[1] = seqs[1]
                 /\ \A i \in 2 .. Len(seqs) : h[i] = h[i - 1] \o seqs[i]
    BY <1>2, FlattenTurns
  <2> DEFINE Bad == {i \in 1 .. Len(seqs) : h[i] \notin Seq(S)}
  <2>2. Len(seqs) \in 1 .. Len(seqs) /\ Len(seqs) \in Nat
    BY <1>2
  <2>3. SUFFICES ASSUME Bad # {} PROVE FALSE
    BY <2>1, <2>2
  <2>4. Bad \subseteq Nat
    OBVIOUS
  <2>5. PICK i \in Bad : \A j \in Bad : ~(<<j, i>> \in OpToRel(<, Nat))
    <3> HIDE DEF Bad
    <3> QED BY <2>3, <2>4, NatLessThanWellFounded, WFMin
  <2>6. i \in 1 .. Len(seqs) /\ h[i] \notin Seq(S)
    OBVIOUS
  <2>7. i # 1
    BY <2>1, <2>6
  <2>8. i \in 2 .. Len(seqs) /\ i - 1 \in 1 .. Len(seqs) /\ i - 1 \in Nat /\ i - 1 < i
    BY <2>2, <2>6, <2>7
  <2>9. i - 1 \notin Bad
    <3> HIDE DEF Bad
    <3>1. i - 1 \in Bad => ~(i - 1 < i)
      BY <2>4, <2>5, <2>8 DEF OpToRel
    <3> QED BY <2>8, <3>1
  <2>10. h[i - 1] \in Seq(S) /\ seqs[i] \in Seq(S)
    BY <2>6, <2>8, <2>9
  <2>11. h[i - 1] \o seqs[i] \in Seq(S)
    BY <2>10, ConcatProperties
  <2> QED BY <2>1, <2>6, <2>8, <2>11
<1> QED BY <1>1, <1>2

\* Single elements, one after the other, are the sequence of them.
LEMMA FlattenSingles ==
    ASSUME NEW S, NEW s \in Seq(S)
    PROVE  FlattenSeq([i \in 1 .. Len(s) |-> <<s[i]>>]) = s
<1> DEFINE seqs == [i \in 1 .. Len(s) |-> <<s[i]>>]
<1>1. Len(s) \in Nat /\ seqs \in Seq(Seq(S)) /\ Len(seqs) = Len(s)
  OBVIOUS
<1>2. CASE Len(s) = 0
  <2>1. seqs = <<>> /\ s = <<>>
    BY <1>2
  <2> QED BY <2>1, FlattenEmpty
<1>3. CASE Len(s) # 0
  <2>1. \A i \in 1 .. Len(s) : seqs[i] = <<s[i]>>
    OBVIOUS
  <2>2. seqs # <<>>
    BY <1>1, <1>3
  <2> HIDE DEF seqs
  <2>3. PICK h : /\ FlattenSeq(seqs) = h[Len(s)]
                 /\ h[1] = seqs[1]
                 /\ \A i \in 2 .. Len(s) : h[i] = h[i - 1] \o seqs[i]
    <3>1. seqs \in Seq(Seq(S)) /\ Len(seqs) = Len(s)
      BY <1>1
    <3>2. PICK k : /\ FlattenSeq(seqs) = k[Len(seqs)]
                   /\ k[1] = seqs[1]
                   /\ \A i \in 2 .. Len(seqs) : k[i] = k[i - 1] \o seqs[i]
      BY <2>2, <3>1, FlattenTurns
    <3> QED BY <3>1, <3>2
  <2>4. ASSUME NEW i \in 1 .. Len(s)
        PROVE  SubSeq(s, 1, i) = SubSeq(s, 1, i - 1) \o <<s[i]>>
    <3>1. 1 \in 1 .. Len(s) /\ i \in 1 .. Len(s)
      BY <1>1, <1>3
    <3> QED BY <3>1, SubSeqRecursiveSecond
  <2>5. SubSeq(s, 1, 1) = <<s[1]>>
    <3>1. 1 \in 1 .. Len(s) /\ s[1] \in S /\ <<s[1]>> \in Seq(S)
      BY <1>1, <1>3
    <3>2. SubSeq(s, 1, 1) = SubSeq(s, 1, 0) \o <<s[1]>>
      BY <2>4, <3>1
    <3>3. SubSeq(s, 1, 0) = <<>>
      BY SubSeqEmpty
    <3> QED BY <3>1, <3>2, <3>3, ConcatEmptySeq
  <2> DEFINE Bad == {i \in 1 .. Len(s) : h[i] # SubSeq(s, 1, i)}
  <2>6. Bad = {}
    <3>1. SUFFICES ASSUME Bad # {} PROVE FALSE
      OBVIOUS
    <3>2. Bad \subseteq Nat
      OBVIOUS
    <3>3. PICK i \in Bad : \A j \in Bad : ~(<<j, i>> \in OpToRel(<, Nat))
      <4> HIDE DEF Bad
      <4> QED BY <3>1, <3>2, NatLessThanWellFounded, WFMin
    <3>4. i \in 1 .. Len(s) /\ h[i] # SubSeq(s, 1, i)
      OBVIOUS
    <3>5. i # 1
      <4>1. 1 \in 1 .. Len(s)
        BY <1>1, <1>3
      <4> QED BY <2>1, <2>3, <2>5, <3>4, <4>1
    <3>6. i \in 2 .. Len(s) /\ i - 1 \in 1 .. Len(s) /\ i - 1 \in Nat /\ i - 1 < i /\ i \in Nat
      BY <1>1, <3>4, <3>5
    <3>7. i - 1 \notin Bad
      <4> HIDE DEF Bad
      <4>1. i - 1 \in Bad => ~(i - 1 < i)
        BY <3>2, <3>3, <3>6 DEF OpToRel
      <4> QED BY <3>6, <4>1
    <3>8. h[i - 1] = SubSeq(s, 1, i - 1)
      BY <3>6, <3>7
    <3>9. h[i] = SubSeq(s, 1, i - 1) \o <<s[i]>>
      BY <2>1, <2>3, <3>4, <3>6, <3>8
    <3> QED BY <2>4, <3>4, <3>9
  <2>7. Len(s) \in 1 .. Len(s) /\ SubSeq(s, 1, Len(s)) = s
    BY <1>1, <1>3, SubSeqFull
  <2>8. h[Len(s)] = SubSeq(s, 1, Len(s))
    BY <2>6, <2>7
  <2> QED BY <2>3, <2>7, <2>8 DEF seqs
<1> QED BY <1>2, <1>3

-----------------------------------------------------------------------------
(* What the formatters make of events (Formatters of module Sender).       *)

LEMMA FunctionIsSeq ==
    ASSUME NEW S, NEW n \in Nat, NEW f \in [1 .. n -> S]
    PROVE  f \in Seq(S) /\ Len(f) = n
<1>1. f \in Seq(S)
  BY SeqDef, Zenon
<1> QED BY <1>1, LenProperties

LEMMA FilledTyped ==
    ASSUME NEW text \in STRING PROVE Filled(text) \in Seq(STRING)
<1>1. <<>> \in Seq(STRING)
  BY EmptySeq
<1>2. <<text>> = Append(<<>>, text)
  OBVIOUS
<1>3. <<text>> \in Seq(STRING)
  BY <1>1, <1>2, AppendProperties
<1> QED BY <1>1, <1>3 DEF Filled

LEMMA NonEmptyTyped ==
    ASSUME NEW texts \in Seq(STRING) PROVE NonEmpty(texts) \in Seq(STRING)
<1> DEFINE filled == [i \in DOMAIN texts |-> Filled(texts[i])]
<1>1. DOMAIN texts = 1 .. Len(texts) /\ Len(texts) \in Nat
  OBVIOUS
<1>2. \A i \in 1 .. Len(texts) : texts[i] \in STRING
  OBVIOUS
<1>3. filled \in [1 .. Len(texts) -> Seq(STRING)]
  BY <1>1, <1>2, FilledTyped
<1>4. filled \in Seq(Seq(STRING))
  <2> HIDE DEF filled
  <2> QED BY <1>1, <1>3, FunctionIsSeq
<1> QED BY <1>4, FlattenTyped DEF NonEmpty

LEMMA TextsTyped ==
    ASSUME NEW lists \in Seq(Seq(STRING)) PROVE Texts(lists) \in Seq(STRING)
<1> DEFINE some == [i \in DOMAIN lists |-> NonEmpty(lists[i])]
<1>1. DOMAIN lists = 1 .. Len(lists) /\ Len(lists) \in Nat
  OBVIOUS
<1>2. \A i \in 1 .. Len(lists) : lists[i] \in Seq(STRING)
  OBVIOUS
<1>3. some \in [1 .. Len(lists) -> Seq(STRING)]
  BY <1>1, <1>2, NonEmptyTyped
<1>4. some \in Seq(Seq(STRING))
  <2> HIDE DEF some
  <2> QED BY <1>1, <1>3, FunctionIsSeq
<1> QED BY <1>4, FlattenTyped DEF Texts

\* Items keep their texts, and v2 numbers them from zero.
LEMMA ItemsKeepTexts ==
    ASSUME NEW texts \in Seq(STRING)
    PROVE  /\ Numbered(texts) \in Seq(Item) /\ DataOf(Numbered(texts)) = texts
           /\ \A j \in DOMAIN Numbered(texts) : Numbered(texts)[j].index = j - 1
           /\ Plain(texts) \in Seq(Item) /\ DataOf(Plain(texts)) = texts
<1>1. DOMAIN texts = 1 .. Len(texts) /\ Len(texts) \in Nat /\ texts = [i \in DOMAIN texts |-> texts[i]]
  OBVIOUS
<1>2. \A i \in 1 .. Len(texts) : texts[i] \in STRING /\ i - 1 \in Int
  OBVIOUS
<1>3. /\ DOMAIN Numbered(texts) = DOMAIN texts
      /\ \A i \in DOMAIN texts : Numbered(texts)[i] = [data |-> texts[i], index |-> i - 1]
      /\ Numbered(texts) = [i \in DOMAIN texts |-> Numbered(texts)[i]]
  BY DEF Numbered
<1>4. /\ DOMAIN Plain(texts) = DOMAIN texts
      /\ \A i \in DOMAIN texts : Plain(texts)[i] = [data |-> texts[i], index |-> None]
      /\ Plain(texts) = [i \in DOMAIN texts |-> Plain(texts)[i]]
  BY DEF Plain
<1>5. Numbered(texts) \in Seq(Item)
  <2>1. \A i \in 1 .. Len(texts) : Numbered(texts)[i] \in Item
    BY <1>1, <1>2, <1>3 DEF Item
  <2>2. Numbered(texts) \in [1 .. Len(texts) -> Item]
    BY <1>1, <1>3, <2>1
  <2> QED BY <1>1, <2>2, FunctionIsSeq
<1>6. Plain(texts) \in Seq(Item)
  <2>1. \A i \in 1 .. Len(texts) : Plain(texts)[i] \in Item
    BY <1>1, <1>2, <1>4 DEF Item
  <2>2. Plain(texts) \in [1 .. Len(texts) -> Item]
    BY <1>1, <1>4, <2>1
  <2> QED BY <1>1, <2>2, FunctionIsSeq
<1>7. DataOf(Numbered(texts)) = texts
  <2>1. DataOf(Numbered(texts)) = [i \in DOMAIN texts |-> texts[i]]
    BY <1>3 DEF DataOf
  <2> QED BY <1>1, <2>1
<1>8. DataOf(Plain(texts)) = texts
  <2>1. DataOf(Plain(texts)) = [i \in DOMAIN texts |-> texts[i]]
    BY <1>4 DEF DataOf
  <2> QED BY <1>1, <2>1
<1> QED BY <1>3, <1>5, <1>6, <1>7, <1>8

\* The events of a source from one position to another.
Events(s, from, to) == [i \in 1 .. to - from |-> EventOf(s, from + i)]

\* All tasks of a sender have one format, so that of the formatter is it.
LEMMA OneFormat ==
    ASSUME group \in Groups, NEW t \in group, NEW u \in group
    PROVE  t.output_format = u.output_format
<1>1. SenderID(t) = SenderID(u) /\ t \in Tasks
  BY SenderAssumption DEF Tasks
<1>2. "output_format" \in DOMAIN t \ {"dataid"}
  BY <1>1, SenderAssumption
<1>3. t["output_format"] = u["output_format"]
  BY <1>1, <1>2, WithoutEqual DEF SenderID
<1> QED BY <1>3

LEMMA StreamTyped ==
    ASSUME stream \in Streams, NEW s \in Sources, NEW i \in 1 .. Len(stream[s])
    PROVE  /\ stream[s] \in Seq([texts : Seq(STRING), data : STRING])
           /\ stream[s][i].texts \in Seq(STRING) /\ stream[s][i].data \in STRING
           /\ GetTexts(stream[s][i]) \in Seq(STRING)
           /\ i \in Nat => EventOf(s, i) \in Event
<1>1. stream[s] \in Seq([texts : Seq(STRING), data : STRING])
  BY SenderAssumption
<1>2. stream[s][i] \in [texts : Seq(STRING), data : STRING]
  BY <1>1, ElementOfSeq
<1>3. stream[s][i].texts \in Seq(STRING) /\ stream[s][i].data \in STRING
  BY <1>2
<1>4. <<stream[s][i].data>> \in Seq(STRING)
  <2>1. <<>> \in Seq(STRING) /\ <<stream[s][i].data>> = Append(<<>>, stream[s][i].data)
    BY EmptySeq
  <2> QED BY <1>3, <2>1, AppendProperties
<1>5. i \in Nat => EventOf(s, i) \in Event
  BY <1>3 DEF EventOf, Event
<1> QED BY <1>1, <1>3, <1>4, <1>5 DEF GetTexts

\* What ItemsOf makes of the events of a source are the texts its consumers
\* are to get, numbered in v2.
LEMMA ItemsAreWanted ==
    ASSUME group \in Groups, stream \in Streams, config \in group, NEW s \in Sources,
           NEW from \in Nat, NEW to \in Nat, from < to, to <= Len(stream[s])
    PROVE  LET items == ItemsOf(Events(s, from, to))
           IN  /\ items \in Seq(Item)
               /\ DataOf(items) = WantedOf(s, from, to)
               /\ config.output_format = "v2" => \A j \in DOMAIN items : items[j].index = j - 1
<1> DEFINE n == to - from
           events == Events(s, from, to)
           format == (CHOOSE t \in group : TRUE).output_format
<1>1. n \in Nat /\ 1 \in 1 .. n
  OBVIOUS
<1>2. \A i \in 1 .. n : from + i \in 1 .. Len(stream[s])
  <2>1. Len(stream[s]) \in Nat
    BY SenderAssumption
  <2> QED BY <2>1
<1>3. /\ DOMAIN events = 1 .. n
      /\ \A i \in 1 .. n : /\ events[i].texts = stream[s][from + i].texts
                           /\ events[i].data = stream[s][from + i].data
  BY DEF Events, EventOf
<1>4. \A i \in 1 .. n : /\ HasTexts(events[i]) <=> HasTexts(stream[s][from + i])
                        /\ GetTexts(events[i]) = GetTexts(stream[s][from + i])
  BY <1>3 DEF HasTexts, GetTexts
<1>5. format = config.output_format
  BY OneFormat
<1>6. \A i \in 1 .. n :
         Wanted(s, from + i) = IF ~HasTexts(events[i]) /\ format = "v2" THEN <<events[i].data>>
                               ELSE NonEmpty(GetTexts(events[i]))
  BY <1>3, <1>4 DEF Wanted
<1>7. \A i \in 1 .. n : HasTexts(events[i]) <=> HasTexts(events[1])
  <2>1. DOMAIN stream[s] = 1 .. Len(stream[s])
    BY SenderAssumption
  <2>2. \A i, j \in DOMAIN stream[s] : HasTexts(stream[s][i]) <=> HasTexts(stream[s][j])
    BY SenderAssumption
  <2> QED BY <1>1, <1>2, <1>4, <2>1, <2>2
<1>8. \A i \in 1 .. n : /\ events[i].texts \in Seq(STRING) /\ events[i].data \in STRING
                        /\ GetTexts(events[i]) \in Seq(STRING)
  BY <1>2, <1>3, <1>4, StreamTyped
<1> HIDE DEF n, events, format
<1> DEFINE lists == [i \in 1 .. n |-> GetTexts(events[i])]
<1>10. lists \in Seq(Seq(STRING)) /\ Texts(lists) \in Seq(STRING)
  <2>1. lists \in [1 .. n -> Seq(STRING)]
    BY <1>8
  <2>2. lists \in Seq(Seq(STRING))
    BY <1>1, <2>1, FunctionIsSeq
  <2> QED BY <2>2, TextsTyped
<1>11. ASSUME ~(~HasTexts(events[1]) /\ format = "v2")
       PROVE  Texts(lists) = WantedOf(s, from, to)
  <2>1. \A i \in 1 .. n : Wanted(s, from + i) = NonEmpty(lists[i])
    BY <1>6, <1>7, <1>11
  <2>2. [i \in 1 .. n |-> Wanted(s, from + i)] = [i \in DOMAIN lists |-> NonEmpty(lists[i])]
    BY <2>1
  <2> QED BY <2>2 DEF Texts, WantedOf, n
<1>12. CASE config.output_format # "v2"
  <2>1. ItemsOf(events) = Plain(Texts(lists))
    BY <1>3, <1>12 DEF ItemsOf
  <2> QED BY <1>5, <1>10, <1>11, <1>12, <2>1, ItemsKeepTexts DEF events
<1>13. CASE config.output_format = "v2" /\ HasTexts(events[1])
  <2>1. [i \in DOMAIN events |-> events[i].texts] = lists
    BY <1>3, <1>7, <1>13 DEF GetTexts
  <2>2. ItemsOf(events) = Numbered(Texts(lists))
    BY <1>13, <2>1 DEF ItemsOf, V2Items
  <2> QED BY <1>10, <1>11, <1>13, <2>2, ItemsKeepTexts DEF events
<1>14. CASE config.output_format = "v2" /\ ~HasTexts(events[1])
  <2> DEFINE lines == [i \in 1 .. n |-> events[i].data]
  <2>1. lines \in Seq(STRING) /\ Len(lines) = n
    <3>1. lines \in [1 .. n -> STRING]
      BY <1>8
    <3> HIDE DEF lines
    <3> QED BY <1>1, <3>1, FunctionIsSeq
  <2>2. ItemsOf(events) = Numbered(lines)
    BY <1>3, <1>14 DEF ItemsOf, V2Items
  <2>3. \A i \in 1 .. n : Wanted(s, from + i) = <<lines[i]>>
    BY <1>5, <1>6, <1>7, <1>14
  <2>4. [i \in 1 .. n |-> Wanted(s, from + i)] = [i \in 1 .. Len(lines) |-> <<lines[i]>>]
    BY <2>1, <2>3
  <2>5. WantedOf(s, from, to) = lines
    <3> HIDE DEF lines
    <3>1. FlattenSeq([i \in 1 .. Len(lines) |-> <<lines[i]>>]) = lines
      BY <2>1, FlattenSingles
    <3> QED BY <2>4, <3>1 DEF WantedOf, n
  <2> HIDE DEF lines
  <2> QED BY <2>1, <2>2, <2>5, ItemsKeepTexts DEF events
<1> QED BY <1>12, <1>13, <1>14

-----------------------------------------------------------------------------
(* What a task knows of a source, package by package.                      *)

\* A set of positions that is not empty has a largest one, which Max finds;
\* it is at the smallest distance from the end.
LEMMA LargestPosition ==
    ASSUME NEW n \in Nat, NEW S \in SUBSET (1 .. n), S # {}
    PROVE  Max(S) \in S /\ \A j \in S : Max(S) >= j
<1> DEFINE Distances == {n - j : j \in S}
<1>1. Distances \subseteq Nat /\ Distances # {}
  <2>1. \A j \in S : j \in 1 .. n
    OBVIOUS
  <2>2. \A j \in 1 .. n : n - j \in Nat
    OBVIOUS
  <2> QED BY <2>1, <2>2
<1>2. PICK d \in Distances : \A e \in Distances : ~(<<e, d>> \in OpToRel(<, Nat))
  <2> HIDE DEF Distances
  <2> QED BY <1>1, NatLessThanWellFounded, WFMin
<1>3. PICK i \in S : d = n - i
  OBVIOUS
<1>4. ASSUME NEW j \in S PROVE i >= j
  <2>1. n - j \in Distances /\ n - j \in Nat /\ d \in Nat
    BY <1>1
  <2>2. ~(n - j < d)
    <3> HIDE DEF Distances
    <3> QED BY <1>2, <2>1 DEF OpToRel
  <2>3. i \in Nat /\ j \in Nat
    OBVIOUS
  <2> QED BY <1>3, <2>2, <2>3
<1> QED BY <1>4 DEF Max

\* The package at the end counts for its source only, and for none of the
\* positions up to its own.
LEMMA KnownGrows ==
    ASSUME NEW packages \in Seq(Package), NEW p \in Package, NEW s, NEW start
    PROVE  /\ \A i \in 1 .. Len(packages) + 1 :
                 Known(Append(packages, p), s, start, i) = Known(packages, s, start, i)
           /\ Known(Append(packages, p), s, start, Len(packages) + 2) =
                 IF p.src = s THEN p.off ELSE Known(packages, s, start, Len(packages) + 1)
<1> DEFINE n == Len(packages)
           longer == Append(packages, p)
           Of(i) == {j \in 1 .. i - 1 : packages[j].src = s}
           OfLonger(i) == {j \in 1 .. i - 1 : longer[j].src = s}
<1>1. n \in Nat
  OBVIOUS
<1>2. longer[n + 1] = p /\ \A j \in 1 .. n : longer[j] = packages[j]
  OBVIOUS
<1>3. ASSUME NEW i \in 1 .. n + 1
      PROVE  Known(longer, s, start, i) = Known(packages, s, start, i)
  <2>1. \A j \in 1 .. i - 1 : j \in 1 .. n
    BY <1>1
  <2>2. OfLonger(i) = Of(i)
    BY <1>2, <2>1
  <2>3. CASE Of(i) = {}
    BY <2>2, <2>3 DEF Known
  <2>4. CASE Of(i) # {}
    <3>1. Max(Of(i)) \in Of(i)
      <4> DEFINE S == Of(i)
      <4>1. S \in SUBSET (1 .. n) /\ S # {}
        BY <2>1, <2>4
      <4> HIDE DEF S
      <4>2. Max(S) \in S
        BY <1>1, <4>1, LargestPosition
      <4> QED BY <4>2 DEF S
    <3>2. longer[Max(Of(i))] = packages[Max(Of(i))]
      BY <1>2, <2>1, <3>1
    <3> QED BY <2>2, <2>4, <3>2 DEF Known
  <2> QED BY <2>3, <2>4
<1>4. CASE p.src = s
  <2> DEFINE S == OfLonger(n + 2)
  <2>1. S \in SUBSET (1 .. n + 1) /\ n + 1 \in S
    BY <1>1, <1>2, <1>4
  <2>2. Max(S) = n + 1 /\ S # {}
    <3> HIDE DEF S
    <3>1. Max(S) \in 1 .. n + 1 /\ Max(S) >= n + 1
      <4>1. n + 1 \in Nat /\ S # {}
        BY <1>1, <2>1
      <4>2. Max(S) \in S /\ \A j \in S : Max(S) >= j
        BY <2>1, <4>1, LargestPosition
      <4> QED BY <2>1, <4>2
    <3> HIDE DEF n
    <3> QED BY <1>1, <2>1, <3>1
  <2>3. Known(longer, s, start, n + 2) = longer[n + 1].off
    BY <2>2 DEF Known
  <2> QED BY <1>2, <1>3, <1>4, <2>3
<1>5. CASE p.src # s
  <2>1. (n + 2) - 1 = n + 1 /\ (n + 1) - 1 = n
    BY <1>1
  <2>2. OfLonger(n + 2) = OfLonger(n + 1)
    <3>1. \A j \in 1 .. n + 1 : j = n + 1 \/ j \in 1 .. n
      BY <1>1
    <3>2. \A j \in 1 .. n : j \in 1 .. n + 1
      BY <1>1
    <3> QED BY <1>2, <1>5, <2>1, <3>1, <3>2
  <2>3. Known(longer, s, start, n + 2) = Known(longer, s, start, n + 1)
    BY <2>2 DEF Known
  <2>4. n + 1 \in 1 .. n + 1
    BY <1>1
  <2> QED BY <1>3, <1>5, <2>3, <2>4
<1> QED BY <1>3, <1>4, <1>5

LEMMA KnownTyped ==
    ASSUME NEW packages \in Seq(Package), NEW s, NEW start \in Nat,
           NEW i \in 1 .. Len(packages) + 1
    PROVE  Known(packages, s, start, i) \in Nat
<1> DEFINE S == {j \in 1 .. i - 1 : packages[j].src = s}
<1>1. Len(packages) \in Nat
  OBVIOUS
<1>2. S \in SUBSET (1 .. Len(packages))
  BY <1>1
<1>3. CASE S = {}
  BY <1>3 DEF Known
<1>4. CASE S # {}
  <2>1. Max(S) \in 1 .. Len(packages)
    <3> HIDE DEF S
    <3> QED BY <1>1, <1>2, <1>4, LargestPosition
  <2>2. packages[Max(S)] \in Package
    <3> HIDE DEF S
    <3> QED BY <2>1, ElementOfSeq
  <2>3. packages[Max(S)].off \in Nat
    BY <2>2 DEF Package
  <2> QED BY <1>4, <2>3 DEF Known
<1> QED BY <1>3, <1>4

LEMMA KnownAtFirst ==
    ASSUME NEW s, NEW start
    PROVE  Known(<<>>, s, start, 1) = start /\ Len(<<>>) + 1 = 1
<1>1. {j \in 1 .. 1 - 1 : <<>>[j].src = s} = {}
  OBVIOUS
<1> QED BY <1>1 DEF Known

-----------------------------------------------------------------------------
(* The inductive invariant.                                                *)

\* A task has one channel in Outs, its latest, and its configuration is
\* merged before that: it is merged when its channel is added and stays
\* until the node ends.  The channels there have been are numbered without
\* a gap, and no task joins more often than tasks were stopped.
ManagerInv ==
    /\ ~node => /\ config = None /\ configs = {} /\ merging = None /\ outs = {}
                /\ cache = NoCache /\ flushing = {} /\ sending = None
    /\ node => config \in group
    /\ \A c \in outs : c[1] \in configs /\ c = Out(c[1])
    /\ merging # None => merging \in configs /\ Out(merging) \notin outs /\ outs # {}
    /\ \A t \in group : joins[t] <= stops + (IF Out(t) \in outs THEN 1 ELSE 0)
    /\ DOMAIN received = {c \in Channels : c[1] \in group /\ c[2] <= joins[c[1]]}

\* The cache of a source is what was taken of it last; without packages
\* there is none.
SourceInv ==
    /\ \A s \in Sources : /\ Len(cache[s]) <= taken[s]
                          /\ cache[s] = Events(s, taken[s] - Len(cache[s]), taken[s])
    /\ node => config.package \/ \A s \in Sources : cache[s] = <<>>

ItemsSent  == IF sending.data = None THEN <<>> ELSE sending.data.items
OthersSent == IF sending.data = None THEN None ELSE sending.data.others

\* What send has in hand ends with the last event taken of its source, of
\* which nothing is cached then, and begins where every task that is still
\* to get it stands.  These tasks keep their channels and configurations,
\* even those that have left Outs.
SendingInv ==
    sending # None =>
        LET s == sending.state.src
        IN  /\ sending.state = EventOf(s, taken[s]) /\ cache[s] = <<>>
            /\ sending.data # None => ItemsSent # <<>>
            /\ \A t \in group : t.output_format = "v2" =>
                  \A j \in DOMAIN ItemsSent : ItemsSent[j].index = j - 1
            /\ \A t \in group : OthersFit(OthersSent, ItemsSent, t.output_format)
            /\ \E from \in 0 .. taken[s] - 1 :
                  /\ DataOf(ItemsSent) = WantedOf(s, from, taken[s])
                  /\ \A c \in sending.left : /\ c \in DOMAIN received /\ c[1] \in configs
                                             /\ Got(c, s) = from

SenderInv ==
    /\ TypeOK /\ ManagerInv /\ SourceInv
    /\ SendingInv /\ NothingDropped /\ PackagesInOrder /\ WellFormed

\* A task joins on a channel that has not been there, behind what was taken
\* and is not cached.
LEMMA JoinsAddsOne ==
    ASSUME TypeOK, ManagerInv, SourceInv, NEW t \in group, Out(t) \notin outs, Joins(t)
    PROVE  /\ joins[t] \in Nat /\ joins[t] <= stops /\ joins' \in [group -> 0 .. MaxStops + 1]
           /\ joins' = [joins EXCEPT ![t] = joins[t] + 1]
           /\ NextOut(t) \in Channels \ DOMAIN received /\ NextOut(t)[1] = t
           /\ outs' \subseteq alive' /\ alive' \subseteq DOMAIN received'
           /\ DOMAIN received' = DOMAIN received \cup {NextOut(t)}
           /\ DOMAIN received' = {c \in Channels : c[1] \in group /\ c[2] <= joins'[c[1]]}
           /\ since' \in [DOMAIN received' -> [Sources -> Nat]]
           /\ \A c \in DOMAIN received' : received'[c] \in Seq(Package)
           /\ received'[NextOut(t)] = <<>>
           /\ \A s \in Sources : since'[NextOut(t)][s] = taken[s] - Len(cache[s])
           /\ \A c \in DOMAIN received : received'[c] = received[c] /\ since'[c] = since[c]
<1> DEFINE new == NextOut(t)
<1>1. MaxStops \in Nat /\ stops \in 0 .. MaxStops /\ group \subseteq Tasks /\ t \in Tasks
  BY SenderAssumption DEF TypeOK, Tasks
<1>2. joins \in [group -> 0 .. MaxStops + 1] /\ joins[t] \in 0 .. MaxStops + 1 /\ joins[t] <= stops
  BY DEF TypeOK, ManagerInv
<1>3. joins' = [joins EXCEPT ![t] = joins[t] + 1] /\ joins'[t] = joins[t] + 1
      /\ \A u \in group : u # t => joins'[u] = joins[u]
  BY <1>2 DEF Joins
<1>4. joins' \in [group -> 0 .. MaxStops + 1]
  BY <1>1, <1>2, <1>3
<1>5. new = <<t, joins[t] + 1>> /\ new[1] = t /\ new[2] = joins[t] + 1
  BY DEF NextOut
<1>6. new \in Channels
  BY <1>1, <1>2, <1>5 DEF Channels
<1>7. DOMAIN received = {c \in Channels : c[1] \in group /\ c[2] <= joins[c[1]]}
  BY DEF ManagerInv
<1>8. new \notin DOMAIN received
  <2>1. ~(joins[t] + 1 <= joins[t])
    BY <1>2
  <2> QED BY <1>5, <1>7, <2>1
<1>9. DOMAIN received' = DOMAIN received \cup {new}
  BY DEF Joins
<1>10. DOMAIN since = DOMAIN received
  BY DEF TypeOK
<1>11. received'[new] = <<>> /\ \A c \in DOMAIN received : received'[c] = received[c]
  BY <1>8 DEF Joins
<1>12. since'[new] = [s \in Sources |-> taken[s] - Len(cache[s])]
       /\ \A c \in DOMAIN received : since'[c] = since[c]
  BY <1>8, <1>10 DEF Joins
<1>13. [s \in Sources |-> taken[s] - Len(cache[s])] \in [Sources -> Nat]
  <2>1. ASSUME NEW s \in Sources PROVE taken[s] - Len(cache[s]) \in Nat
    <3>1. taken[s] \in Nat /\ Len(cache[s]) \in Nat /\ Len(cache[s]) <= taken[s]
      BY DEF TypeOK, SourceInv
    <3> QED BY <3>1
  <2> QED BY <2>1
<1>14. since' \in [DOMAIN received' -> [Sources -> Nat]]
  <2>1. since' = [c \in DOMAIN received' |-> since'[c]]
    BY <1>9, <1>10 DEF Joins
  <2>2. \A c \in DOMAIN received : since[c] \in [Sources -> Nat]
    BY DEF TypeOK
  <2> HIDE DEF new
  <2>3. \A c \in DOMAIN received' : since'[c] \in [Sources -> Nat]
    BY <1>9, <1>12, <1>13, <2>2
  <2> QED BY <2>1, <2>3
<1>15. \A c \in DOMAIN received' : received'[c] \in Seq(Package)
  <2>1. <<>> \in Seq(Package) /\ \A c \in DOMAIN received : received[c] \in Seq(Package)
    BY EmptySeq DEF TypeOK
  <2> HIDE DEF new
  <2> QED BY <1>9, <1>11, <2>1
<1>16. outs' \subseteq alive' /\ alive' \subseteq DOMAIN received'
  BY <1>9 DEF Joins, TypeOK
<1>17. DOMAIN received' = {c \in Channels : c[1] \in group /\ c[2] <= joins'[c[1]]}
  <2>1. ASSUME NEW c \in Channels
        PROVE  c \in DOMAIN received' <=> c[1] \in group /\ c[2] <= joins'[c[1]]
    <3>1. c = <<c[1], c[2]>> /\ c[1] \in Tasks /\ c[2] \in 1 .. MaxStops + 1
      BY DEF Channels
    <3>2. CASE c[1] # t
      BY <1>3, <1>5, <1>7, <1>9, <3>2
    <3>3. CASE c[1] = t
      <4>1. c[2] <= joins[t] + 1 <=> c[2] <= joins[t] \/ c[2] = joins[t] + 1
        BY <1>1, <1>2, <3>1
      <4>2. c[2] = joins[t] + 1 <=> c = new
        BY <1>5, <3>1, <3>3
      <4>3. c \in DOMAIN received <=> c[2] <= joins[t]
        BY <1>7, <3>3
      <4> QED BY <1>3, <1>9, <3>3, <4>1, <4>2, <4>3
    <3> QED BY <3>2, <3>3
  <2>2. DOMAIN received' \subseteq Channels
    BY <1>6, <1>7, <1>9
  <2> QED BY <2>1, <2>2
<1>18. joins[t] \in Nat /\ \A s \in Sources : since'[new][s] = taken[s] - Len(cache[s])
  BY <1>1, <1>2, <1>12
<1> QED BY <1>2, <1>3, <1>4, <1>5, <1>6, <1>8, <1>9, <1>11, <1>12, <1>14, <1>15, <1>16, <1>17, <1>18

\* A cache that gets an event more is still what was taken last.
LEMMA CacheIsEvents ==
    ASSUME TypeOK, SourceInv, NEW s \in Sources, taken[s] < Len(stream[s])
    PROVE  /\ EventOf(s, taken[s] + 1) \in Event
           /\ LET buffer == Append(cache[s], EventOf(s, taken[s] + 1))
              IN  /\ buffer \in Seq(Event) /\ Len(buffer) = Len(cache[s]) + 1
                  /\ buffer = Events(s, taken[s] - Len(cache[s]), taken[s] + 1)
<1> DEFINE event == EventOf(s, taken[s] + 1)
           n == Len(cache[s])
           from == taken[s] - n
<1>1. /\ taken[s] \in Nat /\ cache[s] \in Seq(Event) /\ n \in Nat /\ n <= taken[s]
      /\ cache[s] = [i \in 1 .. taken[s] - from |-> EventOf(s, from + i)]
  BY DEF TypeOK, SourceInv, Events
<1>2. event \in Event
  <2>1. taken[s] + 1 \in 1 .. Len(stream[s]) /\ taken[s] + 1 \in Nat
    <3>1. Len(stream[s]) \in Nat
      BY SenderAssumption DEF TypeOK
    <3> QED BY <1>1, <3>1
  <2> QED BY <2>1, StreamTyped DEF TypeOK
<1>3. /\ taken[s] - from = n /\ (taken[s] + 1) - from = n + 1
      /\ from + (n + 1) = taken[s] + 1
  <2>1. taken[s] \in Nat /\ n \in Nat /\ from = taken[s] - n
    BY <1>1
  <2> HIDE DEF n, from
  <2> QED BY <2>1
<1>4. \A i \in 1 .. n : cache[s][i] = EventOf(s, from + i)
  BY <1>1, <1>3
<1> HIDE DEF event, from, n
<1>5. /\ Append(cache[s], event) \in Seq(Event) /\ Len(Append(cache[s], event)) = n + 1
      /\ \A i \in 1 .. n : Append(cache[s], event)[i] = cache[s][i]
      /\ Append(cache[s], event)[n + 1] = event
  <2> DEFINE old == cache[s]
  <2>1. old \in Seq(Event) /\ n = Len(old)
    BY <1>1 DEF n
  <2> HIDE DEF old
  <2>2. /\ Append(old, event) \in Seq(Event) /\ Len(Append(old, event)) = n + 1
        /\ \A i \in 1 .. n : Append(old, event)[i] = old[i]
        /\ Append(old, event)[n + 1] = event
    BY <1>2, <2>1, AppendProperties
  <2> QED BY <2>2 DEF old
<1>6. \A i \in 1 .. n + 1 : Append(cache[s], event)[i] = EventOf(s, from + i)
  <2>1. Append(cache[s], event)[n + 1] = EventOf(s, from + (n + 1))
    BY <1>3, <1>5 DEF event
  <2>2. \A i \in 1 .. n + 1 : i \in 1 .. n \/ i = n + 1
    BY <1>1
  <2> QED BY <1>4, <1>5, <2>1, <2>2
<1>7. Append(cache[s], event) = [i \in 1 .. n + 1 |-> EventOf(s, from + i)]
  <2> DEFINE buffer == Append(cache[s], event)
  <2>1. buffer = [i \in 1 .. n + 1 |-> buffer[i]]
    <3> HIDE DEF buffer
    <3>1. buffer \in Seq(Event) /\ Len(buffer) = n + 1
      BY <1>5 DEF buffer
    <3> QED BY <3>1
  <2> QED BY <1>6, <2>1
<1> QED BY <1>2, <1>3, <1>5, <1>7 DEF Events, event, from, n

\* What send starts from: the texts of the events, standing for the last.
LEMMA SendIsWanted ==
    ASSUME TypeOK, config \in group, NEW s \in Sources, NEW from \in Nat, NEW to \in Nat,
           from < to, to <= Len(stream[s]), outs \subseteq Channels,
           NEW package, package = Send(Events(s, from, to))
    PROVE  LET items  == IF package.data = None THEN <<>> ELSE package.data.items
               others == IF package.data = None THEN None ELSE package.data.others
           IN  /\ package \in Sending /\ package # None
               /\ package.state = EventOf(s, to) /\ package.left = outs
               /\ package.data # None => items # <<>>
               /\ \A t \in group : t.output_format = "v2" =>
                     \A j \in DOMAIN items : items[j].index = j - 1
               /\ \A t \in group : OthersFit(others, items, t.output_format)
               /\ DataOf(items) = WantedOf(s, from, to)
<1> DEFINE events == Events(s, from, to)
           made == ItemsOf(events)
           items == IF package.data = None THEN <<>> ELSE package.data.items
           others == IF NamesOthers(config.output_format) THEN config.dataid ELSE None
           sent == IF package.data = None THEN None ELSE package.data.others
<1>1. group \in Groups /\ stream \in Streams
  BY DEF TypeOK
<1>2. /\ made \in Seq(Item) /\ DataOf(made) = WantedOf(s, from, to)
      /\ config.output_format = "v2" => \A j \in DOMAIN made : made[j].index = j - 1
  BY <1>1, ItemsAreWanted
<1>3. events[Len(events)] = EventOf(s, to) /\ EventOf(s, to) \in Event
  <2>1. to - from \in Nat /\ to - from \in 1 .. to - from /\ from + (to - from) = to
    OBVIOUS
  <2>2. Len(events) = to - from
    BY <2>1 DEF Events
  <2>3. events[to - from] = EventOf(s, from + (to - from))
    BY <2>1 DEF Events
  <2>4. to \in 1 .. Len(stream[s])
    <3>1. Len(stream[s]) \in Nat
      BY <1>1, SenderAssumption
    <3> QED BY <3>1
  <2> QED BY <1>1, <2>1, <2>2, <2>3, <2>4, StreamTyped
<1>4. config \in Tasks /\ None \notin Data /\ None \notin Sending
  BY <1>1, SenderAssumption DEF Tasks
<1> HIDE DEF events, made, others
<1>5. /\ package.state = EventOf(s, to) /\ package.left = outs
      /\ package.data = IF made = <<>> THEN None
                        ELSE [dataid |-> config.dataid, others |-> others, items |-> made]
      /\ package = [state |-> package.state, data |-> package.data, left |-> package.left]
  BY <1>3 DEF Send, Format, events, made, others
<1>6. [dataid |-> config.dataid, others |-> others, items |-> made] \in Data
  BY <1>2, <1>4 DEF Data, DataIds, others
<1>7. package.data \in Data \cup {None}
  BY <1>5, <1>6
<1>8. items = made /\ (package.data # None => made # <<>>)
  BY <1>4, <1>5, <1>6
<1>9. package \in Sending
  BY <1>3, <1>5, <1>7 DEF Sending
<1>10. \A t \in group : t.output_format = config.output_format
  BY <1>1, OneFormat
<1>11. \A t \in group : OthersFit(sent, items, t.output_format)
  <2>1. sent = IF made = <<>> THEN None ELSE others
    BY <1>4, <1>5, <1>6
  <2>2. config.dataid \in {t.dataid : t \in group}
    OBVIOUS
  <2> HIDE DEF items, sent
  <2> QED BY <1>8, <1>10, <2>1, <2>2 DEF OthersFit, others
<1> HIDE DEF items, sent
<1> QED BY <1>2, <1>4, <1>5, <1>8, <1>9, <1>10, <1>11 DEF items, sent

-----------------------------------------------------------------------------
(* Every step keeps the invariant.                                         *)

\* Packages that do not change keep their properties, as do channels that
\* only start.
LEMMA HistoryKept ==
    ASSUME TypeOK, PackagesInOrder, WellFormed, UNCHANGED <<group, stream>>,
           DOMAIN received \subseteq DOMAIN received',
           \A c \in DOMAIN received : received'[c] = received[c] /\ since'[c] = since[c],
           \A c \in DOMAIN received' \ DOMAIN received : received'[c] = <<>>
    PROVE  PackagesInOrder' /\ WellFormed'
<1>1. ASSUME NEW c \in DOMAIN received', NEW i \in DOMAIN received'[c]
      PROVE  c \in DOMAIN received /\ received'[c] = received[c] /\ since'[c] = since[c]
             /\ i \in DOMAIN received[c]
  OBVIOUS
<1>2. PackagesInOrder'
  <2>1. \A s, from, to : WantedOf(s, from, to)' = WantedOf(s, from, to)
    BY DEF WantedOf, Wanted
  <2>2. SUFFICES ASSUME NEW c \in DOMAIN received', NEW i \in DOMAIN received'[c],
                        NEW p, p = received'[c][i],
                        NEW before, before = Known(received'[c], p.src, since'[c][p.src], i)
                 PROVE  before < p.off /\ DataOf(p.items) = WantedOf(p.src, before, p.off)
    BY <2>1 DEF PackagesInOrder
  <2> QED BY <1>1, <2>2 DEF PackagesInOrder
<1>3. WellFormed'
  <2>1. SUFFICES ASSUME NEW c \in DOMAIN received', NEW i \in DOMAIN received'[c],
                        NEW p, p = received'[c][i]
                 PROVE  /\ p.dataid = IF p.items = <<>> THEN None ELSE c[1].dataid
                        /\ OthersFit(p.others, p.items, c[1].output_format)
                        /\ c[1].output_format = "v2" =>
                              \A j \in DOMAIN p.items : p.items[j].index = j - 1
    BY DEF WellFormed, OthersFit
  <2> QED BY <1>1, <2>1 DEF WellFormed
<1> QED BY <1>2, <1>3

LEMMA GotKept ==
    ASSUME NEW c, NEW s, received'[c] = received[c], since'[c] = since[c]
    PROVE  Got(c, s)' = Got(c, s)
BY DEF Got, Known

\* A package in hand stays what it is while nothing is taken or received.
LEMMA SendingKept ==
    ASSUME TypeOK, SendingInv, UNCHANGED <<group, stream, taken, sending>>,
           sending # None => UNCHANGED cache,
           configs \subseteq configs', DOMAIN received \subseteq DOMAIN received',
           \A c \in DOMAIN received : received'[c] = received[c] /\ since'[c] = since[c]
    PROVE  SendingInv'
<1> SUFFICES ASSUME sending # None
             PROVE  SendingInv'
  BY DEF SendingInv
<1> DEFINE s == sending.state.src
<1>1. sending' = sending /\ cache' = cache /\ taken' = taken /\ ItemsSent' = ItemsSent
      /\ group' = group
  BY DEF ItemsSent
<1>2. \A from, to : WantedOf(s, from, to)' = WantedOf(s, from, to)
  BY DEF WantedOf, Wanted
<1>3. EventOf(s, taken[s])' = EventOf(s, taken[s])
  BY DEF EventOf
<1>4. PICK from \in 0 .. taken[s] - 1 :
         /\ DataOf(ItemsSent) = WantedOf(s, from, taken[s])
         /\ \A c \in sending.left : /\ c \in DOMAIN received /\ c[1] \in configs
                                    /\ Got(c, s) = from
  BY DEF SendingInv
<1>5. \A c \in sending.left : /\ c \in DOMAIN received' /\ c[1] \in configs'
                              /\ Got(c, s)' = from
  BY <1>4, GotKept
<1>6. DataOf(ItemsSent)' = WantedOf(s, from, taken[s])'
  BY <1>1, <1>2, <1>4 DEF DataOf
<1>7. \A t \in group' : OthersFit(OthersSent, ItemsSent, t.output_format)'
  BY <1>1 DEF SendingInv, OthersSent, OthersFit
<1> QED BY <1>1, <1>3, <1>4, <1>5, <1>6, <1>7 DEF SendingInv

LEMMA MergeKeeps ==
    ASSUME SenderInv, NEW t \in Tasks, Merge(t)
    PROVE  SenderInv'
<1> USE DEF SenderInv
<1>1. TypeOK'
  BY DEF TypeOK, Merge, senderVars, Waiting
<1>2. ManagerInv'
  BY DEF TypeOK, ManagerInv, Merge, senderVars, Out, NoCache
<1>3. SourceInv'
  BY DEF SourceInv, Merge, senderVars, Events, EventOf
<1>4. UNCHANGED <<group, stream, taken, cache, sending, received, since, outs>>
      /\ configs \subseteq configs'
  BY DEF Merge, senderVars
<1>5. SendingInv' /\ PackagesInOrder' /\ WellFormed'
  BY <1>4, SendingKept, HistoryKept
<1>6. NothingDropped'
  BY <1>4, GotKept DEF NothingDropped
<1> QED BY <1>1, <1>2, <1>3, <1>5, <1>6

LEMMA TaskEndsKeeps ==
    ASSUME SenderInv, NEW c \in Channels, TaskEnds(c)
    PROVE  SenderInv'
<1> USE DEF SenderInv
<1>1. TypeOK'
  BY DEF TypeOK, TaskEnds, senderVars, Waiting
<1>2. ManagerInv'
  BY DEF TypeOK, ManagerInv, TaskEnds, senderVars, Out, NoCache
<1>3. SourceInv'
  BY DEF SourceInv, TaskEnds, senderVars, Events, EventOf
<1>4. UNCHANGED <<group, stream, taken, cache, sending, received, since, outs, configs>>
  BY DEF TaskEnds, senderVars
<1>5. SendingInv' /\ PackagesInOrder' /\ WellFormed'
  BY <1>4, SendingKept, HistoryKept
<1>6. NothingDropped'
  BY <1>4, GotKept DEF NothingDropped
<1> QED BY <1>1, <1>2, <1>3, <1>5, <1>6

LEMMA RemoveOutputKeeps ==
    ASSUME SenderInv, NEW t \in Tasks, RemoveOutput(t)
    PROVE  SenderInv'
<1> USE DEF SenderInv
<1>1. TypeOK'
  <2>1. stops' \in 0 .. MaxStops /\ outs' \subseteq outs
    BY SenderAssumption DEF TypeOK, RemoveOutput
  <2> QED BY <2>1 DEF TypeOK, RemoveOutput, senderVars, Waiting
<1>2. ManagerInv'
  <2>1. /\ UNCHANGED <<group, node, config, configs, merging, joins, received, cache, flushing, sending>>
        /\ outs' = outs \ {Out(t)} /\ stops' = stops + 1 /\ merging = None /\ t \in group
    BY DEF RemoveOutput, senderVars
  <2>2. \A u \in group : Out(u)' = Out(u)
    BY <2>1 DEF Out
  <2>3. ~node' => outs' = {}
    BY <2>1 DEF ManagerInv
  <2>4. \A c \in outs' : c[1] \in configs' /\ c = Out(c[1])'
    BY <2>1, <2>2 DEF ManagerInv, Out
  <2>5. ASSUME NEW u \in group
        PROVE  joins'[u] <= stops' + (IF Out(u)' \in outs' THEN 1 ELSE 0)
    <3>1. joins[u] <= stops + (IF Out(u) \in outs THEN 1 ELSE 0)
      BY DEF ManagerInv
    <3>2. stops \in Nat /\ joins[u] \in Nat
      BY SenderAssumption DEF TypeOK
    <3>3. joins[u] <= stops + 1
      BY <3>1, <3>2
    <3>4. u # t => (Out(u)' \in outs' <=> Out(u) \in outs)
      BY <2>1, <2>2 DEF Out
    <3> QED BY <2>1, <3>1, <3>2, <3>3, <3>4
  <2> QED BY <2>1, <2>3, <2>4, <2>5 DEF ManagerInv, NoCache
<1>3. SourceInv'
  BY DEF SourceInv, RemoveOutput, senderVars, Events, EventOf
<1>4. UNCHANGED <<group, stream, taken, cache, sending, received, since, configs>>
      /\ outs' \subseteq outs
  BY DEF RemoveOutput, senderVars
<1>5. SendingInv' /\ PackagesInOrder' /\ WellFormed'
  BY <1>4, SendingKept, HistoryKept
<1>6. NothingDropped'
  BY <1>4, GotKept DEF NothingDropped
<1> QED BY <1>1, <1>2, <1>3, <1>5, <1>6

LEMMA TickKeeps ==
    ASSUME SenderInv, Tick
    PROVE  SenderInv'
<1> USE DEF SenderInv
<1>1. UNCHANGED <<group, stream, node, taken, cache, sending, received, since, outs, configs>>
      /\ node /\ flushing' = Waiting /\ UNCHANGED managerVars
  BY DEF Tick, Ready, managerVars
<1>2. TypeOK'
  BY <1>1 DEF TypeOK, managerVars, Waiting
<1>3. ManagerInv'
  BY <1>1 DEF TypeOK, ManagerInv, managerVars, Out, NoCache
<1>4. SourceInv'
  BY <1>1 DEF SourceInv, managerVars, Events, EventOf
<1>5. SendingInv' /\ PackagesInOrder' /\ WellFormed'
  BY <1>1, SendingKept, HistoryKept
<1>6. NothingDropped'
  BY <1>1, GotKept DEF NothingDropped
<1> QED BY <1>2, <1>3, <1>4, <1>5, <1>6

LEMMA SendReturnsKeeps ==
    ASSUME SenderInv, SendReturns
    PROVE  SenderInv'
<1> USE DEF SenderInv
<1>1. /\ UNCHANGED <<group, stream, node, taken, cache, flushing, received, since, outs, configs>>
      /\ sending # None /\ sending.left = {} /\ sending' = None /\ UNCHANGED managerVars
  BY DEF SendReturns, managerVars
<1>2. TypeOK'
  BY <1>1 DEF TypeOK, managerVars, Waiting
<1>3. ManagerInv'
  BY <1>1 DEF TypeOK, ManagerInv, managerVars, Out, NoCache
<1>4. SourceInv'
  BY <1>1 DEF SourceInv, managerVars, Events, EventOf
<1>5. SendingInv' /\ PackagesInOrder' /\ WellFormed'
  BY <1>1, HistoryKept DEF SendingInv
<1>6. NothingDropped'
  BY <1>1, GotKept DEF NothingDropped
<1> QED BY <1>2, <1>3, <1>4, <1>5, <1>6

LEMMA CloseKeeps ==
    ASSUME SenderInv, Close
    PROVE  SenderInv'
<1> USE DEF SenderInv
<1>1. /\ UNCHANGED <<group, stream, taken, received, since, outs, alive, joins, stops, merging>>
      /\ outs = {} /\ node' = FALSE /\ sending' = None /\ cache' = NoCache /\ flushing' = {}
      /\ config' = None /\ configs' = {} /\ merging = None
  BY DEF Close, ManagerInv
<1>2. \A s \in Sources : cache'[s] = <<>> /\ Len(cache'[s]) = 0
  BY <1>1 DEF NoCache
<1>3. TypeOK'
  <2>1. cache' \in [Sources -> Seq(Event)]
    BY <1>1, EmptySeq DEF NoCache
  <2> QED BY <1>1, <2>1 DEF TypeOK, Waiting
<1>4. ManagerInv'
  BY <1>1 DEF TypeOK, ManagerInv, Out, NoCache
<1>5. SourceInv'
  <2>1. ASSUME NEW s \in Sources
        PROVE  /\ Len(cache'[s]) <= taken'[s]
               /\ cache'[s] = Events(s, taken[s] - Len(cache[s]), taken[s])'
    <3>1. taken[s] \in Nat
      BY DEF TypeOK
    <3>2. taken[s] - 0 = taken[s] /\ taken[s] - taken[s] = 0 /\ 0 <= taken[s]
      BY <3>1
    <3>3. Events(s, taken[s], taken[s])' = <<>>
      BY <1>1, <3>2 DEF Events
    <3> QED BY <1>1, <1>2, <3>2, <3>3
  <2> QED BY <1>1, <2>1 DEF SourceInv
<1>6. SendingInv' /\ PackagesInOrder' /\ WellFormed'
  BY <1>1, HistoryKept DEF SendingInv
<1>7. NothingDropped'
  BY <1>1 DEF NothingDropped
<1> QED BY <1>3, <1>4, <1>5, <1>6, <1>7

\* What a task that joins changes of the invariant: it has received nothing,
\* and starts where what is cached starts.
LEMMA JoinsKeeps ==
    ASSUME SenderInv, NEW t \in group, Out(t) \notin outs, Joins(t),
           UNCHANGED <<group, stream, taken, cache, sending>>, configs \subseteq configs'
    PROVE  SendingInv' /\ PackagesInOrder' /\ WellFormed' /\ NothingDropped'
<1> USE DEF SenderInv
<1>0. PICK new : new = NextOut(t)
  OBVIOUS
<1>1. /\ new \notin DOMAIN received
      /\ DOMAIN received' = DOMAIN received \cup {new}
      /\ received'[new] = <<>>
      /\ \A s \in Sources : since'[new][s] = taken[s] - Len(cache[s])
      /\ \A c \in DOMAIN received : received'[c] = received[c] /\ since'[c] = since[c]
  BY <1>0, JoinsAddsOne
<1>2. SendingInv'
  BY <1>1, SendingKept
<1>3. PackagesInOrder' /\ WellFormed'
  BY <1>1, HistoryKept
<1>4. outs' = outs \cup {new} /\ outs \subseteq DOMAIN received
  BY <1>0 DEF Joins, TypeOK
<1>5. ASSUME NEW c \in outs', NEW s \in Sources
      PROVE  LET pending == IF sending # None /\ c \in sending.left /\ sending.state.src = s
                            THEN sending.state.off ELSE Got(c, s)'
             IN  taken[s] = pending + Len(cache[s])
  <2>1. CASE c = new
    <3>1. sending # None => new \notin sending.left
      BY <1>1 DEF SendingInv
    <3>2. Got(new, s)' = taken[s] - Len(cache[s])
      <4>1. Known(<<>>, s, since'[new][s], 1) = since'[new][s] /\ Len(<<>>) + 1 = 1
        BY KnownAtFirst
      <4>2. Got(new, s)' = Known(received'[new], s, since'[new][s], Len(received'[new]) + 1)
        BY DEF Got
      <4>3. Got(new, s)' = since'[new][s]
        BY <1>1, <4>1, <4>2
      <4> QED BY <1>1, <4>3
    <3>3. taken[s] \in Nat /\ Len(cache[s]) \in Nat
      BY DEF TypeOK
    <3>4. taken[s] = Got(new, s)' + Len(cache[s])
      BY <3>2, <3>3
    <3> QED BY <2>1, <3>1, <3>4
  <2>2. CASE c \in outs
    <3>1. Got(c, s)' = Got(c, s)
      BY <1>1, <1>4, <2>2, GotKept
    <3> QED BY <2>2, <3>1 DEF NothingDropped
  <2> QED BY <1>4, <2>1, <2>2
<1>6. NothingDropped'
  BY <1>5 DEF NothingDropped
<1> QED BY <1>2, <1>3, <1>6

\* What it changes of TypeOK and ManagerInv.
LEMMA JoinsKeepsManager ==
    ASSUME SenderInv, NEW t \in group, Out(t) \notin outs, Joins(t),
           UNCHANGED <<group, stops>>
    PROVE  /\ \A c \in outs' : c = Out(c[1])' /\ (c \in outs \/ c[1] = t)
           /\ \A u \in group : joins'[u] <= stops' + (IF Out(u)' \in outs' THEN 1 ELSE 0)
           /\ Out(t)' = NextOut(t) /\ NextOut(t) \in outs'
<1> USE DEF SenderInv
<1>1. /\ joins[t] \in Nat /\ joins[t] <= stops
      /\ joins' = [joins EXCEPT ![t] = joins[t] + 1] /\ NextOut(t)[1] = t
  BY JoinsAddsOne
<1>2. joins \in [group -> 0 .. MaxStops + 1] /\ stops \in Nat
  BY SenderAssumption DEF TypeOK
<1>3. Out(t)' = NextOut(t)
  BY <1>1, <1>2 DEF Out, NextOut
<1>4. \A u \in group : u # t => Out(u)' = Out(u) /\ joins'[u] = joins[u]
  BY <1>1, <1>2 DEF Out
<1>5. outs' = outs \cup {NextOut(t)}
  BY DEF Joins
<1>6. ASSUME NEW c \in outs PROVE c = Out(c[1])'
  <2>1. c = Out(c[1]) /\ c[1] \in group
    BY DEF ManagerInv, TypeOK
  <2>2. c[1] # t
    BY <2>1
  <2> QED BY <1>4, <2>1, <2>2
<1>7. ASSUME NEW u \in group
      PROVE  joins'[u] <= stops' + (IF Out(u)' \in outs' THEN 1 ELSE 0)
  <2>1. CASE u = t
    BY <1>1, <1>2, <1>3, <1>5, <2>1
  <2>2. CASE u # t
    <3>1. Out(u) # NextOut(t)
      BY <2>2 DEF Out, NextOut
    <3>2. joins[u] <= stops + (IF Out(u) \in outs THEN 1 ELSE 0)
      BY DEF ManagerInv
    <3> QED BY <1>4, <1>5, <2>2, <3>1, <3>2
  <2> QED BY <2>1, <2>2
<1>8. \A c \in outs' : c = Out(c[1])' /\ (c \in outs \/ c[1] = t)
  BY <1>1, <1>3, <1>5, <1>6
<1> QED BY <1>3, <1>5, <1>7, <1>8

LEMMA NewSenderKeeps ==
    ASSUME SenderInv, NEW t \in Tasks, NewSender(t)
    PROVE  SenderInv'
<1> USE DEF SenderInv
<1>1. /\ ~node /\ merging = None /\ t \in group /\ node' = TRUE /\ config' = t /\ configs' = {t}
      /\ UNCHANGED <<group, stream, merging, stops, taken, cache, flushing, sending>>
      /\ Joins(t)
  BY DEF NewSender
<1>2. /\ configs = {} /\ outs = {} /\ cache = NoCache /\ flushing = {} /\ sending = None
  BY <1>1 DEF ManagerInv
<1>3. /\ joins' \in [group -> 0 .. MaxStops + 1]
      /\ outs' \subseteq alive' /\ alive' \subseteq DOMAIN received'
      /\ DOMAIN received' = {c \in Channels : c[1] \in group /\ c[2] <= joins'[c[1]]}
      /\ since' \in [DOMAIN received' -> [Sources -> Nat]]
      /\ \A c \in DOMAIN received' : received'[c] \in Seq(Package)
  BY <1>1, <1>2, JoinsAddsOne
<1>4. TypeOK'
  <2>1. DOMAIN received' \subseteq Channels
    BY <1>3
  <2> QED BY <1>1, <1>2, <1>3, <2>1 DEF TypeOK, Waiting
<1>5. /\ \A c \in outs' : c = Out(c[1])' /\ (c \in outs \/ c[1] = t)
      /\ \A u \in group : joins'[u] <= stops' + (IF Out(u)' \in outs' THEN 1 ELSE 0)
  BY <1>1, <1>2, JoinsKeepsManager
<1>6. ManagerInv'
  BY <1>1, <1>2, <1>3, <1>5 DEF ManagerInv
<1>7. SourceInv'
  <2>1. \A s \in Sources : cache[s] = <<>>
    BY <1>2 DEF NoCache
  <2> QED BY <1>1, <2>1 DEF SourceInv, Events, EventOf
<1>8. SendingInv' /\ PackagesInOrder' /\ WellFormed' /\ NothingDropped'
  BY <1>1, <1>2, JoinsKeeps
<1> QED BY <1>4, <1>6, <1>7, <1>8

LEMMA AddOutputKeeps ==
    ASSUME SenderInv, AddOutput
    PROVE  SenderInv'
<1> USE DEF SenderInv
<1>0. PICK t : t = merging
  OBVIOUS
<1>1. /\ merging # None /\ merging' = None
      /\ UNCHANGED <<group, stream, config, configs, stops, node, taken, cache, flushing, sending>>
      /\ Joins(t)
  BY <1>0 DEF AddOutput, senderVars
<1>2. node /\ t \in configs /\ t \in group /\ Out(t) \notin outs
  BY <1>0, <1>1 DEF ManagerInv, TypeOK
<1>3. /\ joins' \in [group -> 0 .. MaxStops + 1]
      /\ outs' \subseteq alive' /\ alive' \subseteq DOMAIN received'
      /\ DOMAIN received' = {c \in Channels : c[1] \in group /\ c[2] <= joins'[c[1]]}
      /\ since' \in [DOMAIN received' -> [Sources -> Nat]]
      /\ \A c \in DOMAIN received' : received'[c] \in Seq(Package)
  BY <1>1, <1>2, JoinsAddsOne
<1>4. TypeOK'
  <2>1. DOMAIN received' \subseteq Channels
    BY <1>3
  <2> QED BY <1>1, <1>3, <2>1 DEF TypeOK, Waiting
<1>5. /\ \A c \in outs' : c = Out(c[1])' /\ (c \in outs \/ c[1] = t)
      /\ \A u \in group : joins'[u] <= stops' + (IF Out(u)' \in outs' THEN 1 ELSE 0)
  BY <1>1, <1>2, JoinsKeepsManager
<1>6. ManagerInv'
  <2>1. \A c \in outs' : c[1] \in configs'
    BY <1>1, <1>2, <1>5 DEF ManagerInv
  <2> QED BY <1>1, <1>2, <1>3, <1>5, <2>1 DEF ManagerInv
<1>7. SourceInv'
  BY <1>1 DEF SourceInv, Events, EventOf
<1>8. SendingInv' /\ PackagesInOrder' /\ WellFormed' /\ NothingDropped'
  BY <1>1, <1>2, JoinsKeeps
<1> QED BY <1>4, <1>6, <1>7, <1>8

LEMMA NoEvents ==
    ASSUME NEW s, NEW n \in Nat PROVE Events(s, n, n) = <<>> /\ n - 0 = n
<1>1. n - n = 0 /\ n - 0 = n
  OBVIOUS
<1> QED BY <1>1 DEF Events

\* When send starts, every task in Outs stands where the package begins:
\* what it had got and what was cached made up all that was taken.
LEMMA SendStarts ==
    ASSUME SenderInv, node, sending = None, NEW s \in Sources, NEW to \in Nat,
           NEW from, from = taken[s] - Len(cache[s]), from < to, to <= Len(stream[s]),
           sending' = Send(Events(s, from, to)),
           taken' = [taken EXCEPT ![s] = to], cache' = [cache EXCEPT ![s] = <<>>],
           UNCHANGED <<managerVars, received>>
    PROVE  sending' \in Sending /\ SendingInv' /\ NothingDropped' /\ PackagesInOrder' /\ WellFormed'
<1> USE DEF SenderInv
<1> DEFINE items  == IF sending'.data = None THEN <<>> ELSE sending'.data.items
           others == IF sending'.data = None THEN None ELSE sending'.data.others
<1>1. /\ taken[s] \in Nat /\ Len(cache[s]) \in Nat /\ Len(cache[s]) <= taken[s]
      /\ taken \in [Sources -> Nat] /\ cache \in [Sources -> Seq(Event)]
  BY DEF TypeOK, SourceInv
<1>2. from \in Nat
  BY <1>1
<1>3. outs \subseteq DOMAIN received /\ outs \subseteq Channels /\ config \in group
  BY DEF TypeOK, ManagerInv
<1>4. /\ sending' \in Sending /\ sending' # None
      /\ sending'.state = EventOf(s, to) /\ sending'.left = outs
      /\ sending'.data # None => items # <<>>
      /\ \A t \in group : t.output_format = "v2" =>
            \A j \in DOMAIN items : items[j].index = j - 1
      /\ \A t \in group : OthersFit(others, items, t.output_format)
      /\ DataOf(items) = WantedOf(s, from, to)
  BY <1>2, <1>3, SendIsWanted
<1>5. /\ UNCHANGED <<group, stream, received, since, outs, configs>>
      /\ taken'[s] = to /\ cache'[s] = <<>>
      /\ \A r \in Sources : r # s => taken'[r] = taken[r] /\ cache'[r] = cache[r]
  BY <1>1 DEF managerVars
<1>6. sending'.state.src = s /\ sending'.state.off = to
  BY <1>4 DEF EventOf
<1>7. ASSUME NEW c \in outs, NEW r \in Sources
      PROVE  Got(c, r)' = Got(c, r) /\ taken[r] = Got(c, r) + Len(cache[r]) /\ Got(c, r) \in Nat
  <2>1. Got(c, r)' = Got(c, r)
    BY <1>5, GotKept
  <2>2. taken[r] = Got(c, r) + Len(cache[r])
    BY DEF NothingDropped
  <2>3. Got(c, r) \in Nat
    <3>1. received[c] \in Seq(Package) /\ since[c][r] \in Nat
      BY <1>3 DEF TypeOK
    <3>2. Len(received[c]) + 1 \in 1 .. Len(received[c]) + 1
      BY <3>1
    <3> QED BY <3>1, <3>2, KnownTyped DEF Got
  <2> QED BY <2>1, <2>2, <2>3
<1>8. SendingInv'
  <2>1. ItemsSent' = items
    BY DEF ItemsSent
  <2> HIDE DEF items
  <2>2. EventOf(s, to)' = EventOf(s, to) /\ WantedOf(s, from, to)' = WantedOf(s, from, to)
    BY <1>5 DEF EventOf, WantedOf, Wanted
  <2>3. from \in 0 .. to - 1
    BY <1>2
  <2>4. \A c \in outs : c \in DOMAIN received' /\ c[1] \in configs' /\ Got(c, s)' = from
    <3> SUFFICES ASSUME NEW c \in outs
                 PROVE  c \in DOMAIN received' /\ c[1] \in configs' /\ Got(c, s)' = from
      OBVIOUS
    <3>1. Got(c, s)' = Got(c, s) /\ taken[s] = Got(c, s) + Len(cache[s]) /\ Got(c, s) \in Nat
      BY <1>7
    <3>2. Got(c, s) = from
      BY <1>1, <3>1
    <3> QED BY <1>3, <1>5, <3>1, <3>2 DEF ManagerInv
  <2>5. DataOf(ItemsSent)' = WantedOf(s, from, to)'
    BY <1>4, <2>1, <2>2 DEF DataOf
  <2>6. \A t \in group' : OthersFit(OthersSent, ItemsSent, t.output_format)'
    <3>1. OthersSent' = others
      BY DEF OthersSent
    <3> HIDE DEF others
    <3> QED BY <1>4, <1>5, <2>1, <3>1 DEF OthersFit
  <2> HIDE DEF others
  <2> QED BY <1>4, <1>5, <1>6, <2>1, <2>2, <2>3, <2>4, <2>5, <2>6 DEF SendingInv
<1>9. NothingDropped'
  <2> SUFFICES ASSUME NEW c \in outs, NEW r \in Sources
               PROVE  LET pending == IF sending' # None /\ c \in sending'.left
                                        /\ sending'.state.src = r
                                     THEN sending'.state.off ELSE Got(c, r)'
                      IN  taken'[r] = pending + Len(cache'[r])
    BY <1>5 DEF NothingDropped
  <2>1. CASE r = s
    <3>1. to = to + Len(<<>>)
      OBVIOUS
    <3> QED BY <1>4, <1>5, <1>6, <2>1, <3>1
  <2>2. CASE r # s
    BY <1>5, <1>6, <1>7, <2>2
  <2> QED BY <2>1, <2>2
<1>10. PackagesInOrder' /\ WellFormed'
  BY <1>5, HistoryKept
<1> QED BY <1>4, <1>8, <1>9, <1>10

LEMMA FlushKeeps ==
    ASSUME SenderInv, NEW s \in Sources, Flush(s)
    PROVE  SenderInv'
<1> USE DEF SenderInv
<1>1. /\ node /\ sending = None /\ s \in flushing
      /\ sending' = Send(cache[s]) /\ cache' = [cache EXCEPT ![s] = <<>>]
      /\ flushing' = flushing \ {s} /\ UNCHANGED <<managerVars, node, taken, received>>
  BY DEF Flush
<1>2. /\ cache[s] # <<>> /\ cache[s] \in Seq(Event) /\ taken[s] \in Nat
      /\ Len(cache[s]) <= taken[s] /\ taken[s] <= Len(stream[s])
      /\ cache[s] = Events(s, taken[s] - Len(cache[s]), taken[s])
  BY <1>1 DEF TypeOK, Waiting, SourceInv
<1>3. PICK from \in Nat : from = taken[s] - Len(cache[s]) /\ from < taken[s]
  <2>1. Len(cache[s]) \in Nat \ {0}
    BY <1>2, EmptySeq
  <2> QED BY <1>2, <2>1
<1>4. taken' = [taken EXCEPT ![s] = taken[s]]
  BY <1>1 DEF TypeOK
<1>5. sending' \in Sending /\ SendingInv' /\ NothingDropped' /\ PackagesInOrder' /\ WellFormed'
  BY <1>1, <1>2, <1>3, <1>4, SendStarts
<1>6. cache' \in [Sources -> Seq(Event)]
      /\ cache'[s] = <<>> /\ \A r \in Sources : r # s => cache'[r] = cache[r]
  BY <1>1, EmptySeq DEF TypeOK
<1>7. TypeOK'
  <2>1. flushing' \subseteq Waiting'
    BY <1>1, <1>6 DEF TypeOK, Waiting
  <2> QED BY <1>1, <1>5, <1>6, <2>1 DEF TypeOK, managerVars
<1>8. ManagerInv'
  BY <1>1 DEF ManagerInv, managerVars, Out
<1>9. SourceInv'
  <2>1. \A r \in Sources : \A m, n : Events(r, m, n)' = Events(r, m, n)
    BY <1>1 DEF Events, EventOf, managerVars
  <2>2. ASSUME NEW r \in Sources
        PROVE  Len(cache'[r]) <= taken[r]
               /\ cache'[r] = Events(r, taken[r] - Len(cache'[r]), taken[r])
    <3>1. CASE r = s
      <4>1. Events(s, taken[s], taken[s]) = <<>> /\ taken[s] - 0 = taken[s]
        BY <1>2, NoEvents
      <4> QED BY <1>2, <1>6, <3>1, <4>1
    <3>2. CASE r # s
      BY <1>6, <3>2 DEF SourceInv
    <3> QED BY <3>1, <3>2
  <2>3. config'.package \/ \A r \in Sources : cache'[r] = <<>>
    BY <1>1, <1>6 DEF SourceInv, managerVars
  <2> QED BY <1>1, <2>1, <2>2, <2>3 DEF SourceInv
<1> QED BY <1>5, <1>7, <1>8, <1>9

LEMMA CacheSendKeeps ==
    ASSUME SenderInv, NEW s \in Sources, CacheSend(s)
    PROVE  SenderInv'
<1> USE DEF SenderInv
<1>0. PICK event, buffer, from :
         /\ event = EventOf(s, taken[s] + 1) /\ buffer = Append(cache[s], event)
         /\ from = taken[s] - Len(cache[s])
  OBVIOUS
<1>1. /\ node /\ sending = None /\ flushing = {} /\ taken[s] < Len(stream[s])
      /\ taken' = [taken EXCEPT ![s] = taken[s] + 1]
      /\ UNCHANGED <<managerVars, node, flushing, received>>
  BY DEF CacheSend, Ready
<1>2. /\ taken \in [Sources -> Nat] /\ taken[s] \in Nat /\ cache \in [Sources -> Seq(Event)]
      /\ Len(cache[s]) \in Nat /\ Len(cache[s]) <= taken[s]
      /\ stream[s] \in Seq([texts : Seq(STRING), data : STRING]) /\ Len(stream[s]) \in Nat
  BY SenderAssumption DEF TypeOK, SourceInv
<1>3. /\ event \in Event /\ buffer \in Seq(Event) /\ Len(buffer) = Len(cache[s]) + 1
      /\ buffer = Events(s, from, taken[s] + 1)
  BY <1>0, <1>1, CacheIsEvents
<1>4. from \in Nat /\ from < taken[s] + 1 /\ taken[s] + 1 \in Nat /\ taken[s] + 1 <= Len(stream[s])
      /\ (taken[s] + 1) - Len(buffer) = from /\ Len(buffer) <= taken[s] + 1
  BY <1>0, <1>1, <1>2, <1>3
<1>5. taken' \in [Sources -> Nat] /\ taken'[s] = taken[s] + 1
      /\ \A r \in Sources : r # s => taken'[r] = taken[r]
  BY <1>1, <1>2, <1>4
<1>6. \A r \in Sources : taken'[r] <= Len(stream[r])
  BY <1>4, <1>5 DEF TypeOK
<1>7. \A r \in Sources : \A m, n : Events(r, m, n)' = Events(r, m, n)
  BY <1>1 DEF Events, EventOf, managerVars
<1>8. ManagerInv'
  BY <1>1 DEF ManagerInv, managerVars, Out
<1>9. ASSUME sending' \in Sending \cup {None}, cache' \in [Sources -> Seq(Event)]
      PROVE  TypeOK'
  <2>1. flushing' \subseteq Waiting'
    BY <1>1
  <2> QED BY <1>1, <1>5, <1>6, <1>9, <2>1 DEF TypeOK, managerVars
\* What is in the package leaves the cache.
<1>10. ASSUME sending' = Send(buffer), cache' = [cache EXCEPT ![s] = <<>>]
       PROVE  SenderInv'
  <2>1. sending' \in Sending /\ SendingInv' /\ NothingDropped' /\ PackagesInOrder' /\ WellFormed'
    BY <1>0, <1>1, <1>3, <1>4, <1>10, SendStarts
  <2>2. cache' \in [Sources -> Seq(Event)] /\ cache'[s] = <<>> /\ Len(<<>>) = 0
        /\ \A r \in Sources : r # s => cache'[r] = cache[r]
    BY <1>2, <1>10, EmptySeq
  <2>3. SourceInv'
    <3>1. ASSUME NEW r \in Sources
          PROVE  Len(cache'[r]) <= taken'[r]
                 /\ cache'[r] = Events(r, taken'[r] - Len(cache'[r]), taken'[r])
      <4>1. CASE r = s
        <5>1. Events(s, taken'[s], taken'[s]) = <<>> /\ taken'[s] - 0 = taken'[s] /\ 0 <= taken'[s]
          BY <1>4, <1>5, NoEvents
        <5> QED BY <2>2, <4>1, <5>1
      <4>2. CASE r # s
        BY <1>5, <2>2, <4>2 DEF SourceInv
      <4> QED BY <4>1, <4>2
    <3>2. config'.package \/ \A r \in Sources : cache'[r] = <<>>
      BY <1>1, <2>2 DEF SourceInv, managerVars
    <3> QED BY <1>1, <1>7, <3>1, <3>2 DEF SourceInv
  <2> QED BY <1>8, <1>9, <2>1, <2>2, <2>3
\* Nothing leaves it otherwise.
<1>11. ASSUME config.package, sending' = None, cache' = [cache EXCEPT ![s] = buffer]
       PROVE  SenderInv'
  <2>1. cache' \in [Sources -> Seq(Event)] /\ cache'[s] = buffer
        /\ \A r \in Sources : r # s => cache'[r] = cache[r]
    BY <1>2, <1>3, <1>11
  <2>2. SourceInv'
    <3>1. ASSUME NEW r \in Sources
          PROVE  Len(cache'[r]) <= taken'[r]
                 /\ cache'[r] = Events(r, taken'[r] - Len(cache'[r]), taken'[r])
      <4>1. CASE r = s
        BY <1>3, <1>4, <1>5, <2>1, <4>1
      <4>2. CASE r # s
        BY <1>5, <2>1, <4>2 DEF SourceInv
      <4> QED BY <4>1, <4>2
    <3>2. config'.package
      BY <1>1, <1>11 DEF managerVars
    <3> QED BY <1>1, <1>7, <3>1, <3>2 DEF SourceInv
  <2>3. UNCHANGED <<group, stream, received, since, outs>>
    BY <1>1 DEF managerVars
  <2>4. SendingInv' /\ PackagesInOrder' /\ WellFormed'
    BY <1>11, <2>3, HistoryKept DEF SendingInv
  <2>5. ASSUME NEW c \in outs, NEW r \in Sources
        PROVE  taken'[r] = Got(c, r)' + Len(cache'[r])
    <3>1. Got(c, r)' = Got(c, r)
      BY <2>3, GotKept
    <3>2. taken[r] = Got(c, r) + Len(cache[r])
      BY <1>1 DEF NothingDropped
    <3>3. Got(c, r) \in Nat
      <4>1. c \in DOMAIN received /\ received[c] \in Seq(Package) /\ since[c][r] \in Nat
        BY DEF TypeOK
      <4>2. Len(received[c]) + 1 \in 1 .. Len(received[c]) + 1
        BY <4>1
      <4> QED BY <4>1, <4>2, KnownTyped DEF Got
    <3>4. CASE r = s
      BY <1>2, <1>3, <1>5, <2>1, <3>1, <3>2, <3>3, <3>4
    <3>5. CASE r # s
      BY <1>5, <2>1, <3>1, <3>2, <3>5
    <3> QED BY <3>4, <3>5
  <2>6. NothingDropped'
    BY <1>11, <2>3, <2>5 DEF NothingDropped
  <2> QED BY <1>8, <1>9, <1>11, <2>1, <2>2, <2>4, <2>6
<1>12. CASE ~config.package
  <2>1. cache[s] = <<>>
    BY <1>1, <1>12 DEF SourceInv
  <2>2. cache' = cache /\ sending' = Send(<<event>>)
    BY <1>0, <1>12 DEF CacheSend
  <2>3. cache' = [cache EXCEPT ![s] = <<>>]
    BY <1>2, <2>1, <2>2
  <2>4. buffer = <<event>>
    BY <1>0, <2>1
  <2> QED BY <1>10, <2>2, <2>3, <2>4
<1>13. CASE config.package /\ Full(buffer)
  <2>1. sending' = Send(buffer) /\ cache' = [cache EXCEPT ![s] = <<>>]
    BY <1>0, <1>13 DEF CacheSend
  <2> QED BY <1>10, <2>1
<1>14. CASE config.package /\ ~Full(buffer)
  <2>1. sending' = None /\ cache' = [cache EXCEPT ![s] = buffer]
    BY <1>0, <1>14 DEF CacheSend
  <2> QED BY <1>11, <1>14, <2>1
<1> QED BY <1>12, <1>13, <1>14

LEMMA SendToKeeps ==
    ASSUME SenderInv, NEW c \in Channels, SendTo(c)
    PROVE  SenderInv'
<1> USE DEF SenderInv
<1>0. PICK s, to, p, items :
         /\ s = sending.state.src /\ to = taken[s] /\ p = PackageFor(c[1]) /\ items = ItemsSent
  OBVIOUS
<1>1. /\ sending # None /\ c \in sending.left /\ sending \in Sending
      /\ sending' = [sending EXCEPT !.left = @ \ {c}]
      /\ UNCHANGED <<managerVars, node, taken, cache, flushing>>
      /\ s \in Sources /\ sending.state \in Event
  BY <1>0 DEF SendTo, TypeOK, Sending, Event
<1>2. /\ sending.state = EventOf(s, to) /\ cache[s] = <<>>
      /\ sending.data # None => items # <<>>
      /\ \A t \in group : t.output_format = "v2" =>
            \A j \in DOMAIN items : items[j].index = j - 1
      /\ \A t \in group : OthersFit(OthersSent, items, t.output_format)
  BY <1>0, <1>1 DEF SendingInv
<1>3. PICK from \in 0 .. to - 1 :
         /\ DataOf(items) = WantedOf(s, from, to)
         /\ \A d \in sending.left : /\ d \in DOMAIN received /\ d[1] \in configs
                                    /\ Got(d, s) = from
  BY <1>0, <1>1 DEF SendingInv
<1>4. c \in DOMAIN received /\ c[1] \in configs /\ c[1] \in group /\ Got(c, s) = from /\ c[1] \in Tasks
  BY <1>1, <1>3 DEF TypeOK, Tasks
<1>5. received' = [received EXCEPT ![c] = Append(received[c], p)]
  BY <1>0, <1>4 DEF SendTo
<1>6. /\ p.src = s /\ p.off = to /\ p.items = items /\ from < p.off
      /\ p.dataid = IF items = <<>> THEN None ELSE c[1].dataid
      /\ p.others = OthersSent
  <2>1. p.src = s /\ p.off = to /\ p.items = items
    BY <1>0, <1>2 DEF PackageFor, ItemsSent, EventOf
  <2>2. p.dataid = IF sending.data = None THEN None ELSE c[1].dataid
    BY <1>0 DEF PackageFor
  <2>3. sending.data = None <=> items = <<>>
    BY <1>0, <1>2 DEF ItemsSent
  <2>4. from < to
    BY <1>0, <1>1 DEF TypeOK
  <2>5. p.others = OthersSent
    BY <1>0 DEF PackageFor, OthersSent
  <2> QED BY <2>1, <2>2, <2>3, <2>4, <2>5
<1>7. p \in Package
  <2>1. items \in Seq(Item)
    BY <1>0, <1>1, EmptySeq DEF ItemsSent, Sending, Data
  <2>2. to \in Nat
    BY <1>0, <1>1 DEF TypeOK
  <2>3. p = [src |-> p.src, off |-> p.off, dataid |-> p.dataid, others |-> p.others,
             items |-> p.items]
    BY <1>0 DEF PackageFor
  <2>4. OthersSent \in DataIds \cup {None}
    BY <1>1 DEF OthersSent, Sending, Data
  <2> QED BY <1>1, <1>4, <1>6, <2>1, <2>2, <2>3, <2>4 DEF Package, DataIds
<1>8. received[c] \in Seq(Package) /\ Len(received[c]) \in Nat
  BY <1>4 DEF TypeOK
<1>9. PICK old, n : old = received[c] /\ n = Len(old)
  OBVIOUS
<1>10. /\ DOMAIN received' = DOMAIN received /\ received'[c] = Append(old, p)
       /\ \A d \in DOMAIN received : d # c => received'[d] = received[d]
       /\ UNCHANGED <<group, stream, since, outs, configs>>
  BY <1>1, <1>4, <1>5, <1>9 DEF managerVars
<1>11. /\ Append(old, p) \in Seq(Package) /\ Len(Append(old, p)) = n + 1
       /\ \A i \in 1 .. n : Append(old, p)[i] = old[i]
       /\ Append(old, p)[n + 1] = p /\ n \in Nat /\ old \in Seq(Package)
  BY <1>7, <1>8, <1>9, AppendProperties
<1>12. \A start, r : /\ \A i \in 1 .. n + 1 :
                           Known(Append(old, p), r, start, i) = Known(old, r, start, i)
                     /\ Known(Append(old, p), r, start, n + 2) =
                           IF p.src = r THEN p.off ELSE Known(old, r, start, n + 1)
  <2> SUFFICES ASSUME NEW start, NEW r
               PROVE  /\ \A i \in 1 .. n + 1 :
                            Known(Append(old, p), r, start, i) = Known(old, r, start, i)
                      /\ Known(Append(old, p), r, start, n + 2) =
                            IF p.src = r THEN p.off ELSE Known(old, r, start, n + 1)
    OBVIOUS
  <2>1. /\ \A i \in 1 .. Len(old) + 1 :
              Known(Append(old, p), r, start, i) = Known(old, r, start, i)
        /\ Known(Append(old, p), r, start, Len(old) + 2) =
              IF p.src = r THEN p.off ELSE Known(old, r, start, Len(old) + 1)
    BY <1>7, <1>11, KnownGrows
  <2> QED BY <1>9, <2>1
<1>13. \A r : Got(c, r)' = IF r = s THEN to ELSE Got(c, r)
  <2>1. ASSUME NEW r PROVE Got(c, r)' = Known(Append(old, p), r, since[c][r], n + 2)
    <3>1. Got(c, r)' = Known(received'[c], r, since'[c][r], Len(received'[c]) + 1)
      BY DEF Got
    <3>2. (n + 1) + 1 = n + 2
      BY <1>11
    <3> QED BY <1>10, <1>11, <3>1, <3>2
  <2>2. \A r : Got(c, r) = Known(old, r, since[c][r], n + 1)
    BY <1>9 DEF Got
  <2> QED BY <1>6, <1>12, <2>1, <2>2
<1>14. \A d \in DOMAIN received : \A r : d # c => Got(d, r)' = Got(d, r)
  BY <1>10, GotKept
<1>15. /\ sending' # None /\ sending'.state = sending.state /\ sending'.data = sending.data
       /\ sending'.left = sending.left \ {c} /\ sending' \in Sending
  <2>1. sending' \in Sending
    BY <1>1 DEF Sending
  <2> QED BY <1>1, <2>1, SenderAssumption DEF Sending
<1>16. TypeOK'
  <2>1. \A d \in DOMAIN received' : received'[d] \in Seq(Package)
    BY <1>10, <1>11 DEF TypeOK
  <2> QED BY <1>1, <1>10, <1>15, <2>1 DEF TypeOK, managerVars, Waiting
<1>17. ManagerInv'
  <2>1. node
    BY <1>1 DEF ManagerInv
  <2> QED BY <1>1, <1>10, <2>1 DEF ManagerInv, managerVars, Out
<1>18. SourceInv'
  BY <1>1 DEF SourceInv, managerVars, Events, EventOf
<1>19. \A r, m, k : WantedOf(r, m, k)' = WantedOf(r, m, k)
  BY <1>10 DEF WantedOf, Wanted
<1>20. SendingInv'
  <2>1. ItemsSent' = items
    BY <1>0, <1>15 DEF ItemsSent
  <2>2. EventOf(s, to)' = EventOf(s, to) /\ taken' = taken /\ cache' = cache /\ group' = group
    BY <1>1, <1>10 DEF EventOf
  <2>3. \A d \in sending'.left : /\ d \in DOMAIN received' /\ d[1] \in configs'
                                 /\ Got(d, s)' = from
    BY <1>3, <1>10, <1>14, <1>15
  <2>4. DataOf(ItemsSent)' = WantedOf(s, from, to)'
    BY <1>3, <1>19, <2>1 DEF DataOf
  <2>5. sending'.state.src = s /\ taken'[s] = to
    BY <1>0, <1>15, <2>2
  <2>6. \A t \in group' : OthersFit(OthersSent, ItemsSent, t.output_format)'
    <3>1. OthersSent' = OthersSent
      BY <1>15 DEF OthersSent
    <3> QED BY <1>2, <1>10, <2>1, <3>1 DEF OthersFit
  <2> QED BY <1>2, <1>3, <1>15, <2>1, <2>2, <2>3, <2>4, <2>5, <2>6 DEF SendingInv
<1>21. NothingDropped'
  <2> SUFFICES ASSUME NEW d \in outs, NEW r \in Sources
               PROVE  LET pending == IF sending' # None /\ d \in sending'.left
                                        /\ sending'.state.src = r
                                     THEN sending'.state.off ELSE Got(d, r)'
                      IN  taken[r] = pending + Len(cache[r])
    BY <1>1, <1>10 DEF NothingDropped
  <2>1. taken[r] = (IF sending # None /\ d \in sending.left /\ sending.state.src = r
                    THEN sending.state.off ELSE Got(d, r)) + Len(cache[r])
    BY DEF NothingDropped
  <2>2. sending.state.src = s /\ sending.state.off = to
    BY <1>0, <1>2 DEF EventOf
  <2>3. d \in DOMAIN received
    BY DEF TypeOK
  <2>4. CASE d = c
    BY <1>1, <1>13, <1>15, <2>1, <2>2, <2>4
  <2>5. CASE d # c
    BY <1>1, <1>14, <1>15, <2>1, <2>2, <2>3, <2>5
  <2> QED BY <2>4, <2>5
<1>22. PackagesInOrder'
  <2>1. SUFFICES ASSUME NEW d \in DOMAIN received', NEW i \in DOMAIN received'[d],
                        NEW q, q = received'[d][i],
                        NEW before, before = Known(received'[d], q.src, since'[d][q.src], i)
                 PROVE  before < q.off /\ DataOf(q.items) = WantedOf(q.src, before, q.off)
    BY <1>19 DEF PackagesInOrder
  <2>2. CASE d # c
    BY <1>10, <2>1, <2>2 DEF PackagesInOrder
  <2>3. CASE d = c /\ i \in 1 .. n
    <3>1. i \in 1 .. n + 1 /\ i \in DOMAIN old
      BY <1>11, <2>3
    <3>2. q = old[i] /\ before = Known(old, q.src, since[c][q.src], i)
      <4>1. received'[d] = Append(old, p) /\ since'[d] = since[c]
        BY <1>10, <2>3
      <4>2. before = Known(Append(old, p), q.src, since[c][q.src], i) /\ q = Append(old, p)[i]
        BY <2>1, <4>1
      <4> QED BY <1>11, <1>12, <2>3, <3>1, <4>2
    <3> QED BY <1>4, <1>9, <3>1, <3>2 DEF PackagesInOrder
  <2>4. CASE d = c /\ i = n + 1
    <3>1. n + 1 \in 1 .. n + 1
      BY <1>11
    <3>2. q = p /\ before = Known(old, s, since[c][s], n + 1)
      <4>1. received'[d] = Append(old, p) /\ since'[d] = since[c]
        BY <1>10, <2>4
      <4>2. q = p /\ q.src = s
        BY <1>6, <1>11, <2>1, <2>4, <4>1
      <4>3. before = Known(Append(old, p), s, since[c][s], n + 1)
        BY <2>1, <2>4, <4>1, <4>2
      <4> QED BY <1>12, <3>1, <4>2, <4>3
    <3>3. Got(c, s) = Known(old, s, since[c][s], n + 1)
      BY <1>9 DEF Got
    <3> QED BY <1>3, <1>4, <1>6, <3>2, <3>3
  <2>5. d = c => i \in 1 .. n \/ i = n + 1
    BY <1>10, <1>11, <2>1
  <2> QED BY <2>2, <2>3, <2>4, <2>5
<1>23. WellFormed'
  <2>1. SUFFICES ASSUME NEW d \in DOMAIN received', NEW i \in DOMAIN received'[d],
                        NEW q, q = received'[d][i]
                 PROVE  /\ q.dataid = IF q.items = <<>> THEN None ELSE d[1].dataid
                        /\ OthersFit(q.others, q.items, d[1].output_format)
                        /\ d[1].output_format = "v2" =>
                              \A j \in DOMAIN q.items : q.items[j].index = j - 1
    BY <1>10 DEF WellFormed, OthersFit
  <2>2. CASE d # c
    BY <1>10, <2>1, <2>2 DEF WellFormed
  <2>3. CASE d = c /\ i \in 1 .. n
    <3>1. q = old[i] /\ i \in DOMAIN old
      BY <1>10, <1>11, <2>1, <2>3
    <3> QED BY <1>4, <1>9, <2>3, <3>1 DEF WellFormed
  <2>4. CASE d = c /\ i = n + 1
    <3>1. q = p
      BY <1>10, <1>11, <2>1, <2>4
    <3> QED BY <1>2, <1>4, <1>6, <2>4, <3>1
  <2>5. d = c => i \in 1 .. n \/ i = n + 1
    BY <1>10, <1>11, <2>1
  <2> QED BY <2>2, <2>3, <2>4, <2>5
<1> QED BY <1>16, <1>17, <1>18, <1>20, <1>21, <1>22, <1>23

LEMMA SenderInit == Init => SenderInv
<1> SUFFICES ASSUME Init PROVE SenderInv
  OBVIOUS
<1>1. /\ group \in Groups /\ stream \in Streams
      /\ node = FALSE /\ config = None /\ configs = {} /\ merging = None
      /\ outs = {} /\ alive = {} /\ joins = [t \in group |-> 0] /\ stops = 0
      /\ taken = [s \in Sources |-> 0] /\ cache = NoCache /\ flushing = {} /\ sending = None
      /\ DOMAIN since = {} /\ DOMAIN received = {} /\ since = [c \in {} |-> since[c]]
  BY DEF Init
<1>2. MaxStops \in Nat /\ \A s \in Sources : Len(stream[s]) \in Nat
  BY <1>1, SenderAssumption
<1>3. \A s \in Sources : cache[s] = <<>> /\ Len(cache[s]) = 0 /\ taken[s] = 0
  BY <1>1 DEF NoCache
<1>4. TypeOK
  <2>1. cache \in [Sources -> Seq(Event)]
    BY <1>1, EmptySeq DEF NoCache
  <2>2. taken \in [Sources -> Nat] /\ joins \in [group -> 0 .. MaxStops + 1]
    BY <1>1, <1>2
  <2>3. \A s \in Sources : taken[s] <= Len(stream[s])
    BY <1>2, <1>3
  <2>4. since \in [DOMAIN received -> [Sources -> Nat]]
    BY <1>1
  <2>5. stops \in 0 .. MaxStops /\ sending \in Sending \cup {None}
        /\ config \in group \cup {None} /\ merging \in group \cup {None}
    BY <1>1, <1>2
  <2>6. /\ outs \subseteq alive /\ alive \subseteq DOMAIN received
        /\ DOMAIN received \subseteq Channels /\ configs \subseteq group
        /\ flushing \subseteq Waiting /\ \A c \in DOMAIN received : received[c] \in Seq(Package)
    BY <1>1
  <2>7. group \in Groups /\ stream \in Streams /\ node \in BOOLEAN
    BY <1>1
  <2> QED BY <2>1, <2>2, <2>3, <2>4, <2>5, <2>6, <2>7 DEF TypeOK
<1>5. ManagerInv
  <2>1. ASSUME NEW c \in Channels, c[1] \in group PROVE ~(c[2] <= joins[c[1]])
    <3>1. c[2] \in 1 .. MaxStops + 1 /\ joins[c[1]] = 0
      BY <1>1, <2>1 DEF Channels
    <3> QED BY <3>1
  <2>2. DOMAIN received = {c \in Channels : c[1] \in group /\ c[2] <= joins[c[1]]}
    BY <1>1, <2>1
  <2> QED BY <1>1, <2>2 DEF ManagerInv
<1>6. SourceInv
  <2>1. \A s \in Sources : Events(s, 0, 0) = <<>> /\ 0 - 0 = 0
    BY NoEvents
  <2> QED BY <1>1, <1>3, <2>1 DEF SourceInv
<1>7. SendingInv /\ NothingDropped /\ PackagesInOrder /\ WellFormed
  BY <1>1 DEF SendingInv, NothingDropped, PackagesInOrder, WellFormed
<1> QED BY <1>4, <1>5, <1>6, <1>7 DEF SenderInv

LEMMA SenderStutters ==
    ASSUME SenderInv, UNCHANGED vars
    PROVE  SenderInv'
<1> USE DEF SenderInv
<1>1. UNCHANGED <<managerVars, senderVars, received>>
  BY DEF vars
<1>2. TypeOK' /\ ManagerInv' /\ SourceInv'
  BY <1>1 DEF TypeOK, ManagerInv, SourceInv, managerVars, senderVars, Waiting, Out, NoCache,
     Events, EventOf
<1>3. UNCHANGED <<group, stream, taken, cache, sending, received, since, outs, configs>>
  BY <1>1 DEF managerVars, senderVars
<1>4. SendingInv' /\ PackagesInOrder' /\ WellFormed'
  BY <1>3, SendingKept, HistoryKept
<1>5. NothingDropped'
  BY <1>3, GotKept DEF NothingDropped
<1> QED BY <1>2, <1>4, <1>5

LEMMA SenderStep == SenderInv /\ [Next]_vars => SenderInv'
<1> SUFFICES ASSUME SenderInv, [Next]_vars PROVE SenderInv'
  OBVIOUS
<1>1. ASSUME NEW t \in Tasks, NewSender(t) PROVE SenderInv'
  BY <1>1, NewSenderKeeps
<1>2. ASSUME NEW t \in Tasks, Merge(t) PROVE SenderInv'
  BY <1>2, MergeKeeps
<1>3. ASSUME NEW t \in Tasks, RemoveOutput(t) PROVE SenderInv'
  BY <1>3, RemoveOutputKeeps
<1>4. CASE AddOutput
  BY <1>4, AddOutputKeeps
<1>5. CASE Close
  BY <1>5, CloseKeeps
<1>6. ASSUME NEW c \in Channels, TaskEnds(c) PROVE SenderInv'
  BY <1>6, TaskEndsKeeps
<1>7. ASSUME NEW c \in Channels, SendTo(c) PROVE SenderInv'
  BY <1>7, SendToKeeps
<1>8. ASSUME NEW s \in Sources, CacheSend(s) PROVE SenderInv'
  BY <1>8, CacheSendKeeps
<1>9. ASSUME NEW s \in Sources, Flush(s) PROVE SenderInv'
  BY <1>9, FlushKeeps
<1>10. CASE Tick
  BY <1>10, TickKeeps
<1>11. CASE SendReturns
  BY <1>11, SendReturnsKeeps
<1>12. CASE UNCHANGED vars
  BY <1>12, SenderStutters
<1> QED BY <1>1, <1>2, <1>3, <1>4, <1>5, <1>6, <1>7, <1>8, <1>9, <1>10, <1>11, <1>12 DEF Next

\* The invariant holds in every state, for all groups of tasks, streams,
\* formats and numbers of stops.
THEOREM SenderInvariant == Spec => []SenderInv
<1>1. Init => SenderInv
  BY SenderInit
<1>2. SenderInv /\ [Next]_vars => SenderInv'
  BY SenderStep
<1> QED BY <1>1, <1>2, PTL DEF Spec

\* Every variable of the sender has its type: what it sends are packages of
\* numbered texts for channels that were made (taskConfigMaps, Outs).
THEOREM SenderTypeCorrect == Spec => []TypeOK
BY SenderInvariant, PTL DEF SenderInv

\* What a consumer gets of a source are its texts in order, none twice and
\* none left out since the task joined, and a package's state stands for the
\* texts up to it (cacheSend, send), however tasks come, go and return.
THEOREM SenderPackagesInOrder == Spec => []PackagesInOrder
BY SenderInvariant, PTL DEF SenderInv

\* Nothing that is taken is lost for a task in Outs: it has it, or send
\* still has it for the task, or it is cached (Run, cacheSend, AddOutput).
THEOREM SenderNothingDropped == Spec => []NothingDropped
BY SenderInvariant, PTL DEF SenderInv

\* Every package with data carries its own task's data ID, although one
\* formatter made it for all, and v2 numbers its items without a gap.
THEOREM SenderWellFormed == Spec => []WellFormed
BY SenderInvariant, PTL DEF SenderInv
=============================================================================
