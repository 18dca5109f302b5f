-------------------------- MODULE FilterRulesProofs --------------------------
(***************************************************************************)
(* Theorems about the filter, for all rules, lines and batches and any     *)
(* number of tasks: one split, into as many words as the largest index     *)
(* calls for, serves the rules of every task.                              *)
(***************************************************************************)
EXTENDS FilterRules, WellFoundedInduction, TLAPS

-----------------------------------------------------------------------------
(* Sorting and the largest index.                                          *)

\* What has been sorted has the conditions it had before, the last of them
\* with the largest index.
LEMMA SortedConditions ==
    ASSUME NEW n \in Nat, NEW f \in [1 .. n -> Condition], NEW g \in SortConditions(f)
    PROVE  /\ g \in [1 .. n -> Condition]
           /\ \A j \in 1 .. n : \E i \in 1 .. n : g[j] = f[i]
           /\ \A i \in 1 .. n : \E j \in 1 .. n : g[j] = f[i]
           /\ \A j \in 1 .. n : g[j].index <= g[n].index
<1>1. DOMAIN f = 1 .. n
  OBVIOUS
<1>2. PICK p \in Bijection(1 .. n, 1 .. n) :
         g = [i \in 1 .. n |-> f[p[i]]] /\ ByIndex(g)
  BY <1>1 DEF SortConditions
<1>3. /\ p \in [1 .. n -> 1 .. n]
      /\ \A i \in 1 .. n : \E j \in 1 .. n : p[j] = i
  BY DEF Bijection, Injection, Surjection
<1>4. g \in [1 .. n -> Condition]
  BY <1>2, <1>3
<1>5. ASSUME NEW j \in 1 .. n PROVE g[j].index <= g[n].index
  <2>1. n \in 1 .. n /\ DOMAIN g = 1 .. n
    BY <1>4
  <2>2. g[n].index \in Int
    BY <1>4, <2>1 DEF Condition
  <2>3. CASE j < n
    BY <1>2, <2>1, <2>3 DEF ByIndex
  <2>4. CASE j = n
    BY <2>2, <2>4
  <2> QED BY <2>3, <2>4
<1> QED BY <1>2, <1>3, <1>4, <1>5

LEMMA NormalTyped ==
    ASSUME NEW c \in Condition
    PROVE  /\ Normal(c) \in Condition
           /\ Normal(c).index = c.index
           /\ c.index > 0 => Normal(c) = c
BY DEF Normal, Condition

\* The prepared rules of a task: the same conditions, normalised, filter by
\* filter.
LEMMA PreparedRules ==
    ASSUME NEW rules \in Seq(Seq(Condition)), NEW filters \in Prepared(rules)
    PROVE  /\ filters \in Seq(Seq(Condition)) /\ Len(filters) = Len(rules)
           /\ \A i \in 1 .. Len(rules) :
                 /\ Len(filters[i]) = Len(rules[i])
                 /\ \A j \in 1 .. Len(rules[i]) :
                       /\ \E k \in 1 .. Len(rules[i]) : filters[i][j] = Normal(rules[i][k])
                       /\ \E k \in 1 .. Len(rules[i]) : filters[i][k] = Normal(rules[i][j])
                       /\ filters[i][j].index <= filters[i][Len(rules[i])].index
<1>1. DOMAIN rules = 1 .. Len(rules) /\ Len(rules) \in Nat
  OBVIOUS
<1>2. /\ DOMAIN filters = 1 .. Len(rules)
      /\ filters = [i \in 1 .. Len(rules) |-> filters[i]]
      /\ \A i \in 1 .. Len(rules) :
            filters[i] \in SortConditions([j \in DOMAIN rules[i] |-> Normal(rules[i][j])])
  BY <1>1 DEF Prepared
<1>3. ASSUME NEW i \in 1 .. Len(rules)
      PROVE  /\ filters[i] \in Seq(Condition) /\ Len(filters[i]) = Len(rules[i])
             /\ \A j \in 1 .. Len(rules[i]) :
                   /\ \E k \in 1 .. Len(rules[i]) : filters[i][j] = Normal(rules[i][k])
                   /\ \E k \in 1 .. Len(rules[i]) : filters[i][k] = Normal(rules[i][j])
                   /\ filters[i][j].index <= filters[i][Len(rules[i])].index
  <2> DEFINE f == [j \in DOMAIN rules[i] |-> Normal(rules[i][j])]
             n == Len(rules[i])
  <2>1. rules[i] \in Seq(Condition) /\ n \in Nat /\ DOMAIN rules[i] = 1 .. n
    BY <1>1
  <2>2. f \in [1 .. n -> Condition] /\ \A j \in 1 .. n : f[j] = Normal(rules[i][j])
    BY <2>1, NormalTyped
  <2>3. filters[i] \in SortConditions(f)
    BY <1>2
  <2> HIDE DEF f, n
  <2>4. /\ filters[i] \in [1 .. n -> Condition]
        /\ \A j \in 1 .. n : \E k \in 1 .. n : filters[i][j] = f[k]
        /\ \A k \in 1 .. n : \E j \in 1 .. n : filters[i][j] = f[k]
        /\ \A j \in 1 .. n : filters[i][j].index <= filters[i][n].index
    BY <2>1, <2>2, <2>3, SortedConditions
  <2>5. filters[i] \in Seq(Condition) /\ Len(filters[i]) = n
    BY <2>1, <2>4
  <2> QED BY <2>2, <2>4, <2>5 DEF n
<1>4. filters \in Seq(Seq(Condition)) /\ Len(filters) = Len(rules)
  BY <1>1, <1>2, <1>3
<1> QED BY <1>3, <1>4

\* Some numbers f and a further one m have a largest; if there were none for
\* the first k of them, take the smallest such k.
LEMMA LargestExists ==
    ASSUME NEW n \in Nat, NEW f \in [1 .. n -> Int], NEW m \in Int
    PROVE  \E x \in {m} \cup {f[i] : i \in 1 .. n} :
              \A y \in {m} \cup {f[i] : i \in 1 .. n} : y <= x
<1> DEFINE S(k) == {m} \cup {f[i] : i \in 1 .. k}
           Has(k) == \E x \in S(k) : \A y \in S(k) : y <= x
           Bad == {k \in 0 .. n : ~Has(k)}
<1>1. SUFFICES ASSUME Bad # {} PROVE FALSE
  <2>1. n \in Bad \/ Has(n)
    OBVIOUS
  <2> QED BY <2>1
<1>2. Bad \subseteq Nat
  OBVIOUS
<1>3. PICK k \in Bad : \A j \in Bad : ~(<<j, k>> \in OpToRel(<, Nat))
  <2> HIDE DEF Bad
  <2> QED BY <1>1, <1>2, NatLessThanWellFounded, WFMin
<1>4. k \in 0 .. n /\ ~Has(k)
  OBVIOUS
<1>5. k # 0
  <2>1. S(0) = {m}
    OBVIOUS
  <2> QED BY <1>4, <2>1
<1>6. k \in 1 .. n /\ k - 1 \in 0 .. n /\ k - 1 < k /\ k - 1 \in Nat
  BY <1>4, <1>5
<1>7. Has(k - 1)
  <2>1. k - 1 \notin Bad
    <3> HIDE DEF Bad
    <3>1. k - 1 \in Bad => ~(k - 1 < k)
      BY <1>2, <1>3, <1>6 DEF OpToRel
    <3> QED BY <1>6, <3>1
  <2> QED BY <1>6, <2>1
<1>8. S(k) = S(k - 1) \cup {f[k]}
  BY <1>6
<1>9. PICK x \in S(k - 1) : \A y \in S(k - 1) : y <= x
  BY <1>7
<1>10. f[k] \in Int /\ x \in Int /\ \A y \in S(k - 1) : y \in Int
  BY <1>6
<1>11. Has(k)
  <2> HIDE DEF S
  <2>1. CASE f[k] <= x
    BY <1>8, <1>9, <2>1
  <2>2. CASE ~(f[k] <= x)
    <3>1. \A y \in S(k - 1) \cup {f[k]} : y <= f[k]
      BY <1>9, <1>10, <2>2
    <3> QED BY <1>8, <3>1
  <2> QED BY <2>1, <2>2
<1> QED BY <1>4, <1>11

\* What the merge of prepared rules makes of the largest index.
LEMMA MergedIndex ==
    ASSUME NEW filters \in Seq(Seq(Condition)), NEW m \in Nat
    PROVE  /\ Max(MaxIndices(filters) \cup {m}) \in Nat
           /\ m <= Max(MaxIndices(filters) \cup {m})
           /\ \A i \in 1 .. Len(filters) : filters[i] # <<>> =>
                 filters[i][Len(filters[i])].index <= Max(MaxIndices(filters) \cup {m})
<1> DEFINE n == Len(filters)
           S == MaxIndices(filters) \cup {m}
           f == [i \in 1 .. n |-> IF filters[i] = <<>> THEN m
                                  ELSE filters[i][Len(filters[i])].index]
<1>1. n \in Nat /\ DOMAIN filters = 1 .. n
  OBVIOUS
<1>2. ASSUME NEW i \in 1 .. n, filters[i] # <<>>
      PROVE  filters[i][Len(filters[i])].index \in Int
  <2>1. filters[i] \in Seq(Condition)
    BY <1>1
  <2>2. Len(filters[i]) \in 1 .. Len(filters[i])
    BY <1>2, <2>1
  <2>3. filters[i][Len(filters[i])] \in Condition
    BY <2>1, <2>2
  <2> QED BY <2>3 DEF Condition
<1>3. f \in [1 .. n -> Int]
  BY <1>2
<1>4. S = {m} \cup {f[i] : i \in 1 .. n}
  BY <1>1 DEF MaxIndices
<1>5. \E x \in S : \A y \in S : y <= x
  <2> HIDE DEF f, n, S
  <2>1. \E x \in {m} \cup {f[i] : i \in 1 .. n} :
           \A y \in {m} \cup {f[i] : i \in 1 .. n} : y <= x
    <3>1. m \in Int
      OBVIOUS
    <3> QED BY <1>1, <1>3, <3>1, LargestExists
  <2> QED BY <1>4, <2>1
<1>6. S \subseteq Int
  BY <1>2, <1>1 DEF MaxIndices
<1>7. Max(S) \in S /\ \A y \in S : y <= Max(S)
  <2> HIDE DEF S
  <2>1. \E x \in S : \A y \in S : x >= y
    BY <1>5, <1>6
  <2>2. Max(S) \in S /\ \A y \in S : Max(S) >= y
    BY <2>1 DEF Max
  <2> QED BY <1>6, <2>2
<1>8. ASSUME NEW i \in 1 .. n, filters[i] # <<>>
      PROVE  filters[i][Len(filters[i])].index \in S
  BY <1>1, <1>8 DEF MaxIndices
<1>9. m \in S
  OBVIOUS
<1>10. Max(S) \in Nat
  <2> DEFINE largest == Max(S)
  <2>1. largest \in Int /\ m <= largest
    BY <1>6, <1>7, <1>9
  <2> HIDE DEF largest
  <2>2. largest \in Nat
    BY <2>1
  <2> QED BY <2>2 DEF largest
<1> HIDE DEF S
<1> QED BY <1>7, <1>8, <1>9, <1>10 DEF S

-----------------------------------------------------------------------------
(* Splitting and matching.                                                 *)

\* A word below the last of a split is a field of the line; a condition on a
\* field the split does not cut off holds of the word if it holds of the field.
LEMMA AccessIsHolds ==
    ASSUME NEW c \in Condition, NEW text \in Text, NEW batch,
           NEW cut \in Nat, c.index < cut
    PROVE  Access(Normal(c), Words(text, cut, batch), text) <=> Holds(c, text, batch)
<1>1. c.index \in Int /\ Normal(c).index = c.index
  BY NormalTyped DEF Condition
<1>2. CASE c.index <= 0
  BY <1>1, <1>2 DEF Access, Holds
<1>3. CASE ~(c.index <= 0)
  <2> DEFINE n == cut
             words == Words(text, cut, batch)
             value == IF batch THEN text[c.index] ELSE Bare(text[c.index])
  <2>1. Normal(c) = c
    BY <1>1, <1>3, NormalTyped
  <2>2. n \in Nat /\ c.index \in 1 .. n /\ c.index < n
    BY <1>1, <1>3
  <2>3. Len(text) \in Nat /\ DOMAIN text = 1 .. Len(text)
    BY DEF Text
  <2>4. ASSUME NEW word, word = <<text[c.index]>>
        PROVE  (IF batch THEN word ELSE TrimSpace(word)) = <<value>>
    <3>1. CASE batch
      BY <2>4, <3>1
    <3>2. CASE ~batch
      <4>1. Len(word) = 1 /\ DOMAIN word = {1} /\ word[1] = text[c.index]
        BY <2>4
      <4>2. TrimSpace(word) = [i \in {1} |-> Bare(text[c.index])]
        BY <4>1 DEF TrimSpace
      <4>3. <<Bare(text[c.index])>> = [i \in {1} |-> Bare(text[c.index])]
        OBVIOUS
      <4> QED BY <3>2, <4>2, <4>3
    <3> QED BY <3>1, <3>2
  <2>5. CASE Len(text) <= n
    <3>1. SplitN(text, n) = [i \in 1 .. Len(text) |-> <<text[i]>>]
      BY <2>3, <2>5 DEF SplitN
    <3>2. words = [i \in 1 .. Len(text) |->
                     IF batch THEN <<text[i]>> ELSE TrimSpace(<<text[i]>>)]
      BY <3>1 DEF Words
    <3> HIDE DEF words
    <3>3. Len(words) = Len(text)
      BY <2>3, <3>2
    <3>4. c.index <= Len(text) => words[c.index] = <<value>>
      <4>1. c.index <= Len(text) => c.index \in 1 .. Len(text)
        BY <2>2, <2>3
      <4> QED BY <2>4, <3>2, <4>1
    <3> QED BY <1>3, <2>1, <3>3, <3>4 DEF Access, Holds, words
  <2>6. CASE ~(Len(text) <= n)
    <3>1. SplitN(text, n) =
             [i \in 1 .. n |-> IF i < n THEN <<text[i]>> ELSE SubSeq(text, n, Len(text))]
      BY <2>6 DEF SplitN
    <3>2. /\ words = [i \in 1 .. n |-> IF batch THEN SplitN(text, n)[i]
                                       ELSE TrimSpace(SplitN(text, n)[i])]
      BY <3>1 DEF Words
    <3>3. SplitN(text, n)[c.index] = <<text[c.index]>>
      BY <2>2, <3>1
    <3> HIDE DEF words
    <3>4. Len(words) = n
      BY <2>2, <3>2
    <3>5. words[c.index] = <<value>>
      <4>1. words[c.index] = IF batch THEN SplitN(text, n)[c.index]
                             ELSE TrimSpace(SplitN(text, n)[c.index])
        BY <2>2, <3>2
      <4> HIDE DEF value
      <4> QED BY <2>4, <3>3, <4>1
    <3>6. c.index <= Len(words) /\ c.index <= Len(text)
      BY <2>2, <2>3, <2>6, <3>4
    <3> QED BY <1>3, <2>1, <3>5, <3>6 DEF Access, Holds, words
  <2> QED BY <2>5, <2>6
<1> QED BY <1>2, <1>3

\* All indices of some rules are smaller than n.
Below(rules, n) ==
    \A i \in 1 .. Len(rules) : \A j \in 1 .. Len(rules[i]) : rules[i][j].index < n

\* Prepared rules on the words of a line say what the configured ones say of
\* its fields, if every index is covered by the split.
LEMMA HandleIsWants ==
    ASSUME NEW rules \in Seq(Seq(Condition)), NEW filters \in Prepared(rules),
           NEW text \in Text, NEW batch, NEW cut \in Nat, Below(rules, cut)
    PROVE  Handle(Words(text, cut, batch), text, filters) <=> Wants(rules, text, batch)
<1> DEFINE n == Len(rules)
           words == Words(text, cut, batch)
<1>1. /\ filters \in Seq(Seq(Condition)) /\ Len(filters) = n /\ n \in Nat
      /\ DOMAIN rules = 1 .. n /\ DOMAIN filters = 1 .. n
  BY PreparedRules
<1>0. \A i \in 1 .. Len(rules) : Len(filters[i]) = Len(rules[i])
  BY PreparedRules
<1>2. filters = <<>> <=> rules = <<>>
  BY <1>1
<1>3. ASSUME NEW i \in 1 .. n
      PROVE  (\A j \in DOMAIN filters[i] : Access(filters[i][j], words, text))
                <=> (\A j \in DOMAIN rules[i] : Holds(rules[i][j], text, batch))
  <2>1. /\ rules[i] \in Seq(Condition) /\ filters[i] \in Seq(Condition)
        /\ DOMAIN rules[i] = 1 .. Len(rules[i])
        /\ DOMAIN filters[i] = 1 .. Len(rules[i])
    <3>1. rules[i] \in Seq(Condition) /\ filters[i] \in Seq(Condition)
      BY <1>1
    <3>2. Len(filters[i]) = Len(rules[i])
      BY ONLY <1>0, <1>1, <1>3
    <3> QED BY <3>1, <3>2
  <2>2. \A k \in 1 .. Len(rules[i]) :
           Access(Normal(rules[i][k]), words, text) <=> Holds(rules[i][k], text, batch)
    <3> TAKE k \in 1 .. Len(rules[i])
    <3>1. rules[i][k] \in Condition /\ rules[i][k].index < cut
      BY <2>1 DEF Below
    <3> QED BY <3>1, AccessIsHolds
  <2>3. \A j \in 1 .. Len(rules[i]) :
           /\ \E k \in 1 .. Len(rules[i]) : filters[i][j] = Normal(rules[i][k])
           /\ \E k \in 1 .. Len(rules[i]) : filters[i][k] = Normal(rules[i][j])
    BY PreparedRules
  <2> HIDE DEF words
  <2>4. ASSUME \A j \in 1 .. Len(rules[i]) : Access(filters[i][j], words, text),
               NEW k \in 1 .. Len(rules[i])
        PROVE  Holds(rules[i][k], text, batch)
    <3>1. PICK j \in 1 .. Len(rules[i]) : filters[i][j] = Normal(rules[i][k])
      BY <2>3
    <3> QED BY <2>2, <2>4, <3>1
  <2>5. ASSUME \A k \in 1 .. Len(rules[i]) : Holds(rules[i][k], text, batch),
               NEW j \in 1 .. Len(rules[i])
        PROVE  Access(filters[i][j], words, text)
    <3>1. PICK k \in 1 .. Len(rules[i]) : filters[i][j] = Normal(rules[i][k])
      BY <2>3
    <3> QED BY <2>2, <2>5, <3>1
  <2> QED BY <2>1, <2>4, <2>5
<1> QED BY <1>1, <1>2, <1>3 DEF Handle, Wants

-----------------------------------------------------------------------------
(* The invariant of the node: the largest index covers the rules of every  *)
(* task that it knows, those of tasks that have left it included.          *)

Covered == \A t \in Known : Below(Rules(t), filterMaxIndex + 1)

Shape == taskConfigMaps = [t \in Tasks |-> taskConfigMaps[t]]

\* What is being linked is known, and nothing is being removed then.
Linking == merging # None => merging \in Known /\ leaving = None

NodeInv ==
    /\ delimiter \in Delimiters
    /\ conf \in [Tasks -> Configured]
    /\ \A t \in Tasks : taskConfigMaps[t] \in NewTaskConfig(t) \cup {None}
    /\ outs \subseteq Known
    /\ filterMaxIndex \in Nat
    /\ {merging, leaving} \subseteq Tasks \cup {None}
    /\ Shape /\ Covered /\ Linking

LEMMA RulesTyped ==
    ASSUME NodeInv, NEW t \in Tasks
    PROVE  /\ Rules(t) \in Seq(Seq(Condition))
           /\ NewTaskConfig(t) \subseteq Seq(Seq(Condition))
           /\ None \notin NewTaskConfig(t)
<1>1. Rules(t) \in Seq(Seq(Condition))
  BY FilterRulesAssumption DEF NodeInv, Rules
<1>2. NewTaskConfig(t) \subseteq Seq(Seq(Condition))
  BY <1>1, PreparedRules DEF NewTaskConfig
<1> QED BY <1>1, <1>2, FilterRulesAssumption

LEMMA NodeInit == Init => NodeInv
BY FilterRulesAssumption DEF Init, NodeInv, Shape, Covered, Linking, Known

\* A task whose rules are merged is covered, and so stay the others.
LEMMA MergeCovers ==
    ASSUME NodeInv, NEW t \in Tasks, MergeFilterConfig(t)
    PROVE  NodeInv' /\ Known \subseteq Known'
<1>1. PICK filters \in NewTaskConfig(t) :
         /\ filterMaxIndex' = Max(MaxIndices(filters) \cup {filterMaxIndex})
         /\ taskConfigMaps' = [taskConfigMaps EXCEPT ![t] = filters]
  BY DEF MergeFilterConfig
<1>2. /\ conf' = conf /\ delimiter' = delimiter /\ outs' = outs
      /\ merging' = t /\ leaving' = leaving /\ leaving = None
  BY DEF MergeFilterConfig
<1> DEFINE rules == Rules(t)
<1>3. /\ rules \in Seq(Seq(Condition)) /\ filters # None /\ filterMaxIndex \in Nat
      /\ filters \in Seq(Seq(Condition)) /\ filters \in Prepared(rules)
  BY RulesTyped DEF NodeInv, NewTaskConfig
<1>4. /\ filterMaxIndex' \in Nat /\ filterMaxIndex <= filterMaxIndex'
      /\ \A i \in 1 .. Len(filters) : filters[i] # <<>> =>
            filters[i][Len(filters[i])].index <= filterMaxIndex'
  BY <1>1, <1>3, MergedIndex
<1>5. /\ taskConfigMaps'[t] = filters
      /\ \A u \in Tasks \ {t} : taskConfigMaps'[u] = taskConfigMaps[u]
      /\ taskConfigMaps' = [u \in Tasks |-> taskConfigMaps'[u]]
  BY <1>1 DEF NodeInv, Shape
<1>6. Known' = Known \cup {t}
  BY <1>3, <1>5 DEF Known
<1>7. \A u \in Tasks : Rules(u)' = Rules(u) /\ NewTaskConfig(u)' = NewTaskConfig(u)
  BY <1>2 DEF Rules, NewTaskConfig
<1> HIDE DEF rules
<1>8. Below(rules, filterMaxIndex' + 1)
  <2> SUFFICES ASSUME NEW i \in 1 .. Len(rules), NEW j \in 1 .. Len(rules[i])
               PROVE  rules[i][j].index < filterMaxIndex' + 1
    BY DEF Below
  <2>1. /\ Len(filters) = Len(rules) /\ Len(filters[i]) = Len(rules[i])
        /\ filters[i] \in Seq(Condition) /\ rules[i] \in Seq(Condition)
    BY <1>3, PreparedRules
  <2>2. PICK k \in 1 .. Len(rules[i]) : filters[i][k] = Normal(rules[i][j])
    BY <1>3, PreparedRules
  <2>3. filters[i][k].index <= filters[i][Len(rules[i])].index
    BY <1>3, PreparedRules
  <2>4. /\ filters[i] # <<>> /\ Len(rules[i]) \in 1 .. Len(filters[i])
        /\ filters[i][Len(rules[i])] \in Condition
    BY <2>1
  <2>5. rules[i][j] \in Condition
    BY <2>1
  <2>6. /\ filters[i][k].index = rules[i][j].index
        /\ rules[i][j].index \in Int /\ filters[i][Len(rules[i])].index \in Int
    BY <2>2, <2>4, <2>5, NormalTyped DEF Condition
  <2>7. filters[i][Len(rules[i])].index <= filterMaxIndex'
    BY <1>4, <2>1, <2>4
  <2> QED BY <1>4, <2>3, <2>6, <2>7
<1>9. ASSUME NEW u \in Known PROVE Below(Rules(u), filterMaxIndex' + 1)
  <2> DEFINE r == Rules(u)
  <2>1. r \in Seq(Seq(Condition)) /\ Below(r, filterMaxIndex + 1)
    BY <1>9, RulesTyped DEF NodeInv, Covered, Known
  <2> HIDE DEF r
  <2>2. \A i \in 1 .. Len(r) : \A j \in 1 .. Len(r[i]) : r[i][j].index \in Int
    <3> TAKE i \in 1 .. Len(r)
    <3>1. r[i] \in Seq(Condition)
      BY <2>1
    <3> TAKE j \in 1 .. Len(r[i])
    <3>2. r[i][j] \in Condition
      BY <3>1
    <3> QED BY <3>2 DEF Condition
  <2>3. Below(r, filterMaxIndex' + 1)
    BY <1>3, <1>4, <2>1, <2>2 DEF Below
  <2> QED BY <2>3 DEF r
<1>10. Covered'
  <2>1. ASSUME NEW u \in Known' PROVE Below(Rules(u)', filterMaxIndex' + 1)
    <3>1. u \in Tasks
      BY <2>1 DEF Known
    <3>2. Rules(u)' = Rules(u)
      BY <1>7, <3>1
    <3>3. Below(Rules(u), filterMaxIndex' + 1)
      BY <1>6, <1>8, <1>9, <2>1 DEF rules
    <3> QED BY ONLY <3>2, <3>3
  <2> QED BY <2>1 DEF Covered
<1>11. \A u \in Tasks : taskConfigMaps'[u] \in NewTaskConfig(u)' \cup {None}
  BY <1>5, <1>7 DEF NodeInv
<1>12. Shape' /\ Linking'
  BY <1>2, <1>5, <1>6 DEF Shape, Linking
<1> QED BY <1>2, <1>4, <1>6, <1>10, <1>11, <1>12 DEF NodeInv

\* Everything else leaves rules and index as they are, or forgets them all.
LEMMA NodeStep ==
    ASSUME NodeInv, [Next]_vars
    PROVE  NodeInv'
<1>1. ASSUME NEW t \in Tasks, MergeFilterConfig(t) PROVE NodeInv'
  BY <1>1, MergeCovers
<1>2. ASSUME delimiter' = delimiter, conf' = conf
      PROVE  \A t \in Tasks : Rules(t)' = Rules(t) /\ NewTaskConfig(t)' = NewTaskConfig(t)
  BY <1>2 DEF Rules, NewTaskConfig
<1>3. ASSUME delimiter' = delimiter, conf' = conf, taskConfigMaps' = taskConfigMaps,
             filterMaxIndex' = filterMaxIndex, outs' \subseteq Known,
             {merging', leaving'} \subseteq Tasks \cup {None},
             merging' # None => merging' \in Known /\ leaving' = None
      PROVE  NodeInv'
  <2>1. Known' = Known
    BY <1>3 DEF Known
  <2>2. Shape' /\ Covered' /\ Linking'
    BY <1>2, <1>3, <2>1 DEF NodeInv, Shape, Covered, Linking, Known
  <2>3. \A t \in Tasks : taskConfigMaps'[t] \in NewTaskConfig(t)' \cup {None}
    BY <1>2, <1>3 DEF NodeInv
  <2> QED BY <1>3, <2>1, <2>2, <2>3 DEF NodeInv
<1>4. CASE AddOutput
  BY <1>3, <1>4 DEF AddOutput, NodeInv, Linking
<1>5. ASSUME NEW t \in Tasks, RemoveOutput(t) PROVE NodeInv'
  BY <1>3, <1>5 DEF RemoveOutput, NodeInv
<1>6. CASE ProcessorEnds
  BY <1>3, <1>6 DEF ProcessorEnds, NodeInv, Linking, node
<1>7. CASE NodeEnds
  <2>1. /\ delimiter' = delimiter /\ conf' = conf /\ filterMaxIndex' = 0 /\ outs' = {}
        /\ merging' = None /\ leaving' = None
        /\ taskConfigMaps' = [t \in Tasks |-> None]
    BY <1>7 DEF NodeEnds, NodeInv, Linking
  <2>2. Known' = {}
    BY <2>1 DEF Known
  <2> QED BY <2>1, <2>2 DEF NodeInv, Shape, Covered, Linking
<1>8. CASE UNCHANGED <<delimiter, conf, node, manager>>
  BY <1>3, <1>8 DEF NodeInv, Linking, node, manager
<1>9. ASSUME NEW texts, NEW batch, Filter(texts, batch) PROVE NodeInv'
  BY <1>8, <1>9 DEF Filter
<1>10. ASSUME NEW t \in Tasks, Turn(t) \/ PassOn(t) PROVE NodeInv'
  BY <1>8, <1>10 DEF Turn, PassOn
<1>11. CASE Cut \/ Sent \/ EventEnds \/ UNCHANGED vars
  BY <1>8, <1>11 DEF Cut, Sent, EventEnds, vars
<1> QED
  BY <1>1, <1>4, <1>5, <1>6, <1>7, <1>9, <1>10, <1>11 DEF Next, SingleFilter, BatchFilter

-----------------------------------------------------------------------------
(* The event.  What is said of it is said for rules r in force, the        *)
(* delimiter d, known tasks k and outs o, so that a step can change each.  *)

InForce == [t \in Tasks |-> Rules(t)]

AllWhole(e, d) == d = "none" \/ e.texts = <<NoString>>

WantedOf(e, d, rules) ==
    IF AllWhole(e, d) THEN e.texts
    ELSE Keep(e.texts, {i \in DOMAIN e.texts : Wants(rules, e.texts[i], e.batch)})

Formed(e) ==
    /\ DOMAIN e = {"texts", "batch", "cuts", "must", "seen", "at", "lines", "dead",
                   "passed", "known", "linked"}
    /\ e = [x \in DOMAIN e |-> e[x]]
    /\ e.texts \in Seq(Text)
    /\ e.cuts \in Seq(Nat) /\ Len(e.cuts) <= Len(e.texts)
    /\ e.known \subseteq Tasks
    /\ e.seen \subseteq Tasks /\ e.at \in Tasks \cup {None}
    /\ DOMAIN e.passed = Tasks /\ e.passed = [t \in Tasks |-> e.passed[t]]

\* What the event was begun with is still there.
Kept(e, k, o) == e.known \subseteq k /\ e.linked \subseteq e.known \cap o

\* Each text was cut for every task that was known.
WideEnough(e, r) ==
    \A t \in e.known : \A i \in 1 .. Len(e.cuts) : Below(r[t], e.cuts[i])

\* Who has been linked all the time must have a turn.
TurnsDue(e, d) ==
    /\ AllWhole(e, d) => e.linked \subseteq e.must
    /\ ~AllWhole(e, d) /\ e.seen # {} => e.known \subseteq e.must

\* What is offered and what was passed are the lines the task wants.
Right(e, d, r) ==
    /\ \A t \in Tasks : t \notin e.seen \/ t = e.at => e.passed[t] = <<>>
    /\ e.at # None => /\ e.at \in e.seen
                      /\ e.at \in e.known => e.lines = WantedOf(e, d, r[e.at])
    /\ \A t \in e.known : e.passed[t] \in {<<>>, WantedOf(e, d, r[t])}
    /\ \A t \in e.linked \cap e.seen : t # e.at => e.passed[t] = WantedOf(e, d, r[t])

EventOK(e, d, r, k, o) ==
    Formed(e) /\ Kept(e, k, o) /\ WideEnough(e, r) /\ TurnsDue(e, d) /\ Right(e, d, r)

EventInv == event # None => EventOK(event, delimiter, InForce, Known, outs)

FilterInv == NodeInv /\ EventInv

\* The same texts are wanted of two events with the same texts.
LEMMA SameTexts ==
    ASSUME NEW e, NEW f, f.texts = e.texts, f.batch = e.batch
    PROVE  /\ \A d : AllWhole(f, d) <=> AllWhole(e, d)
           /\ \A d, rules : WantedOf(f, d, rules) = WantedOf(e, d, rules)
BY DEF AllWhole, WantedOf

LEMMA WantedIs ==
    ASSUME NEW t, NEW e
    PROVE  /\ Whole(e.texts) <=> AllWhole(e, delimiter)
           /\ Wanted(t, e) = WantedOf(e, delimiter, Rules(t))
BY DEF Wanted, Whole, AllWhole, WantedOf

\* The manager adds tasks and outs.
LEMMA MoreIsKept ==
    ASSUME NEW e, NEW d, NEW r, NEW k, NEW o, NEW k2, NEW o2,
           EventOK(e, d, r, k, o), k \subseteq k2, e.linked \subseteq o2
    PROVE  EventOK(e, d, r, k2, o2)
BY DEF EventOK, Kept

\* It removes one that is linked no more.
LEMMA RemovedIsKept ==
    ASSUME NEW e, NEW d, NEW r, NEW k, NEW o, NEW t, EventOK(e, d, r, k, o)
    PROVE  EventOK([e EXCEPT !.linked = @ \ {t}], d, r, k, o \ {t})
<1> DEFINE f == [e EXCEPT !.linked = @ \ {t}]
<1>1. Formed(e) /\ Kept(e, k, o) /\ WideEnough(e, r) /\ TurnsDue(e, d) /\ Right(e, d, r)
  BY DEF EventOK
<1>2. /\ f.linked = e.linked \ {t} /\ f.texts = e.texts /\ f.batch = e.batch
      /\ f.cuts = e.cuts /\ f.must = e.must /\ f.seen = e.seen /\ f.at = e.at
      /\ f.lines = e.lines /\ f.passed = e.passed /\ f.known = e.known
      /\ DOMAIN f = DOMAIN e /\ f = [x \in DOMAIN f |-> f[x]]
  BY <1>1 DEF Formed
<1> HIDE DEF f
<1>3. Formed(f) /\ Kept(f, k, o \ {t}) /\ WideEnough(f, r) /\ TurnsDue(f, d)
  BY <1>1, <1>2, SameTexts DEF Formed, Kept, WideEnough, TurnsDue
<1>4. Right(f, d, r)
  BY <1>1, <1>2, SameTexts DEF Right
<1> QED BY <1>3, <1>4 DEF EventOK, f

\* A processor that has ended changes nothing of that.
LEMMA DeadIsKept ==
    ASSUME NEW e, NEW d, NEW r, NEW k, NEW o, NEW t, EventOK(e, d, r, k, o)
    PROVE  EventOK([e EXCEPT !.dead = @ \cup {t}], d, r, k, o)
<1> DEFINE f == [e EXCEPT !.dead = @ \cup {t}]
<1>1. Formed(e) /\ Kept(e, k, o) /\ WideEnough(e, r) /\ TurnsDue(e, d) /\ Right(e, d, r)
  BY DEF EventOK
<1>2. /\ f.linked = e.linked /\ f.texts = e.texts /\ f.batch = e.batch
      /\ f.cuts = e.cuts /\ f.must = e.must /\ f.seen = e.seen /\ f.at = e.at
      /\ f.lines = e.lines /\ f.passed = e.passed /\ f.known = e.known
      /\ DOMAIN f = DOMAIN e /\ f = [x \in DOMAIN f |-> f[x]]
  BY <1>1 DEF Formed
<1> HIDE DEF f
<1>3. Formed(f) /\ Kept(f, k, o) /\ WideEnough(f, r) /\ TurnsDue(f, d)
  BY <1>1, <1>2, SameTexts DEF Formed, Kept, WideEnough, TurnsDue
<1>4. Right(f, d, r)
  BY <1>1, <1>2, SameTexts DEF Right
<1> QED BY <1>3, <1>4 DEF EventOK, f

\* A text is cut into enough words for every task that is known.
LEMMA CutIsKept ==
    ASSUME NEW e, NEW d, NEW r, NEW k, NEW o, NEW n \in Nat, EventOK(e, d, r, k, o),
           Len(e.cuts) < Len(e.texts), \A t \in k : Below(r[t], n)
    PROVE  EventOK([e EXCEPT !.cuts = Append(@, n)], d, r, k, o)
<1> DEFINE f == [e EXCEPT !.cuts = Append(@, n)]
<1>1. Formed(e) /\ Kept(e, k, o) /\ WideEnough(e, r) /\ TurnsDue(e, d) /\ Right(e, d, r)
  BY DEF EventOK
<1>2. /\ f.linked = e.linked /\ f.texts = e.texts /\ f.batch = e.batch
      /\ f.cuts = Append(e.cuts, n) /\ f.must = e.must /\ f.seen = e.seen /\ f.at = e.at
      /\ f.lines = e.lines /\ f.passed = e.passed /\ f.known = e.known
      /\ DOMAIN f = DOMAIN e /\ f = [x \in DOMAIN f |-> f[x]]
  BY <1>1 DEF Formed
<1> HIDE DEF f
<1>3. /\ f.cuts \in Seq(Nat) /\ Len(f.cuts) = Len(e.cuts) + 1 /\ Len(e.cuts) \in Nat
      /\ \A i \in 1 .. Len(e.cuts) : f.cuts[i] = e.cuts[i]
      /\ f.cuts[Len(f.cuts)] = n
  BY <1>1, <1>2 DEF Formed
<1>4. Formed(f)
  <2>1. Len(e.texts) \in Nat
    BY <1>1 DEF Formed
  <2>2. Len(f.cuts) <= Len(f.texts)
    BY <1>2, <1>3, <2>1
  <2> QED BY <1>1, <1>2, <1>3, <2>2 DEF Formed
<1>5. WideEnough(f, r)
  <2> SUFFICES ASSUME NEW t \in f.known, NEW i \in 1 .. Len(f.cuts)
               PROVE  Below(r[t], f.cuts[i])
    BY DEF WideEnough
  <2>1. t \in e.known /\ t \in k
    BY <1>1, <1>2 DEF Kept
  <2>2. CASE i \in 1 .. Len(e.cuts)
    BY <1>1, <1>3, <2>1, <2>2 DEF WideEnough
  <2>3. CASE i = Len(f.cuts)
    BY <1>3, <2>1, <2>3
  <2> QED BY <1>3, <2>2, <2>3
<1>6. Kept(f, k, o) /\ TurnsDue(f, d)
  BY <1>1, <1>2, SameTexts DEF Kept, TurnsDue
<1>7. Right(f, d, r)
  BY <1>1, <1>2, SameTexts DEF Right
<1> QED BY <1>4, <1>5, <1>6, <1>7 DEF EventOK, f

\* A task that had no turn yet has it, or is offered the event as it is.
LEMMA TurnIsKept ==
    ASSUME NEW e, NEW f, NEW d, NEW r, NEW k, NEW o, NEW t \in Tasks,
           EventOK(e, d, r, k, o), Formed(f),
           f.texts = e.texts, f.batch = e.batch, f.cuts = e.cuts,
           f.passed = e.passed, f.known = e.known, f.linked = e.linked,
           f.seen = e.seen \cup {t}, t \notin e.seen, e.at = None,
           \/ AllWhole(e, d) /\ f.must = e.must
           \/ ~AllWhole(e, d) /\ f.must = IF e.seen = {} THEN k ELSE e.must,
           \/ f.at = t /\ (t \in e.known => f.lines = WantedOf(e, d, r[t]))
           \/ f.at = None /\ (t \in e.linked => WantedOf(e, d, r[t]) = <<>>)
    PROVE  EventOK(f, d, r, k, o)
<1>1. Formed(e) /\ Kept(e, k, o) /\ WideEnough(e, r) /\ TurnsDue(e, d) /\ Right(e, d, r)
  BY DEF EventOK
<1>2. Kept(f, k, o) /\ WideEnough(f, r)
  BY <1>1 DEF Kept, WideEnough
<1>3. TurnsDue(f, d)
  <2>1. AllWhole(f, d) <=> AllWhole(e, d)
    BY SameTexts
  <2> QED BY <1>1, <2>1 DEF TurnsDue, Kept
<1>4. Right(f, d, r)
  <2>1. \A rules : WantedOf(f, d, rules) = WantedOf(e, d, rules)
    BY SameTexts
  <2>2. e.passed[t] = <<>>
    BY <1>1 DEF Right
  <2>3. t # None
    BY FilterRulesAssumption
  <2>4. \A u \in Tasks : u \notin f.seen \/ u = f.at => f.passed[u] = <<>>
    BY <1>1, <2>2, <2>3 DEF Right
  <2>5. f.at # None => /\ f.at \in f.seen
                       /\ f.at \in f.known => f.lines = WantedOf(f, d, r[f.at])
    BY <2>1, <2>3
  <2>6. \A u \in f.known : f.passed[u] \in {<<>>, WantedOf(f, d, r[u])}
    BY <1>1, <2>1 DEF Right
  <2>7. ASSUME NEW u \in f.linked \cap f.seen, u # f.at
        PROVE  f.passed[u] = WantedOf(f, d, r[u])
    <3>1. CASE u = t
      BY <2>1, <2>2, <2>7, <3>1
    <3>2. CASE u # t
      <4>1. u \in e.linked \cap e.seen /\ u # e.at
        BY <1>1, <2>7, <3>2, FilterRulesAssumption DEF Formed
      <4> QED BY <1>1, <2>1, <4>1 DEF Right
    <3> QED BY <3>1, <3>2
  <2> QED BY <2>4, <2>5, <2>6, <2>7 DEF Right
<1> QED BY <1>2, <1>3, <1>4 DEF EventOK

\* The task is passed what it was offered.
LEMMA SentIsKept ==
    ASSUME NEW e, NEW d, NEW r, NEW k, NEW o, EventOK(e, d, r, k, o), e.at # None
    PROVE  EventOK([e EXCEPT !.passed[e.at] = e.lines, !.at = None], d, r, k, o)
<1> DEFINE f == [e EXCEPT !.passed[e.at] = e.lines, !.at = None]
<1>1. Formed(e) /\ Kept(e, k, o) /\ WideEnough(e, r) /\ TurnsDue(e, d) /\ Right(e, d, r)
  BY DEF EventOK
<1>2. /\ f.linked = e.linked /\ f.texts = e.texts /\ f.batch = e.batch
      /\ f.cuts = e.cuts /\ f.must = e.must /\ f.seen = e.seen /\ f.at = None
      /\ f.passed = [e.passed EXCEPT ![e.at] = e.lines] /\ f.known = e.known
      /\ DOMAIN f = DOMAIN e /\ f = [x \in DOMAIN f |-> f[x]]
  BY <1>1 DEF Formed
<1> HIDE DEF f
<1>3. e.at \in Tasks /\ None \notin Tasks
  BY <1>1, FilterRulesAssumption DEF Formed
<1>4. /\ f.passed[e.at] = e.lines
      /\ \A t \in Tasks \ {e.at} : f.passed[t] = e.passed[t]
      /\ DOMAIN f.passed = Tasks /\ f.passed = [t \in Tasks |-> f.passed[t]]
  <2>1. DOMAIN e.passed = Tasks /\ e.passed = [t \in Tasks |-> e.passed[t]]
    BY <1>1 DEF Formed
  <2>2. f.passed = [e.passed EXCEPT ![e.at] = e.lines]
    BY <1>2
  <2> QED BY ONLY <1>3, <2>1, <2>2
<1>5. Formed(f)
  BY <1>1, <1>2, <1>4 DEF Formed
<1>6. Kept(f, k, o) /\ WideEnough(f, r) /\ TurnsDue(f, d)
  BY <1>1, <1>2, SameTexts DEF Kept, WideEnough, TurnsDue
<1>7. Right(f, d, r)
  <2>1. \A rules : WantedOf(f, d, rules) = WantedOf(e, d, rules)
    BY <1>2, SameTexts
  <2>2. e.at \in e.seen /\ (e.at \in e.known => e.lines = WantedOf(e, d, r[e.at]))
    BY <1>1 DEF Right
  <2>3. \A t \in Tasks : t \notin f.seen \/ t = f.at => f.passed[t] = <<>>
    BY <1>1, <1>2, <1>3, <1>4, <2>2 DEF Right
  <2>4. ASSUME NEW t \in f.known
        PROVE  f.passed[t] \in {<<>>, WantedOf(f, d, r[t])}
    <3>1. t \in Tasks
      BY <1>1, <1>2, <2>4 DEF Formed
    <3>2. CASE t = e.at
      BY <1>2, <1>4, <2>1, <2>2, <2>4, <3>2
    <3>3. CASE t # e.at
      BY <1>1, <1>2, <1>4, <2>1, <2>4, <3>1, <3>3 DEF Right
    <3> QED BY <3>2, <3>3
  <2>5. ASSUME NEW t \in f.linked \cap f.seen
        PROVE  f.passed[t] = WantedOf(f, d, r[t])
    <3>1. t \in e.known /\ t \in Tasks
      BY <1>1, <1>2, <2>5 DEF Kept, Formed
    <3>2. CASE t = e.at
      BY <1>4, <2>1, <2>2, <3>1, <3>2
    <3>3. CASE t # e.at
      BY <1>1, <1>2, <1>4, <2>1, <2>5, <3>1, <3>3 DEF Right
    <3> QED BY <3>2, <3>3
  <2> QED BY <1>2, <2>3, <2>4, <2>5 DEF Right
<1> QED BY <1>5, <1>6, <1>7 DEF EventOK, f

-----------------------------------------------------------------------------
(* Every step keeps the event right.                                       *)

LEMMA LinesTyped ==
    /\ \A text \in Texts \cup {NoString} : <<text>> \in Seq(Text) \ {<<>>}
    /\ \A texts \in Batches : texts \in Seq(Text) \ {<<>>}
<1>1. NoString \in Text
  BY DEF NoString, Text
<1> QED BY <1>1, FilterRulesAssumption

\* What the rules in force match of a line that was cut wide enough for them
\* is what the task wants of it.
LEMMA MatchedIsWanted ==
    ASSUME NodeInv, NEW e, EventOK(e, delimiter, InForce, Known, outs),
           ~Whole(e.texts), Len(e.cuts) = Len(e.texts), NEW t \in e.known
    PROVE  Matched(t, e) = WantedOf(e, delimiter, Rules(t))
<1>1. /\ t \in Tasks /\ taskConfigMaps[t] \in Prepared(Rules(t))
      /\ Rules(t) \in Seq(Seq(Condition)) /\ InForce[t] = Rules(t)
  <2>1. t \in Known /\ t \in Tasks
    BY DEF EventOK, Kept, Formed
  <2> QED BY <2>1, RulesTyped DEF NodeInv, Known, NewTaskConfig, InForce
<1>2. /\ e.texts \in Seq(Text) /\ e.cuts \in Seq(Nat)
      /\ DOMAIN e.texts = 1 .. Len(e.texts)
      /\ \A i \in 1 .. Len(e.cuts) : Below(Rules(t), e.cuts[i])
  BY <1>1 DEF EventOK, Formed, WideEnough
<1>3. ASSUME NEW i \in DOMAIN e.texts
      PROVE  Handle(Words(e.texts[i], e.cuts[i], e.batch), e.texts[i], taskConfigMaps[t])
                <=> Wants(Rules(t), e.texts[i], e.batch)
  <2>1. i \in 1 .. Len(e.cuts) /\ e.texts[i] \in Text /\ e.cuts[i] \in Nat
    BY <1>2
  <2> QED BY <1>1, <1>2, <2>1, HandleIsWants
<1>4. {i \in DOMAIN e.texts :
          Handle(Words(e.texts[i], e.cuts[i], e.batch), e.texts[i], taskConfigMaps[t])}
         = {i \in DOMAIN e.texts : Wants(Rules(t), e.texts[i], e.batch)}
  BY <1>3
<1>5. ~AllWhole(e, delimiter)
  BY WantedIs
<1> QED BY <1>4, <1>5 DEF Matched, WantedOf

LEMMA FilterInit == Init => FilterInv
BY NodeInit DEF Init, FilterInv, EventInv

\* An event that is taken is begun right.
LEMMA FilterBegins ==
    ASSUME NodeInv, NEW texts \in Seq(Text) \ {<<>>}, NEW batch, Filter(texts, batch)
    PROVE  EventOK(event', delimiter, InForce, Known, outs)
<1> DEFINE f == [texts  |-> texts, batch |-> batch,
                 cuts   |-> IF Whole(texts) THEN <<>> ELSE <<filterMaxIndex + 1>>,
                 must   |-> IF Whole(texts) THEN outs ELSE {},
                 seen   |-> {}, at |-> None, lines |-> <<>>, dead |-> {},
                 passed |-> [t \in Tasks |-> <<>>],
                 known  |-> Known, linked |-> outs]
<1>1. event' = f
  BY DEF Filter
<1>2. filterMaxIndex + 1 \in Nat /\ outs \subseteq Known /\ Known \subseteq Tasks
  BY DEF NodeInv, Known
<1>3. /\ f.texts = texts /\ f.cuts = IF Whole(texts) THEN <<>> ELSE <<filterMaxIndex + 1>>
      /\ f.must = IF Whole(texts) THEN outs ELSE {}
      /\ f.seen = {} /\ f.at = None /\ f.passed = [t \in Tasks |-> <<>>]
      /\ f.known = Known /\ f.linked = outs
      /\ DOMAIN f = {"texts", "batch", "cuts", "must", "seen", "at", "lines", "dead",
                     "passed", "known", "linked"}
      /\ f = [x \in DOMAIN f |-> f[x]]
  OBVIOUS
<1>4. Whole(texts) <=> AllWhole(f, delimiter)
  BY <1>3, WantedIs DEF Whole, AllWhole
<1> HIDE DEF f
<1>5. Formed(f)
  <2>1. Len(texts) >= 1
    OBVIOUS
  <2> QED BY <1>2, <1>3, <2>1 DEF Formed
<1>6. Kept(f, Known, outs) /\ TurnsDue(f, delimiter)
  BY <1>2, <1>3, <1>4 DEF Kept, TurnsDue
<1>7. WideEnough(f, InForce)
  <2>1. \A t \in Known : Below(InForce[t], filterMaxIndex + 1)
    BY <1>2 DEF NodeInv, Covered, InForce
  <2> QED BY <1>2, <1>3, <2>1 DEF WideEnough
<1>8. Right(f, delimiter, InForce)
  BY <1>2, <1>3 DEF Right
<1> QED BY <1>1, <1>5, <1>6, <1>7, <1>8 DEF EventOK

\* A task takes its turn at the lines it wants.
LEMMA TurnBegins ==
    ASSUME NodeInv, NEW e, NEW t \in Tasks, event = e, Turn(t),
           EventOK(e, delimiter, InForce, Known, outs)
    PROVE  EventOK(event', delimiter, InForce, Known, outs)
<1> DEFINE matched == Matched(t, e)
           sends   == matched # <<>> /\ t \in outs
<1>1. PICK f : f = [e EXCEPT !.must  = IF e.seen = {} THEN Known ELSE @,
                             !.seen  = @ \cup {t},
                             !.dead  = @ \ {t},
                             !.at    = IF sends THEN t ELSE None,
                             !.lines = IF sends THEN matched ELSE <<>>]
  OBVIOUS
<1>2. /\ event' = f /\ ~Whole(e.texts) /\ Len(e.cuts) = Len(e.texts) /\ e.at = None
      /\ t \notin e.seen
  BY <1>1 DEF Turn
<1>3. t \in e.known => matched = WantedOf(e, delimiter, InForce[t])
  BY <1>2, MatchedIsWanted DEF InForce
<1>4. Formed(e) /\ ~AllWhole(e, delimiter) /\ e.linked \subseteq e.known \cap outs
  BY <1>2, WantedIs DEF EventOK, Kept
<1> HIDE DEF matched
<1>5. /\ f.texts = e.texts /\ f.batch = e.batch /\ f.cuts = e.cuts
      /\ f.passed = e.passed /\ f.known = e.known /\ f.linked = e.linked
      /\ f.seen = e.seen \cup {t} /\ f.must = IF e.seen = {} THEN Known ELSE e.must
      /\ f.at = (IF sends THEN t ELSE None) /\ f.lines = IF sends THEN matched ELSE <<>>
      /\ DOMAIN f = DOMAIN e /\ f = [x \in DOMAIN f |-> f[x]]
  BY <1>1, <1>4 DEF Formed
<1>6. Formed(f)
  BY <1>4, <1>5 DEF Formed
<1>7. \/ f.at = t /\ (t \in e.known => f.lines = WantedOf(e, delimiter, InForce[t]))
      \/ f.at = None /\ (t \in e.linked => WantedOf(e, delimiter, InForce[t]) = <<>>)
  BY <1>3, <1>4, <1>5
<1>8. EventOK(f, delimiter, InForce, Known, outs)
  BY <1>2, <1>4, <1>5, <1>6, <1>7, TurnIsKept
<1> QED BY <1>2, <1>8

\* An event that is not filtered is offered as it is.
LEMMA PassOnBegins ==
    ASSUME NodeInv, NEW e, NEW t \in Tasks, event = e, PassOn(t),
           EventOK(e, delimiter, InForce, Known, outs)
    PROVE  EventOK(event', delimiter, InForce, Known, outs)
<1>1. PICK f : f = [e EXCEPT !.seen = @ \cup {t}, !.at = t, !.lines = e.texts]
  OBVIOUS
<1>2. event' = f /\ Whole(e.texts) /\ e.at = None /\ t \notin e.seen
  BY <1>1 DEF PassOn
<1>3. Formed(e) /\ AllWhole(e, delimiter)
  BY <1>2, WantedIs DEF EventOK
<1>4. /\ f.texts = e.texts /\ f.batch = e.batch /\ f.cuts = e.cuts
      /\ f.passed = e.passed /\ f.known = e.known /\ f.linked = e.linked
      /\ f.seen = e.seen \cup {t} /\ f.must = e.must /\ f.at = t /\ f.lines = e.texts
      /\ DOMAIN f = DOMAIN e /\ f = [x \in DOMAIN f |-> f[x]]
  BY <1>1, <1>3 DEF Formed
<1>5. Formed(f)
  BY <1>3, <1>4 DEF Formed
<1>6. f.lines = WantedOf(e, delimiter, InForce[t])
  BY <1>3, <1>4 DEF WantedOf
<1>7. EventOK(f, delimiter, InForce, Known, outs)
  BY <1>2, <1>3, <1>4, <1>5, <1>6, TurnIsKept
<1> QED BY <1>2, <1>7

LEMMA FilterStep ==
    ASSUME FilterInv, [Next]_vars
    PROVE  FilterInv'
<1> NodeInv /\ EventInv /\ NodeInv'
  BY NodeStep DEF FilterInv
<1> SUFFICES EventInv'
  BY DEF FilterInv
<1>1. ASSUME delimiter' = delimiter, conf' = conf PROVE InForce' = InForce
  BY <1>1 DEF InForce, Rules
<1>2. ASSUME delimiter' = delimiter, conf' = conf, event' # None,
             EventOK(event', delimiter, InForce, Known', outs')
      PROVE  EventInv'
  BY <1>1, <1>2 DEF EventInv
<1>3. ASSUME UNCHANGED <<delimiter, conf, node, manager>>, event' # None,
             EventOK(event', delimiter, InForce, Known, outs)
      PROVE  EventInv'
  BY <1>2, <1>3 DEF node, Known
<1>4. ASSUME event' = None PROVE EventInv'
  BY <1>4 DEF EventInv
<1>5. PICK e : e = event
  OBVIOUS
<1>6. e # None => EventOK(e, delimiter, InForce, Known, outs)
  BY <1>5 DEF EventInv
<1>7. ASSUME NEW t \in Tasks, MergeFilterConfig(t) PROVE EventInv'
  <2>1. /\ delimiter' = delimiter /\ conf' = conf /\ outs' = outs /\ event' = e
        /\ Known \subseteq Known'
    BY <1>5, <1>7, MergeCovers DEF MergeFilterConfig
  <2>2. CASE e # None
    <3>1. e.linked \subseteq outs
      BY <1>6, <2>2 DEF EventOK, Kept
    <3> QED BY <1>2, <1>6, <2>1, <2>2, <3>1, MoreIsKept
  <2> QED BY <1>4, <2>1, <2>2
<1>8. CASE AddOutput
  <2>1. /\ delimiter' = delimiter /\ conf' = conf /\ outs \subseteq outs' /\ event' = e
        /\ Known' = Known
    BY <1>5, <1>8 DEF AddOutput, Known
  <2>2. CASE e # None
    <3>1. e.linked \subseteq outs'
      BY <1>6, <2>1, <2>2 DEF EventOK, Kept
    <3> QED BY <1>2, <1>6, <2>1, <2>2, <3>1, MoreIsKept
  <2> QED BY <1>4, <2>1, <2>2
<1>9. ASSUME NEW t \in Tasks, RemoveOutput(t) PROVE EventInv'
  <2>1. /\ delimiter' = delimiter /\ conf' = conf /\ outs' = outs \ {t} /\ Known' = Known
        /\ event' = IF e = None THEN None ELSE [e EXCEPT !.linked = @ \ {t}]
    BY <1>5, <1>9 DEF RemoveOutput, Known
  <2>2. CASE e # None
    <3>1. EventOK(event', delimiter, InForce, Known, outs')
      BY <1>6, <2>1, <2>2, RemovedIsKept
    <3> QED BY <1>2, <1>4, <2>1, <3>1
  <2> QED BY <1>4, <2>1, <2>2
<1>10. CASE ProcessorEnds
  <2>1. /\ delimiter' = delimiter /\ conf' = conf /\ outs' = outs /\ Known' = Known
        /\ event' = IF e = None THEN None ELSE [e EXCEPT !.dead = @ \cup {leaving}]
    BY <1>5, <1>10 DEF ProcessorEnds, Known, node
  <2>2. CASE e # None
    <3>1. EventOK(event', delimiter, InForce, Known, outs')
      BY <1>6, <2>1, <2>2, DeadIsKept
    <3> QED BY <1>2, <1>4, <2>1, <3>1
  <2> QED BY <1>4, <2>1, <2>2
<1>11. CASE NodeEnds \/ EventEnds
  BY <1>4, <1>11 DEF NodeEnds, EventEnds
<1>12. ASSUME NEW texts \in Seq(Text) \ {<<>>}, NEW batch, Filter(texts, batch)
       PROVE  EventInv'
  BY <1>3, <1>4, <1>12, FilterBegins DEF Filter
<1>13. CASE Cut
  <2>1. /\ UNCHANGED <<delimiter, conf, node, manager>> /\ e # None
        /\ Len(e.cuts) < Len(e.texts)
        /\ event' = [e EXCEPT !.cuts = Append(@, filterMaxIndex + 1)]
    BY <1>5, <1>13 DEF Cut
  <2>2. filterMaxIndex + 1 \in Nat /\ \A t \in Known : Below(InForce[t], filterMaxIndex + 1)
    BY DEF NodeInv, Covered, InForce, Known
  <2>3. EventOK(event', delimiter, InForce, Known, outs)
    BY <1>6, <2>1, <2>2, CutIsKept
  <2> QED BY <1>3, <1>4, <2>1, <2>3
<1>14. ASSUME NEW t \in Tasks, Turn(t) PROVE EventInv'
  <2>1. UNCHANGED <<delimiter, conf, node, manager>> /\ e # None
    BY <1>5, <1>14 DEF Turn
  <2>2. EventOK(event', delimiter, InForce, Known, outs)
    BY <1>5, <1>6, <1>14, <2>1, TurnBegins
  <2> QED BY <1>3, <1>4, <2>1, <2>2
<1>15. ASSUME NEW t \in Tasks, PassOn(t) PROVE EventInv'
  <2>1. UNCHANGED <<delimiter, conf, node, manager>> /\ e # None
    BY <1>5, <1>15 DEF PassOn
  <2>2. EventOK(event', delimiter, InForce, Known, outs)
    BY <1>5, <1>6, <1>15, <2>1, PassOnBegins
  <2> QED BY <1>3, <1>4, <2>1, <2>2
<1>16. CASE Sent
  <2>1. /\ UNCHANGED <<delimiter, conf, node, manager>> /\ e # None /\ e.at # None
        /\ event' = [e EXCEPT !.passed[e.at] = e.lines, !.at = None]
    BY <1>5, <1>16 DEF Sent
  <2>2. EventOK(event', delimiter, InForce, Known, outs)
    BY <1>6, <2>1, SentIsKept
  <2> QED BY <1>3, <1>4, <2>1, <2>2
<1>17. CASE UNCHANGED vars
  <2>1. UNCHANGED <<delimiter, conf, node, manager>> /\ event' = e
    BY <1>5, <1>17 DEF vars
  <2> QED BY <1>3, <1>4, <1>6, <2>1
<1> QED
  BY <1>7, <1>8, <1>9, <1>10, <1>11, <1>12, <1>13, <1>14, <1>15, <1>16, <1>17, LinesTyped
     DEF Next, SingleFilter, BatchFilter

\* The types of the node's state: what it knows of a task are the task's own
\* rules, prepared, it has no out without rules, and the index it cuts lines
\* at is never that of no rule (MergeFilterConfig).
THEOREM FilterTypeCorrect == Spec => []TypeOK
<1>1. FilterInv => TypeOK
  <2> SUFFICES ASSUME FilterInv PROVE TypeOK
    OBVIOUS
  <2>1. event # None => event.at \in Tasks \cup {None} /\ event.seen \subseteq Tasks
    BY DEF FilterInv, EventInv, EventOK, Formed
  <2> QED BY <2>1 DEF FilterInv, NodeInv, TypeOK
<1> QED BY <1>1, FilterInit, FilterStep, PTL DEF Spec

\* A task that the node knew when it took an event is passed nothing or
\* exactly the lines its own rules want, and one that stays linked has been
\* passed them when the event is done, whoever joins, leaves or returns while
\* the event is cut, matched and handed on (singleFilter, batchFilter).
THEOREM FilterPassesWhatIsWanted == Spec => []PassesWhatIsWanted
<1>1. FilterInv => PassesWhatIsWanted
  <2> SUFFICES ASSUME NEW e, e = event, e # None, FilterInv
               PROVE  /\ \A t \in e.known : e.passed[t] \in {<<>>, Wanted(t, e)}
                      /\ Served => \A t \in e.linked : e.passed[t] = Wanted(t, e)
    BY DEF PassesWhatIsWanted
  <2>1. /\ Formed(e) /\ Kept(e, Known, outs)
        /\ TurnsDue(e, delimiter) /\ Right(e, delimiter, InForce)
    BY DEF FilterInv, EventInv, EventOK
  <2>2. ASSUME NEW t \in e.known
        PROVE  t \in Tasks /\ Wanted(t, e) = WantedOf(e, delimiter, InForce[t])
    BY <2>1, WantedIs DEF Formed, InForce
  <2>3. \A t \in e.known : e.passed[t] \in {<<>>, Wanted(t, e)}
    BY <2>1, <2>2 DEF Right
  <2>4. ASSUME Served, NEW t \in e.linked PROVE e.passed[t] = Wanted(t, e)
    <3>1. t \in e.known /\ t # e.at
      BY <2>1, <2>2, <2>4, FilterRulesAssumption DEF Kept, Served
    <3>2. t \in e.must
      BY <2>1, <2>4, <3>1, WantedIs DEF TurnsDue, Served
    <3>3. t \in e.seen
      BY <2>4, <3>2 DEF Served
    <3> QED BY <2>1, <2>2, <3>1, <3>3 DEF Right
  <2> QED BY <2>3, <2>4
<1> QED BY <1>1, FilterInit, FilterStep, PTL DEF Spec
=============================================================================
