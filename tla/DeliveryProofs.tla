--------------------------- MODULE DeliveryProofs ---------------------------
(***************************************************************************)
(* Theorems about the delivery chain, for all files, package sizes, queue  *)
(* capacities, crashes and reloads: its type and the bound of the sender's *)
(* caches; and, where no state overtakes a line, that progress stays       *)
(* behind delivery, that no line is dropped for good, and that the chain   *)
(* implements Collection, for a task that has the chain to itself; for     *)
(* several tasks, that the same progress stays behind what some task has,  *)
(* and that no task loses a line before the first stop or reload.          *)
(***************************************************************************)
EXTENDS Delivery, SequenceTheorems, WellFoundedInduction, TLAPS

-----------------------------------------------------------------------------
(* The type invariant.  It needs the shape of the chain: what the ticker   *)
(* is about to send is there, and a chain without a manager is empty.      *)

ChainEmpty ==
    /\ input = None /\ filter = None /\ processor = None /\ sending = None
    /\ flushing = {} /\ \A f \in Files : cache[f] = <<>>

Shape ==
    /\ \A f \in flushing : cache[f] # <<>>
    /\ \A f \in Files : \A i \in 1 .. Len(cache[f]) : cache[f][i].src = f
    /\ manager \in {"down", "closed"} => outs = {} /\ ChainEmpty

TypeInv == TypeOK /\ Shape

LEMMA PackTyped ==
    ASSUME NEW events \in Seq(Event), events # <<>>
    PROVE  /\ Pack(events) \in Package
           /\ Pack(events).src = events[Len(events)].src
           /\ Pack(events).off = events[Len(events)].off
           /\ Pack(events).lines = {events[i].off : i \in 1 .. Len(events)}
<1>1. /\ Len(events) \in 1 .. Len(events) /\ DOMAIN events = 1 .. Len(events)
      /\ \A i \in 1 .. Len(events) : events[i] \in Event
  BY EmptySeq, LenProperties
<1>2. events[Len(events)].src \in Files /\ events[Len(events)].off \in Lines
  BY <1>1 DEF Event
<1>3. {events[i].off : i \in 1 .. Len(events)} \in SUBSET Lines
  BY <1>1 DEF Event
<1> QED BY <1>1, <1>2, <1>3 DEF Pack, Package

LEMMA SendTyped ==
    ASSUME NEW events \in Seq(Event), events # <<>>, outs \subseteq Tasks
    PROVE  /\ Send(events) \in [package : Package, left : SUBSET Tasks]
           /\ Send(events) # None
           /\ Send(events).package = Pack(events)
           /\ Send(events).left = outs
BY PackTyped, NoneAssumption DEF Send

\* A task has taken its copy of the package.
LEMMA OneLess ==
    ASSUME NEW s \in [package : Package, left : SUBSET Tasks], NEW t
    PROVE  /\ [s EXCEPT !.left = @ \ {t}] \in [package : Package, left : SUBSET Tasks]
           /\ [s EXCEPT !.left = @ \ {t}] # None
           /\ [s EXCEPT !.left = @ \ {t}].package = s.package
           /\ [s EXCEPT !.left = @ \ {t}].left = s.left \ {t}
BY NoneAssumption

\* The batch's last state of a file is one of its states.
LEMMA LastOfIsOne ==
    ASSUME NEW f \in Files, channel \in Seq([src : Files, off : Lines])
    PROVE  \/ LastOf(f) = live[f]
           \/ \E i \in 1 .. Len(channel) : channel[i].src = f /\ LastOf(f) = channel[i].off
<1> DEFINE own == {i \in DOMAIN channel : channel[i].src = f}
           after == {Len(channel) - i : i \in own}
<1>1. DOMAIN channel = 1 .. Len(channel) /\ Len(channel) \in Nat
  BY LenProperties
<1>2. CASE own = {}
  BY <1>2 DEF LastOf
<1>3. CASE own # {}
  <2>1. after \subseteq Nat /\ after # {}
    BY <1>1, <1>3
  <2>2. PICK d \in after : \A e \in after : ~(<<e, d>> \in OpToRel(<, Nat))
    <3> HIDE DEF after
    <3> QED BY <2>1, NatLessThanWellFounded, WFMin
  <2>3. PICK last \in own : d = Len(channel) - last
    BY <2>2
  <2>4. \A j \in own : j <= last
    <3> TAKE j \in own
    <3>1. /\ Len(channel) - j \in after /\ Len(channel) - j \in Nat /\ d \in Nat
          /\ j \in Int /\ last \in Int
      BY <1>1, <2>1, <2>3
    <3>2. ~(Len(channel) - j < d)
      BY <2>2, <3>1 DEF OpToRel
    <3> QED BY <1>1, <2>3, <3>1, <3>2
  <2>5. (CHOOSE i \in own : \A j \in own : j <= i) \in own
    BY <2>4
  <2>6. LastOf(f) = channel[CHOOSE i \in own : \A j \in own : j <= i].off
    BY <1>3 DEF LastOf
  <2> QED BY <1>1, <2>5, <2>6
<1> QED BY <1>2, <1>3

LEMMA FromTyped ==
    ASSUME NEW states \in [Files -> Offsets \cup {None}]
    PROVE  /\ From(states) \in [Files -> Offsets]
           /\ \A f \in Files : /\ states[f] = None => From(states)[f] = 0
                               /\ states[f] # None => From(states)[f] = states[f]
BY DeliveryAssumption DEF From, Offsets

LEMMA TypeInit == Init => TypeInv
BY DeliveryAssumption
   DEF Init, TypeInv, TypeOK, Shape, ChainEmpty, Store!Blank, Offsets

Entry == [task : Tasks \cup {None}, src : Files, off : Lines, lines : SUBSET Lines]

\* Where the entries that are left stood before the first n were dropped.
LEMMA IndexDropped ==
    ASSUME NEW len \in Nat, NEW n \in Nat, n >= 1, n <= len, NEW k \in 1 .. len - n
    PROVE  k \in 0 .. len - n /\ n + k \in 1 .. len
  OBVIOUS

\* What stays in a queue when the first n entries leave it.
LEMMA QueueDropped ==
    ASSUME NEW q \in Seq(Entry), NEW n \in Nat, n >= 1, n <= Len(q)
    PROVE  /\ SubSeq(q, n + 1, Len(q)) \in Seq(Entry)
           /\ Len(SubSeq(q, n + 1, Len(q))) = Len(q) - n
           /\ \A k \in 1 .. Len(q) - n : SubSeq(q, n + 1, Len(q))[k] = q[n + k]
<1> DEFINE from == n + 1
           to   == Len(q)
<1>1. from \in Int /\ to \in Int /\ to \in Nat
  BY LenProperties
<1>2. \A i \in from .. to : i \in 1 .. to
  BY <1>1
<1>3. \A i \in from .. to : q[i] \in Entry
  BY <1>2, ElementOfSeq
<1>4. /\ to - from + 1 = to - n
      /\ from <= to \/ to - n = 0
      /\ \A k \in 1 .. to - n : from + k - 1 = n + k
  BY <1>1
<1> HIDE DEF from, to
<1>5. /\ SubSeq(q, from, to) \in Seq(Entry)
      /\ Len(SubSeq(q, from, to)) = IF from <= to THEN to - from + 1 ELSE 0
      /\ \A i \in 1 .. to - from + 1 : SubSeq(q, from, to)[i] = q[from + i - 1]
  BY <1>1, <1>3, SubSeqProperties
<1>6. Len(SubSeq(q, from, to)) = to - n
  BY <1>4, <1>5
<1> QED BY <1>4, <1>5, <1>6 DEF from, to

\* A flush, after which a crash finds under every key what was staged before
\* or after it, or what it would have found before.
LEMMA FlushEffect ==
    ASSUME live \in [Files -> Offsets \cup {None}], staged \in [Files -> Offsets \cup {None}],
           saved \in [Files -> Offsets \cup {None}], NEW dropped, Store!Flush(dropped)
    PROVE  /\ live' \in [Files -> Offsets \cup {None}] /\ staged' = live'
           /\ saved' \in [Files -> Offsets \cup {None}]
           /\ \A k \in Files : /\ live'[k] = IF k \in dropped THEN None ELSE live[k]
                              /\ saved'[k] \in {saved[k], staged'[k], staged[k]}
<1>1. /\ live' = [k \in Files |-> IF k \in dropped THEN None ELSE live[k]]
      /\ staged' = live'
      /\ \/ saved' = saved
         \/ \E ids \in SUBSET Files :
               saved' = [k \in Files |-> IF k \in ids THEN staged'[k] ELSE staged[k]]
  BY DEF Store!Flush
<1>2. live' \in [Files -> Offsets \cup {None}]
  BY <1>1
<1> QED BY <1>1, <1>2

LEMMA TypeStep ==
    ASSUME TypeInv, [Next]_vars
    PROVE  TypeInv'
<1> USE DeliveryAssumption, NoneAssumption DEF TypeInv
<1>t. /\ input # None => input \in Event
      /\ filter # None => filter \in Event
      /\ processor # None => processor \in Event
      /\ sending # None => sending \in [package : Package, left : SUBSET Tasks]
      /\ cache \in [Files -> Seq(Event)]
      /\ queue \in Seq(Entry) /\ sent \in Nat /\ sent <= Len(queue)
      /\ read \in [Files -> Offsets]
  BY DEF TypeOK, Entry
<1>1. CASE Run
  <2>1. live' = staged /\ staged \in [Files -> Offsets \cup {None}]
    BY <1>1 DEF Run, Store!Start, TypeOK
  <2>2. read' \in [Files -> Offsets]
    BY <1>1, <2>1, FromTyped DEF Run, From
  <2> QED
    BY <1>1, <2>1, <2>2 DEF Run, Store!Start, TypeOK, Shape, ChainEmpty, chainVars,
       pipeVars, countVars
<1>2. CASE Crash
  BY <1>2 DEF Crash, EmptyChain, Store!Fail, Store!Blank, TypeOK, Shape, ChainEmpty
<1>3. ASSUME NEW f \in Files, OnEvent(f) PROVE TypeInv'
  <2>1. [src |-> f, off |-> read[f] + 1] \in Event /\ read[f] + 1 \in Offsets
    BY <1>3, <1>t DEF OnEvent, Event, Lines, Offsets
  <2> QED
    BY <1>3, <1>t, <2>1 DEF OnEvent, InputReady, TypeOK, Shape, ChainEmpty, managerVars,
       pipeVars, registryVars, countVars
<1>4. ASSUME NEW f \in Files, OnStateEvent(f) PROVE TypeInv'
  <2>1. /\ [task |-> None, lines |-> {}, src |-> f, off |-> read[f] + 1] \in Entry
        /\ read[f] + 1 \in Offsets
    BY <1>4, <1>t DEF OnStateEvent, Entry, Lines, Offsets
  <2>2. /\ queue' \in Seq(Entry) /\ sent' = sent /\ sent' \in 0 .. Len(queue')
    BY <1>4, <1>t, <2>1, AppendProperties DEF OnStateEvent
  <2> QED
    BY <1>4, <1>t, <2>1, <2>2 DEF OnStateEvent, InputReady, TypeOK, Shape, ChainEmpty,
       managerVars, chainVars, registryVars, countVars, Entry
<1>5. CASE InputToFilter
  BY <1>5, <1>t DEF InputToFilter, TypeOK, Shape, ChainEmpty, managerVars, pipeVars,
     registryVars, countVars
<1>6. CASE FilterDrops
  BY <1>6, <1>t DEF FilterDrops, TypeOK, Shape, ChainEmpty, managerVars, pipeVars,
     registryVars, countVars
<1>7. CASE FilterToProcessor
  BY <1>7, <1>t DEF FilterToProcessor, TypeOK, Shape, ChainEmpty, managerVars, pipeVars,
     registryVars, countVars
<1>8. CASE CacheSend
  <2> DEFINE buffer == Append(cache[processor.src], processor)
  <2>1. processor \in Event /\ processor.src \in Files /\ cache[processor.src] \in Seq(Event)
    BY <1>8, <1>t DEF CacheSend, Event
  <2>2. /\ buffer \in Seq(Event) /\ buffer # <<>> /\ Len(buffer) = Len(cache[processor.src]) + 1
        /\ \A i \in 1 .. Len(cache[processor.src]) : buffer[i] = cache[processor.src][i]
        /\ buffer[Len(cache[processor.src]) + 1] = processor
    BY <2>1, AppendProperties
  <2>3. \A i \in 1 .. Len(buffer) : buffer[i].src = processor.src
    BY <2>1, <2>2, LenProperties DEF Shape
  <2>4. /\ processor' = None
        /\ sending' \in {Send(buffer), sending}
        /\ \/ cache' = [cache EXCEPT ![processor.src] = buffer]
           \/ cache' = [cache EXCEPT ![processor.src] = <<>>]
        /\ UNCHANGED <<managerVars, read, input, filter, flushing, out, pipeVars,
                       registryVars, lastStates, delivered, countVars>>
        /\ flushing = {} /\ processor # None
    BY <1>8 DEF CacheSend, SenderReady
  <2>5. Send(buffer) \in [package : Package, left : SUBSET Tasks]
    BY <2>2, SendTyped DEF TypeOK
  <2> HIDE DEF buffer
  <2>6. /\ cache' \in [Files -> Seq(Event)]
        /\ \A f \in Files : \/ cache'[f] = cache[f]
                            \/ f = processor.src /\ cache'[f] = buffer
                            \/ cache'[f] = <<>>
    <3>1. PICK b : /\ b = buffer \/ b = <<>>
                   /\ cache' = [cache EXCEPT ![processor.src] = b]
      BY <2>4
    <3>2. b \in Seq(Event)
      BY <2>2, <3>1, EmptySeq
    <3>3. \A f \in Files : cache'[f] = IF f = processor.src THEN b ELSE cache[f]
      BY <1>t, <2>1, <3>1
    <3>4. cache' \in [Files -> Seq(Event)]
      BY <1>t, <2>1, <3>1, <3>2
    <3> QED BY <3>1, <3>3, <3>4
  <2>7. TypeOK'
    BY <1>t, <2>4, <2>5, <2>6 DEF TypeOK, managerVars, pipeVars, registryVars, countVars
  <2>8. \A f \in Files : \A i \in 1 .. Len(cache'[f]) : cache'[f][i].src = f
    BY <2>3, <2>6 DEF Shape
  <2>9. manager' \notin {"down", "closed"} /\ flushing' = {}
    BY <2>4 DEF Shape, ChainEmpty, managerVars
  <2> QED BY <2>7, <2>8, <2>9 DEF Shape
<1>9. CASE SenderTick
  BY <1>9 DEF SenderTick, TypeOK, Shape, ChainEmpty, managerVars, pipeVars,
     registryVars, countVars
<1>10. ASSUME NEW f \in Files, SenderFlush(f) PROVE TypeInv'
  <2>1. cache[f] \in Seq(Event) /\ cache[f] # <<>>
    BY <1>10, <1>t DEF SenderFlush, Shape
  <2>2. Send(cache[f]) \in [package : Package, left : SUBSET Tasks]
    BY <2>1, SendTyped DEF TypeOK
  <2>3. TypeOK'
    BY <1>10, <1>t, <2>2 DEF SenderFlush, TypeOK, managerVars, pipeVars, registryVars, countVars
  <2>4. manager \notin {"down", "closed"}
    BY <1>10 DEF SenderFlush, Shape, ChainEmpty
  <2>5. \A g \in Files : cache'[g] = IF g = f THEN <<>> ELSE cache[g]
    BY <1>10, <1>t DEF SenderFlush
  <2> QED BY <1>10, <2>3, <2>4, <2>5 DEF SenderFlush, Shape, managerVars
<1>11. ASSUME NEW t \in Tasks, SendToTask(t) PROVE TypeInv'
  <2>1. sending \in [package : Package, left : SUBSET Tasks] /\ sending.package \in Package
    BY <1>11, <1>t DEF SendToTask
  <2>2. sending' \in [package : Package, left : SUBSET Tasks]
    BY <1>11, <2>1, OneLess DEF SendToTask
  <2>3. out' \in [Tasks -> Package \cup {None}]
    BY <1>11, <2>1 DEF SendToTask, TypeOK
  <2> QED
    BY <1>11, <2>2, <2>3 DEF SendToTask, TypeOK, Shape, ChainEmpty, managerVars, pipeVars,
       registryVars, countVars
<1>12. CASE SendReturns
  BY <1>12 DEF SendReturns, TypeOK, Shape, ChainEmpty, managerVars, pipeVars,
     registryVars, countVars
<1>13. ASSUME NEW t \in Tasks, SendEvent(t) PROVE TypeInv'
  <2>1. out[t] \in Package
    BY <1>13 DEF SendEvent, TypeOK
  <2>2. [task |-> t, lines |-> out[t].lines, src |-> out[t].src, off |-> out[t].off] \in Entry
    BY <2>1 DEF Entry, Package
  <2>3. queue' \in Seq(Entry) /\ sent' = sent /\ sent' \in 0 .. Len(queue')
    BY <1>13, <1>t, <2>2, AppendProperties DEF SendEvent
  <2>4. out' \in [Tasks -> Package \cup {None}]
    BY <1>13 DEF SendEvent, TypeOK
  <2> QED
    BY <1>13, <2>3, <2>4 DEF SendEvent, TypeOK, Shape, ChainEmpty, managerVars, chainVars,
       registryVars, countVars, Entry
<1>14. CASE Publish
  <2>1. queue[sent + 1] \in Entry
    BY <1>14, <1>t, ElementOfSeq DEF Publish
  <2>2. delivered' \in [Tasks -> SUBSET (Files \X Lines)]
    BY <1>14, <2>1 DEF Publish, TypeOK, Entry
  <2>3. sent' \in 0 .. Len(queue')
    BY <1>14, <1>t DEF Publish
  <2> QED
    BY <1>14, <2>2, <2>3 DEF Publish, TypeOK, Shape, ChainEmpty, managerVars, chainVars,
       registryVars, countVars
<1>15. ASSUME NEW n \in 1 .. QueueSize, AckEvents(n) PROVE TypeInv'
  <2>1. /\ n \in Nat /\ n >= 1 /\ n <= sent /\ Len(queue) \in Nat
        /\ \A i \in 1 .. Len(queue) : queue[i] \in Entry
    BY <1>15, <1>t, ElementOfSeq, LenProperties DEF AckEvents
  <2>2. \A i \in 1 .. n : queue[i].src \in Files /\ queue[i].off \in Lines
    <3> TAKE i \in 1 .. n
    <3>1. i \in 1 .. Len(queue)
      BY <1>t, <2>1
    <3> QED BY <2>1, <3>1 DEF Entry
  <2>3. channel' \in Seq([src : Files, off : Lines])
    <3>1. channel' \in [1 .. n -> [src : Files, off : Lines]]
      BY <1>15, <2>2 DEF AckEvents
    <3> DEFINE S == [src : Files, off : Lines]
    <3>2. channel' \in UNION {[1 .. m -> S] : m \in Nat}
      BY <2>1, <3>1
    <3> HIDE DEF S
    <3>3. channel' \in Seq(S)
      BY <3>2, SeqDef, Zenon
    <3> QED BY <3>3 DEF S
  <2>4. queue' \in Seq(Entry) /\ Len(queue') = Len(queue) - n
    <3>1. queue' = SubSeq(queue, n + 1, Len(queue)) /\ n <= Len(queue) /\ queue \in Seq(Entry)
      BY <1>15, <1>t, <2>1 DEF AckEvents
    <3> QED BY <2>1, <3>1, QueueDropped
  <2>5. sent' \in 0 .. Len(queue')
    BY <1>15, <1>t, <2>1, <2>4 DEF AckEvents
  <2> QED
    BY <1>15, <2>3, <2>4, <2>5 DEF AckEvents, TypeOK, Shape, ChainEmpty, managerVars,
       chainVars, registryVars, countVars, Entry
<1>16. CASE OnEvents
  <2>1. \A f \in Files : LastOf(f) \in Offsets \cup {None}
    <3> TAKE f \in Files
    <3>1. channel \in Seq([src : Files, off : Lines]) /\ live[f] \in Offsets \cup {None}
      BY DEF TypeOK
    <3>2. \A i \in 1 .. Len(channel) : channel[i] \in [src : Files, off : Lines]
      BY <3>1, ElementOfSeq
    <3>3. \A i \in 1 .. Len(channel) : channel[i].off \in Offsets
      BY <3>2 DEF Lines, Offsets
    <3>4. \/ LastOf(f) = live[f]
          \/ \E i \in 1 .. Len(channel) : channel[i].src = f /\ LastOf(f) = channel[i].off
      BY <3>1, LastOfIsOne
    <3> QED BY <3>1, <3>3, <3>4
  <2> QED
    BY <1>16, <2>1 DEF OnEvents, TypeOK, Shape, ChainEmpty, managerVars, chainVars, countVars
<1>17. CASE Flush
  <2>1. /\ live' \in [Files -> Offsets \cup {None}] /\ staged' = live'
        /\ saved' \in [Files -> Offsets \cup {None}]
    BY <1>17, FlushEffect DEF Flush, TypeOK
  <2> QED
    BY <1>17, <2>1 DEF Flush, TypeOK, Shape, ChainEmpty, managerVars, chainVars,
       pipeVars, countVars
<1>18. CASE Sync
  BY <1>18 DEF Sync, Store!Sync, TypeOK, Shape, ChainEmpty, managerVars, chainVars,
     pipeVars, countVars
<1>19. CASE Reload
  BY <1>19 DEF Reload, TypeOK, Shape, ChainEmpty, chainVars, pipeVars, registryVars
<1>20. ASSUME NEW t \in Tasks, RemoveOutput(t) PROVE TypeInv'
  BY <1>20 DEF RemoveOutput, TypeOK, Shape, ChainEmpty, chainVars, pipeVars,
     registryVars, countVars
<1>21. CASE CloseChain
  BY <1>21 DEF CloseChain, EmptyChain, TypeOK, Shape, ChainEmpty, pipeVars, registryVars, countVars
<1>22. CASE TaskEnds
  BY <1>22 DEF TaskEnds, TypeOK, Shape, ChainEmpty, chainVars, pipeVars, registryVars, countVars
<1>23. CASE StartTasks
  <2>1. read' \in [Files -> Offsets]
    BY <1>23, FromTyped DEF StartTasks, TypeOK, From
  <2> QED
    BY <1>23, <2>1 DEF StartTasks, Store!Blank, TypeOK, Shape, ChainEmpty, chainVars,
       pipeVars, registryVars, countVars
<1>24. CASE UNCHANGED vars
  BY <1>24 DEF vars, TypeOK, Shape, ChainEmpty, managerVars, chainVars, pipeVars,
     registryVars, countVars
<1> QED
  BY <1>1, <1>2, <1>3, <1>4, <1>5, <1>6, <1>7, <1>8, <1>9, <1>10, <1>11, <1>12, <1>13,
     <1>14, <1>15, <1>16, <1>17, <1>18, <1>19, <1>20, <1>21, <1>22, <1>23, <1>24 DEF Next

\* Every variable keeps its type.
THEOREM DeliveryTypeCorrect == Spec => []TypeOK
<1>1. Init => TypeInv
  BY TypeInit
<1>2. TypeInv /\ [Next]_vars => TypeInv'
  BY TypeStep
<1>3. TypeInv => TypeOK
  BY DEF TypeInv
<1> QED BY <1>1, <1>2, <1>3, PTL DEF Spec

-----------------------------------------------------------------------------
(* The caches of the sender.                                               *)

LEMMA CacheStep ==
    ASSUME TypeInv, CacheBelowPackage, [Next]_vars
    PROVE  CacheBelowPackage'
<1>1. ASSUME UNCHANGED cache PROVE CacheBelowPackage'
  BY <1>1 DEF CacheBelowPackage
<1>2. CASE Crash \/ CloseChain
  BY <1>2 DEF Crash, CloseChain, EmptyChain, CacheBelowPackage
<1>3. CASE CacheSend
  <2>1. processor \in Event /\ processor.src \in Files /\ cache \in [Files -> Seq(Event)]
    BY <1>3 DEF CacheSend, TypeInv, TypeOK, Event
  <2>2. PICK b : /\ cache' = [cache EXCEPT ![processor.src] = b]
                 /\ b = <<>> \/ (CanPackage /\ Len(b) < PackageCount)
    <3> DEFINE buffer == Append(cache[processor.src], processor)
    <3>1. Len(buffer) \in Int /\ PackageCount \in Int
      BY <2>1, AppendProperties, LenProperties, DeliveryAssumption
    <3>2. cache' = [cache EXCEPT ![processor.src] =
                      IF ~CanPackage \/ Len(buffer) >= PackageCount THEN <<>> ELSE buffer]
      BY <1>3 DEF CacheSend
    <3> HIDE DEF buffer
    <3>3. CASE ~CanPackage \/ Len(buffer) >= PackageCount
      BY <3>2, <3>3
    <3>4. CASE CanPackage /\ Len(buffer) < PackageCount
      BY <3>1, <3>2, <3>4
    <3> QED BY <3>1, <3>3, <3>4
  <2> QED BY <2>1, <2>2 DEF CacheBelowPackage
<1>4. ASSUME NEW f \in Files, SenderFlush(f) PROVE CacheBelowPackage'
  BY <1>4 DEF SenderFlush, CacheBelowPackage, TypeInv, TypeOK
<1> QED
  BY <1>1, <1>2, <1>3, <1>4 DEF Next, vars, chainVars, Run, OnEvent, OnStateEvent,
     InputToFilter, FilterDrops, FilterToProcessor, SenderTick, SendToTask, SendReturns,
     SendEvent, Publish, AckEvents, OnEvents, Flush, Sync, Reload, RemoveOutput,
     TaskEnds, StartTasks

\* The sender never holds a full package back.
THEOREM DeliveryCacheBelowPackage == Spec => []CacheBelowPackage
<1>1. Init => CacheBelowPackage
  BY DEF Init, CacheBelowPackage
<1>2. Init => TypeInv
  BY TypeInit
<1>3. TypeInv /\ [Next]_vars => TypeInv'
  BY TypeStep
<1>4. TypeInv /\ CacheBelowPackage /\ [Next]_vars => CacheBelowPackage'
  BY CacheStep
<1> QED BY <1>1, <1>2, <1>3, <1>4, PTL DEF Spec

-----------------------------------------------------------------------------
(* Progress against delivery.  It fails unless a line that is reported by  *)
(* state only, and so overtakes the chain, comes before all others of its  *)
(* file.  With several tasks on the chain progress follows the one that is *)
(* furthest: what it passes has been delivered to some task, and to each   *)
(* task only if there is one.                                              *)

OneTask == \A t, u \in Tasks : t = u

StatesFirst == \A x \in Excluded, w \in Wanted : x[1] = w[1] => x[2] < w[2]

UpTo(f, n) == {l \in Lines : l <= n /\ <<f, l>> \in Wanted}

\* The lines of f that task t has been delivered, and those that are on their
\* way to it, place by place from the publisher back to the input.
Has(t, f) == {l \in Lines : <<f, l>> \in delivered[t]}

\* Those that some task has been delivered.
Had(f) == {l \in Lines : \E t \in Tasks : <<f, l>> \in delivered[t]}

Queued(t, f, k) ==
    Has(t, f) \cup {l \in Lines : \E i \in 1 .. k :
                       queue[i].task = t /\ queue[i].src = f /\ l \in queue[i].lines}

LinesOf(p, f) == IF p # None /\ p.src = f THEN p.lines ELSE {}
LineOf(e, f)  == IF e # None /\ e.src = f THEN {e.off} ELSE {}

Taken(t, f) == Queued(t, f, Len(queue)) \cup LinesOf(out[t], f)

Sent(t, f) ==
    Taken(t, f) \cup
    (IF sending # None /\ t \in sending.left THEN LinesOf(sending.package, f) ELSE {})

Cached(t, f) == Sent(t, f) \cup {cache[f][i].off : i \in 1 .. Len(cache[f])}

Processed(t, f) == Cached(t, f) \cup LineOf(processor, f)
Filtered(t, f)  == Processed(t, f) \cup LineOf(filter, f)
Received(t, f)  == Filtered(t, f) \cup LineOf(input, f)

\* What the registry has, or is about to get, for f.
Marks(f) == ({live[f], staged[f], saved[f], lastStates[f]} \ {None})
            \cup {channel[i].off : i \in {j \in 1 .. Len(channel) : channel[j].src = f}}

\* All wanted lines up to the state that p carries are in K, or were before.
CarriesUpTo(p, f, K) ==
    p # None /\ p.src = f => UpTo(f, p.off) \subseteq Had(f) \cup K

\* No mark passes what has been delivered, and no state that overtakes the
\* chain passes a line.
MarksBehind(f) ==
    /\ \A m \in Marks(f) : UpTo(f, m) \subseteq Had(f)
    /\ \A k \in 1 .. Len(queue) :
          queue[k].src = f /\ queue[k].task = None => UpTo(f, queue[k].off) = {}

\* No place holds a state that passes what is in it and before it.
BehindDelivery(t, f) ==
    /\ Queued(t, f, sent) \subseteq Has(t, f)
    /\ \A k \in 1 .. Len(queue) :
          queue[k].task = t /\ queue[k].src = f =>
              UpTo(f, queue[k].off) \subseteq Had(f) \cup Queued(t, f, k)
    /\ CarriesUpTo(out[t], f, Taken(t, f))
    /\ sending # None /\ t \in sending.left =>
          CarriesUpTo(sending.package, f, Sent(t, f))

ChainBehind(t, f) ==
    t \in outs =>
        /\ cache[f] # <<>> =>
              UpTo(f, cache[f][Len(cache[f])].off) \subseteq Had(f) \cup Cached(t, f)
        /\ CarriesUpTo(processor, f, Processed(t, f))
        /\ CarriesUpTo(filter, f, Filtered(t, f))
        /\ CarriesUpTo(input, f, Received(t, f))
        /\ UpTo(f, read[f]) \subseteq Had(f) \cup Received(t, f)

OrderInv ==
    \A f \in Files :
        /\ MarksBehind(f)
        /\ \A t \in Tasks : BehindDelivery(t, f) /\ ChainBehind(t, f)

LEMMA HasIsHad ==
    ASSUME NEW t \in Tasks, NEW f
    PROVE  /\ Has(t, f) \subseteq Had(f)
           /\ OneTask => Had(f) = Has(t, f)
BY DEF Has, Had, OneTask

LEMMA UpToNext ==
    ASSUME NEW f \in Files, NEW n \in Nat
    PROVE  /\ UpTo(f, 0) = {}
           /\ UpTo(f, n + 1) \subseteq UpTo(f, n) \cup {n + 1}
BY DeliveryAssumption DEF UpTo, Lines

\* Reading on over a line that is excluded brings nothing that is wanted.
LEMMA UpToSkipped ==
    ASSUME NEW f \in Files, NEW n \in Nat, <<f, n + 1>> \in Excluded
    PROVE  UpTo(f, n + 1) \subseteq UpTo(f, n)
<1>1. n + 1 \notin UpTo(f, n + 1)
  BY DEF UpTo, Wanted
<1> QED BY <1>1, UpToNext

LEMMA UpToState ==
    ASSUME StatesFirst, NEW f \in Files, NEW n \in Nat, <<f, n>> \in Excluded
    PROVE  UpTo(f, n) = {}
<1> SUFFICES ASSUME NEW l \in Lines, l <= n, <<f, l>> \in Wanted PROVE FALSE
  BY DEF UpTo
<1>1. n < l
  BY DEF StatesFirst
<1> QED BY <1>1, DeliveryAssumption DEF Lines

LEMMA QueuedGrows ==
    ASSUME NEW t, NEW f, NEW j \in Nat, NEW k \in Nat, j <= k
    PROVE  Has(t, f) \subseteq Queued(t, f, j) /\ Queued(t, f, j) \subseteq Queued(t, f, k)
BY DEF Queued

LEMMA StagesGrow ==
    ASSUME NEW t, NEW f
    PROVE  /\ Taken(t, f) \subseteq Sent(t, f)
           /\ Sent(t, f) \subseteq Cached(t, f)
           /\ Cached(t, f) \subseteq Processed(t, f)
           /\ Processed(t, f) \subseteq Filtered(t, f)
           /\ Filtered(t, f) \subseteq Received(t, f)
BY DEF Sent, Cached, Processed, Filtered, Received

\* Steps on the way from the publisher to the registry: what the chain holds
\* stays where it is.
LEMMA BehindKept ==
    ASSUME NEW t \in Tasks, NEW f \in Files, BehindDelivery(t, f),
           out'[t] = out[t], UNCHANGED sending,
           Had(f) \subseteq Had(f)',
           Queued(t, f, sent)' \subseteq Has(t, f)',
           \A k \in 1 .. Len(queue') :
              queue'[k].task = t /\ queue'[k].src = f =>
                  UpTo(f, queue'[k].off) \subseteq Had(f)' \cup Queued(t, f, k)',
           Queued(t, f, Len(queue)) \subseteq Queued(t, f, Len(queue))'
    PROVE  BehindDelivery(t, f)' /\ Sent(t, f) \subseteq Sent(t, f)'
<1>1. Taken(t, f) \subseteq Taken(t, f)'
  BY DEF Taken, LinesOf
<1>2. Sent(t, f) \subseteq Sent(t, f)'
  BY <1>1 DEF Sent, LinesOf
<1>3. CarriesUpTo(out[t], f, Taken(t, f))'
  BY <1>1 DEF BehindDelivery, CarriesUpTo
<1>4. sending' # None /\ t \in sending'.left => CarriesUpTo(sending.package, f, Sent(t, f))'
  BY <1>2 DEF BehindDelivery, CarriesUpTo
<1> QED BY <1>2, <1>3, <1>4 DEF BehindDelivery

LEMMA BehindSame ==
    ASSUME NEW t \in Tasks, NEW f \in Files, BehindDelivery(t, f),
           out'[t] = out[t], UNCHANGED <<sending, delivered, queue, sent>>
    PROVE  /\ BehindDelivery(t, f)' /\ Sent(t, f)' = Sent(t, f)
           /\ Had(f)' = Had(f)
<1>1. /\ Has(t, f)' = Has(t, f) /\ Had(f)' = Had(f)
      /\ \A k : Queued(t, f, k)' = Queued(t, f, k)
  BY DEF Has, Had, Queued
<1>2. Queued(t, f, sent)' = Queued(t, f, sent)
  BY DEF Has, Queued
<1>3. Queued(t, f, Len(queue))' = Queued(t, f, Len(queue))
  BY DEF Has, Queued
<1>4. \A k \in 1 .. Len(queue') :
         queue'[k].task = t /\ queue'[k].src = f =>
             UpTo(f, queue'[k].off) \subseteq Had(f)' \cup Queued(t, f, k)'
  BY <1>1 DEF BehindDelivery
<1>5. BehindDelivery(t, f)'
  BY <1>1, <1>2, <1>3, <1>4, BehindKept DEF BehindDelivery
<1>6. Sent(t, f)' = Sent(t, f)
  BY <1>3 DEF Sent, Taken, LinesOf
<1> QED BY <1>1, <1>5, <1>6

LEMMA MarksKept ==
    ASSUME NEW f \in Files, MarksBehind(f), UNCHANGED queue,
           Had(f) \subseteq Had(f)', Marks(f)' \subseteq Marks(f)
    PROVE  MarksBehind(f)'
<1>1. \A m \in Marks(f)' : UpTo(f, m) \subseteq Had(f)'
  BY DEF MarksBehind
<1> QED BY <1>1 DEF MarksBehind, UpTo

LEMMA ChainKept ==
    ASSUME NEW t \in Tasks, NEW f \in Files, ChainBehind(t, f),
           outs' \subseteq outs,
           UNCHANGED <<cache, processor, filter, input, read>>,
           Had(f) \subseteq Had(f)', Sent(t, f) \subseteq Sent(t, f)'
    PROVE  ChainBehind(t, f)'
<1>1. Cached(t, f) \subseteq Cached(t, f)'
  BY DEF Cached
<1>2. Processed(t, f) \subseteq Processed(t, f)'
  BY <1>1 DEF Processed, LineOf
<1>3. Filtered(t, f) \subseteq Filtered(t, f)'
  BY <1>2 DEF Filtered, LineOf
<1>4. Received(t, f) \subseteq Received(t, f)'
  BY <1>3 DEF Received, LineOf
<1> QED BY <1>1, <1>2, <1>3, <1>4 DEF ChainBehind, CarriesUpTo

\* A new runner starts from a mark.
LEMMA ChainStarts ==
    ASSUME NEW t \in Tasks, NEW f \in Files, MarksBehind(f), ChainEmpty,
           NEW states \in [Files -> Offsets \cup {None}],
           states[f] # None => states[f] \in Marks(f),
           read' = From(states), UNCHANGED <<chainVars, delivered>>
    PROVE  ChainBehind(t, f)'
<1>1. UpTo(f, read'[f]) \subseteq Had(f)
  BY FromTyped, UpToNext DEF MarksBehind
<1>2. Had(f)' = Had(f)
  BY DEF Had
<1>3. input' = None /\ filter' = None /\ processor' = None /\ cache'[f] = <<>>
  BY DEF ChainEmpty, chainVars
<1> QED BY <1>1, <1>2, <1>3 DEF ChainBehind, CarriesUpTo

\* A package that is sent is on its way to every task in outs.
LEMMA PackageSent ==
    ASSUME TypeInv, NEW t \in Tasks, NEW f \in Files, NEW g \in Files,
           NEW events \in Seq(Event), events # <<>>,
           \A i \in 1 .. Len(events) : events[i].src = g,
           sending = None, sending' = Send(events),
           UNCHANGED <<out, delivered, queue, sent>>
    PROVE  /\ sending' # None /\ sending'.left = outs /\ sending'.package = Pack(events)
           /\ Pack(events) # None /\ Pack(events).src = g
           /\ Pack(events).off = events[Len(events)].off
           /\ Has(t, f)' = Has(t, f)
           /\ \A k : Queued(t, f, k)' = Queued(t, f, k)
           /\ Taken(t, f)' = Taken(t, f)
           /\ t \in outs => Sent(t, f)' =
                 Sent(t, f) \cup (IF g = f THEN {events[i].off : i \in 1 .. Len(events)}
                                  ELSE {})
<1>1. /\ sending' # None /\ sending'.left = outs /\ sending'.package = Pack(events)
      /\ Pack(events) \in Package /\ Pack(events) # None
      /\ Pack(events).src = g /\ Pack(events).off = events[Len(events)].off
      /\ Pack(events).lines = {events[i].off : i \in 1 .. Len(events)}
  <2>1. /\ Len(events) \in 1 .. Len(events) /\ outs \subseteq Tasks
    BY EmptySeq DEF TypeInv, TypeOK
  <2> QED BY <2>1, SendTyped, PackTyped, NoneAssumption
<1>2. /\ Has(t, f)' = Has(t, f)
      /\ \A k : Queued(t, f, k)' = Queued(t, f, k)
  BY DEF Has, Queued
<1>3. Taken(t, f)' = Taken(t, f)
  BY DEF Taken, Queued, Has, LinesOf
<1>4. Sent(t, f) = Taken(t, f)
  BY DEF Sent
<1>5. t \in outs => Sent(t, f)' =
                 Sent(t, f) \cup (IF g = f THEN {events[i].off : i \in 1 .. Len(events)}
                                  ELSE {})
  BY <1>1, <1>3, <1>4 DEF Sent, LinesOf
<1> QED BY <1>1, <1>2, <1>3, <1>5

Offs(events) == {events[i].off : i \in 1 .. Len(events)}

\* What the cache of a file becomes when the sender adds an event to it.
LEMMA BufferWith ==
    ASSUME TypeInv, NEW g \in Files, processor \in Event, processor.src = g,
           NEW b, b = Append(cache[g], processor)
    PROVE  /\ b \in Seq(Event) /\ b # <<>> /\ b[Len(b)] = processor
           /\ \A i \in 1 .. Len(b) : b[i].src = g
           /\ Offs(b) = Offs(cache[g]) \cup {processor.off}
<1>0. cache[g] \in Seq(Event) /\ g \in Files
  BY DEF TypeInv, TypeOK
<1>1. /\ b \in Seq(Event) /\ b # <<>> /\ Len(b) = Len(cache[g]) + 1 /\ Len(cache[g]) \in Nat
      /\ \A i \in 1 .. Len(cache[g]) : b[i] = cache[g][i]
      /\ b[Len(cache[g]) + 1] = processor
  BY <1>0, AppendProperties, LenProperties
<1>2. /\ \A i \in 1 .. Len(b) : b[i].src = g
      /\ {b[i].off : i \in 1 .. Len(b)}
            = {cache[g][i].off : i \in 1 .. Len(cache[g])} \cup {processor.off}
      /\ b[Len(b)] = processor
  <2>1. \A i : i \in 1 .. Len(b) <=> i \in 1 .. Len(cache[g]) \/ i = Len(cache[g]) + 1
    <3>1. Len(b) = Len(cache[g]) + 1 /\ Len(cache[g]) \in Nat
      BY <1>1
    <3> QED BY <3>1
  <2>2. \A i \in 1 .. Len(cache[g]) : cache[g][i].src = g
    BY <1>0 DEF TypeInv, Shape
  <2>3. \A i \in 1 .. Len(b) : b[i].src = g
    BY <1>1, <2>1, <2>2
  <2>4. b[Len(b)] = processor
    BY <1>1
  <2>5. ASSUME NEW x
        PROVE  (\E i \in 1 .. Len(b) : x = b[i].off)
               <=> (\E i \in 1 .. Len(cache[g]) : x = cache[g][i].off)
                   \/ x = processor.off
    BY <1>1, <2>1
  <2>6. {b[i].off : i \in 1 .. Len(b)}
            = {cache[g][i].off : i \in 1 .. Len(cache[g])} \cup {processor.off}
    <3> DEFINE all   == {b[i].off : i \in 1 .. Len(b)}
               older == {cache[g][i].off : i \in 1 .. Len(cache[g])}
    <3>1. ASSUME NEW x \in all PROVE x \in older \cup {processor.off}
      <4>1. \E i \in 1 .. Len(b) : x = b[i].off
        BY <3>1
      <4> QED BY <2>5, <4>1
    <3>2. ASSUME NEW x \in older \cup {processor.off} PROVE x \in all
      <4>1. (\E i \in 1 .. Len(cache[g]) : x = cache[g][i].off) \/ x = processor.off
        BY <3>2
      <4>2. \E i \in 1 .. Len(b) : x = b[i].off
        BY <2>5, <4>1, Zenon
      <4> QED BY <4>2
    <3> HIDE DEF all, older
    <3>3. all = older \cup {processor.off}
      BY <3>1, <3>2
    <3> QED BY <3>3 DEF all, older
  <2> QED BY <2>3, <2>4, <2>6
<1> QED BY <1>1, <1>2 DEF Offs

\* The steps of the sender, which move what it holds to the next place.
LEMMA Sends ==
    ASSUME TypeInv, NEW t \in Tasks, NEW f \in Files, NEW g \in Files,
           NEW events \in Seq(Event), events # <<>>,
           \A i \in 1 .. Len(events) : events[i].src = g,
           g = f /\ t \in outs =>
               UpTo(f, events[Len(events)].off)
               \subseteq Had(f) \cup Sent(t, f) \cup {events[i].off : i \in 1 .. Len(events)},
           BehindDelivery(t, f), sending = None, sending' = Send(events),
           UNCHANGED <<out, delivered, queue, sent>>
    PROVE  /\ BehindDelivery(t, f)' /\ Had(f)' = Had(f)
           /\ t \in outs => Sent(t, f)' =
                 Sent(t, f) \cup (IF g = f THEN {events[i].off : i \in 1 .. Len(events)}
                                  ELSE {})
<1>1. /\ sending' # None /\ sending'.left = outs /\ sending'.package = Pack(events)
      /\ Pack(events) # None /\ Pack(events).src = g
      /\ Pack(events).off = events[Len(events)].off
      /\ Has(t, f)' = Has(t, f)
      /\ \A k : Queued(t, f, k)' = Queued(t, f, k)
      /\ Taken(t, f)' = Taken(t, f)
      /\ t \in outs => Sent(t, f)' =
            Sent(t, f) \cup (IF g = f THEN {events[i].off : i \in 1 .. Len(events)}
                             ELSE {})
  BY PackageSent
<1>2. Had(f)' = Had(f)
  BY DEF Had
<1>3. /\ Queued(t, f, sent)' \subseteq Has(t, f)'
      /\ \A k \in 1 .. Len(queue') :
            queue'[k].task = t /\ queue'[k].src = f =>
                UpTo(f, queue'[k].off) \subseteq Had(f)' \cup Queued(t, f, k)'
      /\ CarriesUpTo(out[t], f, Taken(t, f))'
  <2>1. Queued(t, f, sent)' = Queued(t, f, sent)
    BY DEF Queued, Has
  <2> QED BY <1>1, <1>2, <2>1 DEF BehindDelivery, CarriesUpTo
<1>4. t \in sending'.left => CarriesUpTo(sending.package, f, Sent(t, f))'
  BY <1>1, <1>2 DEF CarriesUpTo
<1> QED BY <1>1, <1>2, <1>3, <1>4 DEF BehindDelivery

LEMMA OrderStepRegistry ==
    ASSUME TypeInv, NEW t \in Tasks, NEW f \in Files,
           MarksBehind(f), BehindDelivery(t, f), ChainBehind(t, f),
           Run \/ Crash \/ OnEvents \/ Flush \/ Sync \/ Reload
           \/ (\E u \in Tasks : RemoveOutput(u)) \/ CloseChain \/ TaskEnds \/ StartTasks
    PROVE  (BehindDelivery(t, f) /\ ChainBehind(t, f))'
<1>t. /\ staged \in [Files -> Offsets \cup {None}]
      /\ lastStates \in [Files -> Offsets \cup {None}]
  BY DEF TypeInv, TypeOK
<1>1. CASE Run
  <2>1. /\ read' = From(staged)
        /\ UNCHANGED <<out, chainVars, delivered, queue, sent>>
    BY <1>1 DEF Run, Store!Start, pipeVars
  <2>2. ChainEmpty
    BY <1>1 DEF Run, TypeInv, Shape
  <2>3. staged[f] # None => staged[f] \in Marks(f)
    BY DEF Marks
  <2> QED BY <1>t, <2>1, <2>2, <2>3, BehindSame, ChainStarts DEF chainVars
<1>2. CASE Crash
  <2>1. /\ queue' = <<>> /\ sent' = 0
        /\ out'[t] = None /\ sending' = None /\ outs' = {} /\ UNCHANGED delivered
    BY <1>2 DEF Crash, EmptyChain
  <2>2. Has(t, f)' = Has(t, f) /\ Queued(t, f, sent)' \subseteq Has(t, f)'
    BY <2>1 DEF Has, Queued
  <2>3. CarriesUpTo(out[t], f, Taken(t, f))'
    BY <2>1 DEF CarriesUpTo
  <2> QED BY <2>1, <2>2, <2>3 DEF BehindDelivery, ChainBehind
<1>3. CASE StartTasks
  <2>1. /\ read' = From(lastStates)
        /\ UNCHANGED <<out, chainVars, delivered, queue, sent>>
    BY <1>3 DEF StartTasks, pipeVars
  <2>2. ChainEmpty
    BY <1>3 DEF StartTasks, TypeInv, Shape
  <2>3. lastStates[f] # None => lastStates[f] \in Marks(f)
    BY DEF Marks
  <2> QED BY <1>t, <2>1, <2>2, <2>3, BehindSame, ChainStarts DEF chainVars
\* The other steps only move marks, or take the task away.
<1>4. CASE OnEvents \/ Flush \/ Sync \/ Reload \/ TaskEnds
           \/ \E u \in Tasks : RemoveOutput(u)
  <2>1. /\ outs' \subseteq outs
        /\ UNCHANGED <<read, chainVars, out, queue, sent, delivered>>
    BY <1>4 DEF OnEvents, Flush, Sync, Reload, TaskEnds, RemoveOutput, pipeVars, managerVars
  <2> QED BY <2>1, BehindSame, ChainKept DEF chainVars
<1>5. CASE CloseChain
  <2>1. /\ outs' = {} /\ sending' = None
        /\ UNCHANGED <<out, delivered, queue, sent>>
    BY <1>5 DEF CloseChain, EmptyChain, pipeVars
  <2>2. Has(t, f)' = Has(t, f) /\ Had(f)' = Had(f) /\ Taken(t, f)' = Taken(t, f)
    BY <2>1 DEF Has, Had, Taken, Queued, LinesOf
  <2>3. /\ \A k : Queued(t, f, k)' = Queued(t, f, k)
        /\ Queued(t, f, sent)' = Queued(t, f, sent)
    BY <2>1 DEF Has, Queued
  <2> QED BY <2>1, <2>2, <2>3 DEF BehindDelivery, ChainBehind, CarriesUpTo
<1> QED BY <1>1, <1>2, <1>3, <1>4, <1>5

\* An entry at the end of the queue.
LEMMA QueuedAppend ==
    ASSUME TypeInv, NEW t \in Tasks, NEW f \in Files, NEW e \in Entry,
           queue' = Append(queue, e), UNCHANGED delivered
    PROVE  /\ Len(queue') = Len(queue) + 1 /\ queue'[Len(queue) + 1] = e
           /\ \A k \in 1 .. Len(queue) : queue'[k] = queue[k]
           /\ Has(t, f)' = Has(t, f)
           /\ \A k \in 0 .. Len(queue) : Queued(t, f, k)' = Queued(t, f, k)
           /\ Queued(t, f, Len(queue))' =
                 Queued(t, f, Len(queue))
                 \cup (IF e.task = t /\ e.src = f THEN e.lines ELSE {})
<1>1. queue \in Seq(Entry) /\ Len(queue) \in Nat
  BY LenProperties DEF TypeInv, TypeOK, Entry
<1>2. /\ Len(queue') = Len(queue) + 1 /\ queue'[Len(queue) + 1] = e
      /\ \A k \in 1 .. Len(queue) : queue'[k] = queue[k]
  BY <1>1, AppendProperties
<1>3. Has(t, f)' = Has(t, f)
  BY DEF Has
<1>4. \A k \in 0 .. Len(queue) : Queued(t, f, k)' = Queued(t, f, k)
  <2> TAKE k \in 0 .. Len(queue)
  <2>1. \A i \in 1 .. k : queue'[i] = queue[i]
    BY <1>1, <1>2
  <2> QED BY <1>3, <2>1 DEF Queued
<1>5. Queued(t, f, Len(queue))' =
                 Queued(t, f, Len(queue))
                 \cup (IF e.task = t /\ e.src = f THEN e.lines ELSE {})
  <2>1. \A i : i \in 1 .. Len(queue') <=> i \in 1 .. Len(queue) \/ i = Len(queue) + 1
    BY <1>1, <1>2
  <2>2. e.lines \subseteq Lines
    BY DEF Entry
  <2>3. ASSUME NEW l \in Lines
        PROVE  (\E i \in 1 .. Len(queue') : queue'[i].task = t /\ queue'[i].src = f
                                            /\ l \in queue'[i].lines)
               <=> \/ \E i \in 1 .. Len(queue) : queue[i].task = t /\ queue[i].src = f
                                                 /\ l \in queue[i].lines
                   \/ e.task = t /\ e.src = f /\ l \in e.lines
    BY <1>2, <2>1
  <2> QED BY <1>3, <2>2, <2>3 DEF Queued
<1> QED BY <1>2, <1>3, <1>4, <1>5

\* The oldest entry that has not been delivered is.
LEMMA QueuePublished ==
    ASSUME TypeInv, NEW t \in Tasks, NEW f \in Files,
           Queued(t, f, sent) \subseteq Has(t, f), Publish
    PROVE  /\ Has(t, f) \subseteq Has(t, f)'
           /\ \A k : Queued(t, f, k) \subseteq Queued(t, f, k)'
           /\ Queued(t, f, sent)' \subseteq Has(t, f)'
           /\ Queued(t, f, Len(queue)) \subseteq Queued(t, f, Len(queue))'
<1>t. /\ queue \in Seq(Entry) /\ Len(queue) \in Nat /\ sent \in Nat /\ sent <= Len(queue)
      /\ \A k \in 1 .. Len(queue) : queue[k] \in Entry
  <2>1. queue \in Seq(Entry) /\ sent \in 0 .. Len(queue)
    BY DEF TypeInv, TypeOK, Entry
  <2> QED BY <2>1, LenProperties, ElementOfSeq
<1>1. /\ sent + 1 \in 1 .. Len(queue) /\ sent' = sent + 1 /\ queue[sent + 1] \in Entry
      /\ delivered'[t] = (IF t = queue[sent + 1].task
                          THEN delivered[t] \cup ({queue[sent + 1].src} \X queue[sent + 1].lines)
                          ELSE delivered[t])
      /\ queue' = queue
  BY <1>t DEF Publish
<1>2. /\ Has(t, f) \subseteq Has(t, f)'
      /\ t = queue[sent + 1].task /\ queue[sent + 1].src = f
            => queue[sent + 1].lines \subseteq Has(t, f)'
  BY <1>1 DEF Has, Entry
<1>3. \A k : Queued(t, f, k) \subseteq Queued(t, f, k)'
  BY <1>1, <1>2 DEF Queued
<1>4. Queued(t, f, sent)' \subseteq Has(t, f)'
  <2> SUFFICES ASSUME NEW l \in Lines, NEW i \in 1 .. sent + 1,
                      queue[i].task = t, queue[i].src = f, l \in queue[i].lines
               PROVE  l \in Has(t, f)'
    BY <1>1 DEF Queued
  <2>1. CASE i = sent + 1
    BY <1>2, <2>1
  <2>2. CASE i \in 1 .. sent
    BY <1>2, <2>2 DEF Queued
  <2> QED BY <1>t, <2>1, <2>2
<1>5. Queued(t, f, Len(queue)) \subseteq Queued(t, f, Len(queue))'
  BY <1>1, <1>2 DEF Queued
<1> QED BY <1>2, <1>3, <1>4, <1>5

\* The oldest entries leave the queue; their lines have been delivered.
LEMMA QueueAcked ==
    ASSUME TypeInv, NEW t \in Tasks, NEW f \in Files, NEW n \in 1 .. QueueSize,
           Queued(t, f, sent) \subseteq Has(t, f), AckEvents(n)
    PROVE  /\ n \in Nat /\ n >= 1 /\ n <= sent /\ sent <= Len(queue)
           /\ Len(queue') = Len(queue) - n
           /\ \A k \in 1 .. Len(queue) - n : queue'[k] = queue[n + k]
           /\ Has(t, f)' = Has(t, f)
           /\ \A k \in 0 .. Len(queue) - n : Queued(t, f, n + k) \subseteq Queued(t, f, k)'
           /\ Queued(t, f, sent)' \subseteq Has(t, f)'
           /\ Queued(t, f, Len(queue)) \subseteq Queued(t, f, Len(queue))'
<1> USE DeliveryAssumption
<1>t. queue \in Seq(Entry) /\ Len(queue) \in Nat /\ sent \in Nat /\ sent <= Len(queue)
  <2>1. queue \in Seq(Entry) /\ sent \in 0 .. Len(queue)
    BY DEF TypeInv, TypeOK, Entry
  <2> QED BY <2>1, LenProperties
<1>1. /\ n \in Nat /\ n >= 1 /\ n <= sent /\ sent' = sent - n
      /\ channel' = [i \in 1 .. n |-> [src |-> queue[i].src, off |-> queue[i].off]]
      /\ queue' = SubSeq(queue, n + 1, Len(queue))
      /\ UNCHANGED <<outs, cache, processor, filter, input, read, delivered, sending,
                     out, live, staged, saved, lastStates>>
  BY DEF AckEvents, managerVars, chainVars, registryVars
<1>n. n \in Nat /\ n >= 1 /\ n <= sent /\ sent \in Nat /\ Len(queue) \in Nat /\ sent <= Len(queue)
  BY <1>t, <1>1
<1>2. /\ Len(queue') = Len(queue) - n
      /\ \A k \in 1 .. Len(queue) - n : queue'[k] = queue[n + k]
  <2>1. queue' = SubSeq(queue, n + 1, Len(queue)) /\ n <= Len(queue) /\ queue \in Seq(Entry)
    BY <1>t, <1>1, <1>n
  <2> QED BY <1>n, <2>1, QueueDropped
<1>3. Has(t, f)' = Has(t, f)
  BY <1>1 DEF Has
<1>4. \A k \in 0 .. Len(queue) - n :
         Queued(t, f, n + k) \subseteq Queued(t, f, k)'
         /\ Queued(t, f, k)' \subseteq Queued(t, f, n + k)
  <2> TAKE k \in 0 .. Len(queue) - n
  <2>1. ASSUME NEW l \in Lines, NEW i \in 1 .. n + k, queue[i].task = t,
               queue[i].src = f, l \in queue[i].lines
        PROVE  l \in Queued(t, f, k)'
    <3>1. CASE i <= n
      <4>1. i \in 1 .. sent
        BY <1>t, <1>1, <3>1
      <4>2. l \in Has(t, f)
        BY <2>1, <4>1 DEF Queued
      <4> QED BY <1>3, <4>2 DEF Queued
    <3>2. CASE i > n
      <4>1. i - n \in 1 .. k /\ i - n \in 1 .. Len(queue) - n /\ n + (i - n) = i
        BY <1>n, <3>2
      <4>2. queue'[i - n] = queue[i]
        BY <1>2, <4>1
      <4> QED BY <2>1, <4>1, <4>2 DEF Queued
    <3> QED BY <1>t, <1>1, <3>1, <3>2
  <2>2. ASSUME NEW l \in Lines, NEW i \in 1 .. k, queue'[i].task = t,
               queue'[i].src = f, l \in queue'[i].lines
        PROVE  l \in Queued(t, f, n + k)
    <3>1. n + i \in 1 .. n + k /\ i \in 1 .. Len(queue) - n
      BY <1>n
    <3>2. queue'[i] = queue[n + i]
      BY <1>2, <3>1
    <3> QED BY <2>2, <3>1, <3>2 DEF Queued
  <2>3. Has(t, f)' \subseteq Queued(t, f, k)' /\ Has(t, f) \subseteq Queued(t, f, n + k)
    BY DEF Queued
  <2> QED BY <1>3, <2>1, <2>2, <2>3 DEF Queued
<1>5. Queued(t, f, sent)' \subseteq Has(t, f)'
  <2>1. PICK k : k = sent'
    OBVIOUS
  <2>2. k \in 0 .. Len(queue) - n /\ n + k = sent
    <3>1. k = sent - n
      BY <1>1, <2>1
    <3> QED BY <1>n, <3>1
  <2>3. Queued(t, f, sent)' \subseteq Queued(t, f, sent)
    <3>1. Queued(t, f, k)' \subseteq Queued(t, f, n + k)
      BY <1>4, <2>2
    <3> QED BY <2>1, <2>2, <3>1 DEF Queued
  <2> QED BY <1>3, <2>3
<1>6. Queued(t, f, Len(queue)) \subseteq Queued(t, f, Len(queue))'
  <2>1. PICK k : k = Len(queue')
    OBVIOUS
  <2>2. k \in 0 .. Len(queue) - n /\ n + k = Len(queue)
    <3>1. k = Len(queue) - n
      BY <1>2, <2>1
    <3> QED BY <1>n, <3>1
  <2>3. Queued(t, f, n + k) \subseteq Queued(t, f, k)'
    BY <1>4, <2>2
  <2> QED BY <2>1, <2>2, <2>3 DEF Queued
<1> QED BY <1>n, <1>2, <1>3, <1>4, <1>5, <1>6

\* A step behind the sender may be for this task or for another one.
LEMMA OrderStepPublisher ==
    ASSUME TypeInv, NEW t \in Tasks, NEW f \in Files,
           BehindDelivery(t, f), ChainBehind(t, f),
           \/ \E u \in Tasks : SendToTask(u) \/ SendEvent(u)
           \/ SendReturns \/ Publish
           \/ \E n \in 1 .. QueueSize : AckEvents(n)
           \/ \E g \in Files : OnStateEvent(g)
    PROVE  (BehindDelivery(t, f) /\ ChainBehind(t, f))'
<1> USE DeliveryAssumption, NoneAssumption
<1>t. /\ queue \in Seq(Entry) /\ Len(queue) \in Nat /\ sent \in Nat /\ sent <= Len(queue)
      /\ sending # None => sending \in [package : Package, left : SUBSET Tasks]
      /\ out \in [Tasks -> Package \cup {None}]
  <2>1. queue \in Seq(Entry) /\ sent \in 0 .. Len(queue)
    BY DEF TypeInv, TypeOK, Entry
  <2> QED BY <2>1, LenProperties DEF TypeInv, TypeOK
<1>q. Queued(t, f, sent) \subseteq Has(t, f)
  BY DEF BehindDelivery
\* An entry that joins the queue.
<1>a. ASSUME NEW e \in Entry, queue' = Append(queue, e), UNCHANGED <<delivered, sent>>,
             e.task = t /\ e.src = f => UpTo(f, e.off) \subseteq Had(f) \cup Taken(t, f),
             e.task = t /\ e.src = f => e.lines = LinesOf(out[t], f)
      PROVE  /\ Has(t, f)' = Has(t, f) /\ Had(f)' = Had(f)
             /\ Queued(t, f, sent)' \subseteq Has(t, f)'
             /\ Queued(t, f, Len(queue))' =
                   Queued(t, f, Len(queue))
                   \cup (IF e.task = t /\ e.src = f THEN e.lines ELSE {})
             /\ \A k \in 1 .. Len(queue') :
                   queue'[k].task = t /\ queue'[k].src = f =>
                       UpTo(f, queue'[k].off) \subseteq Had(f)' \cup Queued(t, f, k)'
  <2>1. /\ Len(queue') = Len(queue) + 1 /\ queue'[Len(queue) + 1] = e
        /\ \A k \in 1 .. Len(queue) : queue'[k] = queue[k]
        /\ Has(t, f)' = Has(t, f)
        /\ \A k \in 0 .. Len(queue) : Queued(t, f, k)' = Queued(t, f, k)
        /\ Queued(t, f, Len(queue))' =
              Queued(t, f, Len(queue))
              \cup (IF e.task = t /\ e.src = f THEN e.lines ELSE {})
    BY <1>a, QueuedAppend
  <2>2. Had(f)' = Had(f)
    BY <1>a DEF Had
  <2>3. Queued(t, f, sent)' \subseteq Has(t, f)'
    <3>1. Queued(t, f, sent)' = Queued(t, f, sent)
      BY <1>t, <1>a, <2>1 DEF Queued
    <3> QED BY <1>q, <2>1, <3>1
  <2>4. \A k \in 1 .. Len(queue') :
           queue'[k].task = t /\ queue'[k].src = f =>
               UpTo(f, queue'[k].off) \subseteq Had(f)' \cup Queued(t, f, k)'
    <3> TAKE k \in 1 .. Len(queue')
    <3>1. CASE k = Len(queue')
      <4>1. Queued(t, f, k)' = Queued(t, f, Len(queue))'
        BY <3>1 DEF Queued
      <4>2. e.task = t /\ e.src = f => Queued(t, f, k)' = Taken(t, f)
        BY <1>a, <2>1, <4>1 DEF Taken
      <4> QED BY <1>a, <2>1, <2>2, <3>1, <4>2
    <3>2. CASE k \in 1 .. Len(queue)
      BY <2>1, <2>2, <3>2 DEF BehindDelivery
    <3> QED BY <1>t, <2>1, <3>1, <3>2
  <2> QED BY <2>1, <2>2, <2>3, <2>4
<1>1. ASSUME NEW u \in Tasks, SendToTask(u) PROVE (BehindDelivery(t, f) /\ ChainBehind(t, f))'
  <2>1. /\ sending # None /\ u \in sending.left /\ out[u] = None
        /\ sending' # None /\ sending'.left = sending.left \ {u}
        /\ sending'.package = sending.package
        /\ out'[u] = sending.package /\ \A v \in Tasks \ {u} : out'[v] = out[v]
        /\ UNCHANGED <<outs, cache, processor, filter, input, read, delivered, queue, sent>>
    BY <1>1, <1>t, OneLess DEF SendToTask, managerVars, pipeVars
  <2>2. /\ \A k : Queued(t, f, k)' = Queued(t, f, k)
        /\ Queued(t, f, sent)' = Queued(t, f, sent)
        /\ Queued(t, f, Len(queue))' = Queued(t, f, Len(queue))
        /\ Has(t, f)' = Has(t, f) /\ Had(f)' = Had(f)
    BY <2>1 DEF Queued, Has, Had
  <2>3. Sent(t, f)' = Sent(t, f)
    BY <2>1, <2>2 DEF Sent, Taken, LinesOf
  <2>4. CarriesUpTo(out[t], f, Taken(t, f))'
    <3>1. CASE t = u
      <4>1. Taken(t, f)' = Sent(t, f)
        BY <2>1, <2>2, <3>1 DEF Sent, Taken, LinesOf
      <4> QED BY <2>1, <2>2, <3>1, <4>1 DEF BehindDelivery, CarriesUpTo
    <3>2. CASE t # u
      <4>1. Taken(t, f)' = Taken(t, f) /\ out'[t] = out[t]
        BY <2>1, <2>2, <3>2 DEF Taken, LinesOf
      <4> QED BY <2>2, <4>1 DEF BehindDelivery, CarriesUpTo
    <3> QED BY <3>1, <3>2
  <2>5. sending' # None /\ t \in sending'.left => CarriesUpTo(sending.package, f, Sent(t, f))'
    BY <2>1, <2>2, <2>3 DEF BehindDelivery, CarriesUpTo
  <2>6. BehindDelivery(t, f)'
    BY <2>1, <2>2, <2>4, <2>5 DEF BehindDelivery
  <2> QED BY <2>1, <2>2, <2>3, <2>6, ChainKept
<1>2. ASSUME NEW u \in Tasks, SendEvent(u) PROVE (BehindDelivery(t, f) /\ ChainBehind(t, f))'
  <2> DEFINE e == [task |-> u, lines |-> out[u].lines, src |-> out[u].src,
                   off |-> out[u].off]
  <2>1. /\ out[u] # None /\ queue' = Append(queue, e) /\ out'[u] = None
        /\ \A v \in Tasks \ {u} : out'[v] = out[v]
        /\ UNCHANGED <<outs, cache, processor, filter, input, read, delivered, sent, sending>>
    BY <1>2, <1>t DEF SendEvent, managerVars, chainVars
  <2>2. e \in Entry
    BY <1>t, <2>1 DEF Entry, Package
  <2>3. e.task = u /\ e.src = out[u].src /\ e.off = out[u].off /\ e.lines = out[u].lines
    OBVIOUS
  <2> HIDE DEF e
  <2>4. e.task = t /\ e.src = f => /\ UpTo(f, e.off) \subseteq Had(f) \cup Taken(t, f)
                                   /\ e.lines = LinesOf(out[t], f)
    BY <2>1, <2>3 DEF BehindDelivery, CarriesUpTo, LinesOf
  <2>5. /\ Has(t, f)' = Has(t, f) /\ Had(f)' = Had(f)
        /\ Queued(t, f, sent)' \subseteq Has(t, f)'
        /\ Queued(t, f, Len(queue))' =
              Queued(t, f, Len(queue))
              \cup (IF e.task = t /\ e.src = f THEN e.lines ELSE {})
        /\ \A k \in 1 .. Len(queue') :
              queue'[k].task = t /\ queue'[k].src = f =>
                  UpTo(f, queue'[k].off) \subseteq Had(f)' \cup Queued(t, f, k)'
    BY <1>a, <2>1, <2>2, <2>4
  <2>6. Taken(t, f)' = Taken(t, f)
    <3>1. CASE t = u
      BY <2>1, <2>3, <2>5, <3>1 DEF Taken, LinesOf
    <3>2. CASE t # u
      BY <2>1, <2>3, <2>5, <3>2 DEF Taken, LinesOf
    <3> QED BY <3>1, <3>2
  <2>7. Sent(t, f)' = Sent(t, f)
    BY <2>1, <2>6 DEF Sent
  <2>8. /\ CarriesUpTo(out[t], f, Taken(t, f))'
        /\ sending' # None /\ t \in sending'.left
              => CarriesUpTo(sending.package, f, Sent(t, f))'
    <3>1. out'[t] \in {out[t], None}
      BY <2>1
    <3> QED BY <2>1, <2>5, <2>6, <2>7, <3>1 DEF BehindDelivery, CarriesUpTo
  <2>9. BehindDelivery(t, f)'
    BY <2>5, <2>8 DEF BehindDelivery
  <2> QED BY <2>1, <2>5, <2>7, <2>9, ChainKept
<1>3. CASE SendReturns
  <2>1. /\ sending # None /\ sending.left = {} /\ sending' = None
        /\ UNCHANGED <<outs, cache, processor, filter, input, read, delivered, queue, sent,
                       out>>
    BY <1>3 DEF SendReturns, managerVars, pipeVars
  <2>2. /\ \A k : Queued(t, f, k)' = Queued(t, f, k)
        /\ Queued(t, f, sent)' = Queued(t, f, sent)
        /\ Has(t, f)' = Has(t, f) /\ Had(f)' = Had(f) /\ Taken(t, f)' = Taken(t, f)
    BY <2>1 DEF Queued, Has, Had, Taken, LinesOf
  <2>3. Sent(t, f)' = Sent(t, f)
    BY <2>1, <2>2 DEF Sent
  <2>4. BehindDelivery(t, f)'
    BY <2>1, <2>2 DEF BehindDelivery, CarriesUpTo
  <2> QED BY <2>1, <2>2, <2>3, <2>4, ChainKept
<1>4. CASE Publish
  <2>1. UNCHANGED <<outs, cache, processor, filter, input, read, queue, sending, out>>
    BY <1>4 DEF Publish, managerVars, chainVars
  <2>2. /\ \A k : Queued(t, f, k) \subseteq Queued(t, f, k)'
        /\ Queued(t, f, sent)' \subseteq Has(t, f)'
        /\ Queued(t, f, Len(queue)) \subseteq Queued(t, f, Len(queue))'
    BY <1>4, <1>q, QueuePublished
  <2>3. Had(f) \subseteq Had(f)'
    BY <1>4 DEF Publish, Had
  <2>4. \A k \in 1 .. Len(queue') :
           queue'[k].task = t /\ queue'[k].src = f =>
               UpTo(f, queue'[k].off) \subseteq Had(f)' \cup Queued(t, f, k)'
    BY <2>1, <2>2, <2>3 DEF BehindDelivery
  <2>5. BehindDelivery(t, f)' /\ Sent(t, f) \subseteq Sent(t, f)'
    BY <2>1, <2>2, <2>3, <2>4, BehindKept
  <2> QED BY <2>1, <2>3, <2>5, ChainKept
<1>5. ASSUME NEW n \in 1 .. QueueSize, AckEvents(n)
      PROVE  (BehindDelivery(t, f) /\ ChainBehind(t, f))'
  <2>1. UNCHANGED <<outs, cache, processor, filter, input, read, delivered, sending, out>>
    BY <1>5 DEF AckEvents, managerVars, chainVars
  <2>2. /\ n \in Nat /\ n >= 1 /\ n <= sent /\ sent <= Len(queue)
        /\ Len(queue') = Len(queue) - n
        /\ \A k \in 1 .. Len(queue) - n : queue'[k] = queue[n + k]
        /\ \A k \in 0 .. Len(queue) - n : Queued(t, f, n + k) \subseteq Queued(t, f, k)'
        /\ Queued(t, f, sent)' \subseteq Has(t, f)'
        /\ Queued(t, f, Len(queue)) \subseteq Queued(t, f, Len(queue))'
    BY <1>5, <1>q, QueueAcked
  <2>3. Had(f)' = Had(f)
    BY <2>1 DEF Had
  <2>4. \A k \in 1 .. Len(queue') :
           queue'[k].task = t /\ queue'[k].src = f =>
               UpTo(f, queue'[k].off) \subseteq Had(f)' \cup Queued(t, f, k)'
    <3> TAKE k \in 1 .. Len(queue')
    <3>1. Len(queue') = Len(queue) - n
      BY <2>2
    <3>2. /\ k \in 1 .. Len(queue) - n /\ k \in 0 .. Len(queue) - n
          /\ n + k \in 1 .. Len(queue)
      BY <1>t, <2>2, <3>1
    <3> QED BY <2>2, <2>3, <3>2 DEF BehindDelivery
  <2>5. BehindDelivery(t, f)' /\ Sent(t, f) \subseteq Sent(t, f)'
    BY <2>1, <2>2, <2>3, <2>4, BehindKept
  <2> QED BY <2>1, <2>3, <2>5, ChainKept
<1>6. ASSUME NEW g \in Files, OnStateEvent(g)
      PROVE  (BehindDelivery(t, f) /\ ChainBehind(t, f))'
  <2> DEFINE e == [task |-> None, lines |-> {}, src |-> g, off |-> read[g] + 1]
  <2>1. /\ read[g] \in Nat /\ read[g] < MaxLine /\ <<g, read[g] + 1>> \in Excluded
        /\ queue' = Append(queue, e) /\ read' = [read EXCEPT ![g] = @ + 1]
        /\ read \in [Files -> Offsets]
        /\ UNCHANGED <<outs, cache, processor, filter, input, delivered, sending, sent, out>>
    BY <1>6 DEF OnStateEvent, TypeInv, TypeOK, Offsets, managerVars, chainVars
  <2>2. e \in Entry /\ e.task # t
    BY <2>1 DEF Entry, Lines
  <2> HIDE DEF e
  <2>3. /\ Had(f)' = Had(f)
        /\ Queued(t, f, sent)' \subseteq Has(t, f)'
        /\ Queued(t, f, Len(queue))' =
              Queued(t, f, Len(queue))
              \cup (IF e.task = t /\ e.src = f THEN e.lines ELSE {})
        /\ \A k \in 1 .. Len(queue') :
              queue'[k].task = t /\ queue'[k].src = f =>
                  UpTo(f, queue'[k].off) \subseteq Had(f)' \cup Queued(t, f, k)'
    <3>1. queue' = Append(queue, e) /\ UNCHANGED <<delivered, sent>>
      BY <2>1
    <3>2. e.task = t /\ e.src = f => /\ UpTo(f, e.off) \subseteq Had(f) \cup Taken(t, f)
                                     /\ e.lines = LinesOf(out[t], f)
      BY <2>2
    <3>3. PICK x \in Entry : x = e
      BY ONLY <2>2
    <3>4. /\ queue' = Append(queue, x) /\ UNCHANGED <<delivered, sent>>
          /\ x.task = t /\ x.src = f => /\ UpTo(f, x.off) \subseteq Had(f) \cup Taken(t, f)
                                        /\ x.lines = LinesOf(out[t], f)
      BY ONLY <3>1, <3>2, <3>3
    <3> QED BY ONLY <1>a, <3>3, <3>4
  <2>4. Queued(t, f, Len(queue)) \subseteq Queued(t, f, Len(queue))'
    BY <2>3
  <2>5. BehindDelivery(t, f)' /\ Sent(t, f) \subseteq Sent(t, f)'
    BY <2>1, <2>3, <2>4, BehindKept
  \* The line that is skipped is not wanted.
  <2>6. UpTo(f, read'[f]) \subseteq UpTo(f, read[f])
    <3>1. CASE f = g
      <4>1. read'[f] = read[f] + 1
        BY <2>1, <3>1
      <4> QED BY <2>1, <3>1, <4>1, UpToSkipped
    <3>2. CASE f # g
      BY <2>1, <3>2
    <3> QED BY <3>1, <3>2
  <2>7. /\ Cached(t, f) \subseteq Cached(t, f)'
        /\ Processed(t, f) \subseteq Processed(t, f)'
        /\ Filtered(t, f) \subseteq Filtered(t, f)'
        /\ Received(t, f) \subseteq Received(t, f)'
    BY <2>1, <2>5 DEF Cached, Processed, Filtered, Received, LineOf
  <2> QED BY <2>1, <2>3, <2>5, <2>6, <2>7 DEF ChainBehind, CarriesUpTo
<1> QED BY <1>1, <1>2, <1>3, <1>4, <1>5, <1>6

LEMMA OrderStepChain ==
    ASSUME TypeInv, NEW t \in Tasks, NEW f \in Files,
           BehindDelivery(t, f), ChainBehind(t, f),
           \/ \E g \in Files : OnEvent(g) \/ SenderFlush(g)
           \/ InputToFilter \/ FilterDrops \/ FilterToProcessor \/ CacheSend \/ SenderTick
    PROVE  (BehindDelivery(t, f) /\ ChainBehind(t, f))'
<1> USE DeliveryAssumption, NoneAssumption
<1>t. /\ input # None => input \in Event
      /\ filter # None => filter \in Event
      /\ processor # None => processor \in Event
      /\ cache \in [Files -> Seq(Event)] /\ cache[f] \in Seq(Event)
  BY DEF TypeInv, TypeOK
\* Steps that do not reach the caches.
<1>1. ASSUME UNCHANGED <<cache, sending, out, delivered, queue, sent>>
      PROVE  BehindDelivery(t, f)' /\ Cached(t, f)' = Cached(t, f) /\ Had(f)' = Had(f)
  <2>1. BehindDelivery(t, f)' /\ Sent(t, f)' = Sent(t, f) /\ Had(f)' = Had(f)
    BY <1>1, BehindSame
  <2> QED BY <1>1, <2>1 DEF Cached
<1>2. ASSUME NEW g \in Files, OnEvent(g) PROVE (BehindDelivery(t, f) /\ ChainBehind(t, f))'
  <2>1. /\ read[g] \in Nat /\ read \in [Files -> Offsets]
        /\ read' = [read EXCEPT ![g] = @ + 1]
        /\ input = None /\ input' = [src |-> g, off |-> read[g] + 1] /\ input' # None
        /\ UNCHANGED <<outs, filter, processor>>
        /\ UNCHANGED <<cache, sending, out, delivered, queue, sent>>
    <3>1. /\ read[g] \in Nat /\ read[g] < MaxLine /\ read \in [Files -> Offsets]
          /\ input' = [src |-> g, off |-> read[g] + 1]
      BY <1>2 DEF OnEvent, TypeInv, TypeOK, Offsets
    <3>2. input' \in Event
      BY <3>1 DEF Event, Lines
    <3> QED BY <1>2, <3>1, <3>2 DEF OnEvent, InputReady, managerVars, pipeVars
  <2>2. BehindDelivery(t, f)' /\ Cached(t, f)' = Cached(t, f) /\ Had(f)' = Had(f)
    BY <1>1, <2>1
  <2>3. /\ Processed(t, f)' = Processed(t, f) /\ Filtered(t, f)' = Filtered(t, f)
        /\ Received(t, f) = Filtered(t, f)
    BY <2>1, <2>2 DEF Processed, Filtered, Received, LineOf
  <2>4. Received(t, f)' = Received(t, f) \cup (IF g = f THEN {read[g] + 1} ELSE {})
    BY <2>1, <2>3 DEF Received, LineOf
  <2>5. g = f => UpTo(f, read[f] + 1) \subseteq UpTo(f, read[f]) \cup {read[f] + 1}
    BY <2>1, UpToNext
  <2>6. t \in outs => UpTo(f, read'[f]) \subseteq Had(f)' \cup Received(t, f)'
    <3>1. CASE g = f
      BY <2>1, <2>2, <2>4, <2>5, <3>1 DEF ChainBehind
    <3>2. CASE g # f
      BY <2>1, <2>2, <2>4, <3>2 DEF ChainBehind
    <3> QED BY <3>1, <3>2
  <2>7. t \in outs => CarriesUpTo(input, f, Received(t, f))'
    BY <2>1, <2>6 DEF CarriesUpTo
  <2> QED BY <2>1, <2>2, <2>3, <2>6, <2>7 DEF ChainBehind, CarriesUpTo
<1>3. CASE InputToFilter
  <2>1. /\ filter = None /\ filter' = input /\ input' = None
        /\ UNCHANGED <<outs, processor, read>>
        /\ UNCHANGED <<cache, sending, out, delivered, queue, sent>>
    BY <1>3 DEF InputToFilter, managerVars, pipeVars
  <2>2. BehindDelivery(t, f)' /\ Cached(t, f)' = Cached(t, f) /\ Had(f)' = Had(f)
    BY <1>1, <2>1
  <2>3. /\ Processed(t, f)' = Processed(t, f) /\ Filtered(t, f)' = Received(t, f)
        /\ Received(t, f)' = Received(t, f)
    BY <2>1, <2>2 DEF Processed, Filtered, Received, LineOf
  <2> QED BY <2>1, <2>2, <2>3 DEF ChainBehind, CarriesUpTo
<1>4. CASE FilterToProcessor
  <2>1. /\ processor = None /\ processor' = filter /\ filter' = None
        /\ UNCHANGED <<outs, input, read>>
        /\ UNCHANGED <<cache, sending, out, delivered, queue, sent>>
    BY <1>4 DEF FilterToProcessor, managerVars, pipeVars
  <2>2. BehindDelivery(t, f)' /\ Cached(t, f)' = Cached(t, f) /\ Had(f)' = Had(f)
    BY <1>1, <2>1
  <2>3. /\ Processed(t, f)' = Filtered(t, f) /\ Filtered(t, f)' = Filtered(t, f)
        /\ Received(t, f)' = Received(t, f)
    BY <2>1, <2>2 DEF Processed, Filtered, Received, LineOf
  <2> QED BY <2>1, <2>2, <2>3 DEF ChainBehind, CarriesUpTo
<1>5. CASE FilterDrops
  <2>1. /\ filter # None /\ <<filter.src, filter.off>> \in Unmatched /\ filter' = None
        /\ UNCHANGED <<outs, input, processor, read>>
        /\ UNCHANGED <<cache, sending, out, delivered, queue, sent>>
    BY <1>5 DEF FilterDrops, managerVars, pipeVars
  <2>2. BehindDelivery(t, f)' /\ Cached(t, f)' = Cached(t, f) /\ Had(f)' = Had(f)
    BY <1>1, <2>1
  <2>3. /\ Processed(t, f)' = Processed(t, f)
        /\ Received(t, f) = Received(t, f)' \cup LineOf(filter, f)
    BY <2>1, <2>2 DEF Processed, Filtered, Received, LineOf
  \* The line that is dropped is not wanted.
  <2>4. \A n : UpTo(f, n) \subseteq Had(f) \cup Received(t, f)
               => UpTo(f, n) \subseteq Had(f)' \cup Received(t, f)'
    BY <2>1, <2>2, <2>3 DEF LineOf, UpTo, Wanted
  <2> QED BY <2>1, <2>2, <2>3, <2>4 DEF ChainBehind, CarriesUpTo
<1>6. CASE SenderTick
  <2>1. UNCHANGED <<outs, cache, processor, filter, input, read, sending, out,
                    delivered, queue, sent>>
    BY <1>6 DEF SenderTick, managerVars, pipeVars
  <2> QED BY <2>1, BehindSame, ChainKept
<1>7. ASSUME NEW g \in Files, SenderFlush(g)
      PROVE  (BehindDelivery(t, f) /\ ChainBehind(t, f))'
  <2>1. /\ cache[g] # <<>> /\ cache[g] \in Seq(Event) /\ sending = None
        /\ sending' = Send(cache[g]) /\ cache' = [cache EXCEPT ![g] = <<>>]
        /\ UNCHANGED <<outs, processor, filter, input, read>>
        /\ UNCHANGED <<out, delivered, queue, sent>>
    BY <1>7, <1>t DEF SenderFlush, TypeInv, Shape, managerVars, pipeVars
  <2>2. \A i \in 1 .. Len(cache[g]) : cache[g][i].src = g
    BY DEF TypeInv, Shape
  <2>3. g = f /\ t \in outs => UpTo(f, cache[g][Len(cache[g])].off)
              \subseteq Had(f) \cup Sent(t, f) \cup {cache[g][i].off : i \in 1 .. Len(cache[g])}
    BY <2>1 DEF ChainBehind, Cached
  <2>4. /\ BehindDelivery(t, f)' /\ Had(f)' = Had(f)
        /\ t \in outs => Sent(t, f)' =
              Sent(t, f) \cup (IF g = f THEN {cache[g][i].off : i \in 1 .. Len(cache[g])}
                               ELSE {})
    BY <2>1, <2>2, <2>3, Sends
  <2>5. t \in outs => Cached(t, f)' = Cached(t, f)
    <3>1. CASE g = f
      <4>1. cache'[f] = <<>> /\ Len(cache'[f]) = 0
        BY <1>t, <2>1, <3>1
      <4> QED BY <2>4, <3>1, <4>1 DEF Cached
    <3>2. CASE g # f
      <4>1. cache'[f] = cache[f]
        BY <1>t, <2>1, <3>2
      <4> QED BY <2>4, <3>2, <4>1 DEF Cached
    <3> QED BY <3>1, <3>2
  <2>6. cache'[f] = cache[f] \/ cache'[f] = <<>>
    BY <1>t, <2>1
  <2>7. t \in outs => /\ Processed(t, f)' = Processed(t, f)
                      /\ Filtered(t, f)' = Filtered(t, f)
                      /\ Received(t, f)' = Received(t, f)
    BY <2>1, <2>5 DEF Processed, Filtered, Received, LineOf
  <2> QED BY <2>1, <2>4, <2>5, <2>6, <2>7 DEF ChainBehind, CarriesUpTo
<1>8. CASE CacheSend
  <2> DEFINE g == processor.src
             b == Append(cache[g], processor)
  <2>1. /\ processor \in Event /\ processor # None /\ g \in Files /\ cache[g] \in Seq(Event)
        /\ processor' = None /\ sending = None
        /\ UNCHANGED <<outs, filter, input, read>>
        /\ UNCHANGED <<out, delivered, queue, sent>>
    BY <1>8, <1>t DEF CacheSend, SenderReady, Event, managerVars, pipeVars
  <2>2. \/ sending' = Send(b) /\ cache' = [cache EXCEPT ![g] = <<>>]
        \/ sending' = sending /\ cache' = [cache EXCEPT ![g] = b]
    BY <1>8 DEF CacheSend
  <2>p. processor.src = g
    BY DEF g
  <2>b. b = Append(cache[g], processor)
    BY DEF b
  <2> HIDE DEF b
  <2>3. g \in Files /\ processor \in Event
    BY <2>1
  <2>4. /\ b \in Seq(Event) /\ b # <<>> /\ b[Len(b)] = processor
        /\ \A i \in 1 .. Len(b) : b[i].src = g
        /\ Offs(b) = Offs(cache[g]) \cup {processor.off}
    <3> HIDE DEF g
    <3> QED BY <2>3, <2>p, <2>b, BufferWith
  <2>5. g = f => Processed(t, f) = Sent(t, f) \cup {b[i].off : i \in 1 .. Len(b)}
    <3> DEFINE offs  == {b[i].off : i \in 1 .. Len(b)}
               older == {cache[g][i].off : i \in 1 .. Len(cache[g])}
    <3>1. offs = older \cup {processor.off}
      BY <2>4 DEF Offs
    <3>2. g = f => Processed(t, f) = (Sent(t, f) \cup older) \cup (IF processor.src = f THEN {processor.off} ELSE {})
      BY <2>1 DEF Processed, Cached, LineOf
    <3>3. processor.src = g
      BY <2>p
    <3>4. g = f => Processed(t, f) = (Sent(t, f) \cup older) \cup {processor.off}
      BY <3>2, <3>3
    <3> HIDE DEF offs, older, g
    <3>5. g = f => Processed(t, f) = Sent(t, f) \cup offs
      BY <3>1, <3>4
    <3> QED BY <3>5 DEF offs
  <2>6. g # f => Processed(t, f) = Cached(t, f) /\ cache'[f] = cache[f]
    BY <1>t, <2>1, <2>2 DEF Processed, LineOf
  <2>7. g = f /\ t \in outs => UpTo(f, b[Len(b)].off) \subseteq Had(f) \cup Processed(t, f)
    BY <2>1, <2>4 DEF ChainBehind, CarriesUpTo
  <2>8. /\ BehindDelivery(t, f)' /\ Had(f)' = Had(f)
        /\ t \in outs => Cached(t, f)' = Processed(t, f)
        /\ t \in outs /\ cache'[f] # <<>> =>
              UpTo(f, cache'[f][Len(cache'[f])].off) \subseteq Had(f) \cup Processed(t, f)
    <3>1. CASE sending' = Send(b) /\ cache' = [cache EXCEPT ![g] = <<>>]
      <4>1. /\ BehindDelivery(t, f)' /\ Had(f)' = Had(f)
            /\ t \in outs => Sent(t, f)' =
                  Sent(t, f) \cup (IF g = f THEN {b[i].off : i \in 1 .. Len(b)} ELSE {})
        <5>1. g = f /\ t \in outs => UpTo(f, b[Len(b)].off)
                    \subseteq Had(f) \cup Sent(t, f) \cup {b[i].off : i \in 1 .. Len(b)}
          BY <2>5, <2>7
        <5>2. \A i \in 1 .. Len(b) : b[i].src = g
          BY <2>4
        <5>3. g \in Files /\ b \in Seq(Event) /\ b # <<>> /\ sending' = Send(b)
          BY <2>1, <2>4, <3>1
        <5> HIDE DEF g
        <5> QED BY <2>1, <5>1, <5>2, <5>3, Sends
      <4>2. CASE g = f
        <5>1. cache'[f] = <<>> /\ Len(cache'[f]) = 0
          BY <1>t, <3>1, <4>2
        <5> QED BY <2>5, <4>1, <4>2, <5>1 DEF Cached
      <4>3. CASE g # f
        BY <2>6, <4>1, <4>3 DEF Cached, ChainBehind
      <4> QED BY <4>2, <4>3
    <3>2. CASE sending' = sending /\ cache' = [cache EXCEPT ![g] = b]
      <4>1. BehindDelivery(t, f)' /\ Sent(t, f)' = Sent(t, f) /\ Had(f)' = Had(f)
        BY <2>1, <3>2, BehindSame
      <4>2. CASE g = f
        <5>1. cache'[f] = b
          BY <1>t, <3>2, <4>2
        <5> QED BY <2>5, <2>7, <4>1, <4>2, <5>1 DEF Cached
      <4>3. CASE g # f
        BY <2>6, <4>1, <4>3 DEF Cached, ChainBehind
      <4> QED BY <4>1, <4>2, <4>3
    <3> QED BY <2>2, <3>1, <3>2
  <2> HIDE DEF g
  <2>9. t \in outs => /\ Processed(t, f)' = Processed(t, f)
                      /\ Filtered(t, f)' = Filtered(t, f)
                      /\ Received(t, f)' = Received(t, f)
    BY <2>1, <2>8 DEF Processed, Filtered, Received, LineOf
  <2> QED BY <2>1, <2>8, <2>9 DEF ChainBehind, CarriesUpTo
<1> QED BY <1>2, <1>3, <1>4, <1>5, <1>6, <1>7, <1>8

\* What the registry has, or gets, comes from a package of some task, all of
\* whose lines have been delivered to it, or from a state that overtook none.
LEMMA OrderStepMarks ==
    ASSUME StatesFirst, TypeInv, NEW f \in Files, MarksBehind(f),
           \A t \in Tasks : BehindDelivery(t, f), [Next]_vars
    PROVE  MarksBehind(f)'
<1> USE DeliveryAssumption, NoneAssumption
<1>t. /\ queue \in Seq(Entry) /\ Len(queue) \in Nat /\ sent \in Nat /\ sent <= Len(queue)
      /\ \A k \in 1 .. Len(queue) : queue[k] \in Entry
  <2>1. queue \in Seq(Entry) /\ sent \in 0 .. Len(queue)
    BY DEF TypeInv, TypeOK, Entry
  <2> QED BY <2>1, LenProperties, ElementOfSeq
<1>h. Had(f) \subseteq Had(f)'
  <2>1. CASE Publish
    BY <2>1 DEF Publish, Had
  <2>2. CASE ~Publish
    <3>1. UNCHANGED delivered
      BY <2>2 DEF Next, vars, Run, Crash, OnEvent, OnStateEvent, InputToFilter, FilterDrops,
         FilterToProcessor, CacheSend, SenderTick, SenderFlush, SendToTask, SendReturns,
         SendEvent, AckEvents, OnEvents, Flush, Sync, Reload, RemoveOutput, CloseChain,
         TaskEnds, StartTasks
    <3> QED BY <3>1 DEF Had
  <2> QED BY <2>1, <2>2
\* An entry that joins the queue.
<1>a. ASSUME NEW e \in Entry, queue' = Append(queue, e), Marks(f)' = Marks(f),
             e.src = f /\ e.task = None => UpTo(f, e.off) = {}
      PROVE  MarksBehind(f)'
  <2>1. /\ Len(queue') = Len(queue) + 1 /\ queue'[Len(queue) + 1] = e
        /\ \A k \in 1 .. Len(queue) : queue'[k] = queue[k]
    BY <1>t, <1>a, AppendProperties
  <2>2. \A k \in 1 .. Len(queue') :
           queue'[k].src = f /\ queue'[k].task = None => UpTo(f, queue'[k].off) = {}
    <3> TAKE k \in 1 .. Len(queue')
    <3>1. k \in 1 .. Len(queue) \/ k = Len(queue) + 1
      BY <1>t, <2>1
    <3> QED BY <1>a, <2>1, <3>1 DEF MarksBehind
  <2>3. \A m \in Marks(f)' : UpTo(f, m) \subseteq Had(f)'
    BY <1>a, <1>h DEF MarksBehind
  <2> QED BY <2>2, <2>3 DEF MarksBehind, UpTo
<1>1. CASE Run
  <2>1. live' = staged /\ UNCHANGED <<queue, staged, saved, lastStates, channel>>
    BY <1>1 DEF Run, Store!Start, pipeVars
  <2>2. Marks(f)' \subseteq Marks(f)
    BY <2>1 DEF Marks
  <2> QED BY <1>h, <2>1, <2>2, MarksKept
<1>2. CASE Crash
  <2>1. /\ live' = Store!Blank /\ staged' = saved /\ saved' = saved
        /\ lastStates' = Store!Blank /\ channel' = <<>> /\ queue' = <<>>
    BY <1>2 DEF Crash, Store!Fail
  <2>2. Marks(f)' \subseteq Marks(f)
    BY <2>1 DEF Marks, Store!Blank
  <2>3. \A m \in Marks(f)' : UpTo(f, m) \subseteq Had(f)'
    BY <1>h, <2>2 DEF MarksBehind
  <2> QED BY <2>1, <2>3 DEF MarksBehind
<1>3. CASE OnEvents
  <2>1. /\ live'[f] = LastOf(f) /\ channel' = <<>>
        /\ UNCHANGED <<queue, staged, saved, lastStates>>
    BY <1>3 DEF OnEvents
  <2>2. \/ LastOf(f) = live[f]
        \/ \E i \in 1 .. Len(channel) : channel[i].src = f /\ LastOf(f) = channel[i].off
    BY LastOfIsOne DEF TypeInv, TypeOK
  <2>3. Marks(f)' = {live'[f], staged[f], saved[f], lastStates[f]} \ {None}
    BY <2>1 DEF Marks
  <2>4. Marks(f)' \subseteq Marks(f)
    BY <2>1, <2>2, <2>3 DEF Marks
  <2> QED BY <1>h, <2>1, <2>4, MarksKept
<1>4. CASE Flush
  <2>1. /\ live'[f] = live[f] /\ staged'[f] = live[f]
        /\ saved'[f] \in {saved[f], live[f], staged[f]}
        /\ UNCHANGED <<queue, lastStates, channel>>
    BY <1>4, FlushEffect DEF Flush, pipeVars, TypeInv, TypeOK
  <2>2. Marks(f)' \subseteq Marks(f)
    BY <2>1 DEF Marks
  <2> QED BY <1>h, <2>1, <2>2, MarksKept
<1>5. CASE Sync
  <2>1. saved' = staged /\ UNCHANGED <<queue, live, staged, lastStates, channel>>
    BY <1>5 DEF Sync, Store!Sync, pipeVars
  <2>2. Marks(f)' \subseteq Marks(f)
    BY <2>1 DEF Marks
  <2> QED BY <1>h, <2>1, <2>2, MarksKept
<1>6. CASE Reload
  <2>1. lastStates' = live /\ UNCHANGED <<queue, live, staged, saved, channel>>
    BY <1>6 DEF Reload, pipeVars, registryVars
  <2>2. Marks(f)' \subseteq Marks(f)
    BY <2>1 DEF Marks
  <2> QED BY <1>h, <2>1, <2>2, MarksKept
<1>7. CASE StartTasks
  <2>1. lastStates' = Store!Blank /\ UNCHANGED <<queue, live, staged, saved, channel>>
    BY <1>7 DEF StartTasks, pipeVars, registryVars
  <2>2. Marks(f)' \subseteq Marks(f)
    BY <2>1 DEF Marks, Store!Blank
  <2> QED BY <1>h, <2>1, <2>2, MarksKept
<1>8. ASSUME NEW u \in Tasks, SendEvent(u) PROVE MarksBehind(f)'
  <2> DEFINE e == [task |-> u, lines |-> out[u].lines, src |-> out[u].src,
                   off |-> out[u].off]
  <2>1. /\ queue' = Append(queue, e) /\ out[u] \in Package
        /\ UNCHANGED <<live, staged, saved, lastStates, channel>>
    BY <1>8 DEF SendEvent, registryVars, TypeInv, TypeOK
  <2>2. e \in Entry /\ e.task # None
    BY <2>1 DEF Entry, Package
  <2> HIDE DEF e
  <2>3. Marks(f)' = Marks(f)
    BY <2>1 DEF Marks
  <2> QED BY <1>a, <2>1, <2>2, <2>3
<1>9. ASSUME NEW g \in Files, OnStateEvent(g) PROVE MarksBehind(f)'
  <2> DEFINE e == [task |-> None, lines |-> {}, src |-> g, off |-> read[g] + 1]
  <2>1. /\ read[g] \in Nat /\ read[g] < MaxLine /\ <<g, read[g] + 1>> \in Excluded
        /\ queue' = Append(queue, e)
        /\ UNCHANGED <<live, staged, saved, lastStates, channel>>
    BY <1>9 DEF OnStateEvent, TypeInv, TypeOK, Offsets, registryVars
  <2>2. e \in Entry /\ e.src = g /\ e.off = read[g] + 1
    BY <2>1 DEF Entry, Lines
  <2> HIDE DEF e
  <2>3. UpTo(g, read[g] + 1) = {}
    BY <2>1, UpToState
  <2>4. Marks(f)' = Marks(f)
    BY <2>1 DEF Marks
  <2> QED BY <1>a, <2>1, <2>2, <2>3, <2>4
<1>10. ASSUME NEW n \in 1 .. QueueSize, AckEvents(n) PROVE MarksBehind(f)'
  <2>1. /\ n \in Nat /\ n >= 1 /\ n <= sent
        /\ channel' = [i \in 1 .. n |-> [src |-> queue[i].src, off |-> queue[i].off]]
        /\ queue' = SubSeq(queue, n + 1, Len(queue))
        /\ UNCHANGED <<live, staged, saved, lastStates>>
    BY <1>10 DEF AckEvents, registryVars
  <2>2. /\ Len(queue') = Len(queue) - n
        /\ \A k \in 1 .. Len(queue) - n : queue'[k] = queue[n + k]
    <3>1. /\ n \in Nat /\ n >= 1 /\ n <= Len(queue) /\ queue \in Seq(Entry)
          /\ queue' = SubSeq(queue, n + 1, Len(queue))
      BY <1>t, <2>1
    <3>2. /\ Len(SubSeq(queue, n + 1, Len(queue))) = Len(queue) - n
          /\ \A k \in 1 .. Len(queue) - n :
                SubSeq(queue, n + 1, Len(queue))[k] = queue[n + k]
      BY ONLY <3>1, QueueDropped
    <3> QED BY ONLY <3>1, <3>2
  <2>3. \A k \in 1 .. Len(queue') :
           queue'[k].src = f /\ queue'[k].task = None => UpTo(f, queue'[k].off) = {}
    <3> TAKE k \in 1 .. Len(queue')
    <3>1. Len(queue') = Len(queue) - n
      BY <2>2
    <3>2. Len(queue) \in Nat /\ n \in Nat /\ n >= 1 /\ n <= Len(queue)
      BY <1>t, <2>1
    <3>3. k \in 1 .. Len(queue) - n
      BY ONLY <3>1
    <3>4. n + k \in 1 .. Len(queue)
      BY ONLY <3>2, <3>3, IndexDropped
    <3> QED BY <2>2, <3>3, <3>4 DEF MarksBehind
  <2>4. ASSUME NEW m \in Marks(f)'
        PROVE  m \in Marks(f) \/ \E i \in 1 .. n : queue[i].src = f /\ m = queue[i].off
    <3>1. Len(channel') = n /\ \A i \in 1 .. n : channel'[i].src = queue[i].src
                                               /\ channel'[i].off = queue[i].off
      BY <2>1
    <3> QED BY <2>1, <2>4, <3>1 DEF Marks
  <2>5. ASSUME NEW i \in 1 .. n, queue[i].src = f
        PROVE  UpTo(f, queue[i].off) \subseteq Had(f)
    <3>1. i \in 1 .. Len(queue) /\ i \in Nat /\ i <= sent /\ queue[i] \in Entry
      BY <1>t, <2>1
    <3>2. CASE queue[i].task = None
      BY <2>5, <3>1, <3>2 DEF MarksBehind
    <3>3. ASSUME NEW u \in Tasks, queue[i].task = u PROVE UpTo(f, queue[i].off) \subseteq Had(f)
      <4>1. UpTo(f, queue[i].off) \subseteq Had(f) \cup Queued(u, f, i)
        BY <2>5, <3>1, <3>3 DEF BehindDelivery
      <4>2. Queued(u, f, i) \subseteq Queued(u, f, sent)
        BY <1>t, <3>1, QueuedGrows
      <4>3. Queued(u, f, sent) \subseteq Has(u, f)
        BY DEF BehindDelivery
      <4> QED BY <4>1, <4>2, <4>3, HasIsHad
    <3> QED BY <3>1, <3>2, <3>3 DEF Entry
  <2>6. \A m \in Marks(f)' : UpTo(f, m) \subseteq Had(f)'
    BY <1>h, <2>4, <2>5 DEF MarksBehind
  <2> QED BY <2>3, <2>6 DEF MarksBehind
\* Nothing else touches the queue or what is recorded.
<1>11. CASE UNCHANGED <<queue, live, staged, saved, lastStates, channel>>
  <2>1. Marks(f)' = Marks(f)
    BY <1>11 DEF Marks
  <2> QED BY <1>h, <1>11, <2>1, MarksKept
<1> QED
  BY <1>1, <1>2, <1>3, <1>4, <1>5, <1>6, <1>7, <1>8, <1>9, <1>10, <1>11
     DEF Next, vars, OnEvent, InputToFilter, FilterDrops, FilterToProcessor, CacheSend,
         SenderTick, SenderFlush, SendToTask, SendReturns, Publish, RemoveOutput,
         CloseChain, TaskEnds, pipeVars, registryVars

LEMMA OrderStep ==
    ASSUME StatesFirst, TypeInv, OrderInv, [Next]_vars
    PROVE  OrderInv'
<1> SUFFICES ASSUME NEW f \in Files
             PROVE  /\ MarksBehind(f)'
                    /\ \A t \in Tasks : (BehindDelivery(t, f) /\ ChainBehind(t, f))'
  BY DEF OrderInv
<1>1. MarksBehind(f)'
  BY OrderStepMarks DEF OrderInv
<1>2. ASSUME NEW t \in Tasks
      PROVE  (BehindDelivery(t, f) /\ ChainBehind(t, f))'
  <2>1. MarksBehind(f) /\ BehindDelivery(t, f) /\ ChainBehind(t, f)
    BY DEF OrderInv
  <2>2. CASE UNCHANGED vars
    <3>1. UNCHANGED <<outs, cache, processor, filter, input, read, sending, out,
                      delivered, queue, sent>>
      BY <2>2 DEF vars, managerVars, chainVars, pipeVars
    <3> QED BY <2>1, <3>1, BehindSame, ChainKept
  <2> QED
    BY <2>1, <2>2, OrderStepRegistry, OrderStepPublisher, OrderStepChain DEF Next
<1> QED BY <1>1, <1>2

LEMMA OrderInit == Init => OrderInv
<1> SUFFICES ASSUME Init, NEW f \in Files
             PROVE  /\ MarksBehind(f)
                    /\ \A t \in Tasks : BehindDelivery(t, f) /\ ChainBehind(t, f)
  BY DEF OrderInv
<1>1. Marks(f) = {} /\ outs = {} /\ queue = <<>> /\ sent = 0
      /\ sending = None /\ \A t \in Tasks : out[t] = None
  BY DEF Init, Marks, Store!Blank
<1> QED BY <1>1 DEF MarksBehind, BehindDelivery, ChainBehind, CarriesUpTo, Queued

LEMMA OrderAlways ==
    ASSUME StatesFirst
    PROVE  Spec => [](TypeInv /\ OrderInv)
<1>1. Init => TypeInv /\ OrderInv
  BY TypeInit, OrderInit
<1>2. TypeInv /\ OrderInv /\ [Next]_vars => (TypeInv /\ OrderInv)'
  BY TypeStep, OrderStep
<1> QED BY <1>1, <1>2, PTL DEF Spec

\* What progress passes, some task has been delivered.
SomeTaskHas ==
    \A f \in Files, states \in {live, staged, saved, lastStates} :
        states[f] # None => UpTo(f, states[f]) \subseteq Had(f)

\* Whatever tasks share the chain, if lines that are reported by state only
\* come first: progress, in memory, in the store, on disk or handed out to a
\* reload, never passes a wanted line that no task at all has been delivered.
THEOREM DeliveryReachesSomeTask ==
    ASSUME StatesFirst
    PROVE  Spec => []SomeTaskHas
<1>1. OrderInv => SomeTaskHas
  BY DEF OrderInv, MarksBehind, Marks, SomeTaskHas
<1>2. Spec => [](TypeInv /\ OrderInv)
  BY OrderAlways
<1> QED BY <1>1, <1>2, PTL

\* A task that has the chain to itself, and whose state-only lines come first,
\* gets every line at least once: no progress the registry holds, on any of
\* its three levels or handed out by it, passes a line not delivered.
THEOREM DeliveryAtLeastOnce ==
    ASSUME OneTask, StatesFirst
    PROVE  Spec => []AtLeastOnce
<1>1. ASSUME OrderInv PROVE AtLeastOnce
  <2>1. ASSUME NEW t \in Tasks, NEW f \in Files, NEW m \in Marks(f)
        PROVE  UpTo(f, m) \subseteq Has(t, f)
    BY <1>1, <2>1, HasIsHad DEF OrderInv, MarksBehind
  <2> QED BY <2>1 DEF Marks, UpTo, Has, AtLeastOnce, Covered
<1>2. Spec => [](TypeInv /\ OrderInv)
  BY OrderAlways
<1> QED BY <1>1, <1>2, PTL

\* The places of the chain are those a line may be in on its way.
LEMMA ReceivedInFlight ==
    ASSUME TypeInv, NEW t \in Tasks, NEW f \in Files, NEW l \in Received(t, f)
    PROVE  <<f, l>> \in delivered[t] \cup InFlight(t)
<1>1. /\ DOMAIN queue = 1 .. Len(queue)
      /\ DOMAIN cache[f] = 1 .. Len(cache[f])
      /\ \A i \in 1 .. Len(cache[f]) : cache[f][i].src = f
  <2>1. queue \in Seq(Entry) /\ cache[f] \in Seq(Event)
    BY DEF TypeInv, TypeOK, Entry
  <2> QED BY <2>1, LenProperties DEF TypeInv, Shape
<1>2. CASE l \in Has(t, f)
  BY <1>2 DEF Has
<1>3. CASE l \in LineOf(input, f) \cup LineOf(filter, f) \cup LineOf(processor, f)
  BY <1>3 DEF LineOf, InFlight
<1>4. CASE l \in {cache[f][i].off : i \in 1 .. Len(cache[f])}
  <2>1. PICK i \in DOMAIN cache[f] : l = cache[f][i].off /\ cache[f][i].src = f
    BY <1>1, <1>4
  <2>2. cache[f][i] \in UNION {{cache[g][j] : j \in DOMAIN cache[g]} : g \in Files}
    BY <2>1
  <2> QED BY <2>1, <2>2 DEF InFlight
<1>5. CASE sending # None /\ t \in sending.left /\ l \in LinesOf(sending.package, f)
  BY <1>5 DEF LinesOf, InFlight
<1>6. CASE l \in LinesOf(out[t], f)
  BY <1>6 DEF LinesOf, InFlight
<1>7. CASE l \in Queued(t, f, Len(queue)) \ Has(t, f)
  <2>1. PICK i \in 1 .. Len(queue) : queue[i].task = t /\ queue[i].src = f /\ l \in queue[i].lines
    BY <1>7 DEF Queued
  <2>2. queue[i] \in {queue[x] : x \in {j \in DOMAIN queue : queue[j].task = t}}
    BY <1>1, <2>1
  <2>3. <<f, l>> \in {queue[i].src} \X queue[i].lines
    BY <2>1
  <2> QED BY <2>2, <2>3 DEF InFlight
<1> QED
  BY <1>2, <1>3, <1>4, <1>5, <1>6, <1>7
     DEF Received, Filtered, Processed, Cached, Sent, Taken

\* Under the same conditions a wanted line is delivered, on its way, or still
\* to be read, whatever reloads there are.
THEOREM DeliveryNothingForgotten ==
    ASSUME OneTask, StatesFirst
    PROVE  Spec => []NothingForgotten
<1>1. ASSUME TypeInv, OrderInv PROVE NothingForgotten
  <2> SUFFICES ASSUME manager # "down", NEW t \in Tasks, NEW f \in Files, NEW l \in Lines,
                      <<f, l>> \in Wanted, ~(l > Resume(t, f))
               PROVE  <<f, l>> \in delivered[t] \cup InFlight(t)
    BY DEF NothingForgotten, Wanted
  <2>1. MarksBehind(f) /\ ChainBehind(t, f) /\ Had(f) = Has(t, f)
    BY <1>1, HasIsHad DEF OrderInv
  <2>2. /\ read[f] \in Nat /\ lastStates \in [Files -> Offsets \cup {None}]
        /\ queue \in Seq(Entry) /\ DOMAIN queue = 1 .. Len(queue)
        /\ DOMAIN cache[f] = 1 .. Len(cache[f])
        /\ \A i \in 1 .. Len(cache[f]) : cache[f][i].src = f
        /\ l \in Nat
    BY <1>1, LenProperties, DeliveryAssumption
       DEF TypeInv, TypeOK, Shape, Offsets, Entry, Lines
  <2>3. CASE t \notin outs
    <3>1. l <= From(lastStates)[f] /\ l >= 1 /\ From(lastStates)[f] \in Nat
      BY <2>2, <2>3, FromTyped, DeliveryAssumption DEF Resume, Offsets, Lines
    <3>2. lastStates[f] # None /\ From(lastStates)[f] = lastStates[f]
      BY <2>2, <3>1, FromTyped
    <3>3. lastStates[f] \in Marks(f)
      BY <3>2 DEF Marks
    <3> QED BY <2>1, <3>1, <3>2, <3>3 DEF MarksBehind, UpTo, Has
  <2>4. CASE t \in outs
    <3>1. l \in Has(t, f) \cup Received(t, f)
      BY <2>1, <2>2, <2>4 DEF Resume, ChainBehind, UpTo
    <3>2. CASE l \in Has(t, f)
      BY <3>2 DEF Has
    <3>3. CASE l \in Received(t, f)
      BY <1>1, <3>3, ReceivedInFlight
    <3> QED BY <3>1, <3>2, <3>3
  <2> QED BY <2>3, <2>4
<1>2. Spec => [](TypeInv /\ OrderInv)
  BY OrderAlways
<1> QED BY <1>1, <1>2, PTL

-----------------------------------------------------------------------------
(* The refinement: the publisher's deliveries move no mark, every other    *)
(* step delivers nothing and leaves marks behind what is delivered.        *)

DeliveredLines == [s \in Tasks \X Files |-> {l \in Lines : <<s[2], l>> \in delivered[s[1]]}]
ResumeMarks    == [s \in Tasks \X Files |->
                     {live[s[2]], staged[s[2]], saved[s[2]], lastStates[s[2]]} \ {None}]

LEMMA Delivering ==
    ASSUME TypeInv, TypeInv', Publish
    PROVE  Promise!Deliver
<1>1. ResumeMarks' = ResumeMarks
  BY DEF Publish, ResumeMarks, registryVars
<1>2. DeliveredLines' \in [Tasks \X Files -> SUBSET (1 .. MaxLine)]
  BY DEF DeliveredLines, Lines
<1>3. \A t \in Tasks : delivered[t] \subseteq delivered'[t]
  BY DEF Publish
<1>4. \A s \in Tasks \X Files : DeliveredLines[s] \subseteq DeliveredLines'[s]
  BY <1>3 DEF DeliveredLines
<1> QED BY <1>1, <1>2, <1>4 DEF Promise!Deliver, DeliveredLines, ResumeMarks

LEMMA Marking ==
    ASSUME OneTask, TypeInv', OrderInv', UNCHANGED delivered
    PROVE  Promise!Mark
<1>1. DeliveredLines' = DeliveredLines
  BY DEF DeliveredLines
<1>2. ResumeMarks' \in [Tasks \X Files -> SUBSET (0 .. MaxLine)]
  BY DEF ResumeMarks, TypeInv, TypeOK, Offsets
<1>3. ASSUME NEW t \in Tasks, NEW f \in Files, NEW m \in ResumeMarks'[<<t, f>>],
             NEW p \in Lines, <<f, p>> \in Wanted, p <= m
      PROVE  p \in DeliveredLines'[<<t, f>>]
  <2>1. m \in Marks(f)'
    BY <1>3 DEF ResumeMarks, Marks
  <2>2. p \in Had(f)'
    BY <1>3, <2>1 DEF OrderInv, MarksBehind, UpTo
  <2>3. Had(f)' = Has(t, f)'
    BY DEF Had, Has, OneTask
  <2> QED BY <2>2, <2>3 DEF DeliveredLines, Has
<1>4. ASSUME NEW s \in Tasks \X Files, NEW m \in ResumeMarks'[s],
             NEW p \in Lines, <<s[2], p>> \in Wanted, p <= m
      PROVE  p \in DeliveredLines'[s]
  <2>1. s[1] \in Tasks /\ s[2] \in Files /\ s = <<s[1], s[2]>>
    OBVIOUS
  <2> QED BY <1>3, <1>4, <2>1
<1> QED
  BY <1>1, <1>2, <1>4 DEF Promise!Mark, Promise!Covered, DeliveredLines, ResumeMarks

LEMMA DeliveryStepCollects ==
    ASSUME OneTask, StatesFirst, TypeInv, OrderInv, [Next]_vars
    PROVE  [Promise!CNext]_Promise!cvars
<1>1. TypeInv' /\ OrderInv'
  BY TypeStep, OrderStep
<1>2. CASE Publish
  BY <1>1, <1>2, Delivering DEF Promise!CNext
<1>3. CASE ~Publish
  <2>1. UNCHANGED delivered
    BY <1>3 DEF Next, vars, Run, Crash, OnEvent, OnStateEvent, InputToFilter, FilterDrops,
       FilterToProcessor, CacheSend, SenderTick, SenderFlush, SendToTask, SendReturns,
       SendEvent, AckEvents, OnEvents, Flush, Sync, Reload, RemoveOutput, CloseChain,
       TaskEnds, StartTasks
  <2> QED BY <1>1, <2>1, Marking DEF Promise!CNext
<1> QED BY <1>2, <1>3

\* The chain, the publisher, the registry, crashes and reloads together
\* implement Collection for a task that has the chain to itself.
THEOREM DeliveryCollectsAll ==
    ASSUME OneTask, StatesFirst
    PROVE  Spec => CollectsAll
<1>1. Init => Promise!CInit
  BY DEF Init, Promise!CInit, Store!Blank
<1>2. TypeInv /\ OrderInv /\ [Next]_vars => [Promise!CNext]_Promise!cvars
  BY DeliveryStepCollects
<1>3. Spec => [](TypeInv /\ OrderInv)
  BY OrderAlways
<1> QED BY <1>1, <1>2, <1>3, PTL DEF Spec, CollectsAll, Promise!CSpec

\* What the tasks of a chain are promised together, file by file.
Together == INSTANCE Collection
    WITH Streams   <- Files,
         Last      <- MaxLine,
         Wanted    <- [f \in Files |-> {l \in Lines : <<f, l>> \in Wanted}],
         delivered <- [f \in Files |-> Had(f)],
         resume    <- [f \in Files |-> {live[f], staged[f], saved[f], lastStates[f]} \ {None}]

HadLines  == [f \in Files |-> Had(f)]
FileMarks == [f \in Files |-> {live[f], staged[f], saved[f], lastStates[f]} \ {None}]

\* However many tasks share the chain, it implements Collection for them
\* together: what any of them has been delivered stays delivered, and no mark
\* passes a line that none of them has.
THEOREM DeliveryCollectsTogether ==
    ASSUME StatesFirst
    PROVE  Spec => Together!CSpec
<1>1. Init => Together!CInit
  BY DEF Init, Together!CInit, Store!Blank, Had
<1>2. ASSUME TypeInv, OrderInv, [Next]_vars
      PROVE  [Together!CNext]_Together!cvars
  <2>1. TypeInv' /\ OrderInv'
    BY <1>2, TypeStep, OrderStep
  <2>2. CASE Publish
    <3>1. FileMarks' = FileMarks
      BY <2>2 DEF Publish, FileMarks, registryVars
    <3>2. HadLines' \in [Files -> SUBSET (1 .. MaxLine)]
      BY DEF HadLines, Had, Lines
    <3>3. \A f \in Files : HadLines[f] \subseteq HadLines'[f]
      BY <2>2 DEF Publish, HadLines, Had
    <3> QED BY <3>1, <3>2, <3>3 DEF Together!CNext, Together!Deliver, HadLines, FileMarks
  <2>3. CASE ~Publish
    <3>1. UNCHANGED delivered
      BY <1>2, <2>3 DEF Next, vars, Run, Crash, OnEvent, OnStateEvent, InputToFilter,
         FilterDrops, FilterToProcessor, CacheSend, SenderTick, SenderFlush, SendToTask,
         SendReturns, SendEvent, AckEvents, OnEvents, Flush, Sync, Reload, RemoveOutput,
         CloseChain, TaskEnds, StartTasks
    <3>2. HadLines' = HadLines
      BY <3>1 DEF HadLines, Had
    <3>3. FileMarks' \in [Files -> SUBSET (0 .. MaxLine)]
      BY <2>1 DEF FileMarks, TypeInv, TypeOK, Offsets
    <3>4. ASSUME NEW f \in Files, NEW m \in FileMarks'[f],
                 NEW p \in Lines, <<f, p>> \in Wanted, p <= m
          PROVE  p \in HadLines'[f]
      <4>1. m \in Marks(f)'
        BY DEF FileMarks, Marks
      <4> QED BY <2>1, <3>4, <4>1 DEF OrderInv, MarksBehind, UpTo, HadLines
    <3> QED
      BY <3>2, <3>3, <3>4
         DEF Together!CNext, Together!Mark, Together!Covered, HadLines, FileMarks
  <2> QED BY <2>2, <2>3
<1>3. Spec => [](TypeInv /\ OrderInv)
  BY OrderAlways
<1>4. TypeInv /\ OrderInv /\ [Next]_vars => [Together!CNext]_Together!cvars
  BY <1>2
<1> QED BY <1>1, <1>3, <1>4, PTL DEF Spec, Together!CSpec

-----------------------------------------------------------------------------
(* Several tasks on one chain.  An acknowledgement for one of them moves   *)
(* the progress of all, so the theorems above need OneTask; but progress   *)
(* is only read when the process starts or reloads.  Before that no task   *)
(* loses a line, whatever lines are reported by state only.                *)

Undisturbed == crashes = 0 /\ reloads = 0

Reaches(t, f) ==
    /\ Queued(t, f, sent) \subseteq Has(t, f)
    /\ t \in outs => UpTo(f, read[f]) \subseteq Received(t, f)

ReachInv ==
    Undisturbed =>
        /\ manager = "down" => staged = Store!Blank
        /\ manager # "down" => manager = "running" /\ outs = Tasks
        /\ stopping = None
        /\ \A t \in Tasks, f \in Files : Reaches(t, f)

\* What leaves the caches and what is before them alone.
LEMMA ReachKept ==
    ASSUME NEW t \in Tasks, NEW f \in Files, Reaches(t, f), UNCHANGED outs,
           UNCHANGED <<cache, processor, filter, input>>,
           Sent(t, f) \subseteq Sent(t, f)',
           Queued(t, f, sent)' \subseteq Has(t, f)',
           UpTo(f, read'[f]) \subseteq UpTo(f, read[f])
    PROVE  Reaches(t, f)'
<1>1. Received(t, f) \subseteq Received(t, f)'
  BY DEF Received, Filtered, Processed, Cached, LineOf
<1>2. t \in outs' => UpTo(f, read[f]) \subseteq Received(t, f)
  BY DEF Reaches
<1>3. t \in outs' => UpTo(f, read'[f]) \subseteq Received(t, f)'
  BY <1>1, <1>2
<1> QED BY <1>3 DEF Reaches

\* What leaves the way from the sender to the publisher alone.
LEMMA SentSame ==
    ASSUME NEW t \in Tasks, NEW f \in Files, Reaches(t, f),
           UNCHANGED <<sending, out, delivered, queue, sent>>
    PROVE  Sent(t, f)' = Sent(t, f) /\ Queued(t, f, sent)' \subseteq Has(t, f)'
<1>1. Has(t, f)' = Has(t, f) /\ Queued(t, f, sent)' = Queued(t, f, sent)
  BY DEF Has, Queued
<1>2. Sent(t, f)' = Sent(t, f)
  BY DEF Sent, Taken, Queued, Has, LinesOf
<1> QED BY <1>1, <1>2 DEF Reaches

\* Before the caches: a line moves on to the next place, or is not wanted.
LEMMA ReachStepChain ==
    ASSUME TypeInv, NEW t \in Tasks, NEW f \in Files, Reaches(t, f),
           \/ \E g \in Files : OnEvent(g)
           \/ InputToFilter \/ FilterDrops \/ FilterToProcessor
    PROVE  Reaches(t, f)'
<1>1. /\ Cached(t, f)' = Cached(t, f) /\ Queued(t, f, sent)' \subseteq Has(t, f)'
      /\ UNCHANGED outs
  <2>1. UNCHANGED <<outs, sending, out, delivered, queue, sent, cache>>
    BY DEF OnEvent, InputToFilter, FilterDrops, FilterToProcessor, managerVars, pipeVars
  <2> QED BY <2>1, SentSame DEF Cached
<1>2. t \in outs => UpTo(f, read[f]) \subseteq Received(t, f)
  BY DEF Reaches
<1>3. ASSUME NEW g \in Files, OnEvent(g) PROVE Reaches(t, f)'
  <2>1. /\ read[g] \in Nat /\ read \in [Files -> Offsets]
        /\ read' = [read EXCEPT ![g] = @ + 1] /\ UNCHANGED <<filter, processor>>
        /\ input = None /\ input' = [src |-> g, off |-> read[g] + 1] /\ input' # None
    <3>1. /\ read[g] \in Nat /\ read[g] < MaxLine /\ read \in [Files -> Offsets]
          /\ input' = [src |-> g, off |-> read[g] + 1]
      BY <1>3, DeliveryAssumption DEF OnEvent, TypeInv, TypeOK, Offsets
    <3>2. input' \in Event
      BY <3>1, DeliveryAssumption DEF Event, Lines
    <3> QED BY <1>3, <3>1, <3>2, NoneAssumption DEF OnEvent, InputReady
  <2>2. Received(t, f)' = Received(t, f) \cup (IF g = f THEN {read[g] + 1} ELSE {})
    BY <1>1, <2>1 DEF Received, Filtered, Processed, LineOf
  <2>3. g = f => UpTo(f, read[f] + 1) \subseteq UpTo(f, read[f]) \cup {read[f] + 1}
    BY <2>1, UpToNext
  <2>4. t \in outs => UpTo(f, read'[f]) \subseteq Received(t, f)'
    <3>1. CASE g = f
      BY <1>2, <2>1, <2>2, <2>3, <3>1
    <3>2. CASE g # f
      BY <1>2, <2>1, <2>2, <3>2
    <3> QED BY <3>1, <3>2
  <2> QED BY <1>1, <2>4 DEF Reaches
<1>4. CASE InputToFilter \/ FilterToProcessor
  <2>1. Received(t, f)' = Received(t, f) /\ UNCHANGED read
    BY <1>1, <1>4 DEF InputToFilter, FilterToProcessor, Received, Filtered, Processed, LineOf
  <2> QED BY <1>1, <1>2, <2>1 DEF Reaches
<1>5. CASE FilterDrops
  <2>1. /\ filter # None /\ <<filter.src, filter.off>> \in Unmatched
        /\ UNCHANGED read
        /\ Received(t, f) = Received(t, f)' \cup LineOf(filter, f)
    BY <1>1, <1>5 DEF FilterDrops, Received, Filtered, Processed, LineOf
  <2>2. \A n : UpTo(f, n) \subseteq Received(t, f) => UpTo(f, n) \subseteq Received(t, f)'
    BY <2>1 DEF LineOf, UpTo, Wanted
  <2> QED BY <1>1, <1>2, <2>1, <2>2 DEF Reaches
<1> QED BY <1>3, <1>4, <1>5

\* The sender: what leaves the processor is in the cache or in the package,
\* and the package goes to all outs of that moment.
LEMMA ReachStepSender ==
    ASSUME TypeInv, NEW t \in Tasks, NEW f \in Files, Reaches(t, f),
           CacheSend \/ SenderTick \/ \E g \in Files : SenderFlush(g)
    PROVE  Reaches(t, f)'
<1> USE NoneAssumption
<1>t. /\ processor # None => processor \in Event
      /\ cache \in [Files -> Seq(Event)] /\ cache[f] \in Seq(Event)
  BY DEF TypeInv, TypeOK
<1>u. UNCHANGED <<outs, read, filter, input, out, delivered, queue, sent>>
  BY DEF CacheSend, SenderTick, SenderFlush, managerVars, pipeVars
<1>1. Queued(t, f, sent)' \subseteq Has(t, f)'
  <2>1. Queued(t, f, sent)' = Queued(t, f, sent) /\ Has(t, f)' = Has(t, f)
    BY <1>u DEF Queued, Has
  <2> QED BY <2>1 DEF Reaches
\* It suffices that nothing is lost up to the processor.
<1>2. ASSUME t \in outs => Processed(t, f) \subseteq Processed(t, f)'
      PROVE  Reaches(t, f)'
  <2>1. t \in outs => Received(t, f) \subseteq Received(t, f)'
    BY <1>2, <1>u DEF Received, Filtered, LineOf
  <2>2. t \in outs => UpTo(f, read[f]) \subseteq Received(t, f)
    BY DEF Reaches
  <2>3. t \in outs' => UpTo(f, read'[f]) \subseteq Received(t, f)'
    BY <1>u, <2>1, <2>2
  <2> QED BY <1>1, <2>3 DEF Reaches
<1>3. CASE SenderTick
  <2>1. UNCHANGED <<cache, sending, processor>>
    BY <1>3 DEF SenderTick
  <2>2. Processed(t, f)' = Processed(t, f)
    BY <1>u, <2>1, SentSame DEF Processed, Cached, LineOf
  <2> QED BY <1>2, <2>2
<1>4. ASSUME NEW g \in Files, SenderFlush(g) PROVE Reaches(t, f)'
  <2>1. /\ cache[g] # <<>> /\ cache[g] \in Seq(Event) /\ sending = None
        /\ sending' = Send(cache[g]) /\ cache' = [cache EXCEPT ![g] = <<>>]
        /\ UNCHANGED processor
        /\ \A i \in 1 .. Len(cache[g]) : cache[g][i].src = g
    BY <1>4, <1>t DEF SenderFlush, TypeInv, Shape
  <2>2. t \in outs => Sent(t, f)' =
              Sent(t, f) \cup (IF g = f THEN {cache[g][i].off : i \in 1 .. Len(cache[g])}
                               ELSE {})
    <3>1. UNCHANGED <<out, delivered, queue, sent>>
      BY <1>u
    <3> QED BY ONLY TypeInv, <2>1, <3>1, PackageSent
  <2>3. t \in outs => Cached(t, f) \subseteq Cached(t, f)'
    <3>1. CASE g = f
      BY <2>2, <3>1 DEF Cached
    <3>2. CASE g # f
      <4>1. cache'[f] = cache[f]
        BY <1>t, <2>1, <3>2
      <4> QED BY <2>2, <3>2, <4>1 DEF Cached
    <3> QED BY <3>1, <3>2
  <2>4. t \in outs => Processed(t, f) \subseteq Processed(t, f)'
    BY <2>1, <2>3 DEF Processed, LineOf
  <2> QED BY <1>2, <2>4
<1>5. CASE CacheSend
  <2> DEFINE g == processor.src
             b == Append(cache[g], processor)
  <2>1. /\ processor \in Event /\ processor # None /\ g \in Files /\ sending = None
    BY <1>5, <1>t DEF CacheSend, SenderReady, Event
  <2>2. \/ sending' = Send(b) /\ cache' = [cache EXCEPT ![g] = <<>>]
        \/ sending' = sending /\ cache' = [cache EXCEPT ![g] = b]
    BY <1>5 DEF CacheSend
  <2>3. processor.src = g /\ b = Append(cache[g], processor)
    BY DEF g, b
  <2>4. PICK h : h = g
    OBVIOUS
  <2>5. PICK c : c = b
    OBVIOUS
  <2>6. LineOf(processor, f) = IF h = f THEN {processor.off} ELSE {}
    BY <2>1, <2>4 DEF LineOf
  <2>7. /\ h \in Files /\ processor.src = h /\ c = Append(cache[h], processor)
        /\ \/ sending' = Send(c) /\ cache' = [cache EXCEPT ![h] = <<>>]
           \/ sending' = sending /\ cache' = [cache EXCEPT ![h] = c]
    BY <2>1, <2>2, <2>3, <2>4, <2>5
  <2> HIDE DEF g, b
  <2>8. /\ c \in Seq(Event) /\ c # <<>>
        /\ \A i \in 1 .. Len(c) : c[i].src = h
        /\ Offs(c) = Offs(cache[h]) \cup {processor.off}
    <3>1. h \in Files /\ processor \in Event /\ processor.src = h
          /\ c = Append(cache[h], processor)
      BY <2>1, <2>7
    <3> QED BY ONLY TypeInv, <3>1, BufferWith
  <2>9. Processed(t, f) = IF h = f THEN Sent(t, f) \cup Offs(c)
                                   ELSE Sent(t, f) \cup Offs(cache[f])
    BY <2>6, <2>8 DEF Processed, Cached, Offs
  <2>10. t \in outs => Processed(t, f) \subseteq Sent(t, f)' \cup Offs(cache'[f])
    <3>1. CASE sending' = Send(c) /\ cache' = [cache EXCEPT ![h] = <<>>]
      <4>1. t \in outs => Sent(t, f)' =
               Sent(t, f) \cup (IF h = f THEN {c[i].off : i \in 1 .. Len(c)} ELSE {})
        <5>1. /\ h \in Files /\ c \in Seq(Event) /\ c # <<>>
              /\ \A i \in 1 .. Len(c) : c[i].src = h
              /\ sending = None /\ sending' = Send(c)
              /\ UNCHANGED <<out, delivered, queue, sent>>
          BY <1>u, <2>1, <2>7, <2>8, <3>1
        <5> QED BY <5>1, PackageSent
      <4>2. h # f => cache'[f] = cache[f]
        BY <1>t, <3>1
      <4> QED BY <2>9, <4>1, <4>2 DEF Offs
    <3>2. CASE sending' = sending /\ cache' = [cache EXCEPT ![h] = c]
      <4>1. Sent(t, f)' = Sent(t, f)
        BY <1>u, <3>2, SentSame
      <4>2. cache'[f] = IF h = f THEN c ELSE cache[f]
        BY <1>t, <3>2
      <4> QED BY <2>9, <4>1, <4>2
    <3> QED BY <2>7, <3>1, <3>2
  <2>11. t \in outs => Processed(t, f) \subseteq Processed(t, f)'
    BY <2>10 DEF Processed, Cached, Offs
  <2> QED BY <1>2, <2>11
<1> QED BY <1>3, <1>4, <1>5

\* Behind the sender, whichever task a step is for.
LEMMA ReachStepPublisher ==
    ASSUME TypeInv, NEW t \in Tasks, NEW f \in Files, Reaches(t, f),
           \/ \E u \in Tasks : SendToTask(u) \/ SendEvent(u)
           \/ SendReturns \/ Publish
           \/ \E n \in 1 .. QueueSize : AckEvents(n)
           \/ \E g \in Files : OnStateEvent(g)
    PROVE  Reaches(t, f)'
<1> USE NoneAssumption
<1>t. /\ Len(queue) \in Nat /\ sent \in Nat /\ sent <= Len(queue)
      /\ sending # None => sending \in [package : Package, left : SUBSET Tasks]
      /\ out \in [Tasks -> Package \cup {None}]
  <2>1. queue \in Seq(Entry) /\ sent \in 0 .. Len(queue)
    BY DEF TypeInv, TypeOK, Entry
  <2> QED BY <2>1, LenProperties DEF TypeInv, TypeOK
<1>q. Queued(t, f, sent) \subseteq Has(t, f)
  BY DEF Reaches
<1>u. UNCHANGED <<outs, cache, processor, filter, input>>
  BY DEF SendToTask, SendEvent, SendReturns, Publish, AckEvents, OnStateEvent,
     managerVars, chainVars
\* Steps that leave the queue alone only move a package.
<1>1. ASSUME UNCHANGED <<delivered, queue, sent, read>>,
             Taken(t, f)' \cup (IF sending' # None /\ t \in sending'.left
                                THEN LinesOf(sending'.package, f) ELSE {})
             = Taken(t, f) \cup (IF sending # None /\ t \in sending.left
                                 THEN LinesOf(sending.package, f) ELSE {})
      PROVE  Reaches(t, f)'
  <2>1. Queued(t, f, sent)' \subseteq Has(t, f)'
    <3>1. Queued(t, f, sent)' = Queued(t, f, sent) /\ Has(t, f)' = Has(t, f)
      BY <1>1 DEF Queued, Has
    <3> QED BY <1>q, <3>1
  <2>2. Sent(t, f) = Sent(t, f)'
    BY <1>1 DEF Sent
  <2> QED BY <1>1, <1>u, <2>1, <2>2, ReachKept
<1>2. ASSUME NEW u \in Tasks, SendToTask(u) PROVE Reaches(t, f)'
  <2>1. /\ sending # None /\ u \in sending.left /\ out[u] = None
        /\ sending' # None /\ sending'.left = sending.left \ {u}
        /\ sending'.package = sending.package
        /\ out'[u] = sending.package /\ \A v \in Tasks \ {u} : out'[v] = out[v]
        /\ UNCHANGED <<delivered, queue, sent, read>>
    BY <1>2, <1>t, OneLess DEF SendToTask, pipeVars
  <2>2. Queued(t, f, Len(queue))' = Queued(t, f, Len(queue))
    BY <2>1 DEF Queued, Has
  <2> QED BY <1>1, <2>1, <2>2 DEF Taken, LinesOf
<1>3. ASSUME NEW u \in Tasks, SendEvent(u) PROVE Reaches(t, f)'
  <2> DEFINE e == [task |-> u, lines |-> out[u].lines, src |-> out[u].src,
                   off |-> out[u].off]
  <2>1. /\ out[u] # None /\ queue' = Append(queue, e) /\ out'[u] = None
        /\ \A v \in Tasks \ {u} : out'[v] = out[v]
        /\ UNCHANGED <<read, delivered, sent, sending>>
    BY <1>3, <1>t DEF SendEvent, chainVars
  <2>2. e \in Entry
    BY <1>t, <2>1 DEF Entry, Package
  <2>3. e.task = u /\ e.src = out[u].src /\ e.lines = out[u].lines
    OBVIOUS
  <2> HIDE DEF e
  <2>4. /\ Has(t, f)' = Has(t, f)
        /\ \A k \in 0 .. Len(queue) : Queued(t, f, k)' = Queued(t, f, k)
        /\ Queued(t, f, Len(queue))' =
              Queued(t, f, Len(queue))
              \cup (IF e.task = t /\ e.src = f THEN e.lines ELSE {})
    BY <2>1, <2>2, QueuedAppend
  <2>5. Taken(t, f)' = Taken(t, f)
    <3>1. CASE t = u
      BY <2>1, <2>3, <2>4, <3>1 DEF Taken, LinesOf
    <3>2. CASE t # u
      BY <2>1, <2>3, <2>4, <3>2 DEF Taken, LinesOf
    <3> QED BY <3>1, <3>2
  <2>6. Sent(t, f) = Sent(t, f)'
    BY <2>1, <2>5 DEF Sent
  <2>7. Queued(t, f, sent)' \subseteq Has(t, f)'
    <3>1. Queued(t, f, sent)' = Queued(t, f, sent)
      BY <1>t, <2>1, <2>4 DEF Queued
    <3> QED BY <1>q, <2>4, <3>1
  <2> QED BY <1>u, <2>1, <2>6, <2>7, ReachKept
<1>4. CASE SendReturns
  <2>1. /\ sending # None /\ sending.left = {} /\ sending' = None
        /\ UNCHANGED <<delivered, queue, sent, read, out>>
    BY <1>4 DEF SendReturns, pipeVars
  <2>2. Taken(t, f)' = Taken(t, f)
    BY <2>1 DEF Taken, Queued, Has, LinesOf
  <2> QED BY <1>1, <2>1, <2>2
<1>5. CASE Publish
  <2>1. UNCHANGED <<read, out, sending>>
    BY <1>5 DEF Publish, chainVars
  <2>2. /\ Queued(t, f, sent)' \subseteq Has(t, f)'
        /\ Queued(t, f, Len(queue)) \subseteq Queued(t, f, Len(queue))'
    BY <1>5, <1>q, QueuePublished
  <2>3. Sent(t, f) \subseteq Sent(t, f)'
    BY <2>1, <2>2 DEF Sent, Taken, LinesOf
  <2> QED BY <1>u, <2>1, <2>2, <2>3, ReachKept
<1>6. ASSUME NEW n \in 1 .. QueueSize, AckEvents(n) PROVE Reaches(t, f)'
  <2>1. UNCHANGED <<read, out, sending>>
    BY <1>6 DEF AckEvents, chainVars
  <2>2. /\ Queued(t, f, sent)' \subseteq Has(t, f)'
        /\ Queued(t, f, Len(queue)) \subseteq Queued(t, f, Len(queue))'
    BY <1>6, <1>q, QueueAcked
  <2>3. Sent(t, f) \subseteq Sent(t, f)'
    BY <2>1, <2>2 DEF Sent, Taken, LinesOf
  <2> QED BY <1>u, <2>1, <2>2, <2>3, ReachKept
<1>7. ASSUME NEW g \in Files, OnStateEvent(g) PROVE Reaches(t, f)'
  <2> DEFINE e == [task |-> None, lines |-> {}, src |-> g, off |-> read[g] + 1]
  <2>1. /\ read[g] \in Nat /\ read[g] < MaxLine /\ <<g, read[g] + 1>> \in Excluded
        /\ queue' = Append(queue, e) /\ read' = [read EXCEPT ![g] = @ + 1]
        /\ read \in [Files -> Offsets]
        /\ UNCHANGED <<delivered, sending, sent, out>>
    BY <1>7, DeliveryAssumption DEF OnStateEvent, TypeInv, TypeOK, Offsets, chainVars
  <2>2. e \in Entry /\ e.task # t
    BY <2>1, DeliveryAssumption DEF Entry, Lines
  <2> HIDE DEF e
  <2>3. /\ Has(t, f)' = Has(t, f)
        /\ \A k \in 0 .. Len(queue) : Queued(t, f, k)' = Queued(t, f, k)
        /\ Queued(t, f, Len(queue))' = Queued(t, f, Len(queue))
    <3>1. queue' = Append(queue, e) /\ UNCHANGED delivered
      BY <2>1
    <3>2. /\ Has(t, f)' = Has(t, f)
          /\ \A k \in 0 .. Len(queue) : Queued(t, f, k)' = Queued(t, f, k)
          /\ Queued(t, f, Len(queue))' =
                Queued(t, f, Len(queue))
                \cup (IF e.task = t /\ e.src = f THEN e.lines ELSE {})
      BY <2>2, <3>1, QueuedAppend
    <3> QED BY <2>2, <3>2
  <2>4. Sent(t, f) \subseteq Sent(t, f)'
    BY <2>1, <2>3 DEF Sent, Taken, LinesOf
  <2>5. Queued(t, f, sent)' \subseteq Has(t, f)'
    <3>1. Queued(t, f, sent)' = Queued(t, f, sent)
      BY <1>t, <2>1, <2>3 DEF Queued
    <3> QED BY <1>q, <2>3, <3>1
  \* The line that is skipped is not wanted.
  <2>6. UpTo(f, read'[f]) \subseteq UpTo(f, read[f])
    <3>1. CASE f = g
      <4>1. read'[f] = read[f] + 1
        BY <2>1, <3>1
      <4> QED BY <2>1, <3>1, <4>1, UpToSkipped
    <3>2. CASE f # g
      BY <2>1, <3>2
    <3> QED BY <3>1, <3>2
  <2> QED BY <1>u, <2>4, <2>5, <2>6, ReachKept
<1> QED BY <1>2, <1>3, <1>4, <1>5, <1>6, <1>7

LEMMA ReachInit == Init => ReachInv
BY DEF Init, ReachInv, Reaches, Queued

LEMMA ReachStep ==
    ASSUME TypeInv, ReachInv, [Next]_vars
    PROVE  ReachInv'
<1> SUFFICES ASSUME Undisturbed' PROVE ReachInv'
  BY DEF ReachInv
<1>t. crashes \in Nat /\ reloads \in Nat
  BY DeliveryAssumption DEF TypeInv, TypeOK
<1>1. ~Crash /\ ~Reload
  BY <1>t DEF Undisturbed, Crash, Reload
<1>2. Undisturbed
  <2>1. UNCHANGED countVars
    BY <1>1 DEF Next, vars, Run, OnEvent, OnStateEvent, InputToFilter, FilterDrops,
       FilterToProcessor, CacheSend, SenderTick, SenderFlush, SendToTask, SendReturns,
       SendEvent, Publish, AckEvents, OnEvents, Flush, Sync, RemoveOutput, CloseChain,
       TaskEnds, StartTasks
  <2> QED BY <2>1 DEF Undisturbed, countVars
<1>3. /\ manager = "down" => staged = Store!Blank
      /\ manager # "down" => manager = "running" /\ outs = Tasks
      /\ stopping = None
      /\ \A t \in Tasks, f \in Files : Reaches(t, f)
  BY <1>2 DEF ReachInv
<1>4. ~CloseChain /\ ~TaskEnds /\ ~StartTasks /\ \A t \in Tasks : ~RemoveOutput(t)
  BY <1>3 DEF CloseChain, TaskEnds, StartTasks, RemoveOutput
\* Every step but the start leaves the manager alone.
<1>5. ASSUME UNCHANGED managerVars, manager = "down" => UNCHANGED staged,
             \A t \in Tasks, f \in Files : Reaches(t, f)'
      PROVE  ReachInv'
  BY <1>3, <1>5 DEF ReachInv, managerVars
<1>6. CASE Run
  <2>1. /\ manager = "down" /\ manager' = "running" /\ outs' = Tasks /\ UNCHANGED stopping
        /\ read' = From(staged)
        /\ UNCHANGED <<delivered, queue, sent>>
    BY <1>6 DEF Run, Store!Start, pipeVars
  <2>2. ASSUME NEW t \in Tasks, NEW f \in Files PROVE Reaches(t, f)'
    <3>1. read'[f] = 0
      BY <1>3, <2>1 DEF From, Store!Blank
    <3>2. Queued(t, f, sent)' = Queued(t, f, sent) /\ Has(t, f)' = Has(t, f)
      BY <2>1 DEF Queued, Has
    <3> QED BY <1>3, <3>1, <3>2, UpToNext DEF Reaches
  <2> QED BY <1>3, <2>1, <2>2 DEF ReachInv
<1>7. CASE \/ \E g \in Files : OnEvent(g)
           \/ InputToFilter \/ FilterDrops \/ FilterToProcessor
  <2>1. UNCHANGED <<managerVars, staged>>
    BY <1>7 DEF OnEvent, InputToFilter, FilterDrops, FilterToProcessor, registryVars
  <2> QED BY <1>3, <1>5, <1>7, <2>1, ReachStepChain
<1>8. CASE CacheSend \/ SenderTick \/ \E g \in Files : SenderFlush(g)
  <2>1. UNCHANGED <<managerVars, staged>>
    BY <1>8 DEF CacheSend, SenderTick, SenderFlush, registryVars
  <2> QED BY <1>3, <1>5, <1>8, <2>1, ReachStepSender
<1>9. CASE \/ \E u \in Tasks : SendToTask(u) \/ SendEvent(u)
           \/ SendReturns \/ Publish
           \/ \E n \in 1 .. QueueSize : AckEvents(n)
           \/ \E g \in Files : OnStateEvent(g)
  <2>1. UNCHANGED <<managerVars, staged>>
    BY <1>9 DEF SendToTask, SendEvent, SendReturns, Publish, AckEvents, OnStateEvent,
       registryVars
  <2> QED BY <1>3, <1>5, <1>9, <2>1, ReachStepPublisher
\* What the registry does with acknowledged states touches no line.
<1>10. CASE OnEvents \/ Flush \/ Sync \/ UNCHANGED vars
  <2>1. /\ UNCHANGED <<managerVars, read, chainVars, out, queue, sent, delivered>>
        /\ manager = "down" => UNCHANGED staged
    BY <1>10 DEF OnEvents, Flush, Sync, Store!Flush, Store!Sync, pipeVars, vars,
       registryVars
  <2>2. ASSUME NEW t \in Tasks, NEW f \in Files PROVE Reaches(t, f)'
    BY <1>3, <2>1, SentSame, ReachKept DEF chainVars, managerVars
  <2> QED BY <1>5, <2>1, <2>2
<1> QED BY <1>1, <1>4, <1>6, <1>7, <1>8, <1>9, <1>10 DEF Next

\* However many tasks share the chain, until the process has stopped or
\* reloaded for the first time every wanted line is delivered to each of
\* them, on its way to it, or still to be read.
THEOREM DeliveryReachesEveryTask ==
    Spec => [](crashes = 0 /\ reloads = 0 => NothingForgotten)
<1>1. ASSUME TypeInv, ReachInv, crashes = 0 /\ reloads = 0 PROVE NothingForgotten
  <2> SUFFICES ASSUME manager # "down", NEW t \in Tasks, NEW f \in Files, NEW l \in Lines,
                      <<f, l>> \in Wanted, ~(l > Resume(t, f))
               PROVE  <<f, l>> \in delivered[t] \cup InFlight(t)
    BY DEF NothingForgotten, Wanted
  <2>1. t \in outs /\ Reaches(t, f)
    BY <1>1 DEF ReachInv, Undisturbed
  <2>2. read[f] \in Nat /\ l \in Nat
    BY <1>1, DeliveryAssumption DEF TypeInv, TypeOK, Offsets, Lines
  <2>3. l \in Received(t, f)
    BY <2>1, <2>2 DEF Resume, Reaches, UpTo
  <2> QED BY <1>1, <2>3, ReceivedInFlight
<1>2. Init => TypeInv /\ ReachInv
  BY TypeInit, ReachInit
<1>3. TypeInv /\ ReachInv /\ [Next]_vars => (TypeInv /\ ReachInv)'
  BY TypeStep, ReachStep
<1>4. TypeInv /\ ReachInv => (crashes = 0 /\ reloads = 0 => NothingForgotten)
  BY <1>1
<1> QED BY <1>2, <1>3, <1>4, PTL DEF Spec
=============================================================================
