-------------------------- MODULE WinEventLogProofs --------------------------
(***************************************************************************)
(* Theorems about the event log input, for every set of logs, any number   *)
(* of records, reloads and crashes, and any capacity of what lies between: *)
(* its type, the order of delivery, that it implements Collection, and the *)
(* fields an event is sent with.                                           *)
(***************************************************************************)
EXTENDS WinEventLog, SequenceTheorems, WellFoundedInduction, TLAPS

-----------------------------------------------------------------------------
(* The type invariant.  It needs the shape of readers: one that is handing *)
(* records over has some left, inputs are numbered without gaps.           *)

Shape ==
    /\ \A i \in Inputs, w \in Logs :
          /\ reader[i][w].pc = "handing" => reader[i][w].pos < reader[i][w].upto
          /\ i > input => reader[i][w].pc = "idle"
    /\ manager = "down" <=> input = 0
    /\ input <= reloads + 1
    /\ manager \in {"reloading", "ended"} => input <= reloads

TypeInv == TypeOK /\ Shape

LEMMA ToEventTyped ==
    ASSUME NEW w \in Logs, content \in [Logs -> Contents], NEW r \in Records
    PROVE  [rec |-> r, data |-> ToEvent(content[w])] \in Event
BY DEF Event

\* A change of one reader touches no other.
LEMMA OneReader ==
    ASSUME reader \in [Inputs -> [Logs -> Reader]],
           NEW i \in Inputs, NEW w \in Logs, NEW r \in Reader, Becomes(i, w, r)
    PROVE  /\ reader' \in [Inputs -> [Logs -> Reader]]
           /\ \A j \in Inputs, v \in Logs :
                 reader'[j][v] = IF j = i /\ v = w THEN r ELSE reader[j][v]
BY DEF Becomes

\* A reader that changes its state only.
LEMMA NewState ==
    ASSUME NEW r \in Reader, NEW pc \in {"reading", "failed"}
    PROVE  /\ [r EXCEPT !.pc = pc] \in Reader
           /\ [r EXCEPT !.pc = pc].pc = pc
           /\ [r EXCEPT !.pc = pc].pos = r.pos
           /\ [r EXCEPT !.pc = pc].upto = r.upto
BY DEF Reader

LEMMA PolledTyped ==
    ASSUME NEW r \in Reader, r.pos <= r.upto, NEW n \in Nat, r.upto + n <= MaxRecord
    PROVE  /\ Polled(r, n) \in Reader
           /\ Polled(r, n).pos = r.pos
           /\ Polled(r, n).pos <= Polled(r, n).upto
           /\ Polled(r, n).pc = "handing" => Polled(r, n).pos < Polled(r, n).upto
           /\ Polled(r, n).pc # "idle"
BY WinEventLogAssumption DEF Polled, Reader, Marks

LEMMA HandedTyped ==
    ASSUME NEW r \in Reader, r.pos < r.upto
    PROVE  /\ HandedOver(r) \in Reader
           /\ HandedOver(r).pos = r.pos + 1
           /\ HandedOver(r).pos <= HandedOver(r).upto
           /\ HandedOver(r).pc = "handing" => HandedOver(r).pos < HandedOver(r).upto
           /\ HandedOver(r).pc # "idle"
           /\ r.pos + 1 \in Records
BY WinEventLogAssumption DEF HandedOver, Reader, Marks, Records

\* A new input has readers that start where its states say.
LEMMA NewInput ==
    ASSUME reader \in [Inputs -> [Logs -> Reader]],
           NEW i \in Inputs, NEW states \in [Logs -> Marks \cup {None}],
           NEW usable, StartInput(i, states, usable)
    PROVE  /\ reader' \in [Inputs -> [Logs -> Reader]]
           /\ \A j \in Inputs, v \in Logs :
                 /\ j # i => reader'[j][v] = reader[j][v]
                 /\ j = i => /\ reader'[j][v].pos = WinState(states[v])
                             /\ reader'[j][v].pos <= reader'[j][v].upto
                             /\ reader'[j][v].pc \in {"opening", "failed"}
<1>1. \A v \in Logs : /\ NewReader(states[v], v \in usable) \in Reader
                      /\ NewReader(states[v], v \in usable).pos = WinState(states[v])
                      /\ NewReader(states[v], v \in usable).pos
                           <= NewReader(states[v], v \in usable).upto
                      /\ NewReader(states[v], v \in usable).pc \in {"opening", "failed"}
  BY WinEventLogAssumption DEF NewReader, WinState, Reader, Marks
<1> QED BY <1>1 DEF StartInput

LEMMA TypeInit == Init => TypeInv
BY WinEventLogAssumption
   DEF Init, TypeInv, TypeOK, Shape, Idle, Reader, Marks, Inputs, EmptySeqs, Store!Blank

\* A flush, after which a crash finds under every key what was staged before
\* or after it, or what it would have found before.
LEMMA FlushEffect ==
    ASSUME live \in [Logs -> Marks \cup {None}], staged \in [Logs -> Marks \cup {None}],
           saved \in [Logs -> Marks \cup {None}], NEW dropped, Store!Flush(dropped)
    PROVE  /\ live' \in [Logs -> Marks \cup {None}] /\ staged' = live'
           /\ saved' \in [Logs -> Marks \cup {None}]
           /\ \A k \in Logs : /\ live'[k] = IF k \in dropped THEN None ELSE live[k]
                              /\ saved'[k] \in {saved[k], staged'[k], staged[k]}
<1>1. /\ live' = [k \in Logs |-> IF k \in dropped THEN None ELSE live[k]]
      /\ staged' = live'
      /\ \/ saved' = saved
         \/ \E ids \in SUBSET Logs :
               saved' = [k \in Logs |-> IF k \in ids THEN staged'[k] ELSE staged[k]]
  BY DEF Store!Flush
<1>2. live' \in [Logs -> Marks \cup {None}]
  BY <1>1
<1> QED BY <1>1, <1>2

LEMMA TypeStep ==
    ASSUME TypeInv, [Next]_vars
    PROVE  TypeInv'
<1> USE WinEventLogAssumption DEF TypeInv
<1>0. /\ reader \in [Inputs -> [Logs -> Reader]]
      /\ \A i \in Inputs, w \in Logs :
            /\ reader[i][w] \in Reader /\ reader[i][w].pos <= reader[i][w].upto
            /\ reader[i][w].pos \in Nat /\ reader[i][w].upto \in Nat
      /\ 1 \in Inputs
  BY DEF TypeOK, Reader, Marks, Inputs
<1>1. ASSUME NEW usable \in SUBSET Logs, Run(usable) PROVE TypeInv'
  <2>1. live' = staged /\ staged \in [Logs -> Marks \cup {None}]
    BY <1>1 DEF Run, Store!Start, TypeOK
  <2>2. /\ reader' \in [Inputs -> [Logs -> Reader]]
        /\ \A j \in Inputs, v \in Logs :
              /\ j # 1 => reader'[j][v] = reader[j][v]
              /\ j = 1 => /\ reader'[j][v].pos <= reader'[j][v].upto
                          /\ reader'[j][v].pc \in {"opening", "failed"}
    BY <1>0, <1>1, <2>1, NewInput DEF Run
  <2>3. TypeOK'
    <3>1. \A j \in Inputs, v \in Logs : reader'[j][v].pos <= reader'[j][v].upto
      BY <1>0, <2>2
    <3>2. /\ manager' \in {"down", "running", "reloading", "ended"}
          /\ input' \in 0 .. MaxReloads + 1 /\ stopped' \subseteq Inputs
      BY <1>1 DEF Run, TypeOK
    <3> QED
      BY <1>1, <2>1, <2>2, <3>1, <3>2
      DEF Run, Store!Start, TypeOK, logVars, pipeVars, countVars
  <2>4. Shape'
    <3>1. /\ input = 0 /\ input' = 1 /\ manager' = "running"
          /\ reloads \in Nat /\ reloads' = reloads
      BY <1>1 DEF Run, Shape, TypeOK, countVars
    <3>2. \A j \in Inputs, v \in Logs :
             /\ reader'[j][v].pc = "handing" => reader'[j][v].pos < reader'[j][v].upto
             /\ j > 1 => reader'[j][v].pc = "idle"
      BY <2>2, <3>1 DEF Shape, Inputs
    <3> QED BY <3>1, <3>2 DEF Shape
  <2> QED BY <2>3, <2>4
<1>2. ASSUME NEW usable \in SUBSET Logs, StartTask(usable) PROVE TypeInv'
  <2>1. input + 1 \in Inputs /\ lastStates \in [Logs -> Marks \cup {None}]
    BY <1>2 DEF StartTask, TypeOK, Shape, Inputs
  <2>2. /\ reader' \in [Inputs -> [Logs -> Reader]]
        /\ \A j \in Inputs, v \in Logs :
              /\ j # input + 1 => reader'[j][v] = reader[j][v]
              /\ j = input + 1 => /\ reader'[j][v].pos <= reader'[j][v].upto
                                  /\ reader'[j][v].pc \in {"opening", "failed"}
    BY <1>0, <1>2, <2>1, NewInput DEF StartTask
  <2>3. TypeOK'
    <3>1. \A j \in Inputs, v \in Logs : reader'[j][v].pos <= reader'[j][v].upto
      BY <1>0, <2>2
    <3>2. /\ manager' \in {"down", "running", "reloading", "ended"}
          /\ input' \in 0 .. MaxReloads + 1 /\ stopped' \subseteq Inputs
      BY <1>2, <2>1 DEF StartTask, TypeOK, Inputs
    <3> QED
      BY <1>2, <2>2, <3>1, <3>2
      DEF StartTask, TypeOK, Store!Blank, logVars, pipeVars, registryVars, countVars
  <2>4. Shape'
    <3>1. /\ input \in Nat /\ input' = input + 1 /\ manager' = "running"
          /\ reloads \in Nat /\ reloads' = reloads /\ input <= reloads
      BY <1>2 DEF StartTask, Shape, TypeOK, countVars
    <3>2. \A j \in Inputs, v \in Logs :
             /\ reader'[j][v].pc = "handing" => reader'[j][v].pos < reader'[j][v].upto
             /\ j > input + 1 => reader'[j][v].pc = "idle"
      BY <2>2, <3>1 DEF Shape, Inputs
    <3> QED BY <3>1, <3>2 DEF Shape
  <2> QED BY <2>3, <2>4
<1>3. CASE Crash
  <2>1. Idle \in Reader
    BY DEF Idle, Reader, Marks
  <2>2. TypeOK'
    BY <1>3, <2>1 DEF Crash, TypeOK, Store!Fail, Store!Blank, EmptySeqs, Inputs, Idle, logVars
  <2>3. Shape'
    BY <1>3 DEF Crash, TypeOK, Shape, Idle, Inputs
  <2> QED BY <2>2, <2>3
<1>4. CASE Reload
  BY <1>4 DEF Reload, TypeOK, Shape, logVars, pipeVars, registryVars
<1>5. CASE RemoveTask
  BY <1>5 DEF RemoveTask, TypeOK, Shape, EmptySeqs, logVars, registryVars, countVars
<1>6. CASE Flush
  <2>1. /\ live' \in [Logs -> Marks \cup {None}] /\ staged' = live'
        /\ saved' \in [Logs -> Marks \cup {None}]
    BY <1>6, FlushEffect DEF Flush, TypeOK
  <2> QED
    BY <1>6, <2>1 DEF Flush, TypeOK, Shape, logVars, managerVars, pipeVars, countVars
<1>7. CASE Sync
  BY <1>7 DEF Sync, Store!Sync, TypeOK, Shape, logVars, managerVars, pipeVars, countVars
<1>8. ASSUME NEW w \in Logs, Write(w) PROVE TypeInv'
  BY <1>8 DEF Write, TypeOK, Shape, Marks, managerVars, pipeVars, registryVars, countVars
<1>9. ASSUME NEW w \in Logs, Publish(w) PROVE TypeInv'
  <2>1. /\ Head(chain[w]) \in Event /\ Tail(chain[w]) \in Seq(Event)
        /\ Append(queue[w], Head(chain[w])) \in Seq(Event)
    BY <1>9 DEF Publish, TypeOK
  <2> QED
    BY <1>9, <2>1 DEF Publish, TypeOK, Shape, logVars, managerVars, registryVars, countVars
<1>10. ASSUME NEW w \in Logs, Deliver(w) PROVE TypeInv'
  <2>1. /\ Head(queue[w]) \in Event /\ Tail(queue[w]) \in Seq(Event)
        /\ Head(queue[w]).rec \in Marks
    <3>1. queue[w] \in Seq(Event) /\ queue[w] # <<>>
      BY <1>10 DEF Deliver, TypeOK
    <3>2. \A e \in Event : e.rec \in Marks
      BY DEF Event, Records, Marks
    <3> QED BY <3>1, <3>2, HeadTailProperties
  <2>2. delivered' \in [Logs -> SUBSET Event]
    BY <1>10, <2>1 DEF Deliver, TypeOK
  <2> QED
    BY <1>10, <2>1, <2>2 DEF Deliver, TypeOK, Shape, logVars, managerVars, registryVars, countVars
<1>11. ASSUME NEW w \in Logs, OnEvents(w) PROVE TypeInv'
  BY <1>11 DEF OnEvents, TypeOK, Shape, logVars, managerVars, countVars
<1>12. ASSUME NEW i \in Inputs, StopReturns(i) PROVE TypeInv'
  BY <1>12 DEF StopReturns, TypeOK, Shape, logVars, pipeVars, registryVars, countVars
\* What a change of one reader leaves of the invariant.
<1>13. ASSUME NEW i \in Inputs, NEW w \in Logs, NEW r \in Reader, Becomes(i, w, r),
              reader[i][w].pc # "idle",
              r.pos <= r.upto, r.pc = "handing" => r.pos < r.upto,
              chain' \in [Logs -> Seq(Event)],
              UNCHANGED <<logVars, managerVars, queue, acks, registryVars,
                          lastStates, delivered, countVars>>
       PROVE  TypeInv'
  <2>1. /\ reader' \in [Inputs -> [Logs -> Reader]]
        /\ \A j \in Inputs, v \in Logs :
              reader'[j][v] = IF j = i /\ v = w THEN r ELSE reader[j][v]
    BY <1>0, <1>13, OneReader
  <2>2. i <= input
    BY <1>13 DEF Shape, TypeOK, Inputs
  <2>3. TypeOK'
    <3>1. ASSUME NEW j \in Inputs, NEW v \in Logs
          PROVE  reader'[j][v].pos <= reader'[j][v].upto
      <4>1. reader[j][v].pos <= reader[j][v].upto
        BY <1>0 DEF TypeOK
      <4> QED BY <1>13, <2>1, <4>1
    <3>2. {chain', queue'} \subseteq [Logs -> Seq(Event)]
      BY <1>0, <1>13 DEF TypeOK
    <3> QED BY <1>0, <1>13, <2>1, <3>1, <3>2
            DEF TypeOK, logVars, managerVars, registryVars, countVars
  <2>4. Shape'
    BY <1>13, <2>1, <2>2 DEF Shape, TypeOK, Inputs, managerVars, countVars
  <2> QED BY <2>3, <2>4
<1>14. ASSUME NEW i \in Inputs, NEW w \in Logs, Open(i, w) PROVE TypeInv'
  <2> DEFINE r == [reader[i][w] EXCEPT !.pc = "reading"]
  <2>1. r \in Reader /\ r.pos <= r.upto /\ r.pc = "reading"
    BY <1>0, NewState
  <2>2. Becomes(i, w, r) /\ reader[i][w].pc # "idle"
    BY <1>14 DEF Open
  <2>3. /\ chain' \in [Logs -> Seq(Event)]
        /\ UNCHANGED <<logVars, managerVars, queue, acks, registryVars,
                       lastStates, delivered, countVars>>
    BY <1>14 DEF Open, TypeOK, pipeVars
  <2> HIDE DEF r
  <2> QED BY <1>13, <2>1, <2>2, <2>3
<1>15. ASSUME NEW i \in Inputs, NEW w \in Logs, Fails(i, w) PROVE TypeInv'
  <2> DEFINE r == [reader[i][w] EXCEPT !.pc = "failed"]
  <2>1. r \in Reader /\ r.pos <= r.upto /\ r.pc = "failed"
    BY <1>0, NewState
  <2>2. Becomes(i, w, r) /\ reader[i][w].pc # "idle"
    BY <1>15 DEF Fails
  <2>3. /\ chain' \in [Logs -> Seq(Event)]
        /\ UNCHANGED <<logVars, managerVars, queue, acks, registryVars,
                       lastStates, delivered, countVars>>
    BY <1>15 DEF Fails, TypeOK, pipeVars
  <2> HIDE DEF r
  <2> QED BY <1>13, <2>1, <2>2, <2>3
<1>16. ASSUME NEW i \in Inputs, NEW w \in Logs, Read(i, w) PROVE TypeInv'
  <2>1. PICK n \in 0 .. BatchSize : /\ n <= written[w] - reader[i][w].upto
                                    /\ Becomes(i, w, Polled(reader[i][w], n))
    BY <1>16 DEF Read
  <2>2. n \in Nat /\ reader[i][w].upto + n <= MaxRecord
    BY <1>0, <2>1 DEF TypeOK, Marks
  <2> DEFINE r == Polled(reader[i][w], n)
  <2>3. /\ r \in Reader /\ r.pos <= r.upto
        /\ r.pc = "handing" => r.pos < r.upto
    BY <1>0, <2>2, PolledTyped
  <2>4. Becomes(i, w, r) /\ reader[i][w].pc # "idle"
    BY <1>16, <2>1 DEF Read
  <2>5. /\ chain' \in [Logs -> Seq(Event)]
        /\ UNCHANGED <<logVars, managerVars, queue, acks, registryVars,
                       lastStates, delivered, countVars>>
    BY <1>16 DEF Read, TypeOK, pipeVars
  <2> HIDE DEF r
  <2> QED BY <1>13, <2>3, <2>4, <2>5
<1>17. ASSUME NEW i \in Inputs, NEW w \in Logs, reader[i][w].pc = "handing",
              Becomes(i, w, HandedOver(reader[i][w])),
              chain' \in [Logs -> Seq(Event)],
              UNCHANGED <<logVars, managerVars, queue, acks, registryVars,
                          lastStates, delivered, countVars>>
       PROVE  TypeInv'
  <2> DEFINE r == HandedOver(reader[i][w])
  <2>1. reader[i][w].pos < reader[i][w].upto
    BY <1>17 DEF Shape
  <2>2. /\ r \in Reader /\ r.pos <= r.upto
        /\ r.pc = "handing" => r.pos < r.upto
    BY <1>0, <2>1, HandedTyped
  <2>3. Becomes(i, w, r) /\ reader[i][w].pc # "idle"
    BY <1>17
  <2> HIDE DEF r
  <2> QED BY <1>13, <1>17, <2>2, <2>3
<1>18. ASSUME NEW i \in Inputs, NEW w \in Logs, OnEvent(i, w) PROVE TypeInv'
  <2>1. reader[i][w].pos + 1 \in Records
    BY <1>0, <1>18, HandedTyped DEF OnEvent, Shape
  <2>2. [rec |-> reader[i][w].pos + 1, data |-> ToEvent(content[w])] \in Event
    BY <2>1, ToEventTyped DEF TypeOK
  <2>3. chain' \in [Logs -> Seq(Event)]
    BY <1>18, <2>2 DEF OnEvent, TypeOK
  <2> QED BY <1>17, <1>18, <2>3 DEF OnEvent
<1>19. ASSUME NEW i \in Inputs, NEW w \in Logs, OnEventRefused(i, w) PROVE TypeInv'
  BY <1>17, <1>19 DEF OnEventRefused, TypeOK, pipeVars
<1>20. CASE UNCHANGED vars
  BY <1>20 DEF vars, logVars, managerVars, pipeVars, registryVars, countVars, TypeOK, Shape
<1> QED
  BY <1>1, <1>2, <1>3, <1>4, <1>5, <1>6, <1>7, <1>8, <1>9, <1>10, <1>11, <1>12,
     <1>14, <1>15, <1>16, <1>18, <1>19, <1>20 DEF Next

\* Every variable keeps its type.
THEOREM WinTypeCorrect == Spec => []TypeOK
<1>1. Init => TypeInv
  BY TypeInit
<1>2. TypeInv /\ [Next]_vars => TypeInv'
  BY TypeStep
<1>3. TypeInv => TypeOK
  BY DEF TypeInv
<1> QED BY <1>1, <1>2, <1>3, PTL DEF Spec

-----------------------------------------------------------------------------
(* The order of delivery.  Every place an event can be in is bound to the  *)
(* places before it: what is in the publisher follows what is delivered,   *)
(* what is in the chain follows both, what the newest input reads next     *)
(* follows all three, and whatever a start may take for the position of a  *)
(* reader is behind what is delivered.                                     *)

Recs(s) == {s[k].rec : k \in 1 .. Len(s)}

\* The events of s come in order to one who has the records K.
Follows(K, s) ==
    \A k \in 1 .. Len(s) : \A p \in 1 .. s[k].rec - 1 :
        p \in K \/ \E j \in 1 .. k - 1 : s[j].rec = p

Resumable(w) == {acks[w], live[w], staged[w], saved[w], lastStates[w]} \ {None}

OrderedTo(w) ==
    /\ \A r \in DeliveredRecords(w) : 1 .. r \subseteq DeliveredRecords(w)
    /\ Follows(DeliveredRecords(w), queue[w])
    /\ Follows(DeliveredRecords(w) \cup Recs(queue[w]), chain[w])
    /\ \A m \in Resumable(w) : 1 .. m \subseteq DeliveredRecords(w)
    /\ manager \in {"running", "reloading"} =>
          1 .. reader[input][w].pos
            \subseteq DeliveredRecords(w) \cup Recs(queue[w]) \cup Recs(chain[w])

OrderInv == \A w \in Logs : OrderedTo(w)

LEMMA FollowsMore ==
    ASSUME NEW K, NEW L, K \subseteq L, NEW s, Follows(K, s)
    PROVE  Follows(L, s)
BY DEF Follows

LEMMA FollowsNothing == ASSUME NEW K PROVE Follows(K, <<>>) /\ Recs(<<>>) = {}
BY DEF Follows, Recs

LEMMA FollowsAppend ==
    ASSUME NEW K, NEW s \in Seq(Event), NEW e \in Event, Follows(K, s),
           1 .. e.rec - 1 \subseteq K \cup Recs(s)
    PROVE  /\ Follows(K, Append(s, e))
           /\ Recs(Append(s, e)) = Recs(s) \cup {e.rec}
<1> DEFINE t == Append(s, e)
<1>1. /\ Len(s) \in Nat /\ Len(t) = Len(s) + 1 /\ t[Len(s) + 1] = e
      /\ \A k \in 1 .. Len(s) : t[k] = s[k]
  OBVIOUS
<1> HIDE DEF t
<1>2. Recs(t) = Recs(s) \cup {e.rec}
  BY <1>1 DEF Recs
<1>3. ASSUME NEW k \in 1 .. Len(t), NEW p \in 1 .. t[k].rec - 1
      PROVE  p \in K \/ \E j \in 1 .. k - 1 : t[j].rec = p
  <2>1. CASE k \in 1 .. Len(s)
    <3>1. p \in K \/ \E j \in 1 .. k - 1 : s[j].rec = p
      BY <1>1, <2>1 DEF Follows
    <3> QED BY <1>1, <2>1, <3>1
  <2>2. CASE k = Len(s) + 1
    <3>1. p \in K \/ \E j \in 1 .. Len(s) : s[j].rec = p
      BY <1>1, <1>3, <2>2 DEF Recs
    <3> QED BY <1>1, <2>2, <3>1
  <2> QED BY <1>1, <2>1, <2>2
<1> QED BY <1>2, <1>3 DEF Follows, t

LEMMA FollowsTail ==
    ASSUME NEW K, NEW s \in Seq(Event), s # <<>>, Follows(K, s)
    PROVE  /\ 1 .. Head(s).rec - 1 \subseteq K
           /\ Follows(K \cup {Head(s).rec}, Tail(s))
           /\ Recs(s) = {Head(s).rec} \cup Recs(Tail(s))
<1> DEFINE t == Tail(s)
<1>1. /\ Len(s) \in Nat \ {0} /\ Len(t) = Len(s) - 1 /\ Head(s) = s[1]
      /\ \A k \in 1 .. Len(t) : t[k] = s[k + 1]
  BY HeadTailProperties, EmptySeq
<1> HIDE DEF t
<1>2. 1 .. Head(s).rec - 1 \subseteq K
  BY <1>1 DEF Follows
<1>3. Recs(s) = {Head(s).rec} \cup Recs(t)
  <2>1. ASSUME NEW k \in 1 .. Len(s) PROVE s[k].rec \in {Head(s).rec} \cup Recs(t)
    <3>1. CASE k = 1
      BY <1>1, <3>1
    <3>2. CASE k # 1
      <4>1. k - 1 \in 1 .. Len(t) /\ t[k - 1] = s[k]
        BY <1>1, <3>2
      <4> QED BY <4>1 DEF Recs
    <3> QED BY <3>1, <3>2
  <2>2. \A k \in 1 .. Len(t) : t[k].rec \in Recs(s)
    BY <1>1 DEF Recs
  <2>3. Head(s).rec \in Recs(s)
    BY <1>1 DEF Recs
  <2> QED BY <2>1, <2>2, <2>3 DEF Recs
<1>4. ASSUME NEW k \in 1 .. Len(t), NEW p \in 1 .. t[k].rec - 1
      PROVE  \/ p \in K \cup {Head(s).rec}
             \/ \E j \in 1 .. k - 1 : t[j].rec = p
  <2>1. k + 1 \in 1 .. Len(s) /\ t[k] = s[k + 1]
    BY <1>1
  <2>2. p \in K \/ \E j \in 1 .. k : s[j].rec = p
    BY <2>1 DEF Follows
  <2>3. ASSUME NEW j \in 1 .. k, s[j].rec = p, j # 1
        PROVE  \E l \in 1 .. k - 1 : t[l].rec = p
    <3>1. j - 1 \in 1 .. k - 1 /\ t[j - 1] = s[j]
      BY <1>1, <2>3
    <3> QED BY <2>3, <3>1
  <2> QED BY <1>1, <2>2, <2>3
<1> QED BY <1>2, <1>3, <1>4 DEF Follows, t

\* A step that leaves the events of w where they are keeps their order when
\* it makes no new mark and moves no reader but to a mark.
LEMMA KeptInOrder ==
    ASSUME NEW w \in Logs, OrderedTo(w),
           UNCHANGED <<delivered[w], queue[w], chain[w]>>,
           Resumable(w)' \subseteq Resumable(w),
           manager' \in {"running", "reloading"} =>
              \/ reader'[input'][w].pos \in Resumable(w) \cup {0}
              \/ /\ manager \in {"running", "reloading"}
                 /\ reader'[input'][w].pos = reader[input][w].pos
    PROVE  OrderedTo(w)'
<1>1. /\ DeliveredRecords(w)' = DeliveredRecords(w)
      /\ queue'[w] = queue[w] /\ chain'[w] = chain[w]
  BY DEF DeliveredRecords
<1>2. 1 .. 0 = {}
  OBVIOUS
<1> QED BY <1>1, <1>2 DEF OrderedTo, Recs

LEMMA OrderStep ==
    ASSUME TypeInv, TypeInv', OrderInv, [Next]_vars
    PROVE  OrderInv'
<1> SUFFICES ASSUME NEW w \in Logs PROVE OrderedTo(w)'
  BY DEF OrderInv
<1>0. OrderedTo(w)
  BY DEF OrderInv
<1>t. /\ queue[w] \in Seq(Event) /\ chain[w] \in Seq(Event)
      /\ queue \in [Logs -> Seq(Event)] /\ chain \in [Logs -> Seq(Event)]
      /\ {acks, live, staged, saved, lastStates} \subseteq [Logs -> Marks \cup {None}]
      /\ delivered \in [Logs -> SUBSET Event]
      /\ input \in 0 .. MaxReloads + 1
      /\ reader \in [Inputs -> [Logs -> Reader]]
  BY DEF TypeInv, TypeOK
<1>e. \A e \in Event : e.rec \in Records
  BY DEF Event
<1>n. 0 # None /\ None \notin Marks
  BY WinEventLogAssumption DEF Marks
<1>1. ASSUME NEW usable \in SUBSET Logs, Run(usable) PROVE OrderedTo(w)'
  <2>1. /\ live' = staged /\ UNCHANGED <<staged, saved, lastStates, acks>>
        /\ UNCHANGED <<delivered, queue, chain>> /\ input' = 1
        /\ StartInput(1, live', usable)
    BY <1>1 DEF Run, Store!Start, pipeVars
  <2>2. reader'[1][w].pos = WinState(staged[w])
    <3>1. 1 \in Inputs
      BY WinEventLogAssumption DEF Inputs
    <3>2. live' \in [Logs -> Marks \cup {None}]
      BY <1>t, <2>1
    <3> QED BY <1>t, <2>1, <3>1, <3>2, NewInput
  <2>3. WinState(staged[w]) \in Resumable(w) \cup {0}
    BY DEF WinState, Resumable
  <2>4. Resumable(w)' \subseteq Resumable(w)
    BY <2>1 DEF Resumable
  <2> QED BY <1>0, <2>1, <2>2, <2>3, <2>4, KeptInOrder
<1>2. ASSUME NEW usable \in SUBSET Logs, StartTask(usable) PROVE OrderedTo(w)'
  <2>1. /\ lastStates' = Store!Blank /\ UNCHANGED <<live, staged, saved, acks>>
        /\ UNCHANGED <<delivered, queue, chain>> /\ input' = input + 1
        /\ StartInput(input + 1, lastStates, usable)
    BY <1>2 DEF StartTask, pipeVars, registryVars
  <2>2. input + 1 \in Inputs
    BY <1>2, <1>t, WinEventLogAssumption DEF StartTask, TypeInv, TypeOK, Shape, Inputs
  <2>3. reader'[input + 1][w].pos = WinState(lastStates[w])
    BY <1>t, <2>1, <2>2, NewInput
  <2>4. WinState(lastStates[w]) \in Resumable(w) \cup {0}
    BY DEF WinState, Resumable
  <2>5. Resumable(w)' \subseteq Resumable(w)
    BY <2>1 DEF Resumable, Store!Blank
  <2> QED BY <1>0, <2>1, <2>3, <2>4, <2>5, KeptInOrder
<1>3. CASE Crash
  <2>1. /\ manager' = "down" /\ queue'[w] = <<>> /\ chain'[w] = <<>>
        /\ delivered' = delivered
        /\ acks'[w] = None /\ live'[w] = None /\ lastStates'[w] = None
        /\ staged' = saved /\ saved' = saved
    BY <1>3 DEF Crash, Store!Fail, Store!Blank, EmptySeqs
  <2>2. Resumable(w)' \subseteq Resumable(w)
    BY <2>1 DEF Resumable
  <2>3. DeliveredRecords(w)' = DeliveredRecords(w)
    BY <2>1 DEF DeliveredRecords
  <2> QED BY <1>0, <2>1, <2>2, <2>3, FollowsNothing DEF OrderedTo
<1>4. CASE Reload
  <2>1. /\ lastStates' = live /\ UNCHANGED <<live, staged, saved, acks>>
        /\ UNCHANGED <<delivered, queue, chain, input, reader>> /\ manager = "running"
    BY <1>4 DEF Reload, pipeVars, registryVars
  <2>2. Resumable(w)' \subseteq Resumable(w)
    BY <2>1 DEF Resumable
  <2> QED BY <1>0, <2>1, <2>2, KeptInOrder
<1>5. CASE RemoveTask
  <2>1. /\ manager' = "ended" /\ chain'[w] = <<>>
        /\ UNCHANGED <<delivered, queue, acks, live, staged, saved, lastStates>>
    BY <1>5 DEF RemoveTask, EmptySeqs, registryVars
  <2>2. DeliveredRecords(w)' = DeliveredRecords(w) /\ Resumable(w)' = Resumable(w)
    BY <2>1 DEF DeliveredRecords, Resumable
  <2> QED BY <1>0, <2>1, <2>2, FollowsNothing DEF OrderedTo
<1>6. CASE Flush
  <2>1. /\ UNCHANGED <<manager, input, reader, chain, queue, acks, lastStates,
                       delivered>>
        /\ staged' = live' /\ live'[w] \in {live[w], None}
        /\ saved'[w] \in {saved[w], staged'[w], staged[w]}
    BY <1>6, FlushEffect DEF Flush, managerVars, pipeVars, TypeInv, TypeOK
  <2>2. Resumable(w)' \subseteq Resumable(w)
    BY <2>1 DEF Resumable
  <2> QED BY <1>0, <2>1, <2>2, KeptInOrder
<1>7. CASE Sync
  <2>1. /\ UNCHANGED <<manager, input, reader, chain, queue, acks, live, staged,
                       lastStates, delivered>>
        /\ saved' = staged
    BY <1>7 DEF Sync, Store!Sync, managerVars, pipeVars
  <2>2. Resumable(w)' \subseteq Resumable(w)
    BY <2>1 DEF Resumable
  <2> QED BY <1>0, <2>1, <2>2, KeptInOrder
\* A step that changes readers at most, and no reader's place.
<1>8. ASSUME UNCHANGED <<manager, input, chain, queue, acks, live, staged, saved,
                         lastStates, delivered>>,
             manager \in {"running", "reloading"} =>
                reader'[input][w].pos = reader[input][w].pos
      PROVE  OrderedTo(w)'
  <2>1. Resumable(w)' \subseteq Resumable(w)
    BY <1>8 DEF Resumable
  <2> QED BY <1>0, <1>8, <2>1, KeptInOrder
<1>9. ASSUME NEW v \in Logs, Write(v) PROVE OrderedTo(w)'
  BY <1>8, <1>9 DEF Write, managerVars, pipeVars, registryVars
<1>10. ASSUME NEW i \in Inputs, StopReturns(i) PROVE OrderedTo(w)'
  BY <1>8, <1>10 DEF StopReturns, pipeVars, registryVars
<1>11. ASSUME NEW i \in Inputs, NEW v \in Logs, NEW r \in Reader,
              Becomes(i, v, r), r.pos = reader[i][v].pos,
              UNCHANGED <<managerVars, pipeVars, registryVars, lastStates, delivered>>
       PROVE  OrderedTo(w)'
  <2>1. \A j \in Inputs : reader'[j][w].pos = reader[j][w].pos
    <3>1. \A j \in Inputs, u \in Logs :
             reader'[j][u] = IF j = i /\ u = v THEN r ELSE reader[j][u]
      BY <1>t, <1>11, OneReader
    <3> QED BY <1>11, <3>1
  <2>2. manager \in {"running", "reloading"} => input \in Inputs
    BY DEF TypeInv, TypeOK, Shape, Inputs
  <2> QED BY <1>8, <1>11, <2>1, <2>2 DEF managerVars, pipeVars, registryVars
<1>12. ASSUME NEW i \in Inputs, NEW v \in Logs, Open(i, v) PROVE OrderedTo(w)'
  <2>1. reader[i][v] \in Reader
    BY <1>t
  <2> QED BY <1>11, <1>12, <2>1, NewState DEF Open
<1>13. ASSUME NEW i \in Inputs, NEW v \in Logs, Fails(i, v) PROVE OrderedTo(w)'
  <2>1. reader[i][v] \in Reader
    BY <1>t
  <2> QED BY <1>11, <1>13, <2>1, NewState DEF Fails
<1>14. ASSUME NEW i \in Inputs, NEW v \in Logs, Read(i, v) PROVE OrderedTo(w)'
  <2>1. PICK n \in 0 .. BatchSize : /\ n <= written[v] - reader[i][v].upto
                                    /\ Becomes(i, v, Polled(reader[i][v], n))
    BY <1>14 DEF Read
  <2>2. /\ reader[i][v] \in Reader /\ reader[i][v].pos <= reader[i][v].upto
        /\ n \in Nat /\ reader[i][v].upto + n <= MaxRecord
    <3>1. written[v] \in 0 .. MaxRecord /\ reader[i][v] \in Reader
      BY <1>t DEF TypeInv, TypeOK, Marks
    <3>2. reader[i][v].pos <= reader[i][v].upto
      BY DEF TypeInv, TypeOK
    <3>3. reader[i][v].upto \in Nat /\ n \in Nat
      BY <2>1, <3>1, WinEventLogAssumption DEF Reader, Marks
    <3> QED BY <2>1, <3>1, <3>2, <3>3, WinEventLogAssumption
  <2> QED BY <1>11, <1>14, <2>1, <2>2, PolledTyped DEF Read
<1>15. ASSUME NEW i \in Inputs, NEW v \in Logs, OnEventRefused(i, v)
       PROVE  OrderedTo(w)'
  <2>1. /\ reader[i][v] \in Reader /\ reader[i][v].pos < reader[i][v].upto
        /\ Becomes(i, v, HandedOver(reader[i][v]))
        /\ UNCHANGED <<managerVars, pipeVars, registryVars, lastStates, delivered>>
    BY <1>t, <1>15 DEF OnEventRefused, TypeInv, Shape
  <2>2. HandedOver(reader[i][v]) \in Reader
    BY <2>1, HandedTyped
  <2>3. \A j \in Inputs : j # i => reader'[j][w] = reader[j][w]
    BY <1>t, <2>1, <2>2, OneReader
  <2>4. manager \in {"running", "reloading"} => input \in Inputs /\ input # i
    <3>1. input \in 0 .. MaxReloads + 1 /\ (manager = "down" <=> input = 0)
      BY DEF TypeInv, TypeOK, Shape
    <3>2. i < input \/ manager = "ended"
      BY <1>15 DEF OnEventRefused, Ended
    <3>3. MaxReloads \in Nat /\ i \in 1 .. MaxReloads + 1
      BY WinEventLogAssumption DEF Inputs
    <3> QED BY <3>1, <3>2, <3>3 DEF Inputs
  <2> QED BY <1>8, <2>1, <2>3, <2>4 DEF managerVars, pipeVars, registryVars
<1>16. ASSUME NEW i \in Inputs, NEW v \in Logs, OnEvent(i, v) PROVE OrderedTo(w)'
  <2> DEFINE e == [rec |-> reader[i][v].pos + 1, data |-> ToEvent(content[v])]
             r == HandedOver(reader[i][v])
  <2>1. /\ reader[i][v] \in Reader /\ reader[i][v].pos < reader[i][v].upto
        /\ reader[i][v].pos \in Nat
    BY <1>t, <1>16, WinEventLogAssumption DEF OnEvent, TypeInv, Shape, Reader, Marks
  <2>2. r \in Reader /\ r.pos = reader[i][v].pos + 1 /\ r.pos \in Records
    BY <2>1, HandedTyped
  <2>3. e \in Event /\ e.rec = r.pos
    BY <2>2, ToEventTyped DEF TypeInv, TypeOK
  <2>4. /\ Becomes(i, v, r) /\ chain' = [chain EXCEPT ![v] = Append(@, e)]
        /\ UNCHANGED <<manager, input, queue, acks, live, staged, saved,
                       lastStates, delivered>>
    BY <1>16 DEF OnEvent, managerVars, registryVars
  <2>5. i = input /\ manager \in {"running", "reloading"}
    <3>1. reader[i][v].pc = "handing" /\ ~(i < input) /\ manager # "ended"
      BY <1>16 DEF OnEvent, Accepts, Ended
    <3>2. ~(i > input) /\ (manager = "down" <=> input = 0)
      BY <3>1 DEF TypeInv, Shape
    <3>3. manager \in {"down", "running", "reloading", "ended"}
      BY DEF TypeInv, TypeOK
    <3>4. i = input /\ input # 0
      BY <1>t, <3>1, <3>2, WinEventLogAssumption DEF Inputs
    <3> QED BY <3>1, <3>2, <3>3, <3>4
  <2> HIDE DEF e, r
  <2>6. \A j \in Inputs, u \in Logs :
           reader'[j][u] = IF j = i /\ u = v THEN r ELSE reader[j][u]
    BY <1>t, <2>2, <2>4, OneReader
  <2>7. CASE v # w
    <3>1. reader'[input][w] = reader[input][w] /\ chain'[w] = chain[w]
      BY <1>t, <2>4, <2>5, <2>6, <2>7
    <3>2. Resumable(w)' \subseteq Resumable(w)
      BY <2>4 DEF Resumable
    <3> QED BY <1>0, <2>4, <2>5, <3>1, <3>2, KeptInOrder
  <2>8. CASE v = w
    <3>1. reader'[input'][w].pos = e.rec /\ chain'[w] = Append(chain[w], e)
      BY <1>t, <2>3, <2>4, <2>5, <2>6, <2>8
    <3>2. 1 .. e.rec - 1
            \subseteq DeliveredRecords(w) \cup Recs(queue[w]) \cup Recs(chain[w])
      BY <1>0, <2>1, <2>2, <2>3, <2>5, <2>8 DEF OrderedTo
    <3>3. /\ Follows(DeliveredRecords(w) \cup Recs(queue[w]), chain'[w])
          /\ Recs(chain'[w]) = Recs(chain[w]) \cup {e.rec}
      BY <1>0, <1>t, <2>3, <3>1, <3>2, FollowsAppend DEF OrderedTo
    <3>4. 1 .. e.rec \subseteq 1 .. (e.rec - 1) \cup {e.rec}
      BY <1>e, <2>3 DEF Records
    <3>5. /\ DeliveredRecords(w)' = DeliveredRecords(w)
          /\ Resumable(w)' = Resumable(w) /\ queue'[w] = queue[w]
      BY <2>4 DEF DeliveredRecords, Resumable
    <3>6. 1 .. reader'[input'][w].pos
            \subseteq DeliveredRecords(w)' \cup Recs(queue'[w]) \cup Recs(chain'[w])
      BY <3>1, <3>2, <3>3, <3>4, <3>5
    <3> QED BY <1>0, <3>3, <3>5, <3>6 DEF OrderedTo
  <2> QED BY <2>7, <2>8
<1>17. ASSUME NEW v \in Logs, Publish(v) PROVE OrderedTo(w)'
  <2>1. UNCHANGED <<manager, input, reader, acks, live, staged, saved, lastStates,
                    delivered>>
    BY <1>17 DEF Publish, managerVars, registryVars
  <2>2. CASE v # w
    <3>1. UNCHANGED <<queue[w], chain[w]>>
      BY <1>17, <1>t, <2>2 DEF Publish
    <3>2. Resumable(w)' \subseteq Resumable(w)
      BY <2>1 DEF Resumable
    <3> QED BY <1>0, <2>1, <3>1, <3>2, KeptInOrder
  <2>3. CASE v = w
    <3> DEFINE h == Head(chain[w])
    <3>1. /\ chain[w] # <<>> /\ chain'[w] = Tail(chain[w])
          /\ queue'[w] = Append(queue[w], h)
      BY <1>17, <1>t, <2>3 DEF Publish
    <3>2. h \in Event
      BY <1>t, <3>1, HeadTailProperties
    <3>3. /\ 1 .. h.rec - 1 \subseteq DeliveredRecords(w) \cup Recs(queue[w])
          /\ Follows(DeliveredRecords(w) \cup Recs(queue[w]) \cup {h.rec}, chain'[w])
          /\ Recs(chain[w]) = {h.rec} \cup Recs(chain'[w])
      <4>1. Follows(DeliveredRecords(w) \cup Recs(queue[w]), chain[w])
        BY <1>0 DEF OrderedTo
      <4>2. chain[w] \in Seq(Event) /\ chain[w] # <<>>
        BY <1>t, <3>1
      <4>3. /\ 1 .. Head(chain[w]).rec - 1 \subseteq DeliveredRecords(w) \cup Recs(queue[w])
            /\ Follows((DeliveredRecords(w) \cup Recs(queue[w])) \cup {Head(chain[w]).rec}, Tail(chain[w]))
            /\ Recs(chain[w]) = {Head(chain[w]).rec} \cup Recs(Tail(chain[w]))
        BY <4>1, <4>2, FollowsTail
      <4> QED BY <3>1, <4>3
    <3> HIDE DEF h
    <3>4. /\ Follows(DeliveredRecords(w), queue'[w])
          /\ Recs(queue'[w]) = Recs(queue[w]) \cup {h.rec}
      BY <1>0, <1>t, <3>1, <3>2, <3>3, FollowsAppend DEF OrderedTo
    <3>5. DeliveredRecords(w)' = DeliveredRecords(w) /\ Resumable(w)' = Resumable(w)
      BY <2>1 DEF DeliveredRecords, Resumable
    <3>6. Follows(DeliveredRecords(w) \cup Recs(queue'[w]), chain'[w])
      BY <3>3, <3>4, FollowsMore
    <3> QED BY <1>0, <2>1, <3>3, <3>4, <3>5, <3>6 DEF OrderedTo
  <2> QED BY <2>2, <2>3
<1>18. ASSUME NEW v \in Logs, Deliver(v) PROVE OrderedTo(w)'
  <2>1. UNCHANGED <<manager, input, reader, chain, live, staged, saved, lastStates>>
    BY <1>18 DEF Deliver, managerVars, registryVars
  <2>2. CASE v # w
    <3>1. UNCHANGED <<queue[w], delivered[w], acks[w]>>
      BY <1>18, <1>t, <2>2 DEF Deliver
    <3>2. Resumable(w)' \subseteq Resumable(w)
      BY <2>1, <3>1 DEF Resumable
    <3> QED BY <1>0, <2>1, <3>1, <3>2, KeptInOrder
  <2>3. CASE v = w
    <3> DEFINE h == Head(queue[w])
               D == DeliveredRecords(w)
    <3>1. /\ queue[w] # <<>> /\ queue'[w] = Tail(queue[w])
          /\ delivered'[w] = delivered[w] \cup {h} /\ acks'[w] = h.rec
      BY <1>18, <1>t, <2>3 DEF Deliver
    <3>2. h \in Event /\ h.rec \in Records
      BY <1>e, <1>t, <3>1, HeadTailProperties
    <3>3. DeliveredRecords(w)' = D \cup {h.rec}
      BY <3>1 DEF DeliveredRecords
    <3>4. /\ 1 .. h.rec - 1 \subseteq D
          /\ Follows(D \cup {h.rec}, queue'[w])
          /\ Recs(queue[w]) = {h.rec} \cup Recs(queue'[w])
      <4>1. Follows(D, queue[w])
        BY <1>0 DEF OrderedTo
      <4>2. queue[w] \in Seq(Event) /\ queue[w] # <<>>
        BY <1>t, <3>1
      <4>3. /\ 1 .. Head(queue[w]).rec - 1 \subseteq D
            /\ Follows((D) \cup {Head(queue[w]).rec}, Tail(queue[w]))
            /\ Recs(queue[w]) = {Head(queue[w]).rec} \cup Recs(Tail(queue[w]))
        BY <4>1, <4>2, FollowsTail
      <4> QED BY <3>1, <4>3
    <3>5. Resumable(w)' \subseteq Resumable(w) \cup {h.rec}
      BY <2>1, <3>1 DEF Resumable
    <3> HIDE DEF h
    <3>6. 1 .. h.rec \subseteq D \cup {h.rec}
      BY <3>2, <3>4 DEF Records
    <3>7. Follows(DeliveredRecords(w)' \cup Recs(queue'[w]), chain'[w])
      <4>1. DeliveredRecords(w)' \cup Recs(queue'[w]) = D \cup Recs(queue[w])
        BY <3>3, <3>4
      <4> QED BY <1>0, <2>1, <4>1 DEF OrderedTo
    <3>8. \A r \in DeliveredRecords(w)' : 1 .. r \subseteq DeliveredRecords(w)'
      BY <1>0, <3>3, <3>6 DEF OrderedTo
    <3>9. \A m \in Resumable(w)' : 1 .. m \subseteq DeliveredRecords(w)'
      BY <1>0, <3>3, <3>5, <3>6 DEF OrderedTo
    <3>10. manager' \in {"running", "reloading"} =>
              1 .. reader'[input'][w].pos
                \subseteq DeliveredRecords(w)' \cup Recs(queue'[w]) \cup Recs(chain'[w])
      BY <1>0, <2>1, <3>3, <3>4 DEF OrderedTo
    <3> QED BY <3>3, <3>4, <3>7, <3>8, <3>9, <3>10 DEF OrderedTo
  <2> QED BY <2>2, <2>3
<1>19. ASSUME NEW v \in Logs, OnEvents(v) PROVE OrderedTo(w)'
  <2>1. /\ UNCHANGED <<manager, input, reader, chain, queue, staged, saved,
                       lastStates, delivered>>
        /\ live'[w] \in {live[w], acks[w]} /\ acks'[w] \in {acks[w], None}
        /\ live'[w] = acks[w] => acks[w] # None \/ live[w] = None
    BY <1>19, <1>t DEF OnEvents, managerVars
  <2>2. Resumable(w)' \subseteq Resumable(w)
    BY <2>1 DEF Resumable
  <2> QED BY <1>0, <2>1, <2>2, KeptInOrder
<1>20. CASE UNCHANGED vars
  BY <1>8, <1>20 DEF vars, managerVars, pipeVars, registryVars
<1> QED
  BY <1>1, <1>2, <1>3, <1>4, <1>5, <1>6, <1>7, <1>9, <1>10, <1>12, <1>13, <1>14,
     <1>15, <1>16, <1>17, <1>18, <1>19, <1>20 DEF Next

LEMMA OrderInit == Init => OrderInv
<1> SUFFICES ASSUME Init, NEW w \in Logs PROVE OrderedTo(w)
  BY DEF OrderInv
<1>1. DeliveredRecords(w) = {} /\ queue[w] = <<>> /\ chain[w] = <<>>
      /\ Resumable(w) = {} /\ manager = "down"
  BY DEF Init, DeliveredRecords, EmptySeqs, Resumable, Store!Blank
<1> QED BY <1>1, FollowsNothing DEF OrderedTo

\* Whatever crashes, reloads and read errors there are, and although readers
\* of ended inputs go on, records are delivered in the order of the log.
THEOREM WinDeliveredInOrder == Spec => []DeliveredInOrder
<1> DEFINE IInv == TypeInv /\ OrderInv
<1>1. Init => IInv
  BY TypeInit, OrderInit
<1>2. IInv /\ [Next]_vars => IInv'
  BY TypeStep, OrderStep
<1>3. IInv => DeliveredInOrder
  BY DEF OrderInv, OrderedTo, DeliveredInOrder
<1> QED BY <1>1, <1>2, <1>3, PTL DEF Spec

-----------------------------------------------------------------------------
(* The refinement: a step either delivers and leaves every mark where it   *)
(* is, or it moves marks, and then they are behind what is delivered.      *)

Collected   == [w \in Logs |-> DeliveredRecords(w)]
ResumeMarks == [w \in Logs |-> {live[w], staged[w], saved[w], lastStates[w]} \ {None}]

LEMMA Marking ==
    ASSUME TypeInv', OrderInv', UNCHANGED delivered
    PROVE  Promise!Mark
<1>1. Collected' = Collected
  BY DEF Collected, DeliveredRecords
<1>2. ResumeMarks' \in [Logs -> SUBSET (0 .. MaxRecord)]
  BY DEF ResumeMarks, TypeInv, TypeOK, Marks
<1>3. ASSUME NEW w \in Logs, NEW m \in ResumeMarks'[w], NEW p \in Records, p <= m
      PROVE  p \in Collected[w]
  <2>1. m \in Resumable(w)' /\ m \in Nat
    BY <1>2, <1>3 DEF ResumeMarks, Resumable
  <2>2. 1 .. m \subseteq DeliveredRecords(w)'
    BY <2>1 DEF OrderInv, OrderedTo
  <2> QED BY <1>1, <1>3, <2>1, <2>2 DEF Collected, Records
<1> QED
  BY <1>1, <1>2, <1>3 DEF Promise!Mark, Promise!Covered, Collected, ResumeMarks

LEMMA Delivering ==
    ASSUME TypeInv, TypeInv', NEW v \in Logs, Deliver(v)
    PROVE  Promise!Deliver
<1>1. ResumeMarks' = ResumeMarks
  BY DEF Deliver, ResumeMarks, registryVars
<1>2. Collected' \in [Logs -> SUBSET (1 .. MaxRecord)]
  BY DEF Collected, DeliveredRecords, TypeInv, TypeOK, Event, Records
<1>3. \A w \in Logs : Collected[w] \subseteq Collected'[w]
  BY DEF Deliver, Collected, DeliveredRecords, TypeInv, TypeOK
<1> QED BY <1>1, <1>2, <1>3 DEF Promise!Deliver, Collected, ResumeMarks

LEMMA WinStepCollects ==
    ASSUME TypeInv, OrderInv, [Next]_vars
    PROVE  [Promise!CNext]_Promise!cvars
<1>1. TypeInv' /\ OrderInv'
  BY TypeStep, OrderStep
<1>2. CASE \E v \in Logs : Deliver(v)
  BY <1>1, <1>2, Delivering DEF Promise!CNext
<1>3. CASE ~\E v \in Logs : Deliver(v)
  <2>1. UNCHANGED delivered
    BY <1>3 DEF Next, vars, Run, StartTask, Crash, Reload, RemoveTask, Flush, Sync,
       Write, Publish, OnEvents, StopReturns, Open, Read, Fails, OnEvent,
       OnEventRefused
  <2> QED BY <1>1, <2>1, Marking DEF Promise!CNext
<1> QED BY <1>2, <1>3

\* The event log input, its chain, the publisher and the registry keep what
\* Collection promises: no restart and no reload resumes behind a record that
\* has not been delivered.
THEOREM WinCollectsAll == Spec => CollectsAll
<1> DEFINE IInv == TypeInv /\ OrderInv
<1>1. Init => Promise!CInit
  BY DEF Init, Promise!CInit, DeliveredRecords, Store!Blank
<1>2. Init => IInv
  BY TypeInit, OrderInit
<1>3. IInv /\ [Next]_vars => IInv'
  BY TypeStep, OrderStep
<1>4. IInv /\ [Next]_vars => [Promise!CNext]_Promise!cvars
  BY WinStepCollects
<1> QED BY <1>1, <1>2, <1>3, <1>4, PTL DEF Spec, CollectsAll, Promise!CSpec
-----------------------------------------------------------------------------
(* The fields of an event: the loop of addPairs, turn by turn.             *)

\* The defining equation of a loop of n turns.
Loop(h, pairs, n) ==
    h = [i \in 0 .. n |-> IF i = 0 THEN NoFields ELSE AddPair(h[i - 1], pairs, i)]

\* There is a function with that equation; otherwise there were a smallest
\* number of turns for which there is none.
LEMMA LoopExists ==
    ASSUME NEW pairs, NEW n \in Nat
    PROVE  \E h : Loop(h, pairs, n)
<1> DEFINE Without == {m \in Nat : ~\E h : Loop(h, pairs, m)}
<1>1. SUFFICES ASSUME Without # {} PROVE FALSE
  OBVIOUS
<1>2. PICK m \in Without : \A k \in Without : ~(<<k, m>> \in OpToRel(<, Nat))
  <2>1. Without \subseteq Nat
    OBVIOUS
  <2> HIDE DEF Without
  <2> QED BY <1>1, <2>1, NatLessThanWellFounded, WFMin
<1>3. m # 0
  <2>1. Loop([i \in 0 .. 0 |-> NoFields], pairs, 0)
    BY DEF Loop
  <2> QED BY <2>1
<1>4. m - 1 \in Nat /\ m - 1 \notin Without
  <2>1. Without \subseteq Nat
    OBVIOUS
  <2> HIDE DEF Without
  <2>2. m \in Nat /\ m - 1 \in Nat /\ m - 1 < m
    <3>1. m \in Nat
      BY <1>2, <2>1
    <3> QED BY <1>3, <3>1
  <2>3. m - 1 \in Without => ~(m - 1 < m)
    BY <1>2, <2>2 DEF OpToRel
  <2> QED BY <2>2, <2>3
<1>5. PICK h : Loop(h, pairs, m - 1)
  BY <1>4
<1> DEFINE g == [i \in 0 .. m |-> IF i = m THEN AddPair(h[m - 1], pairs, m) ELSE h[i]]
<1>6. ASSUME NEW i \in 0 .. m
      PROVE  g[i] = IF i = 0 THEN NoFields ELSE AddPair(g[i - 1], pairs, i)
  <2>1. \A j \in 0 .. m - 1 : h[j] = IF j = 0 THEN NoFields ELSE AddPair(h[j - 1], pairs, j)
    BY <1>5 DEF Loop
  <2>2. CASE i = m
    <3>1. m - 1 \in 0 .. m /\ m - 1 # m
      BY <1>3, <1>4
    <3>2. g[m - 1] = h[m - 1] /\ g[m] = AddPair(h[m - 1], pairs, m)
      BY <3>1
    <3> QED BY <1>3, <2>2, <3>2
  <2>3. CASE i # m /\ i # 0
    <3>1. i \in 0 .. m - 1 /\ i - 1 \in 0 .. m /\ i - 1 # m
      BY <2>3
    <3>2. g[i] = h[i] /\ g[i - 1] = h[i - 1]
      BY <2>3, <3>1
    <3> QED BY <2>1, <2>3, <3>1, <3>2
  <2>4. CASE i = 0
    BY <1>3, <1>4, <2>1, <2>4
  <2> QED BY <2>2, <2>3, <2>4
<1>7. Loop(g, pairs, m)
  <2> HIDE DEF g
  <2>1. g = [i \in 0 .. m |-> g[i]]
    BY DEF g
  <2> QED BY <1>6, <2>1 DEF Loop
<1> QED BY <1>2, <1>7

LEMMA AddedTurns ==
    ASSUME NEW pairs \in Seq(Pair)
    PROVE  /\ Added(pairs)[0] = NoFields
           /\ \A i \in 1 .. Len(pairs) :
                 Added(pairs)[i] = AddPair(Added(pairs)[i - 1], pairs, i)
<1>1. Len(pairs) \in Nat
  OBVIOUS
<1>2. Added(pairs) = CHOOSE h : Loop(h, pairs, Len(pairs))
  BY DEF Added, Loop
<1>3. Loop(Added(pairs), pairs, Len(pairs))
  BY <1>1, <1>2, LoopExists
<1> QED BY <1>1, <1>3 DEF Loop

\* After n turns the map has the first non-empty value of each name so far.
Filled(pairs, n) == {i \in 1 .. n : pairs[i].value # Empty}

FirstSoFar(h, pairs, n) ==
    /\ h \in MapStr(pairs)
    /\ DOMAIN h = {NameOf(pairs, i) : i \in Filled(pairs, n)}
    /\ \A i \in Filled(pairs, n) :
          (\A j \in Filled(pairs, n) : NameOf(pairs, j) = NameOf(pairs, i) => i <= j)
             => h[NameOf(pairs, i)] = pairs[i].value

LEMMA OneTurn ==
    ASSUME NEW pairs \in Seq(Pair), NEW n \in 1 .. Len(pairs), NEW h,
           FirstSoFar(h, pairs, n - 1)
    PROVE  FirstSoFar(AddPair(h, pairs, n), pairs, n)
<1> DEFINE name == NameOf(pairs, n)
           old  == Filled(pairs, n - 1)
           all  == Filled(pairs, n)
<1>1. /\ n \in DOMAIN pairs /\ n \in Nat /\ pairs[n] \in Pair
      /\ \A i \in old : i \in Nat /\ i < n /\ i \in 1 .. n
  BY DEF Filled
<1>2. CASE pairs[n].value = Empty
  <2>1. all = old
    BY <1>1, <1>2 DEF Filled
  <2> QED BY <1>2, <2>1 DEF FirstSoFar, AddPair
<1>3. CASE pairs[n].value # Empty
  <2>1. all = old \cup {n} /\ n \notin old
    BY <1>1, <1>3 DEF Filled
  <2>2. CASE name \in DOMAIN h
    <3>1. AddPair(h, pairs, n) = h
      BY <2>2 DEF AddPair
    <3>2. PICK k \in old : NameOf(pairs, k) = name
      BY <2>2 DEF FirstSoFar
    <3>3. {NameOf(pairs, i) : i \in all} = {NameOf(pairs, i) : i \in old}
      BY <2>1, <3>2
    <3>4. ASSUME NEW i \in all,
                 \A j \in all : NameOf(pairs, j) = NameOf(pairs, i) => i <= j
          PROVE  h[NameOf(pairs, i)] = pairs[i].value
      <4>1. i # n
        BY <1>1, <2>1, <3>2, <3>4
      <4> QED BY <2>1, <3>4, <4>1 DEF FirstSoFar
    <3> QED BY <3>1, <3>3, <3>4 DEF FirstSoFar
  <2>3. CASE name \notin DOMAIN h
    <3> DEFINE g == With(h, name, pairs[n].value)
    <3>1. AddPair(h, pairs, n) = g
      BY <1>3, <2>3 DEF AddPair
    <3>2. /\ DOMAIN g = DOMAIN h \cup {name} /\ g[name] = pairs[n].value
          /\ \A m \in DOMAIN h : g[m] = h[m]
      BY <2>3 DEF With
    <3>3. g \in MapStr(pairs)
      <4> DEFINE names == {NameOf(pairs, i) : i \in DOMAIN pairs} \cup {XmlName}
      <4>1. PICK F \in SUBSET names : h \in [F -> Values]
        BY DEF FirstSoFar, MapStr
      <4>2. /\ F \cup {name} \in SUBSET names
            /\ DOMAIN h = F /\ pairs[n].value \in Values
        BY <1>1, <4>1 DEF Pair
      <4>3. g \in [F \cup {name} -> Values]
        BY <4>1, <4>2 DEF With
      <4> QED BY <4>2, <4>3 DEF MapStr
    <3>4. DOMAIN g = {NameOf(pairs, i) : i \in all}
      BY <2>1, <3>2 DEF FirstSoFar
    <3>5. ASSUME NEW i \in all,
                 \A j \in all : NameOf(pairs, j) = NameOf(pairs, i) => i <= j
          PROVE  g[NameOf(pairs, i)] = pairs[i].value
      <4>1. CASE i = n
        BY <3>2, <4>1
      <4>2. CASE i \in old
        <5>1. NameOf(pairs, i) \in DOMAIN h
          BY <4>2 DEF FirstSoFar
        <5>2. h[NameOf(pairs, i)] = pairs[i].value
          BY <2>1, <3>5, <4>2 DEF FirstSoFar
        <5> QED BY <3>2, <5>1, <5>2
      <4> QED BY <2>1, <4>1, <4>2
    <3> HIDE DEF g
    <3> QED BY <3>1, <3>3, <3>4, <3>5 DEF FirstSoFar
  <2> QED BY <2>2, <2>3
<1> QED BY <1>2, <1>3

\* What holds after no turn and is kept by each holds after all of them.
LEMMA AllTurns ==
    ASSUME NEW pairs \in Seq(Pair)
    PROVE  FirstSoFar(Added(pairs)[Len(pairs)], pairs, Len(pairs))
<1> DEFINE Bad == {n \in 0 .. Len(pairs) : ~FirstSoFar(Added(pairs)[n], pairs, n)}
<1>1. SUFFICES ASSUME Bad # {} PROVE FALSE
  OBVIOUS
<1>2. Bad \subseteq Nat
  OBVIOUS
<1>3. PICK n \in Bad : \A k \in Bad : ~(<<k, n>> \in OpToRel(<, Nat))
  <2> HIDE DEF Bad
  <2> QED BY <1>1, <1>2, NatLessThanWellFounded, WFMin
<1>4. n # 0
  <2>1. Filled(pairs, 0) = {}
    BY DEF Filled
  <2>2. NoFields \in MapStr(pairs)
    <3>1. NoFields \in [{} -> Values]
      BY DEF NoFields
    <3> QED BY <3>1 DEF MapStr
  <2>3. FirstSoFar(Added(pairs)[0], pairs, 0)
    BY <2>1, <2>2, AddedTurns DEF FirstSoFar, NoFields
  <2> QED BY <2>3
<1>5. n \in 1 .. Len(pairs) /\ n - 1 \in 0 .. Len(pairs) /\ n - 1 < n /\ n - 1 \in Nat
  <2>1. n \in 0 .. Len(pairs) /\ Len(pairs) \in Nat
    OBVIOUS
  <2> QED BY <1>4, <2>1
<1>6. n - 1 \notin Bad
  <2> HIDE DEF Bad
  <2>1. n - 1 \in Bad => ~(n - 1 < n)
    BY <1>2, <1>3, <1>5 DEF OpToRel
  <2> QED BY <1>5, <2>1
<1>7. FirstSoFar(Added(pairs)[n - 1], pairs, n - 1)
  BY <1>5, <1>6
<1>8. FirstSoFar(Added(pairs)[n], pairs, n)
  BY <1>5, <1>7, OneTurn, AddedTurns
<1> QED BY <1>3, <1>8

\* What the pairs of either kind become is the first of each name.
LEMMA AddPairsIsFirst ==
    ASSUME NEW pairs \in Seq(Pair), Absent \notin MapStr(pairs), pairs # <<>>
    PROVE  /\ LeftOut(AddPairs(pairs), pairs)
           /\ AddPairs(pairs) # Absent =>
                 /\ IsFirstOfEach(AddPairs(pairs), pairs, {})
                 /\ AddPairs(pairs) \in MapStr(pairs)
<1> DEFINE h == Added(pairs)[Len(pairs)]
<1>1. FirstSoFar(h, pairs, Len(pairs)) /\ DOMAIN pairs = 1 .. Len(pairs)
  BY AllTurns
<1>2. AddPairs(pairs) = IF DOMAIN h = {} THEN Absent ELSE h
  BY DEF AddPairs
<1>3. h # Absent
  BY <1>1 DEF FirstSoFar
<1> HIDE DEF h
<1>4. DOMAIN h = {} <=> \A i \in DOMAIN pairs : pairs[i].value = Empty
  <2>1. DOMAIN h = {} <=> Filled(pairs, Len(pairs)) = {}
    BY <1>1 DEF FirstSoFar
  <2> QED BY <1>1, <2>1 DEF Filled
<1>5. LeftOut(AddPairs(pairs), pairs)
  BY <1>2, <1>3, <1>4 DEF LeftOut
<1>6. IsFirstOfEach(h, pairs, {}) /\ h \in MapStr(pairs)
  BY <1>1 DEF FirstSoFar, Filled, IsFirstOfEach
<1> QED BY <1>2, <1>5, <1>6

\* So is what is made of no pairs.
LEMMA NoFieldsIsFirst ==
    ASSUME Absent \notin MapStr(<<>>)
    PROVE  LeftOut(NoFields, <<>>) /\ IsFirstOfEach(NoFields, <<>>, {})
<1>1. NoFields \in [{} -> Values]
  BY DEF NoFields
<1>2. NoFields \in MapStr(<<>>)
  BY <1>1 DEF MapStr
<1> QED BY <1>2 DEF LeftOut, IsFirstOfEach, NoFields

\* Adding a field that pairs do not decide keeps what they do decide.
LEMMA XmlNameAdded ==
    ASSUME NEW pairs \in Seq(Pair), Absent \notin MapStr(pairs),
           NEW h \in MapStr(pairs), NEW local \in Values,
           IsFirstOfEach(h, pairs, {})
    PROVE  LET g == With(h, XmlName, local)
           IN  /\ g # Absent /\ g[XmlName] = local
               /\ IsFirstOfEach(g, pairs, {XmlName})
<1> DEFINE g == With(h, XmlName, local)
           names == {NameOf(pairs, i) : i \in DOMAIN pairs} \cup {XmlName}
<1>1. PICK F \in SUBSET names : h \in [F -> Values]
  BY DEF MapStr
<1>2. g \in [F \cup {XmlName} -> Values] /\ F \cup {XmlName} \in SUBSET names
  BY <1>1 DEF With
<1>3. g \in MapStr(pairs)
  <2> HIDE DEF g
  <2> QED BY <1>2 DEF MapStr
<1>4. /\ DOMAIN g = DOMAIN h \cup {XmlName} /\ g[XmlName] = local
      /\ \A n \in DOMAIN h : n # XmlName => g[n] = h[n]
  BY DEF With
<1> HIDE DEF g
<1>5. IsFirstOfEach(g, pairs, {XmlName})
  BY <1>4 DEF IsFirstOfEach
<1> QED BY <1>3, <1>4, <1>5 DEF g

\* The fields made of a record are the first of each name, and the local name.
LEMMA ToEventIsFirst ==
    ASSUME NEW c \in Contents
    PROVE  FieldsOf(ToEvent(c), c)
<1> DEFINE f == ToEvent(c)
           extra == IF c.user = <<>> \/ c.local = Empty THEN {} ELSE {XmlName}
<1>1. /\ c.event \in Seq(Pair) /\ c.user \in Seq(Pair) /\ c.local \in Values
      /\ Absent \notin MapStr(c.event) /\ Absent \notin MapStr(c.user)
  BY WinEventLogAssumption DEF Content
<1>2. /\ f.event = DataOf(c.event)
      /\ f.user = IF c.user = <<>> THEN NoFields
                  ELSE AddXmlName(AddPairs(c.user), c.local)
  BY DEF ToEvent
<1> HIDE DEF f
<1>3. /\ LeftOut(f.event, c.event)
      /\ f.event # Absent => IsFirstOfEach(f.event, c.event, {})
  <2>1. CASE c.event = <<>>
    BY <1>1, <1>2, <2>1, NoFieldsIsFirst DEF DataOf
  <2>2. CASE c.event # <<>>
    BY <1>1, <1>2, <2>2, AddPairsIsFirst DEF DataOf
  <2> QED BY <2>1, <2>2
<1>4. /\ LeftOut(f.user, c.user)
      /\ f.user # Absent => /\ IsFirstOfEach(f.user, c.user, extra)
                            /\ \A n \in extra : f.user[n] = c.local
  <2>1. CASE c.user = <<>>
    BY <1>1, <1>2, <2>1, NoFieldsIsFirst
  <2>2. CASE c.user # <<>> /\ (AddPairs(c.user) = Absent \/ c.local = Empty)
    <3>1. f.user = AddPairs(c.user)
      BY <1>2, <2>2 DEF AddXmlName
    <3>2. f.user # Absent => extra = {}
      BY <2>2, <3>1
    <3>3. LeftOut(f.user, c.user) /\ (f.user # Absent => IsFirstOfEach(f.user, c.user, {}))
      BY <1>1, <2>2, <3>1, AddPairsIsFirst
    <3> QED BY <3>2, <3>3
  <2>3. CASE c.user # <<>> /\ AddPairs(c.user) # Absent /\ c.local # Empty
    <3>1. f.user = With(AddPairs(c.user), XmlName, c.local) /\ extra = {XmlName}
      BY <1>2, <2>3 DEF AddXmlName
    <3>2. /\ LeftOut(AddPairs(c.user), c.user)
          /\ IsFirstOfEach(AddPairs(c.user), c.user, {})
          /\ AddPairs(c.user) \in MapStr(c.user)
      BY <1>1, <2>3, AddPairsIsFirst
    <3>3. /\ f.user # Absent /\ f.user[XmlName] = c.local
          /\ IsFirstOfEach(f.user, c.user, {XmlName})
      <4>1. c.user \in Seq(Pair) /\ c.local \in Values /\ Absent \notin MapStr(c.user)
        BY <1>1
      <4> QED BY ONLY <4>1, <3>1, <3>2, XmlNameAdded
    <3> QED BY <2>3, <3>1, <3>2, <3>3 DEF LeftOut
  <2> QED BY <2>1, <2>2, <2>3
<1> QED BY <1>3, <1>4 DEF FieldsOf, f

\* Wherever an event is, its fields are those of what the records of its log have.
FieldsInv ==
    \A w \in Logs :
       /\ \A i \in 1 .. Len(chain[w]) : chain[w][i].data = ToEvent(content[w])
       /\ \A i \in 1 .. Len(queue[w]) : queue[w][i].data = ToEvent(content[w])
       /\ \A e \in delivered[w] : e.data = ToEvent(content[w])

LEMMA FieldsInit == Init => FieldsInv
BY DEF Init, FieldsInv, EmptySeqs

LEMMA FieldsStep ==
    ASSUME TypeInv, FieldsInv, [Next]_vars
    PROVE  FieldsInv'
<1>1. \A w \in Logs : chain[w] \in Seq(Event) /\ queue[w] \in Seq(Event)
  BY DEF TypeInv, TypeOK
<1>2. chain \in [Logs -> Seq(Event)] /\ queue \in [Logs -> Seq(Event)]
      /\ delivered \in [Logs -> SUBSET Event]
  BY DEF TypeInv, TypeOK
<1>3. ASSUME NEW v \in Logs, Publish(v) PROVE FieldsInv'
  <2>1. /\ Head(chain[v]) = chain[v][1] /\ 1 \in 1 .. Len(chain[v])
        /\ chain'[v] = Tail(chain[v]) /\ queue'[v] = Append(queue[v], Head(chain[v]))
        /\ \A w \in Logs \ {v} : chain'[w] = chain[w] /\ queue'[w] = queue[w]
        /\ content' = content /\ delivered' = delivered
    BY <1>1, <1>2, <1>3 DEF Publish, logVars
  <2>2. \A i \in 1 .. Len(chain'[v]) : chain'[v][i].data = ToEvent(content[v])
    <3> TAKE i \in 1 .. Len(chain'[v])
    <3>1. i + 1 \in 1 .. Len(chain[v]) /\ Tail(chain[v])[i] = chain[v][i + 1]
      BY <1>1, <2>1, HeadTailProperties
    <3> QED BY <2>1, <3>1 DEF FieldsInv
  <2>3. \A i \in 1 .. Len(queue'[v]) : queue'[v][i].data = ToEvent(content[v])
    <3> TAKE i \in 1 .. Len(queue'[v])
    <3>1. chain[v][1] \in Event
      BY <1>1, <2>1
    <3>2. \/ i \in 1 .. Len(queue[v]) /\ queue'[v][i] = queue[v][i]
          \/ queue'[v][i] = chain[v][1]
      BY <1>1, <2>1, <3>1, AppendProperties
    <3> QED BY <2>1, <3>2 DEF FieldsInv
  <2>4. \A w \in Logs : \A e \in delivered'[w] : e.data = ToEvent(content'[w])
    BY <2>1 DEF FieldsInv
  <2>5. ASSUME NEW w \in Logs \ {v}
        PROVE  /\ \A i \in 1 .. Len(chain'[w]) : chain'[w][i].data = ToEvent(content'[w])
               /\ \A i \in 1 .. Len(queue'[w]) : queue'[w][i].data = ToEvent(content'[w])
    BY <2>1 DEF FieldsInv
  <2> QED BY <2>1, <2>2, <2>3, <2>4, <2>5 DEF FieldsInv
<1>4. ASSUME NEW v \in Logs, Deliver(v) PROVE FieldsInv'
  <2>1. /\ Head(queue[v]) = queue[v][1] /\ 1 \in 1 .. Len(queue[v])
        /\ queue'[v] = Tail(queue[v]) /\ delivered'[v] = delivered[v] \cup {Head(queue[v])}
        /\ \A w \in Logs \ {v} : queue'[w] = queue[w] /\ delivered'[w] = delivered[w]
        /\ content' = content /\ chain' = chain
    BY <1>1, <1>2, <1>4 DEF Deliver, logVars
  <2>2. \A i \in 1 .. Len(queue'[v]) : queue'[v][i].data = ToEvent(content[v])
    <3> TAKE i \in 1 .. Len(queue'[v])
    <3>1. i + 1 \in 1 .. Len(queue[v]) /\ Tail(queue[v])[i] = queue[v][i + 1]
      BY <1>1, <2>1, HeadTailProperties
    <3> QED BY <2>1, <3>1 DEF FieldsInv
  <2>3. \A e \in delivered'[v] : e.data = ToEvent(content[v])
    BY <2>1 DEF FieldsInv
  <2>4. ASSUME NEW w \in Logs \ {v}
        PROVE  /\ \A j \in 1 .. Len(queue'[w]) : queue'[w][j].data = ToEvent(content[w])
               /\ \A e \in delivered'[w] : e.data = ToEvent(content[w])
    BY <2>1 DEF FieldsInv
  <2> QED BY <2>1, <2>2, <2>3, <2>4 DEF FieldsInv
<1>5. ASSUME NEW i \in Inputs, NEW v \in Logs, OnEvent(i, v) PROVE FieldsInv'
  <2> DEFINE e == [rec |-> reader[i][v].pos + 1, data |-> ToEvent(content[v])]
  <2>1. /\ chain'[v] = Append(chain[v], e)
        /\ \A w \in Logs \ {v} : chain'[w] = chain[w]
        /\ content' = content /\ queue' = queue /\ delivered' = delivered
    BY <1>2, <1>5 DEF OnEvent, logVars
  <2>2. \A j \in 1 .. Len(chain'[v]) : chain'[v][j].data = ToEvent(content[v])
    <3> TAKE j \in 1 .. Len(chain'[v])
    <3> HIDE DEF e
    <3>1. \/ j \in 1 .. Len(chain[v]) /\ chain'[v][j] = chain[v][j]
          \/ chain'[v][j] = e
      BY <1>1, <2>1, AppendProperties
    <3>2. e.data = ToEvent(content[v])
      BY DEF e
    <3> QED BY <3>1, <3>2 DEF FieldsInv
  <2> QED BY <2>1, <2>2 DEF FieldsInv
<1>6. CASE UNCHANGED <<content, chain, queue, delivered>>
  BY <1>6 DEF FieldsInv
<1>7. CASE Crash
  BY <1>7 DEF Crash, logVars, EmptySeqs, FieldsInv
<1>8. CASE RemoveTask
  BY <1>8 DEF RemoveTask, logVars, EmptySeqs, FieldsInv
<1> QED
  BY <1>3, <1>4, <1>5, <1>6, <1>7, <1>8
  DEF Next, vars, logVars, pipeVars, Run, StartTask, Reload, Flush, Sync, Write,
      OnEvents, StopReturns, Open, Read, Fails, OnEventRefused

\* Every event that is delivered carries, under each name, the first non-empty
\* value its record has for it (addPairs), and its user data the local name of
\* the record (addOptional).
THEOREM WinFieldsAreFirst == Spec => []FieldsAreFirstOfEach
<1>1. TypeInv /\ FieldsInv => FieldsAreFirstOfEach
  BY ToEventIsFirst DEF TypeInv, TypeOK, FieldsInv, FieldsAreFirstOfEach
<1>2. Init => TypeInv /\ FieldsInv
  BY TypeInit, FieldsInit
<1>3. TypeInv /\ FieldsInv /\ [Next]_vars => TypeInv' /\ FieldsInv'
  BY TypeStep, FieldsStep
<1> QED BY <1>1, <1>2, <1>3, PTL DEF Spec
=============================================================================
