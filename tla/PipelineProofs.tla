--------------------------- MODULE PipelineProofs ---------------------------
(***************************************************************************)
(* Theorems about the tree of nodes, for every tree, any tasks, failures   *)
(* and interleavings with the goroutines of the nodes: its type, that the  *)
(* tasks the manager knows are linked, and that nothing else is left.      *)
(***************************************************************************)
EXTENDS Pipeline, SequenceTheorems, TLAPS

-----------------------------------------------------------------------------
(* The tree.                                                               *)

Chain(c) == {c} \cup Above[c]

LeadsUp(c, S) == \A m \in {c} \cup S : Parent[m] \in S \cup {None}

LEMMA AboveDef ==
    ASSUME NEW c \in All, NEW n
    PROVE  n \in Above[c] <=> n \in Nodes /\ \A S \in SUBSET Nodes : LeadsUp(c, S) => n \in S
BY DEF Above, LeadsUp

LEMMA AboveLeadsUp ==
    ASSUME NEW c \in All
    PROVE  Above[c] \subseteq Nodes /\ LeadsUp(c, Above[c])
<1>1. Above[c] \subseteq Nodes
  BY AboveDef
<1>2. ASSUME NEW m \in {c} \cup Above[c], Parent[m] # None PROVE Parent[m] \in Above[c]
  <2>1. Parent[m] \in Nodes
    BY <1>1, <1>2, PipelineAssumption DEF All
  <2>2. ASSUME NEW S \in SUBSET Nodes, LeadsUp(c, S) PROVE Parent[m] \in S
    <3>1. m \in {c} \cup S
      BY <1>2, <2>2, AboveDef
    <3> QED BY <1>2, <2>2, <3>1 DEF LeadsUp
  <2> QED BY <2>1, <2>2, AboveDef
<1> QED BY <1>1, <1>2 DEF LeadsUp

LEMMA AboveAbove ==
    ASSUME NEW c \in All, NEW m \in Above[c]
    PROVE  Above[m] \subseteq Above[c]
<1>1. m \in All
  BY AboveLeadsUp DEF All
<1> SUFFICES ASSUME NEW n \in Above[m] PROVE n \in Above[c]
  OBVIOUS
<1>2. ASSUME NEW S \in SUBSET Nodes, LeadsUp(c, S) PROVE n \in S
  <2>1. m \in S
    BY <1>2, AboveDef
  <2>2. LeadsUp(m, S)
    BY <1>2, <2>1 DEF LeadsUp
  <2> QED BY <1>1, <2>2, AboveDef
<1> QED BY <1>1, <1>2, AboveDef

\* What is above c are its parent and what is above that.
LEMMA AboveStep ==
    ASSUME NEW c \in All
    PROVE  /\ Parent[c] = None => Above[c] = {}
           /\ Parent[c] # None => /\ Parent[c] \in Nodes /\ Parent[c] \in All
                                  /\ Above[c] = Chain(Parent[c])
<1>1. ASSUME Parent[c] = None PROVE Above[c] = {}
  <2>1. LeadsUp(c, {})
    BY <1>1 DEF LeadsUp
  <2> QED BY <2>1, AboveDef
<1>2. ASSUME Parent[c] # None
      PROVE  /\ Parent[c] \in Nodes /\ Parent[c] \in All /\ Above[c] = Chain(Parent[c])
  <2> DEFINE p == Parent[c]
  <2>1. p \in Nodes /\ p \in All /\ p \in Above[c]
    BY <1>2, AboveLeadsUp, PipelineAssumption DEF LeadsUp, All
  <2>2. Chain(p) \subseteq Above[c]
    BY <2>1, AboveAbove DEF Chain
  <2>3. LeadsUp(c, Chain(p)) /\ Chain(p) \subseteq Nodes
    BY <2>1, AboveLeadsUp DEF LeadsUp, Chain
  <2>4. Above[c] \subseteq Chain(p)
    BY <2>3, AboveDef
  <2> QED BY <2>1, <2>2, <2>4
<1> QED BY <1>1, <1>2

\* A node above c is the parent of c or of another one above c.
LEMMA AboveHasChild ==
    ASSUME NEW c \in All, NEW n \in Above[c]
    PROVE  \E m \in Chain(c) : Parent[m] = n
<1> SUFFICES ASSUME \A m \in Chain(c) : Parent[m] # n PROVE FALSE
  OBVIOUS
<1>1. LeadsUp(c, Above[c] \ {n}) /\ Above[c] \ {n} \subseteq Nodes
  BY AboveLeadsUp DEF LeadsUp, Chain
<1> QED BY <1>1, AboveDef

LEMMA ChainFacts ==
    ASSUME NEW c \in All
    PROVE  /\ Chain(c) \subseteq All /\ c \in Chain(c) /\ c \notin Above[c]
           /\ \A m \in Chain(c) : /\ Chain(m) \subseteq Chain(c)
                                  /\ Parent[m] # None => Parent[m] \in Above[c]
BY AboveLeadsUp, AboveAbove, TreeAssumption DEF Chain, LeadsUp, All

-----------------------------------------------------------------------------
(* Types.                                                                  *)

\* What the manager's own variables are in each of its stages.
Shape ==
    /\ op = "idle" => task = None /\ cursor = None /\ fresh = {} /\ closing = <<>>
    /\ op # "idle" => task \in Tasks \ tasks
    /\ op = "linking" =>
          /\ cursor \in Chain(task) /\ closing = <<>> /\ fresh \subseteq Above[task]
          /\ \A n \in fresh \cap Above[cursor] : gen[n] < MaxGen
    /\ op \in {"unlinking", "closing"} => fresh = {}
    /\ op = "unlinking" => cursor \in All /\ Parent[cursor] \in Nodes
    /\ op = "closing" => cursor = None

TypeInv == TypeOK /\ Shape

LEMMA NoneIsNoNode == None \notin All /\ (\A t \in Tasks : t \in All /\ t \notin Nodes /\ Parent[t] \in Nodes)
BY PipelineAssumption DEF All

LEMMA TypeInit == Init => TypeInv
<1> SUFFICES ASSUME Init PROVE TypeInv
  OBVIOUS
<1>1. work \in [Nodes -> [event : 0 .. MaxEvents, to : Channel \cup {None}, left : SUBSET Channel]]
  BY PipelineAssumption DEF Init, Idle
<1>2. gen \in [All -> Gens] /\ closing \in Seq(Nodes) /\ accepted \in 0 .. MaxEvents
  BY PipelineAssumption DEF Init, Gens
<1>3. outs \in [Nodes -> SUBSET Channel] /\ expected \in [Events -> SUBSET Tasks]
  BY DEF Init
<1>4. Shape
  BY DEF Init, Shape
<1> QED BY <1>1, <1>2, <1>3, <1>4 DEF Init, TypeInv, TypeOK

LEMMA InIsChannel == ASSUME TypeOK, NEW c \in All PROVE In(c) \in Channel
BY DEF In, Channel, TypeOK

LEMMA TypeNewTask == ASSUME TypeInv, NEW t \in Tasks, NewTask(t) PROVE TypeInv'
<1> USE DEF TypeInv
<1>1. t \in All /\ ToCreate(t) \subseteq Above[t] /\ Above[t] \subseteq Nodes /\ t \in Chain(t) /\ t \notin Nodes
  BY NoneIsNoNode, AboveLeadsUp, ChainFacts DEF ToCreate
<1>2. gen' \in [All -> Gens] /\ end' \in [All -> BOOLEAN] /\ \A n \in ToCreate(t) : gen'[n] < MaxGen
  BY <1>1, PipelineAssumption DEF NewTask, TypeOK, Gens
<1>3. TypeOK'
  BY <1>1, <1>2 DEF NewTask, TypeOK, eventVars
<1>4. Shape'
  BY <1>1, <1>2 DEF NewTask, TypeOK, Shape
<1> QED BY <1>3, <1>4

\* The node that is created, or found, above the cursor.
LEMMA CursorFacts ==
    ASSUME TypeInv, op = "linking", Parent[cursor] # None
    PROVE  /\ cursor \in All /\ Parent[cursor] \in Nodes /\ Parent[cursor] \in All
           /\ task \in Tasks /\ task \in All
           /\ Parent[cursor] \in Above[cursor] /\ Parent[cursor] \in Above[task]
           /\ Above[cursor] = Chain(Parent[cursor])
           /\ Parent[cursor] \notin Above[Parent[cursor]]
           /\ closing = <<>>
<1>1. task \in Tasks /\ task \in All /\ cursor \in Chain(task) /\ cursor \in All
  BY NoneIsNoNode, ChainFacts DEF TypeInv, Shape
<1> QED BY <1>1, AboveStep, ChainFacts DEF TypeInv, Shape, Chain

LEMMA CreatedTypes ==
    ASSUME TypeInv, NEW n \in Nodes, NEW c \in All, gen[n] < MaxGen,
           gen' = [gen EXCEPT ![n] = @ + 1],
           run' = [run EXCEPT ![n] = TRUE],
           end' = [end EXCEPT ![n] = FALSE],
           work' = [work EXCEPT ![n] = Idle],
           outs' = [outs EXCEPT ![n] = {In(c)}]
    PROVE  /\ gen' \in [All -> Gens] /\ run' \in [All -> BOOLEAN] /\ end' \in [All -> BOOLEAN]
           /\ outs' \in [Nodes -> SUBSET Channel]
           /\ work' \in [Nodes -> [event : 0 .. MaxEvents, to : Channel \cup {None}, left : SUBSET Channel]]
<1>1. TypeOK /\ n \in All
  BY DEF TypeInv, All
<1>2. gen' \in [All -> Gens]
  BY <1>1, PipelineAssumption DEF TypeOK, Gens
<1>3. Idle \in [event : 0 .. MaxEvents, to : Channel \cup {None}, left : SUBSET Channel]
  BY PipelineAssumption DEF Idle
<1>4. {In(c)} \in SUBSET Channel
  BY <1>1, InIsChannel
<1> QED BY <1>1, <1>2, <1>3, <1>4 DEF TypeOK

LEMMA TypeLink == ASSUME TypeInv, Link PROVE TypeInv'
<1> DEFINE n == Parent[cursor]
<1>1. /\ TypeOK /\ Shape /\ op = "linking" /\ n \in Nodes /\ n \in All /\ cursor \in All
      /\ task \in Tasks /\ n \in Chain(task) /\ Above[cursor] = Chain(n) /\ n \notin Above[n] /\ closing = <<>>
  BY CursorFacts DEF Link, TypeInv, Chain
<1>2. /\ gen' \in [All -> Gens] /\ run' \in [All -> BOOLEAN] /\ end' \in [All -> BOOLEAN]
      /\ outs' \in [Nodes -> SUBSET Channel]
      /\ work' \in [Nodes -> [event : 0 .. MaxEvents, to : Channel \cup {None}, left : SUBSET Channel]]
      /\ registered' \subseteq Nodes
      /\ \A m \in fresh \cap Above[n] : gen'[m] < MaxGen
  <2>1. CASE n \in fresh
    <3>1. gen[n] < MaxGen
      BY <1>1, <2>1 DEF Shape, Chain
    <3>2. ASSUME NEW m \in fresh \cap Above[n] PROVE gen'[m] < MaxGen
      <4>1. m \in All /\ m # n /\ gen[m] < MaxGen
        BY <1>1, <3>2 DEF Shape, Chain, TypeOK, All
      <4> QED BY <1>1, <2>1, <4>1 DEF Link, TypeOK
    <3> QED BY <1>1, <2>1, <3>1, <3>2, CreatedTypes DEF Link, TypeOK
  <2>2. CASE n \notin fresh
    <3>1. In(cursor) \in Channel
      BY <1>1, InIsChannel
    <3>2. outs' \in [Nodes -> SUBSET Channel]
      BY <1>1, <2>2, <3>1 DEF Link, TypeOK
    <3> QED BY <1>1, <2>2, <3>2 DEF Link, TypeOK, Shape, Chain
  <2> QED BY <2>1, <2>2
<1>3. TypeOK'
  BY <1>1, <1>2 DEF Link, TypeOK, eventVars
<1>4. Shape'
  BY <1>1, <1>2 DEF Link, Shape
<1> QED BY <1>3, <1>4 DEF TypeInv

LEMMA TypeInputFails == ASSUME TypeInv, InputFails PROVE TypeInv'
<1> DEFINE n == Parent[cursor]
<1>1. /\ TypeOK /\ Shape /\ op = "linking" /\ n \in Nodes /\ cursor \in All /\ n \in Above[cursor] /\ closing = <<>>
  BY CursorFacts DEF InputFails, TypeInv
<1>2. gen[n] < MaxGen
  BY <1>1 DEF InputFails, Shape
<1>3. /\ gen' \in [All -> Gens] /\ run' \in [All -> BOOLEAN] /\ end' \in [All -> BOOLEAN]
      /\ outs' \in [Nodes -> SUBSET Channel]
      /\ work' \in [Nodes -> [event : 0 .. MaxEvents, to : Channel \cup {None}, left : SUBSET Channel]]
  BY <1>1, <1>2, CreatedTypes DEF InputFails
<1>4. TypeOK'
  BY <1>1, <1>3 DEF InputFails, TypeOK, eventVars
<1>5. Shape'
  BY <1>1 DEF InputFails, Shape
<1> QED BY <1>4, <1>5 DEF TypeInv

LEMMA TypeEndsLinking == ASSUME TypeInv, StartTask \/ OutputFails PROVE TypeInv'
<1>1. TypeOK /\ Shape /\ task \in Tasks /\ task \in All /\ closing = <<>>
  BY NoneIsNoNode DEF TypeInv, Shape, StartTask, OutputFails
<1>2. TypeOK'
  BY <1>1 DEF StartTask, OutputFails, TypeOK, eventVars, nodeVars
<1>3. Shape'
  BY <1>1 DEF StartTask, OutputFails, Shape
<1> QED BY <1>2, <1>3 DEF TypeInv

LEMMA TypeStopTask == ASSUME TypeInv, NEW t \in Tasks, StopTask(t) PROVE TypeInv'
<1>1. TypeOK /\ Shape /\ t \in All /\ Parent[t] \in Nodes
  BY NoneIsNoNode DEF TypeInv
<1>2. TypeOK'
  BY <1>1 DEF StopTask, TypeOK, nodeVars
<1>3. Shape'
  BY <1>1 DEF StopTask, Shape
<1> QED BY <1>2, <1>3 DEF TypeInv

LEMMA TypeRemoveOutput == ASSUME TypeInv, RemoveOutput PROVE TypeInv'
<1> DEFINE n == Parent[cursor]
<1>1. TypeOK /\ Shape /\ cursor \in All /\ n \in Nodes /\ n \in All /\ op = "unlinking" /\ fresh = {}
  BY DEF TypeInv, Shape, RemoveOutput, All
<1>2. closing' \in Seq(Nodes)
  BY <1>1, ConcatProperties DEF RemoveOutput, TypeOK
<1>3. outs' \in [Nodes -> SUBSET Channel]
  BY <1>1 DEF RemoveOutput, TypeOK
<1>4. op' = "unlinking" => Parent[n] \in Nodes
  BY <1>1, AboveStep DEF RemoveOutput
<1>5. TypeOK'
  BY <1>1, <1>2, <1>3 DEF RemoveOutput, TypeOK, eventVars
<1>6. Shape'
  BY <1>1, <1>4 DEF RemoveOutput, Shape
<1> QED BY <1>5, <1>6 DEF TypeInv

LEMMA EndingIsAll == ASSUME TypeInv, op = "closing" PROVE Ending \in All
BY NoneIsNoNode, HeadTailProperties DEF TypeInv, TypeOK, Shape, Ending, All

LEMMA TypeCloses == ASSUME TypeInv, CloseEnd \/ WaitUntilGameOver PROVE TypeInv'
<1>1. TypeOK /\ Shape /\ op = "closing" /\ Ending \in All
  BY EndingIsAll DEF TypeInv, CloseEnd, WaitUntilGameOver
<1>2. closing' \in Seq(Nodes)
  <2>1. closing \in Seq(Nodes) /\ (closing # <<>> => Tail(closing) \in Seq(Nodes))
    BY <1>1, HeadTailProperties DEF TypeOK
  <2>2. closing' = closing \/ (closing # <<>> /\ closing' = Tail(closing))
    BY DEF CloseEnd, WaitUntilGameOver, managerVars
  <2> QED BY <2>1, <2>2
<1>3. TypeOK'
  BY <1>1, <1>2 DEF CloseEnd, WaitUntilGameOver, TypeOK, eventVars, nodeVars, managerVars
<1>4. Shape'
  BY <1>1 DEF CloseEnd, WaitUntilGameOver, Shape, managerVars
<1> QED BY <1>3, <1>4 DEF TypeInv

Work == [event : 0 .. MaxEvents, to : Channel \cup {None}, left : SUBSET Channel]

\* A goroutine without an event is at its select.
AtWork == \A n \in Nodes : work[n].event = 0 => work[n] = Idle

LEMMA TypeForwards ==
    ASSUME TypeInv, AtWork, NEW n \in Nodes,
           Receive(n) \/ PickOut(n) \/ (\E c \in All : Pass(n, c))
    PROVE  TypeInv'
<1>1. TypeOK /\ Shape /\ work \in [Nodes -> Work]
  BY DEF TypeInv, TypeOK, Work
<1>2. /\ UNCHANGED <<managerVars, run, gen, end, registered, outs>>
      /\ accepted' \in 0 .. MaxEvents /\ expected' \in [Events -> SUBSET Tasks]
  <2>1. CASE Receive(n)
    <3>1. accepted + 1 \in Events /\ {t \in tasks : n \in Above[t]} \in SUBSET Tasks
      BY <1>1, <2>1, PipelineAssumption DEF Receive, TypeOK, Events
    <3> QED BY <1>1, <2>1, <3>1 DEF Receive, TypeOK, Events
  <2>2. CASE PickOut(n) \/ \E c \in All : Pass(n, c)
    BY <1>1, <2>2 DEF PickOut, Pass, TypeOK, eventVars
  <2> QED BY <2>1, <2>2
<1>3. work' \in [Nodes -> Work]
  <2>1. ASSUME NEW m \in Nodes, NEW e \in 0 .. MaxEvents PROVE Taken(m, e) \in Work
    BY <1>1 DEF Taken, Work, TypeOK
  <2>2. Idle \in Work
    BY PipelineAssumption DEF Idle, Work
  <2>3. CASE Receive(n)
    <3>1. accepted + 1 \in 0 .. MaxEvents
      BY <1>1, <2>3, PipelineAssumption DEF Receive, TypeOK
    <3> QED BY <1>1, <2>1, <2>3, <3>1 DEF Receive
  <2>4. CASE PickOut(n)
    <3>1. CASE work' = [work EXCEPT ![n] = Idle]
      BY <1>1, <2>2, <3>1
    <3>2. CASE \E o \in work[n].left : work' = [work EXCEPT ![n].to = o, ![n].left = @ \ {o}]
      <4> PICK o \in work[n].left : work' = [work EXCEPT ![n].to = o, ![n].left = @ \ {o}]
        BY <3>2
      <4> QED BY <1>1 DEF Work
    <3> QED BY <2>4, <3>1, <3>2 DEF PickOut
  <2>5. CASE \E c \in All : Pass(n, c)
    <3> PICK c \in All : Pass(n, c)
      BY <2>5
    <3>1. [work EXCEPT ![n].to = None] \in [Nodes -> Work]
      BY <1>1 DEF Work
    <3>2. CASE c \in Nodes
      <4>1. work[n].event \in 0 .. MaxEvents
        BY <1>1 DEF Work
      <4>2. Taken(c, work[n].event) \in Work
        BY <2>1, <3>2, <4>1
      <4>3. work' = [[work EXCEPT ![n].to = None] EXCEPT ![c] = Taken(c, work[n].event)]
        BY <3>2 DEF Pass
      <4> QED BY <3>1, <3>2, <4>2, <4>3
    <3>3. CASE c \notin Nodes
      BY <3>1, <3>3 DEF Pass
    <3> QED BY <3>2, <3>3
  <2> QED BY <2>3, <2>4, <2>5
<1>4. delivered' \subseteq Tasks \X Events
  <2>1. CASE \E c \in All : Pass(n, c)
    <3> PICK c \in All : Pass(n, c)
      BY <2>1
    <3>3. work[n].event \in Events
      BY <1>1, PipelineAssumption DEF Pass, AtWork, Work, Idle, Events
    <3>1. CASE c \in Tasks
      BY <1>1, <3>1, <3>3, PipelineAssumption DEF Pass, TypeOK
    <3>2. CASE c \in Nodes
      BY <1>1, <3>2 DEF Pass, TypeOK
    <3> QED BY <3>1, <3>2 DEF All
  <2> QED BY <1>1, <2>1 DEF Receive, PickOut, TypeOK, eventVars
<1>5. TypeOK'
  BY <1>1, <1>2, <1>3, <1>4 DEF TypeOK, Work, managerVars
<1>6. Shape'
  BY <1>1, <1>2 DEF Shape, managerVars
<1> QED BY <1>5, <1>6 DEF TypeInv

LEMMA AtWorkStep == ASSUME TypeInv, AtWork, [Next]_vars PROVE AtWork'
<1>1. work \in [Nodes -> Work] /\ accepted \in Nat
  BY PipelineAssumption DEF TypeInv, TypeOK, Work
<1>2. ASSUME NEW n \in Nodes, work' = [work EXCEPT ![n] = Idle] \/ UNCHANGED work
      PROVE  AtWork'
  BY <1>1, <1>2 DEF AtWork, Idle
<1>3. ASSUME NEW n \in Nodes, Receive(n) PROVE AtWork'
  <2>1. work' = [work EXCEPT ![n] = Taken(n, accepted + 1)] /\ accepted + 1 # 0
    BY <1>1, <1>3 DEF Receive
  <2>2. Taken(n, accepted + 1).event # 0
    BY <2>1 DEF Taken
  <2> QED BY <1>1, <2>1, <2>2 DEF AtWork, Idle
<1>4. ASSUME NEW n \in Nodes, PickOut(n) PROVE AtWork'
  <2>1. CASE work' = [work EXCEPT ![n] = Idle]
    BY <1>2, <2>1
  <2>2. CASE \E o \in work[n].left : work' = [work EXCEPT ![n].to = o, ![n].left = @ \ {o}]
    <3> PICK o \in work[n].left : work' = [work EXCEPT ![n].to = o, ![n].left = @ \ {o}]
      BY <2>2
    <3>1. work[n].event # 0
      BY <1>4 DEF PickOut, AtWork
    <3> QED BY <1>1, <3>1 DEF AtWork, Work, Idle
  <2> QED BY <1>4, <2>1, <2>2 DEF PickOut
<1>5. ASSUME NEW n \in Nodes, NEW c \in All, Pass(n, c) PROVE AtWork'
  <2> DEFINE w == [work EXCEPT ![n].to = None]
  <2>1. work[n].event # 0
    BY <1>5, PipelineAssumption DEF Pass, AtWork, Idle
  <2>2. \A m \in Nodes : w[m].event = 0 => w[m] = Idle
    BY <1>1, <2>1 DEF AtWork, Work, Idle
  <2>3. w \in [Nodes -> Work]
    BY <1>1 DEF Work
  <2>4. CASE c \in Nodes
    <3>1. work' = [w EXCEPT ![c] = Taken(c, work[n].event)]
      BY <1>5, <2>4 DEF Pass
    <3> HIDE DEF w
    <3> QED BY <2>1, <2>2, <2>3, <3>1 DEF AtWork, Taken
  <2>5. CASE c \notin Nodes
    <3>1. work' = w
      BY <1>5, <2>5 DEF Pass
    <3> HIDE DEF w
    <3> QED BY <2>2, <3>1 DEF AtWork
  <2> QED BY <2>4, <2>5
<1>6. ASSUME NEW c \in All, GameOver(c) PROVE AtWork'
  <2>1. CASE c \in Nodes
    BY <1>2, <1>6, <2>1 DEF GameOver
  <2>2. CASE c \notin Nodes
    BY <1>6, <2>2 DEF GameOver, AtWork, Idle
  <2> QED BY <2>1, <2>2
<1>7. CASE Link \/ InputFails
  <2>1. Parent[cursor] \in Nodes
    BY <1>7, CursorFacts DEF Link, InputFails
  <2> QED BY <1>2, <1>7, <2>1 DEF Link, InputFails
<1>8. CASE UNCHANGED work
  BY <1>8 DEF AtWork, Idle
<1>9. CASE (\E t \in Tasks : NewTask(t) \/ StopTask(t)) \/ StartTask \/ OutputFails \/ RemoveOutput
           \/ CloseEnd \/ WaitUntilGameOver \/ UNCHANGED vars
  BY <1>8, <1>9
     DEF NewTask, StopTask, StartTask, OutputFails, RemoveOutput, CloseEnd, WaitUntilGameOver, vars, nodeVars
<1> QED BY <1>3, <1>4, <1>5, <1>6, <1>7, <1>9 DEF Next

LEMMA TypeGameOver == ASSUME TypeInv, NEW c \in All, GameOver(c) PROVE TypeInv'
<1>1. TypeOK /\ Shape /\ work \in [Nodes -> Work] /\ Idle \in Work
  BY PipelineAssumption DEF TypeInv, TypeOK, Work, Idle
<1>2. work' \in [Nodes -> Work]
  BY <1>1 DEF GameOver
<1>3. run' \in [All -> BOOLEAN] /\ registered' \subseteq Nodes
  BY <1>1 DEF GameOver, TypeOK
<1>4. TypeOK'
  BY <1>1, <1>2, <1>3 DEF GameOver, TypeOK, Work, managerVars, eventVars
<1>5. Shape'
  BY <1>1 DEF GameOver, Shape, managerVars
<1> QED BY <1>4, <1>5 DEF TypeInv

LEMMA TypeStep == ASSUME TypeInv, AtWork, [Next]_vars PROVE TypeInv'
<1>1. CASE UNCHANGED vars
  BY <1>1 DEF vars, managerVars, nodeVars, eventVars, TypeInv, TypeOK, Shape
<1>2. CASE Next
  BY <1>2, TypeNewTask, TypeStopTask, TypeLink, TypeInputFails, TypeEndsLinking, TypeRemoveOutput,
     TypeCloses, TypeForwards, TypeGameOver DEF Next
<1> QED BY <1>1, <1>2

\* Whatever tasks start, stop and fail, and however the goroutines are
\* scheduled, every variable of the tree keeps its type: no channel of a node
\* is created more often than the bound says, the manager's cursor stays in the
\* task's chain, and an event is delivered only to a task.
THEOREM PipelineTypeCorrect == Spec => []TypeOK
<1>1. Init => TypeInv /\ AtWork
  BY TypeInit DEF Init, AtWork, Idle
<1>2. TypeInv /\ AtWork /\ [Next]_vars => (TypeInv /\ AtWork)'
  BY TypeStep, AtWorkStep
<1>3. TypeInv => TypeOK
  BY DEF TypeInv
<1> QED BY <1>1, <1>2, <1>3, PTL DEF Spec

-----------------------------------------------------------------------------
(* What the manager's tasks need is linked.                                *)

\* The nodes of a chain come one above the other.
LEMMA ChainIsLinear ==
    ASSUME NEW t \in All, NEW c \in Chain(t), NEW m \in Chain(t)
    PROVE  m \in Chain(c) \/ c \in Above[m]
<1> DEFINE Good(n) == n \in Chain(c) \/ c \in Above[n]
           S == {n \in Above[t] : Good(n)}
<1>1. Good(t)
  BY DEF Chain
<1>2. ASSUME NEW n \in {t} \cup S, Parent[n] # None PROVE Parent[n] \in S
  <2>1. n \in All /\ n \in Chain(t) /\ c \in All /\ Good(n)
    BY <1>1, AboveLeadsUp, ChainFacts DEF Chain, All
  <2>2. Parent[n] \in Above[t]
    BY <2>1, <1>2, ChainFacts
  <2>3. CASE n \in Chain(c)
    <3>1. Parent[n] \in Above[c]
      BY <2>1, <2>3, <1>2, ChainFacts
    <3> QED BY <2>2, <3>1 DEF Chain
  <2>4. CASE c \in Above[n]
    BY <2>1, <2>2, <2>4, <1>2, AboveStep DEF Chain
  <2> QED BY <2>1, <2>3, <2>4
<1>3. LeadsUp(t, S) /\ S \subseteq Nodes
  BY <1>2, AboveLeadsUp DEF LeadsUp
<1>4. Above[t] \subseteq S
  BY <1>3, AboveDef
<1> QED BY <1>1, <1>4 DEF Chain

\* Among the nodes below the cursor only the cursor has its parent.
LEMMA OnlyChild ==
    ASSUME NEW t \in All, NEW c \in Chain(t), NEW m \in Chain(t), Parent[c] # None, Parent[m] = Parent[c]
    PROVE  m = c
<1>1. c \in All /\ m \in All /\ c \notin Above[c] /\ m \notin Above[m]
  BY ChainFacts
<1>2. Above[c] = Above[m]
  BY <1>1, AboveStep
<1> QED BY <1>1, <1>2, ChainIsLinear DEF Chain

Ends(c)     == \E x \in DOMAIN closing : closing[x] = c
Attached(c) == Parent[c] # None => In(c) \in outs[Parent[c]]
Linked(c)   == run[c] /\ ~end[c] /\ Attached(c) /\ (c \in Nodes => c \in registered)

\* A registered node runs, and only the nodes about to end have End closed.
RegisteredRun == \A n \in registered : run[n] /\ (end[n] => Ends(n))

TasksLinked == \A t \in tasks : \A c \in Chain(t) : Linked(c)

\* While a task is linked: no task needs a node that is created again, what is
\* not created exists, and the part below the cursor is linked.
NewIsLinked ==
    op = "linking" =>
        /\ \A t \in tasks : fresh \cap Chain(t) = {}
        /\ \A n \in Above[cursor] \ fresh : n \in registered
        /\ ~end[cursor]
        /\ cursor # task => /\ run[cursor] /\ cursor \in registered
                            /\ ~end[task] /\ Attached(task)
        /\ \A c \in Above[task] \ Chain(cursor) : Linked(c)

\* While a task is unlinked: no other task needs what goes.
OldIsAlone ==
    op \in {"unlinking", "closing"} =>
        \A t \in tasks : cursor \notin Chain(t) /\ \A c \in Chain(t) : ~Ends(c)

LinkInv == RegisteredRun /\ TasksLinked /\ NewIsLinked /\ OldIsAlone

LEMMA LinkInit == Init => LinkInv
BY DEF Init, LinkInv, RegisteredRun, TasksLinked, NewIsLinked, OldIsAlone

LEMMA LinkMoves ==
    ASSUME TypeInv, LinkInv, managerVars' = managerVars, UNCHANGED <<run, gen, end, registered, outs>>
    PROVE  LinkInv'
BY DEF managerVars, LinkInv, RegisteredRun, TasksLinked, NewIsLinked, OldIsAlone, Linked, Attached, Ends, In

\* A task's own goroutine is in no other chain.
LEMMA TaskIsAlone ==
    ASSUME NEW t \in Tasks, NEW x \in Tasks, x # t
    PROVE  t \in All /\ x \in All /\ t \notin Chain(x) /\ t \notin Nodes /\ Chain(x) \subseteq All
BY NoneIsNoNode, AboveLeadsUp, ChainFacts DEF Chain

LEMMA LinkNewTask == ASSUME TypeInv, LinkInv, NEW t \in Tasks, NewTask(t) PROVE LinkInv'
<1>1. /\ TypeOK /\ t \in All /\ t \notin Nodes /\ Above[t] \subseteq Nodes /\ t \notin tasks
      /\ cursor' = t /\ task' = t /\ fresh' = ToCreate(t) /\ tasks' = tasks /\ closing' = closing
      /\ gen' = [gen EXCEPT ![t] = @ + 1] /\ end' = [end EXCEPT ![t] = FALSE]
      /\ UNCHANGED <<run, registered, outs>>
      /\ RegisteredRun /\ TasksLinked /\ op' = "linking"
  BY NoneIsNoNode, AboveLeadsUp DEF NewTask, TypeInv, LinkInv
<1>2. RegisteredRun'
  BY <1>1 DEF RegisteredRun, Ends, TypeOK, All
<1>3. ASSUME NEW x \in tasks, NEW c \in Chain(x) PROVE Linked(c)'
  <2>1. c # t /\ c \in All /\ Linked(c)
    BY <1>1, <1>3, TaskIsAlone DEF TypeOK, TasksLinked
  <2> QED BY <1>1, <2>1 DEF Linked, Attached, In, TypeOK
<1>4. ASSUME NEW x \in tasks, NEW n \in ToCreate(t), n \in Chain(x) PROVE FALSE
  <2>1. x \in Tasks /\ x \in All /\ Chain(n) \subseteq Chain(x) /\ n \in Nodes /\ n \in All
    BY <1>1, <1>4, NoneIsNoNode, ChainFacts DEF TypeOK, ToCreate, All
  <2>2. Chain(n) \subseteq Nodes
    BY <2>1, AboveLeadsUp DEF Chain
  <2>3. Chain(n) \subseteq registered
    BY <1>1, <2>1, <2>2 DEF TasksLinked, Linked
  <2> QED BY <1>4, <2>3 DEF ToCreate, Chain
<1>5. \A n \in Above[t] \ ToCreate(t) : n \in registered
  BY DEF ToCreate
<1>6. ~end'[t] /\ Above[t] \ Chain(t) = {}
  BY <1>1 DEF TypeOK, Chain
<1>7. NewIsLinked'
  BY <1>1, <1>4, <1>5, <1>6 DEF NewIsLinked
<1> QED BY <1>1, <1>2, <1>3, <1>7 DEF LinkInv, TasksLinked, OldIsAlone

\* Whether n is created or found, linking it above the cursor leaves every
\* other node as it is.
LEMMA LinkKeeps ==
    ASSUME TypeInv, LinkInv, Link, NEW c \in All, Linked(c), c # Parent[cursor]
    PROVE  Parent[c] # Parent[cursor] \/ Parent[cursor] \notin fresh => Linked(c)'
<1> DEFINE n == Parent[cursor]
<1>1. TypeOK /\ n \in Nodes /\ n \in All /\ cursor \in All
  BY CursorFacts DEF Link, TypeInv
<1>2. run'[c] /\ ~end'[c] /\ gen'[c] = gen[c] /\ (c \in Nodes => c \in registered')
  BY <1>1 DEF Link, Linked, TypeOK
<1>3. ASSUME n \notin fresh, Parent[c] # None PROVE In(c) \in outs'[Parent[c]]
  <2>1. In(c) \in outs[Parent[c]] /\ Parent[c] \in Nodes
    BY <1>3, AboveStep DEF Linked, Attached
  <2>2. outs' = [outs EXCEPT ![n] = {o \in @ : o.id # cursor} \cup {In(cursor)}]
    BY <1>3 DEF Link
  <2>3. In(c) = In(cursor) \/ In(c).id # cursor
    BY DEF In
  <2> QED BY <1>1, <2>1, <2>2, <2>3 DEF TypeOK
<1>4. ASSUME Parent[c] # n, Parent[c] # None PROVE In(c) \in outs'[Parent[c]]
  <2>1. In(c) \in outs[Parent[c]] /\ Parent[c] \in Nodes
    BY <1>4, AboveStep DEF Linked, Attached
  <2>2. outs'[Parent[c]] = outs[Parent[c]]
    BY <1>1, <1>4, <2>1 DEF Link, TypeOK
  <2> QED BY <2>1, <2>2
<1>5. In(c)' = In(c)
  BY <1>2 DEF In
<1> QED BY <1>2, <1>3, <1>4, <1>5 DEF Linked, Attached

LEMMA LinkLink == ASSUME TypeInv, LinkInv, Link PROVE LinkInv'
<1> DEFINE n == Parent[cursor]
<1>1. /\ TypeOK /\ Shape /\ RegisteredRun /\ TasksLinked /\ NewIsLinked /\ op = "linking" /\ op' = "linking"
      /\ n # None /\ tasks' = tasks /\ task' = task /\ closing' = closing /\ fresh' = fresh /\ cursor' = n
  BY DEF Link, TypeInv, LinkInv
<1>2. /\ n \in Nodes /\ n \in All /\ cursor \in All /\ cursor \in Chain(task) /\ task \in Tasks /\ task \in All
      /\ n \in Above[task] /\ Above[cursor] = Chain(n) /\ n \notin Above[n] /\ closing = <<>> /\ n # task
      /\ cursor # n /\ cursor \notin Above[cursor] /\ n \notin Tasks /\ task \notin tasks
  BY <1>1, CursorFacts, ChainFacts, NoneIsNoNode DEF Shape, Chain, TypeInv
<1>3. run'[n] /\ ~end'[n] /\ n \in registered' /\ [id |-> cursor, gen |-> gen'[cursor]] \in outs'[n]
  <2>1. In(cursor) = [id |-> cursor, gen |-> gen'[cursor]]
    BY <1>1, <1>2 DEF Link, In, TypeOK
  <2>2. CASE n \in fresh
    BY <1>1, <1>2, <2>1, <2>2 DEF Link, TypeOK
  <2>3. CASE n \notin fresh
    <3>1. n \in registered /\ run[n] /\ ~end[n]
      BY <1>1, <1>2, <2>3 DEF NewIsLinked, RegisteredRun, Ends, Chain
    <3> QED BY <1>1, <1>2, <2>1, <2>3, <3>1 DEF Link, TypeOK
  <2> QED BY <2>2, <2>3
<1>4. RegisteredRun'
  <2>1. ASSUME NEW m \in registered', m # n PROVE run'[m] /\ ~end'[m]
    <3>1. m \in registered /\ m \in All /\ run[m] /\ ~end[m]
      BY <1>1, <1>2, <2>1 DEF Link, RegisteredRun, Ends, TypeOK, All
    <3> QED BY <1>1, <1>2, <2>1, <3>1 DEF Link, TypeOK
  <2> QED BY <1>3, <2>1 DEF RegisteredRun
<1>5. ASSUME NEW t \in tasks, NEW c \in Chain(t) PROVE Linked(c)'
  <2>1. t \in All /\ c \in All /\ Linked(c) /\ (n \in fresh => n \notin Chain(t))
    BY <1>1, NoneIsNoNode, ChainFacts DEF TypeOK, TasksLinked, NewIsLinked
  <2>2. Parent[c] = n => n \in Chain(t)
    BY <1>1, <2>1, ChainFacts DEF Chain
  <2>3. CASE c # n
    BY <2>1, <2>2, <2>3, LinkKeeps
  <2>4. CASE c = n
    <3>1. n \notin fresh
      BY <2>1, <2>4
    <3>2. Parent[n] # n
      BY <1>1, <1>2, ChainFacts
    <3>3. outs' = [outs EXCEPT ![n] = {o \in @ : o.id # cursor} \cup {In(cursor)}] /\ gen' = gen
      BY <3>1 DEF Link
    <3>4. Parent[n] # None => Parent[n] \in Nodes /\ In(n) \in outs[Parent[n]]
      BY <2>1, <2>4, <1>2, AboveStep DEF Linked, Attached
    <3> QED BY <1>1, <1>2, <1>3, <2>4, <3>2, <3>3, <3>4 DEF Linked, Attached, In, TypeOK
  <2> QED BY <2>3, <2>4
<1>6. \A m \in Above[n] \ fresh : m \in registered'
  BY <1>1, <1>2 DEF Link, NewIsLinked, Chain
<1>7. ASSUME NEW c \in Chain(task) \ Chain(n), c # cursor PROVE c # n /\ Parent[c] # n /\ c \notin Chain(cursor)
  BY <1>1, <1>2, <1>7, OnlyChild DEF Chain
<1>8. ~end'[task] /\ Attached(task)'
  <2>1. CASE task = cursor
    <3>1. end'[task] = end[task]
      BY <1>1, <1>2, <2>1 DEF Link, TypeOK
    <3> QED BY <1>1, <1>3, <2>1, <3>1 DEF NewIsLinked, Attached, In
  <2>2. CASE task # cursor
    <3>1. task \in Chain(task) \ Chain(n)
      BY <1>2, ChainFacts, AboveLeadsUp, NoneIsNoNode DEF Chain
    <3>2. Parent[task] # n /\ ~end[task] /\ In(task) \in outs[Parent[task]] /\ Parent[task] \in Nodes
      BY <1>1, <1>7, <2>2, <3>1, <1>2, NoneIsNoNode, PipelineAssumption DEF NewIsLinked, Attached
    <3> QED BY <1>1, <1>2, <3>2 DEF Link, Attached, In, TypeOK
  <2> QED BY <2>1, <2>2
<1>9. ASSUME NEW c \in Above[task] \ Chain(n) PROVE Linked(c)'
  <2>1. c \in Nodes /\ c \in All /\ c \in Chain(task)
    BY <1>2, AboveLeadsUp DEF All, Chain
  <2>2. CASE c = cursor
    <3>1. run[c] /\ c \in registered /\ ~end[c]
      BY <1>1, <1>2, <1>9, <2>2, ChainFacts DEF NewIsLinked
    <3>2. run'[c] /\ c \in registered' /\ ~end'[c]
      BY <1>1, <1>2, <2>1, <2>2, <3>1 DEF Link, TypeOK
    <3> QED BY <1>3, <2>2, <3>2 DEF Linked, Attached, In
  <2>3. CASE c # cursor
    <3>1. c # n /\ Parent[c] # n /\ c \notin Chain(cursor)
      BY <1>7, <1>9, <2>1, <2>3
    <3>2. Linked(c)
      BY <1>1, <1>9, <3>1 DEF NewIsLinked
    <3> QED BY <2>1, <3>1, <3>2, LinkKeeps
  <2> QED BY <2>2, <2>3
<1>10. NewIsLinked'
  BY <1>1, <1>3, <1>6, <1>8, <1>9 DEF NewIsLinked
<1> QED BY <1>1, <1>4, <1>5, <1>10 DEF LinkInv, TasksLinked, OldIsAlone

LEMMA LinkInputFails == ASSUME TypeInv, LinkInv, InputFails PROVE LinkInv'
<1> DEFINE n == Parent[cursor]
<1>1. /\ TypeOK /\ RegisteredRun /\ TasksLinked /\ NewIsLinked /\ op = "linking" /\ op' = "idle"
      /\ n \in fresh /\ n \in Nodes /\ n \in All /\ tasks' = tasks /\ closing' = closing
      /\ registered' = registered
  BY CursorFacts DEF InputFails, TypeInv, LinkInv
<1>2. RegisteredRun'
  BY <1>1 DEF InputFails, RegisteredRun, Ends, TypeOK, All
<1>3. ASSUME NEW t \in tasks, NEW c \in Chain(t) PROVE Linked(c)'
  <2>1. t \in All /\ c \in All /\ Linked(c) /\ n \notin Chain(t)
    BY <1>1, NoneIsNoNode, ChainFacts DEF TypeOK, TasksLinked, NewIsLinked
  <2>2. c # n /\ Parent[c] # n
    BY <1>1, <2>1, ChainFacts, PipelineAssumption DEF Chain
  <2>3. Parent[c] # None => Parent[c] \in Nodes /\ In(c) \in outs[Parent[c]]
    BY <2>1, AboveStep DEF Linked, Attached
  <2> QED BY <1>1, <2>1, <2>2, <2>3 DEF InputFails, Linked, Attached, In, TypeOK
<1> QED BY <1>1, <1>2, <1>3 DEF LinkInv, TasksLinked, NewIsLinked, OldIsAlone

LEMMA LinkEndsLinking == ASSUME TypeInv, LinkInv, StartTask \/ OutputFails PROVE LinkInv'
<1>1. /\ TypeOK /\ Shape /\ RegisteredRun /\ TasksLinked /\ NewIsLinked /\ op = "linking" /\ op' = "idle"
      /\ closing' = closing /\ UNCHANGED <<gen, end, registered, outs>> /\ Parent[cursor] = None
      /\ task \in Tasks /\ task \in All /\ task \notin Nodes /\ Parent[task] # None /\ cursor \in Chain(task)
      /\ cursor # task /\ cursor \in All /\ task \notin tasks
  BY NoneIsNoNode, ChainFacts, PipelineAssumption
     DEF StartTask, OutputFails, TypeInv, LinkInv, Shape, nodeVars
<1>2. RegisteredRun'
  <2>1. \A c \in All : run'[c] = run[c] \/ run'[c] = TRUE
    BY <1>1 DEF StartTask, OutputFails, TypeOK, nodeVars
  <2> QED BY <1>1, <2>1 DEF RegisteredRun, Ends, TypeOK, All
<1>3. ASSUME NEW c \in All, Linked(c) PROVE Linked(c)'
  BY <1>1, <1>3 DEF StartTask, OutputFails, Linked, Attached, In, TypeOK, nodeVars
<1>4. CASE OutputFails
  BY <1>1, <1>2, <1>3, <1>4, NoneIsNoNode, ChainFacts
     DEF OutputFails, LinkInv, TasksLinked, NewIsLinked, OldIsAlone, TypeOK
<1>5. CASE StartTask
  <2>1. ASSUME NEW c \in Chain(task) PROVE Linked(c)'
    <3>1. c \in All /\ Chain(cursor) = {cursor}
      BY <1>1, ChainFacts, AboveStep DEF Chain
    <3>2. CASE c = task
      BY <1>1, <1>5, <3>2 DEF StartTask, NewIsLinked, Linked, Attached, In, TypeOK
    <3>3. CASE c = cursor
      <4>1. Linked(c)
        BY <1>1, <3>3 DEF NewIsLinked, Linked, Attached
      <4> QED BY <1>3, <3>1, <4>1
    <3>4. CASE c # task /\ c # cursor
      <4>1. Linked(c)
        BY <1>1, <3>1, <3>4 DEF NewIsLinked, Chain
      <4> QED BY <1>3, <3>1, <4>1
    <3> QED BY <3>2, <3>3, <3>4
  <2>2. ASSUME NEW t \in tasks, NEW c \in Chain(t) PROVE Linked(c)'
    BY <1>1, <1>3, NoneIsNoNode, ChainFacts DEF TypeOK, TasksLinked
  <2>3. TasksLinked'
    BY <1>5, <2>1, <2>2 DEF StartTask, TasksLinked
  <2> QED BY <1>1, <1>2, <2>3 DEF LinkInv, NewIsLinked, OldIsAlone
<1> QED BY <1>4, <1>5

LEMMA LinkStopTask == ASSUME TypeInv, LinkInv, NEW t \in Tasks, StopTask(t) PROVE LinkInv'
<1>1. /\ RegisteredRun /\ TasksLinked /\ tasks \subseteq Tasks /\ closing = <<>> /\ closing' = closing
      /\ tasks' = tasks \ {t} /\ cursor' = t /\ op' = "unlinking"
      /\ UNCHANGED <<run, gen, end, registered, outs>>
  BY DEF StopTask, TypeInv, TypeOK, Shape, LinkInv, nodeVars
<1>2. \A x \in tasks' : t \notin Chain(x)
  BY <1>1, TaskIsAlone
<1>3. \A c : Linked(c) => Linked(c)'
  BY <1>1 DEF Linked, Attached, In
<1> QED BY <1>1, <1>2, <1>3 DEF LinkInv, RegisteredRun, TasksLinked, NewIsLinked, OldIsAlone, Ends

\* A node put in front of the list is to end, as those that were in it.
LEMMA InFront ==
    ASSUME closing \in Seq(Nodes), NEW n \in Nodes, closing' = <<n>> \o closing, NEW c
    PROVE  Ends(c)' <=> Ends(c) \/ c = n
<1>1. /\ Len(closing') = 1 + Len(closing) /\ DOMAIN closing' = 1 .. Len(closing')
      /\ DOMAIN closing = 1 .. Len(closing) /\ Len(closing) \in Nat
      /\ closing'[1] = n /\ \A x \in 1 .. Len(closing) : closing'[x + 1] = closing[x]
  BY ConcatProperties, LenProperties
<1>2. ASSUME NEW x \in DOMAIN closing', x # 1, closing'[x] = c PROVE Ends(c)
  <2>1. x - 1 \in 1 .. Len(closing) /\ (x - 1) + 1 = x
    BY <1>1, <1>2
  <2> QED BY <1>1, <1>2, <2>1 DEF Ends
<1>3. ASSUME NEW x \in DOMAIN closing, closing[x] = c PROVE Ends(c)'
  <2>1. x + 1 \in DOMAIN closing' /\ closing'[x + 1] = c
    BY <1>1, <1>3
  <2> QED BY <2>1 DEF Ends
<1>4. Ends(n)'
  <2>1. 1 \in DOMAIN closing'
    BY <1>1
  <2> QED BY <1>1, <2>1 DEF Ends
<1>5. Ends(c) => Ends(c)'
  BY <1>3 DEF Ends
<1>6. Ends(c)' => Ends(c) \/ c = n
  BY <1>1, <1>2 DEF Ends
<1> QED BY <1>4, <1>5, <1>6

LEMMA LinkRemoveOutput == ASSUME TypeInv, LinkInv, RemoveOutput PROVE LinkInv'
<1> DEFINE n    == Parent[cursor]
           left == {o \in outs[n] : o.id # cursor}
<1>1. /\ TypeOK /\ Shape /\ cursor \in All /\ n \in Nodes /\ n \in All /\ op = "unlinking"
      /\ RegisteredRun /\ TasksLinked /\ OldIsAlone /\ tasks \subseteq Tasks
      /\ op' \in {"unlinking", "closing"} /\ UNCHANGED <<tasks, run, gen, end, registered>>
      /\ outs' = [outs EXCEPT ![n] = left] /\ cursor' \in {n, None}
      /\ closing' = IF left = {} THEN <<n>> \o closing ELSE closing
      /\ cursor' = n => left = {}
  BY NoneIsNoNode DEF TypeInv, TypeOK, LinkInv, Shape, RemoveOutput, All
<1>2. ASSUME NEW c PROVE Ends(c)' <=> Ends(c) \/ (left = {} /\ c = n)
  <2>1. CASE left = {}
    <3> PICK b \in Nodes : b = n
      BY <1>1
    <3>1. closing' = <<b>> \o closing /\ closing \in Seq(Nodes)
      BY <1>1, <2>1 DEF TypeOK
    <3>2. Ends(c)' <=> Ends(c) \/ c = b
      BY <3>1, InFront
    <3> QED BY <2>1, <3>2
  <2>2. CASE left # {}
    <3>1. closing' = closing
      BY <1>1, <2>2
    <3> QED BY <2>2, <3>1 DEF Ends
  <2> QED BY <2>1, <2>2
<1>3. ASSUME NEW t \in tasks, NEW m \in Chain(t), Parent[m] = n PROVE In(m) \in left
  <2>1. m # cursor /\ In(m) \in outs[n]
    BY <1>1, <1>3, NoneIsNoNode DEF OldIsAlone, TasksLinked, Linked, Attached
  <2> QED BY <2>1 DEF In
<1>4. ASSUME NEW t \in tasks, left = {} PROVE n \notin Chain(t)
  <2>1. t \in All /\ t # n
    BY <1>1, NoneIsNoNode
  <2>2. n \notin Above[t]
    BY <1>3, <1>4, <2>1, AboveHasChild
  <2> QED BY <2>1, <2>2 DEF Chain
<1>5. RegisteredRun'
  BY <1>1, <1>2 DEF RegisteredRun
<1>6. ASSUME NEW t \in tasks, NEW c \in Chain(t) PROVE Linked(c)'
  <2>1. Linked(c) /\ c \in All
    BY <1>1, <1>6, NoneIsNoNode, ChainFacts DEF TasksLinked
  <2>2. In(c)' = In(c)
    BY <1>1 DEF In
  <2>3. ASSUME Parent[c] # None PROVE In(c) \in outs'[Parent[c]]
    <3>1. CASE Parent[c] = n
      BY <1>1, <1>3, <3>1 DEF TypeOK
    <3>2. CASE Parent[c] # n
      BY <1>1, <2>1, <2>3, <3>2, AboveStep DEF Linked, Attached, TypeOK
    <3> QED BY <3>1, <3>2
  <2> QED BY <1>1, <2>1, <2>2, <2>3 DEF Linked, Attached
<1>7. ASSUME NEW t \in tasks PROVE cursor' \notin Chain(t) /\ \A c \in Chain(t) : ~Ends(c)'
  <2>1. None \notin Chain(t)
    BY <1>1, NoneIsNoNode, ChainFacts
  <2> QED BY <1>1, <1>2, <1>4, <2>1 DEF OldIsAlone
<1>8. OldIsAlone'
  BY <1>1, <1>7 DEF OldIsAlone
<1> QED BY <1>1, <1>5, <1>6, <1>8 DEF LinkInv, TasksLinked, NewIsLinked

\* The node that ends next is to end, or it is the task itself.
LEMMA EndingEnds == ASSUME TypeInv, op = "closing" PROVE Ends(Ending) \/ (Ending = task /\ task \in Tasks \ tasks)
<1>1. CASE closing = <<>>
  BY <1>1 DEF Ending, TypeInv, Shape
<1>2. CASE closing # <<>>
  <2>1. 1 \in DOMAIN closing /\ closing[1] = Head(closing)
    BY <1>2, HeadTailProperties, EmptySeq, LenProperties DEF TypeInv, TypeOK
  <2> QED BY <1>2, <2>1 DEF Ending, Ends
<1> QED BY <1>1, <1>2

LEMMA LinkCloseEnd == ASSUME TypeInv, LinkInv, CloseEnd PROVE LinkInv'
<1>1. /\ TypeOK /\ RegisteredRun /\ TasksLinked /\ OldIsAlone /\ op = "closing" /\ Ending \in All
      /\ managerVars' = managerVars /\ end' = [end EXCEPT ![Ending] = TRUE]
      /\ UNCHANGED <<run, gen, registered, outs>>
  BY EndingIsAll DEF CloseEnd, TypeInv, LinkInv
<1>2. RegisteredRun'
  <2>1. ASSUME NEW m \in registered, end'[m] PROVE Ends(m)
    BY <1>1, <2>1, EndingEnds, NoneIsNoNode DEF RegisteredRun, TypeOK, All
  <2> QED BY <1>1, <2>1 DEF RegisteredRun, Ends, managerVars
<1>3. ASSUME NEW t \in tasks, NEW c \in Chain(t) PROVE Linked(c)'
  <2>1. Linked(c) /\ ~Ends(c) /\ c \in All
    BY <1>1, NoneIsNoNode, ChainFacts DEF TasksLinked, OldIsAlone, TypeOK
  <2>2. c # Ending
    <3>1. task \in Tasks \ tasks => task \notin Chain(t)
      BY <1>1, TaskIsAlone DEF TypeOK
    <3> QED BY <1>1, <2>1, <3>1, EndingEnds
  <2> QED BY <1>1, <2>1, <2>2 DEF Linked, Attached, In, TypeOK
<1> QED BY <1>1, <1>2, <1>3 DEF LinkInv, TasksLinked, NewIsLinked, OldIsAlone, Ends, managerVars

LEMMA TailEnds ==
    ASSUME TypeOK, closing # <<>>, closing' = Tail(closing), NEW c
    PROVE  /\ Ends(c)' => Ends(c)
           /\ Ends(c) => Ends(c)' \/ c = Ending
<1>1. /\ Len(closing) \in Nat /\ DOMAIN closing = 1 .. Len(closing)
      /\ Len(Tail(closing)) = Len(closing) - 1 /\ DOMAIN Tail(closing) = 1 .. Len(Tail(closing))
      /\ closing[1] = Ending
      /\ \A x \in 1 .. Len(Tail(closing)) : Tail(closing)[x] = closing[x + 1]
  BY HeadTailProperties, LenProperties DEF TypeOK, Ending
<1>2. ASSUME NEW x \in DOMAIN closing, x # 1 PROVE x - 1 \in DOMAIN closing' /\ closing'[x - 1] = closing[x]
  <2>1. x - 1 \in 1 .. Len(Tail(closing)) /\ (x - 1) + 1 = x
    BY <1>1, <1>2
  <2> QED BY <1>1, <2>1
<1>3. ASSUME NEW x \in DOMAIN closing' PROVE x + 1 \in DOMAIN closing /\ closing'[x] = closing[x + 1]
  <2>1. x \in 1 .. Len(Tail(closing)) /\ x + 1 \in 1 .. Len(closing)
    BY <1>1
  <2> QED BY <1>1, <2>1
<1>4. ASSUME NEW x \in DOMAIN closing, closing[x] = c PROVE Ends(c)' \/ c = Ending
  BY <1>1, <1>2, <1>4 DEF Ends
<1>5. ASSUME NEW x \in DOMAIN closing', closing'[x] = c PROVE Ends(c)
  BY <1>3, <1>5 DEF Ends
<1> QED BY <1>4, <1>5 DEF Ends

LEMMA LinkWait == ASSUME TypeInv, LinkInv, WaitUntilGameOver PROVE LinkInv'
<1>1. /\ TypeOK /\ Shape /\ RegisteredRun /\ TasksLinked /\ OldIsAlone /\ op = "closing" /\ fresh = {}
      /\ tasks' = tasks /\ cursor' = cursor /\ fresh' = fresh /\ ~run[Ending]
      /\ UNCHANGED <<run, gen, end, registered, outs>> /\ op' \in {"idle", "closing"}
  BY DEF WaitUntilGameOver, TypeInv, LinkInv, Shape, nodeVars
<1>2. ASSUME NEW c PROVE /\ Ends(c)' => Ends(c)
                         /\ Ends(c) => Ends(c)' \/ c = Ending
  <2>1. CASE closing = <<>>
    BY <2>1 DEF WaitUntilGameOver, Ends
  <2>2. CASE closing # <<>>
    BY <1>1, <2>2, TailEnds DEF WaitUntilGameOver
  <2> QED BY <2>1, <2>2
<1>3. RegisteredRun'
  BY <1>1, <1>2 DEF RegisteredRun
<1>4. \A c : Linked(c) => Linked(c)'
  BY <1>1 DEF Linked, Attached, In
<1> QED BY <1>1, <1>2, <1>3, <1>4 DEF LinkInv, TasksLinked, NewIsLinked, OldIsAlone

LEMMA LinkGameOver == ASSUME TypeInv, LinkInv, NEW g \in All, GameOver(g) PROVE LinkInv'
<1>1. /\ TypeOK /\ Shape /\ RegisteredRun /\ TasksLinked /\ NewIsLinked /\ OldIsAlone
      /\ run[g] /\ end[g] /\ managerVars' = managerVars
      /\ run' = [run EXCEPT ![g] = FALSE] /\ registered' = registered \ {g}
      /\ UNCHANGED <<gen, end, outs>>
  BY DEF GameOver, TypeInv, LinkInv
<1>2. ASSUME NEW c \in All, Linked(c) PROVE Linked(c)'
  BY <1>1, <1>2 DEF Linked, Attached, In, TypeOK
<1>3. RegisteredRun'
  BY <1>1 DEF RegisteredRun, Ends, TypeOK, All, managerVars
<1>4. TasksLinked'
  BY <1>1, <1>2, NoneIsNoNode, ChainFacts DEF TasksLinked, managerVars, TypeOK
<1>5. ASSUME op = "linking" PROVE NewIsLinked'
  <2>1. /\ closing = <<>> /\ cursor \in All /\ task \in All /\ cursor # g /\ Above[cursor] \subseteq Nodes
        /\ Above[task] \subseteq All
    BY <1>1, <1>5, NoneIsNoNode, ChainFacts, AboveLeadsUp DEF Shape, NewIsLinked, All
  <2>2. \A n \in Above[cursor] \ fresh : n \in registered'
    BY <1>1, <1>5, <2>1 DEF NewIsLinked, RegisteredRun, Ends
  <2>3. \A c \in Above[task] \ Chain(cursor) : Linked(c)'
    BY <1>1, <1>2, <1>5, <2>1 DEF NewIsLinked
  <2> QED BY <1>1, <1>5, <2>1, <2>2, <2>3 DEF NewIsLinked, managerVars, TypeOK, Attached, In
<1>6. op # "linking" => NewIsLinked'
  BY <1>1 DEF NewIsLinked, managerVars
<1>7. OldIsAlone'
  BY <1>1 DEF OldIsAlone, Ends, managerVars
<1> QED BY <1>3, <1>4, <1>5, <1>6, <1>7 DEF LinkInv

LEMMA LinkStep == ASSUME TypeInv, LinkInv, [Next]_vars PROVE LinkInv'
<1>1. CASE UNCHANGED vars
  BY <1>1, LinkMoves DEF vars, managerVars, nodeVars
<1>2. ASSUME NEW n \in Nodes, Receive(n) \/ PickOut(n) \/ (\E c \in All : Pass(n, c)) PROVE LinkInv'
  BY <1>2, LinkMoves DEF Receive, PickOut, Pass, managerVars
<1>3. CASE Next
  BY <1>2, <1>3, LinkNewTask, LinkStopTask, LinkLink, LinkInputFails, LinkEndsLinking, LinkRemoveOutput,
     LinkCloseEnd, LinkWait, LinkGameOver DEF Next
<1> QED BY <1>1, <1>3

\* Whatever the manager starts, stops and fails to start, and whatever the
\* goroutines of the nodes do meanwhile, when it is idle every task it knows
\* is reachable from its input: Reload never prunes, or overwrites with a stale
\* node, a part of the tree that another task still needs.
THEOREM PipelineTasksAreLinked == Spec => []TasksAreLinked
<1>1. Init => TypeInv /\ AtWork /\ LinkInv
  BY TypeInit, LinkInit DEF Init, AtWork, Idle
<1>2. TypeInv /\ AtWork /\ LinkInv /\ [Next]_vars => (TypeInv /\ AtWork /\ LinkInv)'
  BY TypeStep, AtWorkStep, LinkStep
<1>3. TypeInv /\ LinkInv => TasksAreLinked
  <2> SUFFICES ASSUME TypeInv, LinkInv, NEW t \in tasks PROVE t \in All /\ \A c \in Chain(t) : Linked(c)
    BY AboveLeadsUp DEF TasksAreLinked, Chain, Linked, Attached
  <2> QED BY NoneIsNoNode DEF TypeInv, TypeOK, LinkInv, TasksLinked
<1> QED BY <1>1, <1>2, <1>3, PTL DEF Spec

-----------------------------------------------------------------------------
(* Nothing else is left.                                                   *)

\* What a task the manager knows, or is linking or unlinking, stands on.
Live(c) == \E t \in tasks : c \in Chain(t)
Used(c) ==
    \/ Live(c)
    \/ op = "linking" /\ c \in Chain(task) /\ c \notin Above[cursor]
    \/ op = "unlinking" /\ c \in Chain(cursor)

Removed(c) == op \in {"unlinking", "closing"} /\ (c = task \/ Ends(c))

OutsAreChildren == \A m \in Nodes : \A o \in outs[m] : Parent[o.id] = m

UsedOrRemoved == \A c \in All : run[c] \/ c \in registered => Used(c) \/ Removed(c)

OutsAreUsed == \A m \in Nodes : Used(m) => \A o \in outs[m] : Used(o.id) /\ o = In(o.id)

LeakInv ==
    /\ op = "unlinking" => Removed(cursor)
    /\ OutsAreChildren
    /\ ~failed => UsedOrRemoved /\ OutsAreUsed

LEMMA LeakInit == Init => LeakInv
BY DEF Init, LeakInv, OutsAreChildren, UsedOrRemoved, OutsAreUsed

LEMMA LeakMoves ==
    ASSUME TypeInv, LeakInv, managerVars' = managerVars, UNCHANGED <<gen, outs>>,
           \A c \in All : (run'[c] => run[c]) /\ (c \in registered' => c \in registered)
    PROVE  LeakInv'
<1>1. \A c : (Used(c)' <=> Used(c)) /\ (Removed(c)' <=> Removed(c)) /\ In(c)' = In(c)
  BY DEF managerVars, Used, Live, Removed, Ends, In
<1>2. (op = "unlinking" => Removed(cursor))' /\ OutsAreChildren'
  BY <1>1 DEF LeakInv, managerVars, OutsAreChildren, Removed, Ends
<1>3. failed' = failed
  BY DEF managerVars
<1>4. ~failed => UsedOrRemoved' /\ OutsAreUsed'
  BY <1>1 DEF LeakInv, UsedOrRemoved, OutsAreUsed
<1> QED BY <1>2, <1>3, <1>4 DEF LeakInv

LEMMA LeakNewTask == ASSUME TypeInv, LeakInv, NEW t \in Tasks, NewTask(t) PROVE LeakInv'
<1>1. /\ TypeOK /\ t \in All /\ t \notin Nodes /\ t \notin tasks /\ tasks \subseteq Tasks
      /\ cursor' = t /\ task' = t /\ tasks' = tasks /\ failed' = failed
      /\ gen' = [gen EXCEPT ![t] = @ + 1] /\ UNCHANGED <<run, registered, outs>>
      /\ op = "idle" /\ op' = "linking" /\ OutsAreChildren
  BY NoneIsNoNode DEF NewTask, TypeInv, TypeOK, LeakInv
<1>2. ASSUME NEW c PROVE Used(c)' <=> Used(c) \/ c = t
  BY <1>1, ChainFacts DEF Used, Live, Chain
<1>3. ASSUME NEW c, Used(c) PROVE c # t /\ c \in All
  BY <1>1, <1>3, TaskIsAlone DEF Used, Live
<1>4. ASSUME ~failed PROVE UsedOrRemoved' /\ OutsAreUsed'
  <2>1. UsedOrRemoved'
    BY <1>1, <1>2, <1>4 DEF UsedOrRemoved, LeakInv, Removed
  <2>2. ASSUME NEW m \in Nodes, Used(m)', NEW o \in outs'[m] PROVE Used(o.id)' /\ o = In(o.id)'
    <3>1. Used(m) /\ Used(o.id) /\ o = In(o.id)
      BY <1>1, <1>2, <1>4, <2>2 DEF LeakInv, OutsAreUsed
    <3>2. gen'[o.id] = gen[o.id]
      BY <1>1, <1>3, <3>1 DEF TypeOK
    <3> QED BY <1>2, <3>1, <3>2 DEF In
  <2> QED BY <2>1, <2>2 DEF OutsAreUsed, In
<1> QED BY <1>1, <1>4 DEF LeakInv, OutsAreChildren

LEMMA LeakLink == ASSUME TypeInv, LinkInv, LeakInv, Link PROVE LeakInv'
<1> DEFINE n == Parent[cursor]
<1>1. /\ TypeOK /\ NewIsLinked /\ op = "linking" /\ op' = "linking" /\ n # None
      /\ tasks' = tasks /\ task' = task /\ cursor' = n /\ failed' = failed
      /\ n \in Nodes /\ n \in All /\ cursor \in All /\ n \in Above[task] /\ Above[cursor] = Chain(n)
      /\ n \notin Above[n] /\ cursor \in Chain(task) /\ cursor \notin Above[cursor] /\ cursor # n
  BY CursorFacts, ChainFacts DEF Link, TypeInv, LinkInv, Chain, Shape
<1>2. ASSUME NEW c PROVE Used(c)' <=> Used(c) \/ c = n
  BY <1>1 DEF Used, Live, Chain
<1>3. Used(cursor)
  BY <1>1 DEF Used
<1>4. /\ \A m \in Nodes : m # n => outs'[m] = outs[m]
      /\ \A o \in outs'[n] : \/ o.id = cursor /\ o.gen = gen[cursor] /\ o = [id |-> cursor, gen |-> gen[cursor]]
                             \/ n \notin fresh /\ o \in outs[n]
      /\ \A c \in All : c # n \/ n \notin fresh => gen'[c] = gen[c]
      /\ \A c \in All : c # n => (run'[c] => run[c]) /\ (c \in registered' => c \in registered)
  BY <1>1 DEF Link, TypeOK, In
<1>5. OutsAreChildren'
  BY <1>4 DEF LeakInv, OutsAreChildren
<1>6. ASSUME ~failed PROVE UsedOrRemoved' /\ OutsAreUsed'
  <2>1. UsedOrRemoved'
    <3> SUFFICES ASSUME NEW c \in All, run'[c] \/ c \in registered' PROVE Used(c)'
      BY DEF UsedOrRemoved
    <3> QED BY <1>1, <1>2, <1>4, <1>6 DEF LeakInv, UsedOrRemoved, Removed
  <2>2. ASSUME NEW m \in Nodes, Used(m)', NEW o \in outs'[m]
        PROVE  Used(o.id)' /\ o = [id |-> o.id, gen |-> gen'[o.id]]
    <3>1. CASE o = [id |-> cursor, gen |-> gen[cursor]]
      <4>1. o.id = cursor /\ gen'[cursor] = gen[cursor]
        BY <1>1, <1>4, <3>1
      <4>2. Used(o.id)
        BY <1>3, <4>1
      <4> QED BY <1>2, <3>1, <4>1, <4>2
    <3>2. CASE o \in outs[m] /\ (m = n => n \notin fresh)
      <4>1. Used(m)
        <5>1. CASE m = n
          <6>1. n \in registered
            BY <1>1, <3>2, <5>1 DEF NewIsLinked, Chain
          <6> QED BY <1>1, <1>6, <5>1, <6>1 DEF LeakInv, UsedOrRemoved, Removed
        <5>2. CASE m # n
          BY <1>2, <2>2, <5>2
        <5> QED BY <5>1, <5>2
      <4>2. Used(o.id) /\ o = In(o.id) /\ o.id \in All
        BY <1>1, <1>6, <3>2, <4>1 DEF LeakInv, OutsAreUsed, TypeOK, Channel
      <4>3. n \in fresh => o.id # n
        BY <1>1, <4>2 DEF Used, Live, NewIsLinked, Chain
      <4>4. gen'[o.id] = gen[o.id]
        BY <1>4, <4>2, <4>3
      <4> QED BY <1>2, <4>2, <4>4 DEF In
    <3> QED BY <1>4, <2>2, <3>1, <3>2
  <2> QED BY <2>1, <2>2 DEF OutsAreUsed, In
<1> QED BY <1>1, <1>5, <1>6 DEF LeakInv

LEMMA LeakFails == ASSUME TypeInv, LeakInv, InputFails \/ OutputFails PROVE LeakInv'
<1>1. op' = "idle" /\ failed' = TRUE /\ OutsAreChildren
  BY DEF InputFails, OutputFails, LeakInv
<1>2. OutsAreChildren'
  <2>1. CASE InputFails
    <3>1. Parent[cursor] \in Nodes /\ In(cursor).id = cursor /\ outs \in [Nodes -> SUBSET Channel]
      BY <2>1, CursorFacts DEF InputFails, In, TypeInv, TypeOK
    <3> QED BY <1>1, <2>1, <3>1 DEF InputFails, OutsAreChildren
  <2>2. CASE OutputFails
    BY <1>1, <2>2 DEF OutputFails, OutsAreChildren, nodeVars
  <2> QED BY <2>1, <2>2
<1> QED BY <1>1, <1>2 DEF LeakInv

LEMMA LeakStartTask == ASSUME TypeInv, LeakInv, StartTask PROVE LeakInv'
<1>1. /\ TypeOK /\ op = "linking" /\ op' = "idle" /\ Parent[cursor] = None /\ cursor \in All /\ task \in All
      /\ tasks' = tasks \cup {task} /\ failed' = failed /\ UNCHANGED <<gen, registered, outs>>
      /\ task \in Tasks /\ run' = [run EXCEPT ![task] = TRUE] /\ OutsAreChildren
  BY NoneIsNoNode, ChainFacts DEF StartTask, TypeInv, Shape, LeakInv
<1>2. Above[cursor] = {}
  BY <1>1, AboveStep
<1>3. ASSUME NEW c PROVE Used(c)' <=> Used(c)
  BY <1>1, <1>2 DEF Used, Live
<1>4. Used(task)
  BY <1>1, <1>2 DEF Used, Chain
<1>5. ASSUME ~failed PROVE UsedOrRemoved' /\ OutsAreUsed'
  <2>1. UsedOrRemoved'
    <3> SUFFICES ASSUME NEW c \in All, run'[c] \/ c \in registered' PROVE Used(c)
      BY <1>3 DEF UsedOrRemoved
    <3> QED BY <1>1, <1>4, <1>5 DEF LeakInv, UsedOrRemoved, Removed, TypeOK
  <2>2. OutsAreUsed'
    BY <1>1, <1>3, <1>5 DEF LeakInv, OutsAreUsed, In
  <2> QED BY <2>1, <2>2
<1> QED BY <1>1, <1>5 DEF LeakInv, OutsAreChildren

LEMMA LeakStopTask == ASSUME TypeInv, LeakInv, NEW t \in Tasks, StopTask(t) PROVE LeakInv'
<1>1. /\ op = "idle" /\ op' = "unlinking" /\ t \in tasks /\ tasks' = tasks \ {t} /\ cursor' = t /\ task' = t
      /\ failed' = failed /\ UNCHANGED <<gen, run, registered, outs>>
      /\ OutsAreChildren
  BY DEF StopTask, LeakInv, nodeVars
<1>2. ASSUME NEW c PROVE Used(c)' <=> Used(c)
  BY <1>1 DEF Used, Live
<1>3. ASSUME ~failed PROVE UsedOrRemoved' /\ OutsAreUsed'
  BY <1>1, <1>2, <1>3 DEF LeakInv, UsedOrRemoved, OutsAreUsed, Removed, In
<1> QED BY <1>1, <1>3 DEF LeakInv, OutsAreChildren, Removed

\* A child of n is not n, nor above it.
LEMMA ChildIsBelow ==
    ASSUME NEW n \in Nodes, NEW c \in Chain(n), Parent[c] = n
    PROVE  FALSE
<1>1. n \in All /\ n # None /\ c \in All
  BY NoneIsNoNode, ChainFacts DEF All
<1>2. Parent[c] \in Above[n] /\ n \notin Above[n]
  BY <1>1, ChainFacts
<1> QED BY <1>2

LEMMA LeakRemoveOutput == ASSUME TypeInv, LinkInv, LeakInv, RemoveOutput PROVE LeakInv'
<1> DEFINE n      == Parent[cursor]
           left   == {o \in outs[n] : o.id # cursor}
           goesOn == left = {} /\ Parent[n] # None
<1>1. /\ TypeOK /\ cursor \in All /\ n \in Nodes /\ n \in All /\ n # None /\ op = "unlinking" /\ tasks \subseteq Tasks
      /\ UNCHANGED <<tasks, task, failed, run, gen, end, registered>>
      /\ outs' = [outs EXCEPT ![n] = left] /\ closing \in Seq(Nodes)
      /\ closing' = IF left = {} THEN <<n>> \o closing ELSE closing
      /\ cursor' = IF goesOn THEN n ELSE None
      /\ op' = IF goesOn THEN "unlinking" ELSE "closing"
      /\ OutsAreChildren /\ Removed(cursor) /\ Above[cursor] = Chain(n)
  BY NoneIsNoNode, AboveStep DEF TypeInv, TypeOK, LeakInv, Shape, RemoveOutput, All
<1>2. ASSUME NEW c PROVE Removed(c)' <=> Removed(c) \/ (left = {} /\ c = n)
  <2>1. Ends(c)' <=> Ends(c) \/ (left = {} /\ c = n)
    <3>1. CASE left = {}
      <4> PICK b \in Nodes : b = n
        BY <1>1
      <4>1. closing' = <<b>> \o closing
        BY <1>1, <3>1
      <4>2. Ends(c)' <=> Ends(c) \/ c = b
        BY <1>1, <4>1, InFront
      <4> QED BY <3>1, <4>2
    <3>2. CASE left # {}
      <4>1. closing' = closing
        BY <1>1, <3>2
      <4> QED BY <3>2, <4>1 DEF Ends
    <3> QED BY <3>1, <3>2
  <2>2. op' \in {"unlinking", "closing"}
    BY <1>1
  <2> QED BY <1>1, <2>1, <2>2 DEF Removed
<1>3. ASSUME NEW c PROVE Used(c) <=> Live(c) \/ c = cursor \/ c \in Chain(n)
  BY <1>1 DEF Used, Chain
<1>4. ASSUME NEW c PROVE Used(c)' <=> Live(c) \/ (goesOn /\ c \in Chain(n))
  BY <1>1 DEF Used, Live
<1>5. OutsAreChildren'
  BY <1>1 DEF OutsAreChildren, TypeOK
<1>6. ASSUME op' = "unlinking" PROVE Removed(cursor)'
  <2> PICK b \in Nodes : b = n
    BY <1>1
  <2>1. Removed(b)' /\ cursor' = b
    BY <1>1, <1>2, <1>6
  <2> QED BY <2>1 DEF Removed, Ends
<1>7. ASSUME ~failed PROVE UsedOrRemoved' /\ OutsAreUsed'
  \* What is left above is needed by another task, or ends with the root.
  <2>1. ASSUME ~goesOn, left # {}, NEW c \in Chain(n) PROVE Live(c)
    <3>1. PICK o \in left : TRUE
      BY <2>1
    <3>2. o.id # cursor /\ Parent[o.id] = n /\ Used(n)
      BY <1>1, <1>3, <3>1 DEF OutsAreChildren, Chain
    <3>3. Used(o.id)
      BY <1>1, <1>7, <3>1, <3>2 DEF LeakInv, OutsAreUsed
    <3>4. Live(o.id)
      BY <1>1, <1>3, <3>2, <3>3, ChildIsBelow
    <3>5. PICK t \in tasks : o.id \in Chain(t)
      BY <3>4 DEF Live
    <3>6. n \in Chain(t) /\ Chain(n) \subseteq Chain(t)
      BY <1>1, <3>2, <3>5, NoneIsNoNode, ChainFacts DEF Chain
    <3> QED BY <2>1, <3>6 DEF Live
  <2>2. ASSUME NEW c \in Chain(n), ~goesOn, left = {} PROVE c = n /\ Parent[n] = None
    BY <1>1, <2>2, AboveStep DEF Chain
  <2>3. UsedOrRemoved'
    <3> SUFFICES ASSUME NEW c \in All, run'[c] \/ c \in registered' PROVE Used(c)' \/ Removed(c)'
      BY DEF UsedOrRemoved
    <3>1. Used(c) \/ Removed(c)
      BY <1>1, <1>7 DEF LeakInv, UsedOrRemoved
    <3>2. CASE c = cursor
      BY <1>1, <1>2, <3>2
    <3>3. CASE c # cursor
      BY <1>2, <1>3, <1>4, <2>1, <2>2, <3>1, <3>3
    <3> QED BY <3>2, <3>3
  <2>4. ASSUME NEW m \in Nodes, Used(m)', NEW o \in outs'[m]
        PROVE  Used(o.id)' /\ o = [id |-> o.id, gen |-> gen'[o.id]]
    <3>1. Used(m) /\ o \in outs[m] /\ (m = n => o.id # cursor)
      BY <1>1, <1>3, <1>4, <2>4 DEF TypeOK
    <3>2. Used(o.id) /\ o = In(o.id) /\ Parent[o.id] = m
      BY <1>1, <1>7, <3>1 DEF LeakInv, OutsAreUsed, OutsAreChildren
    <3>3. o.id # cursor
      BY <3>1, <3>2
    <3>4. Used(o.id)'
      <4>1. CASE Live(o.id)
        BY <1>4, <4>1
      <4>2. CASE o.id \in Chain(n) /\ goesOn
        BY <1>4, <4>2
      <4>3. CASE o.id \in Chain(n) /\ ~goesOn /\ left # {}
        BY <1>4, <2>1, <4>3
      <4>4. CASE o.id \in Chain(n) /\ ~goesOn /\ left = {}
        BY <2>2, <3>2, <4>4, NoneIsNoNode DEF All
      <4> QED BY <1>3, <3>2, <3>3, <4>1, <4>2, <4>3, <4>4
    <3> QED BY <1>1, <3>2, <3>4 DEF In
  <2> QED BY <2>3, <2>4 DEF OutsAreUsed, In
<1> QED BY <1>1, <1>5, <1>6, <1>7 DEF LeakInv

LEMMA LeakWait == ASSUME TypeInv, LinkInv, LeakInv, WaitUntilGameOver PROVE LeakInv'
<1>1. /\ TypeOK /\ Shape /\ RegisteredRun /\ op = "closing" /\ ~run[Ending]
      /\ UNCHANGED <<tasks, cursor, failed, run, gen, registered, outs>>
      /\ closing # <<>> => closing' = Tail(closing) /\ op' = op /\ task' = task
      /\ closing = <<>> => closing' = closing /\ op' = "idle"
      /\ OutsAreChildren
  BY DEF WaitUntilGameOver, TypeInv, LinkInv, LeakInv, nodeVars
<1>2. ASSUME NEW c PROVE Used(c)' <=> Used(c)
  BY <1>1 DEF Used, Live
<1>3. ASSUME NEW c, Removed(c), c # Ending PROVE Removed(c)'
  <2>1. CASE closing = <<>>
    BY <1>3, <2>1 DEF Removed, Ends, Ending
  <2>2. CASE closing # <<>>
    <3>1. Ends(c) => Ends(c)'
      BY <1>1, <1>3, <2>2, TailEnds
    <3> QED BY <1>1, <1>3, <2>2, <3>1 DEF Removed
  <2> QED BY <2>1, <2>2
<1>4. ASSUME ~failed PROVE UsedOrRemoved' /\ OutsAreUsed'
  <2>1. Ending \notin registered
    BY <1>1 DEF RegisteredRun
  <2>2. UsedOrRemoved'
    BY <1>1, <1>2, <1>3, <1>4, <2>1 DEF LeakInv, UsedOrRemoved
  <2>3. OutsAreUsed'
    BY <1>1, <1>2, <1>4 DEF LeakInv, OutsAreUsed, In
  <2> QED BY <2>2, <2>3
<1> QED BY <1>1, <1>4 DEF LeakInv, OutsAreChildren

LEMMA LeakStep == ASSUME TypeInv, LinkInv, LeakInv, [Next]_vars PROVE LeakInv'
<1>1. CASE UNCHANGED vars
  BY <1>1, LeakMoves DEF vars, managerVars, nodeVars
<1>2. ASSUME NEW n \in Nodes, Receive(n) \/ PickOut(n) \/ (\E c \in All : Pass(n, c)) PROVE LeakInv'
  BY <1>2, LeakMoves DEF Receive, PickOut, Pass, managerVars
<1>3. CASE CloseEnd
  BY <1>3, LeakMoves DEF CloseEnd, managerVars
<1>4. ASSUME NEW c \in All, GameOver(c) PROVE LeakInv'
  BY <1>4, LeakMoves DEF GameOver, TypeInv, TypeOK
<1>5. CASE Next
  BY <1>2, <1>3, <1>4, <1>5, LeakNewTask, LeakStopTask, LeakLink, LeakFails, LeakStartTask, LeakRemoveOutput,
     LeakWait DEF Next
<1> QED BY <1>1, <1>5

\* As long as every task could be started, whenever the manager is idle no
\* goroutine runs, no ID is registered and no channel is left in an out except
\* those its tasks need: "the resources are completely released", whatever
\* tasks shared which part of the tree and in whatever order they went.
THEOREM PipelineNothingLeaks == Spec => []NothingLeaks
<1>1. Init => TypeInv /\ AtWork /\ LinkInv /\ LeakInv
  BY TypeInit, LinkInit, LeakInit DEF Init, AtWork, Idle
<1>2. TypeInv /\ AtWork /\ LinkInv /\ LeakInv /\ [Next]_vars => (TypeInv /\ AtWork /\ LinkInv /\ LeakInv)'
  BY TypeStep, AtWorkStep, LinkStep, LeakStep
<1>3. TypeInv /\ LeakInv => NothingLeaks
  <2> SUFFICES ASSUME TypeInv, LeakInv, op = "idle", ~failed
               PROVE  LET needed == tasks \cup UNION {Above[t] : t \in tasks}
                      IN  /\ registered \subseteq needed
                          /\ \A c \in All : run[c] => c \in needed
                          /\ \A n \in Nodes \cap needed : \A o \in outs[n] :
                                o.id \in needed /\ o = In(o.id)
    BY DEF NothingLeaks
  <2> DEFINE needed == tasks \cup UNION {Above[t] : t \in tasks}
  <2>1. ASSUME NEW c PROVE Used(c) <=> c \in needed
    BY DEF Used, Live, Chain
  <2>2. \A c \in All : run[c] \/ c \in registered => c \in needed
    BY <2>1 DEF LeakInv, UsedOrRemoved, Removed
  <2>3. registered \subseteq All
    BY DEF TypeInv, TypeOK, All
  <2>4. \A n \in Nodes \cap needed : \A o \in outs[n] : o.id \in needed /\ o = In(o.id)
    BY <2>1 DEF LeakInv, OutsAreUsed
  <2> QED BY <2>2, <2>3, <2>4
<1> QED BY <1>1, <1>2, <1>3, PTL DEF Spec
=============================================================================
