------------------------------ MODULE Pipeline ------------------------------
(***************************************************************************)
(* The shared tree of processing nodes, src/task/base/base.go, and how the *)
(* manager (src/beater/manager.go, one goroutine) grows and prunes it      *)
(* while every node's own goroutine forwards events.                       *)
(*                                                                         *)
(* Tasks with equal parts of configuration share nodes: task -> sender ->  *)
(* processor -> filter -> input.  A node is identified by a hash of its    *)
(* part of the configuration; that the hash of a node determines the hash  *)
(* of its parent (src/config/task.go) is what makes Parent a function.     *)
(* Channels are unbuffered: an event passes when the upper goroutine is at *)
(* `out <- data' and the lower one at its select.  A node re-created under *)
(* the same ID has a new channel: `gen' tells them apart.                  *)
(***************************************************************************)
EXTENDS Integers, Sequences, FiniteSets

CONSTANTS Tasks, Nodes,   \* task IDs; IDs of the shared nodes
          Parent,         \* Parent[c]: the node above c, or None
          None,
          Failures,       \* steps of NewTask that may fail
          MaxEvents,      \* bounds: events the inputs receive,
          MaxGen          \*         times an ID is created

ASSUME PipelineAssumption ==
    /\ Tasks \cap Nodes = {} /\ None \notin Tasks \cup Nodes
    /\ Parent \in [Tasks \cup Nodes -> Nodes \cup {None}]
    /\ \A t \in Tasks : Parent[t] # None
    /\ Failures \subseteq {"input", "output"}
    /\ MaxEvents \in Nat /\ MaxGen \in Nat

All    == Tasks \cup Nodes
Events == 1 .. MaxEvents
Gens   == 0 .. MaxGen

\* The nodes above c: those in every set that leads up from c.
Above == [c \in All |->
            {n \in Nodes : \A S \in SUBSET Nodes :
                (\A m \in {c} \cup S : Parent[m] \in S \cup {None}) => n \in S}]

\* Nodes form trees.
ASSUME TreeAssumption == \A c \in All : c \notin Above[c]

VARIABLES
    tasks,       \* the manager's task map
    op,          \* what the manager is doing: "idle", "linking",
                 \* "unlinking", "closing"
    task,        \* the task it is doing it to
    cursor,      \* the child to link or unlink next
    fresh,       \* nodes the current NewTask has to create
    closing,     \* nodes left without outs, in the order they end
    failed,      \* a NewTask has failed before
    run,         \* run[c]: the goroutine of c runs
    gen,         \* gen[c]: creations of c so far
    end,         \* end[c]: End of c is closed
    registered,  \* nodes in the global maps
    outs,        \* outs[n]: the channels in Outs of n
    work,        \* the event a goroutine is forwarding
    accepted,    \* events the inputs have received
    expected,    \* expected[e]: the tasks event e is meant for, until they
                 \* are stopped
    delivered    \* <<task, event>> a task goroutine has received

managerVars == <<tasks, op, task, cursor, fresh, closing, failed>>
nodeVars    == <<run, gen, end, registered, outs, work>>
eventVars   == <<accepted, expected, delivered>>
vars        == <<managerVars, nodeVars, eventVars>>

\* The channel In of the present incarnation of c.
In(c) == [id |-> c, gen |-> gen[c]]

Channel == [id : All, gen : Gens]
Idle    == [event |-> 0, to |-> None, left |-> {}]

Init ==
    /\ tasks = {} /\ op = "idle" /\ task = None /\ cursor = None
    /\ fresh = {} /\ closing = <<>> /\ failed = FALSE
    /\ run = [c \in All |-> FALSE]
    /\ gen = [c \in All |-> 0]
    /\ end = [c \in All |-> FALSE]
    /\ registered = {}
    /\ outs = [n \in Nodes |-> {}]
    /\ work = [n \in Nodes |-> Idle]
    /\ accepted = 0
    /\ expected = [e \in Events |-> {}]
    /\ delivered = {}

-----------------------------------------------------------------------------
(* The manager starts a task: NewTask, GetInput ... NewSender.             *)

\* Each level is looked up in its map, from the input down; below the first
\* one that is missing everything is created.
ToCreate(t) == {n \in Above[t] : ({n} \cup Above[n]) \ registered # {}}

NewTask(t) ==
    /\ op = "idle" /\ t \notin tasks
    /\ \A c \in {t} \cup ToCreate(t) : gen[c] < MaxGen
    /\ op' = "linking"
    /\ task' = t
    /\ cursor' = t
    /\ fresh' = ToCreate(t)
    /\ gen' = [gen EXCEPT ![t] = @ + 1]
    /\ end' = [end EXCEPT ![t] = FALSE]
    /\ UNCHANGED <<tasks, closing, failed, run, registered, outs, work, eventVars>>

\* Mutant of Link: a new node starts without the child in its Outs.
LinkWithoutOut ==
    LET c == cursor
        n == Parent[c]
    IN  /\ op = "linking" /\ n # None
        /\ cursor' = n
        /\ IF n \in fresh
           THEN /\ gen' = [gen EXCEPT ![n] = @ + 1]
                /\ run' = [run EXCEPT ![n] = TRUE]
                /\ end' = [end EXCEPT ![n] = FALSE]
                /\ work' = [work EXCEPT ![n] = Idle]
                /\ outs' = [outs EXCEPT ![n] = {}]
                /\ registered' = registered \cup {n}
           ELSE /\ outs' = [outs EXCEPT ![n] = {o \in @ : o.id # c} \cup {In(c)}]
                /\ UNCHANGED <<gen, run, end, work, registered>>
        /\ UNCHANGED <<tasks, op, task, fresh, closing, failed, eventVars>>

\* An existing node gets the child as one more out (AddOutput); a missing
\* one is created with it, its goroutine started and its ID registered.
Link ==
    LET c == cursor
        n == Parent[c]
    IN  /\ op = "linking" /\ n # None
        /\ cursor' = n
        /\ IF n \in fresh
           THEN /\ gen' = [gen EXCEPT ![n] = @ + 1]
                /\ run' = [run EXCEPT ![n] = TRUE]
                /\ end' = [end EXCEPT ![n] = FALSE]
                /\ work' = [work EXCEPT ![n] = Idle]
                /\ outs' = [outs EXCEPT ![n] = {In(c)}]
                /\ registered' = registered \cup {n}
           ELSE /\ outs' = [outs EXCEPT ![n] = {o \in @ : o.id # c} \cup {In(c)}]
                /\ UNCHANGED <<gen, run, end, work, registered>>
        /\ UNCHANGED <<tasks, op, task, fresh, closing, failed, eventVars>>

\* The runner of a new input cannot be created: NewInput returns the error
\* with the goroutines below it, and its own, running.  Nothing reaches them
\* any more: the next task of the input creates them anew, and `run' then
\* stands for the new ones.
InputFails ==
    LET c == cursor
        n == Parent[c]
    IN  /\ op = "linking" /\ n # None /\ "input" \in Failures
        /\ n \in fresh /\ Parent[n] = None
        /\ gen' = [gen EXCEPT ![n] = @ + 1]
        /\ run' = [run EXCEPT ![n] = TRUE]
        /\ end' = [end EXCEPT ![n] = FALSE]
        /\ work' = [work EXCEPT ![n] = Idle]
        /\ outs' = [outs EXCEPT ![n] = {In(c)}]
        /\ op' = "idle" /\ task' = None /\ cursor' = None /\ fresh' = {}
        /\ failed' = TRUE
        /\ UNCHANGED <<tasks, closing, registered, eventVars>>

\* The chain is linked up to its input: the task's own goroutine starts.
StartTask ==
    /\ op = "linking" /\ Parent[cursor] = None
    /\ run' = [run EXCEPT ![task] = TRUE]
    /\ tasks' = tasks \cup {task}
    /\ op' = "idle" /\ task' = None /\ cursor' = None /\ fresh' = {}
    /\ UNCHANGED <<closing, failed, gen, end, registered, outs, work, eventVars>>

\* The task's output cannot be registered: NewTask returns the error, the
\* task stays linked, and the manager does not know it.
OutputFails ==
    /\ op = "linking" /\ Parent[cursor] = None /\ "output" \in Failures
    /\ op' = "idle" /\ task' = None /\ cursor' = None /\ fresh' = {}
    /\ failed' = TRUE
    /\ UNCHANGED <<tasks, closing, nodeVars, eventVars>>

-----------------------------------------------------------------------------
(* The manager stops a task: Task.Stop and Node.RemoveOutput.              *)

StopTask(t) ==
    /\ op = "idle" /\ t \in tasks
    /\ op' = "unlinking"
    /\ task' = t
    /\ cursor' = t
    /\ tasks' = tasks \ {t}
    /\ expected' = [e \in Events |-> expected[e] \ {t}]
    /\ UNCHANGED <<fresh, closing, failed, nodeVars, accepted, delivered>>

\* Mutant of RemoveOutput: the parent goes too while it still has outs.
RemoveOutputAlways ==
    LET n      == Parent[cursor]
        left   == {o \in outs[n] : o.id # cursor}
        goesOn == Parent[n] # None
    IN  /\ op = "unlinking"
        /\ outs' = [outs EXCEPT ![n] = left]
        /\ closing' = <<n>> \o closing
        /\ cursor' = IF goesOn THEN n ELSE None
        /\ op' = IF goesOn THEN "unlinking" ELSE "closing"
        /\ UNCHANGED <<tasks, task, fresh, failed, run, gen, end, registered,
                       work, eventVars>>

\* Mutant of RemoveOutput: the removed child is ended instead of its parent.
RemoveOutputChild ==
    LET n      == Parent[cursor]
        left   == {o \in outs[n] : o.id # cursor}
        goesOn == left = {} /\ Parent[n] # None
    IN  /\ op = "unlinking"
        /\ outs' = [outs EXCEPT ![n] = left]
        /\ closing' = IF left = {} THEN <<cursor>> \o closing ELSE closing
        /\ cursor' = IF goesOn THEN n ELSE None
        /\ op' = IF goesOn THEN "unlinking" ELSE "closing"
        /\ UNCHANGED <<tasks, task, fresh, failed, run, gen, end, registered,
                       work, eventVars>>

\* RemoveOutput deletes the child from its parent's outs; a parent left
\* without outs is itself removed from its own parent before it ends, so
\* the goroutines end from the top of the tree downwards, the task last.
RemoveOutput ==
    LET n      == Parent[cursor]
        left   == {o \in outs[n] : o.id # cursor}
        goesOn == left = {} /\ Parent[n] # None
    IN  /\ op = "unlinking"
        /\ outs' = [outs EXCEPT ![n] = left]
        /\ closing' = IF left = {} THEN <<n>> \o closing ELSE closing
        /\ cursor' = IF goesOn THEN n ELSE None
        /\ op' = IF goesOn THEN "unlinking" ELSE "closing"
        /\ UNCHANGED <<tasks, task, fresh, failed, run, gen, end, registered,
                       work, eventVars>>

\* The next node to end: close(End), then wait for GameOver.
Ending == IF closing = <<>> THEN task ELSE Head(closing)

CloseEnd ==
    /\ op = "closing" /\ ~end[Ending]
    /\ end' = [end EXCEPT ![Ending] = TRUE]
    /\ UNCHANGED <<managerVars, run, gen, registered, outs, work, eventVars>>

WaitUntilGameOver ==
    /\ op = "closing" /\ end[Ending] /\ ~run[Ending]
    /\ IF closing = <<>>
       THEN op' = "idle" /\ task' = None /\ UNCHANGED closing
       ELSE closing' = Tail(closing) /\ UNCHANGED <<op, task>>
    /\ UNCHANGED <<tasks, cursor, fresh, failed, nodeVars, eventVars>>

-----------------------------------------------------------------------------
(* The goroutines of the nodes.                                            *)

\* A goroutine that has taken an event works on a snapshot of its outs.
Taken(n, e) == [event |-> e, to |-> None, left |-> outs[n]]

\* The runner hands an event to an input.
Receive(n) ==
    /\ Parent[n] = None /\ run[n] /\ work[n] = Idle /\ accepted < MaxEvents
    /\ accepted' = accepted + 1
    /\ work' = [work EXCEPT ![n] = Taken(n, accepted + 1)]
    /\ expected' = [expected EXCEPT ![accepted + 1] =
                      {t \in tasks : n \in Above[t]}]
    /\ UNCHANGED <<managerVars, run, gen, end, registered, outs, delivered>>

\* It offers the event to one out after the other, in the order of the map.
PickOut(n) ==
    /\ run[n] /\ work[n] # Idle /\ work[n].to = None
    /\ \/ \E o \in work[n].left :
             work' = [work EXCEPT ![n].to = o, ![n].left = @ \ {o}]
       \/ /\ work[n].left = {}
          /\ work' = [work EXCEPT ![n] = Idle]
    /\ UNCHANGED <<managerVars, run, gen, end, registered, outs, eventVars>>

\* c is at its select, and o is its channel.
Reads(c, o) == run[c] /\ o = In(c) /\ (c \in Nodes => work[c] = Idle)

\* The event passes to the node or task at the other end of the channel.
Pass(n, c) ==
    /\ run[n] /\ work[n].to # None /\ Reads(c, work[n].to)
    /\ IF c \in Nodes
       THEN /\ work' = [work EXCEPT ![n].to = None,
                                    ![c] = Taken(c, work[n].event)]
            /\ UNCHANGED delivered
       ELSE /\ work' = [work EXCEPT ![n].to = None]
            /\ delivered' = delivered \cup {<<c, work[n].event>>}
    /\ UNCHANGED <<managerVars, run, gen, end, registered, outs, accepted,
                   expected>>

\* Mutant of GameOver: the ID stays in its map.
GameOverRegistered(c) ==
    /\ run[c] /\ end[c]
    /\ c \in Nodes => work[c] = Idle \/ work[c].to # None
    /\ run' = [run EXCEPT ![c] = FALSE]
    /\ work' = IF c \in Nodes THEN [work EXCEPT ![c] = Idle] ELSE work
    /\ UNCHANGED <<managerVars, gen, end, registered, outs, eventVars>>

\* Mutant of GameOver: End is looked at between two events only.
GameOverWhenIdle(c) ==
    /\ run[c] /\ end[c]
    /\ c \in Nodes => work[c] = Idle
    /\ run' = [run EXCEPT ![c] = FALSE]
    /\ registered' = registered \ {c}
    /\ UNCHANGED <<managerVars, gen, end, outs, work, eventVars>>

\* End is closed: the goroutine leaves its select, or gives up the out it is
\* blocked on, takes its ID out of the map and signals GameOver.
GameOver(c) ==
    /\ run[c] /\ end[c]
    /\ c \in Nodes => work[c] = Idle \/ work[c].to # None
    /\ run' = [run EXCEPT ![c] = FALSE]
    /\ registered' = registered \ {c}
    /\ work' = IF c \in Nodes THEN [work EXCEPT ![c] = Idle] ELSE work
    /\ UNCHANGED <<managerVars, gen, end, outs, eventVars>>

-----------------------------------------------------------------------------

Next ==
    \/ \E t \in Tasks : NewTask(t) \/ StopTask(t)
    \/ Link \/ InputFails \/ StartTask \/ OutputFails
    \/ RemoveOutput \/ CloseEnd \/ WaitUntilGameOver
    \/ \E n \in Nodes : Receive(n) \/ PickOut(n)
    \/ \E n \in Nodes, c \in All : Pass(n, c)
    \/ \E c \in All : GameOver(c)

\* Every goroutine that can go on does.  Nothing forces the manager to start
\* or stop a task, nor the runner to produce events.
Fairness ==
    /\ WF_vars(Link \/ InputFails \/ StartTask \/ OutputFails)
    /\ WF_vars(RemoveOutput) /\ WF_vars(CloseEnd) /\ WF_vars(WaitUntilGameOver)
    /\ \A n \in Nodes : WF_vars(PickOut(n))
    /\ \A n \in Nodes : WF_vars(\E c \in All : Pass(n, c))
    /\ \A c \in All : WF_vars(GameOver(c))

Spec == Init /\ [][Next]_vars /\ Fairness

-----------------------------------------------------------------------------
(* Properties.                                                             *)

TypeOK ==
    /\ tasks \subseteq Tasks
    /\ op \in {"idle", "linking", "unlinking", "closing"}
    /\ task \in Tasks \cup {None} /\ cursor \in All \cup {None}
    /\ fresh \subseteq Nodes /\ closing \in Seq(Nodes) /\ failed \in BOOLEAN
    /\ run \in [All -> BOOLEAN] /\ gen \in [All -> Gens] /\ end \in [All -> BOOLEAN]
    /\ registered \subseteq Nodes
    /\ outs \in [Nodes -> SUBSET Channel]
    /\ work \in [Nodes -> [event : 0 .. MaxEvents, to : Channel \cup {None},
                           left : SUBSET Channel]]
    /\ accepted \in 0 .. MaxEvents
    /\ expected \in [Events -> SUBSET Tasks]
    /\ delivered \subseteq Tasks \X Events

\* Whenever the manager is idle, every task it knows is reachable: all nodes
\* above it run with End open and are in the maps, and each of them has the
\* live channel of the one below.  A pruning that goes one node too far, or a
\* creation that finds a stale node, breaks it.
TasksAreLinked ==
    op = "idle" => \A t \in tasks :
        /\ run[t]
        /\ Above[t] \subseteq registered
        /\ \A c \in {t} \cup Above[t] :
              /\ run[c] /\ ~end[c]
              /\ Parent[c] # None => In(c) \in outs[Parent[c]]

\* "Make sure that after the tasks are removed the resources are completely
\* released" (Manager.Reload): as long as no task has failed to start, whenever
\* the manager is idle no goroutine runs, no ID is registered and no channel
\* is left in an out, except those its tasks need.
NothingLeaks ==
    op = "idle" /\ ~failed =>
        LET needed == tasks \cup UNION {Above[t] : t \in tasks}
        IN  /\ registered \subseteq needed
            /\ \A c \in All : run[c] => c \in needed
            /\ \A n \in Nodes \cap needed : \A o \in outs[n] :
                  o.id \in needed /\ o = In(o.id)

\* "Make sure that events are sent at least once" (AckEvents): every event
\* reaches every task it is meant for, unless the task is stopped; no
\* goroutine of its chain waits for ever on another.
EventsAreServed ==
    \A t \in Tasks, e \in Events :
        (t \in expected[e]) ~> (<<t, e>> \in delivered \/ t \notin expected[e])

\* The same while the tree only grows: until a first task is stopped or fails
\* to start, new tasks never keep an event from an older one (AddOutput).
OnlyGrowing == ~failed /\ \A c \in All : ~end[c] /\ gen[c] <= 1

ServedWhileGrowing ==
    \A t \in Tasks, e \in Events :
        (t \in expected[e]) ~> (<<t, e>> \in delivered \/ ~OnlyGrowing)

\* Starting and stopping tasks terminates, whatever the nodes are doing: a
\* reload cannot hang on a goroutine that is blocked on an out.
ManagerReturns == (op # "idle") ~> (op = "idle")
=============================================================================
